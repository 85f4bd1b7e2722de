------------------------------- MODULE HookEvent -------------------------------
(***************************************************************************)
(* One hook event: run and process (hooks/_claude_code_impl.py) around the  *)
(* traversal scan_payload (hooks/_core.py).                                 *)
(*                                                                          *)
(* A payload is a tree of nodes numbered in the order of the walk.  The     *)
(* walk collects every nonempty string it may reach, one scan_leaves call   *)
(* checks them all, and the answer is put back where the strings were.      *)
(* scan_leaves appears as what module ScanPromise says of it, which         *)
(* ScanBatch_proofs proves; a position in texts stands for the leaf.        *)
(***************************************************************************)
EXTENDS Integers, Sequences, FiniteSets

CONSTANTS
  Rules,     \* rules of a config
  Events,    \* the events considered, a subset of EventType
  MaxDepth,  \* Limits.max_depth
  MaxNodes   \* Limits.max_nodes

Lanes == {"RECORD", "ADVISE", "DENY"}
NodeKinds == {"text", "empty", "scalar", "nan", "container"}   \* "nan" is unequal to itself

(* The nodes at or below k: those of every set that holds k and, with a       *)
(* node, its children.                                                        *)
Closed(t, S) == \A n \in S : \A i \in DOMAIN t.children[n] : t.children[n][i] \in S
Under(t, k) ==
  {n \in DOMAIN t.kind : \A S \in SUBSET DOMAIN t.kind : k \in S /\ Closed(t, S) => n \in S}

(* What json.loads returns is a tree: every node is below the first, and the  *)
(* walk of a child meets neither its parent nor its siblings.                 *)
IsTree(t) ==
  /\ DOMAIN t.kind = DOMAIN t.children /\ DOMAIN t.kind = DOMAIN t.depth
  /\ 1 \in DOMAIN t.kind /\ t.depth[1] = 0 /\ Under(t, 1) = DOMAIN t.kind
  /\ \A n \in DOMAIN t.kind :
       /\ t.kind[n] \in NodeKinds
       /\ t.children[n] \in Seq(DOMAIN t.kind)
       /\ t.kind[n] # "container" => t.children[n] = <<>>
       /\ \A i, j \in DOMAIN t.children[n] :
            /\ t.depth[t.children[n][i]] = t.depth[n] + 1
            /\ n \notin Under(t, t.children[n][i])
            /\ i # j => Under(t, t.children[n][i]) \cap Under(t, t.children[n][j]) = {}

(* selected are the enabled rules of the event's surface, lane what           *)
(* effective_lanes makes of them, matches the pairs <<rule, node>> a full     *)
(* search of each string would report.  already are the strings that equal    *)
(* the text put in the place of a withheld one (another hook may have put it  *)
(* there), on which every rule finds the same.                                *)
IsEvent(e) ==
  /\ e.surface \in {"IN", "OUT", "other"}
  /\ e.present \in BOOLEAN
  /\ e.selected \subseteq Rules /\ e.lane \in [Rules -> Lanes]
  /\ e.matches \subseteq Rules \X {n \in DOMAIN e.tree.kind : e.tree.kind[n] = "text"}
  /\ e.already \subseteq {n \in DOMAIN e.tree.kind : e.tree.kind[n] = "text"}
  /\ \A m, n \in e.already, r \in Rules : <<r, m>> \in e.matches => <<r, n>> \in e.matches

ASSUME RulesAssumption == IsFiniteSet(Rules)
ASSUME EventsAssumption == \A e \in Events : IsEvent(e)
ASSUME TreesAssumption == \A t \in {e.tree : e \in Events} : IsTree(t)
ASSUME CapsAssumption == MaxDepth \in Nat /\ MaxNodes \in Nat

VARIABLES
  ev,          \* the event and the config it meets
  pc,          \* the stage, at last "answered", or "failed" by the handler of exceptions
  event,       \* the name run has read from the payload, or "unknown"
  canAsk,      \* can_ask
  spent,       \* the budget of the event has run out
  stack,       \* nodes the walk has yet to enter, the next one first
  nodes,       \* nodes counted
  stopped,     \* stop_reason, or "no"
  texts,       \* the strings collected, as nodes
  skeleton,    \* per node: "new", "ref", "kept" or "asis"
  wired,       \* rules the scanner scheduled
  scan,        \* what became of the scanner: "none", "answered" or "raised"
  batch,       \* the BatchScanResult
  fired,       \* lanes_fired
  replaced,    \* nodes whose string the answer withholds
  incomplete,
  records,     \* the findings the event logs; a coverage record goes with incomplete
  logged,      \* the log accepted it
  response

walkVars    == <<stack, nodes, stopped, texts, skeleton>>
scanVars    == <<wired, scan, batch>>
outcomeVars == <<fired, replaced, incomplete, records>>
vars == <<ev, pc, event, canAsk, spent, walkVars, scanVars, outcomeVars, logged, response>>

Nodes == DOMAIN ev.tree.kind
NoBatch == [complete |-> FALSE, findings |-> {}, cut |-> {0}]
Silent == [updated |-> FALSE, decision |-> "none", context |-> "none", message |-> "none"]

(* degraded_response *)
DegradedAlwaysAsking(known, ask) ==
  [Silent EXCEPT !.decision = IF known = "IN" THEN "ask" ELSE "none",
                 !.context = IF known \in {"IN", "OUT"} THEN "incomplete" ELSE "none",
                 !.message = "degraded"]
Degraded(known, ask) ==
  [ updated  |-> FALSE,
    decision |-> IF known = "IN" /\ ask THEN "ask" ELSE "none",
    context  |-> IF known \in {"IN", "OUT"} THEN "incomplete" ELSE "none",
    message  |-> "degraded" ]

Init ==
  /\ ev \in Events
  /\ pc = "config" /\ event = "unknown" /\ canAsk = FALSE /\ spent = FALSE
  /\ stack = <<1>> /\ nodes = 0 /\ stopped = "no" /\ texts = <<>>
  /\ skeleton = [n \in Nodes |-> "new"]
  /\ wired = {} /\ scan = "none" /\ batch = NoBatch
  /\ fired = {} /\ replaced = {} /\ incomplete = FALSE /\ records = {}
  /\ logged = TRUE /\ response = Silent

Answer(r) == response' = r /\ pc' = "answered"

-----------------------------------------------------------------------------
(* run: each stage makes more known to the handler of its exceptions. *)

DenyRules == {r \in ev.selected : ev.lane[r] = "DENY"}

ReadConfig ==
  /\ pc = "config" /\ pc' = "read"
  /\ UNCHANGED <<ev, event, canAsk, spent, walkVars, scanVars, outcomeVars, logged, response>>

(* An oversized payload is never parsed, so its event stays unknown. *)
TooLarge ==
  /\ pc = "read"
  /\ Answer(Degraded("unknown", FALSE))
  /\ UNCHANGED <<ev, event, canAsk, spent, walkVars, scanVars, outcomeVars, logged>>

ParsePayload ==
  /\ pc = "read" /\ pc' = "rules"
  /\ event' = ev.surface
  /\ UNCHANGED <<ev, canAsk, spent, walkVars, scanVars, outcomeVars, logged, response>>

LoadRules ==
  /\ pc = "rules" /\ pc' = "process"
  /\ canAsk' = (event = "IN" /\ DenyRules # {})
  /\ UNCHANGED <<ev, event, spent, walkVars, scanVars, outcomeVars, logged, response>>

(* Whatever an exception interrupts, from the config to the building of the   *)
(* answer, the handler answers from what run knew by then; one that comes     *)
(* while the scanner runs is taken by scan_payload instead (ScannerRaises).   *)
FailsRetrying ==
  /\ pc \notin {"scanning", "answered", "failed"}
  /\ pc' = "config"
  /\ UNCHANGED <<ev, event, canAsk, spent, walkVars, scanVars, outcomeVars, logged, response>>
Fails ==
  /\ pc \notin {"scanning", "answered", "failed"}
  /\ response' = Degraded(event, canAsk) /\ pc' = "failed"
  /\ UNCHANGED <<ev, event, canAsk, spent, walkVars, scanVars, outcomeVars, logged>>

(* process: not an event of ours, or nothing is enabled on its surface. *)
NothingToDo ==
  /\ pc = "process"
  /\ event = "other" \/ ev.selected = {}
  /\ Answer(Silent)
  /\ UNCHANGED <<ev, event, canAsk, spent, walkVars, scanVars, outcomeVars, logged>>

MissingPayload ==
  /\ pc = "process"
  /\ event # "other" /\ ev.selected # {} /\ ~ev.present
  /\ Answer(Degraded(event, canAsk))
  /\ UNCHANGED <<ev, event, canAsk, spent, walkVars, scanVars, outcomeVars, logged>>

StartWalk ==
  /\ pc = "process"
  /\ event # "other" /\ ev.selected # {} /\ ev.present
  /\ pc' = "walk"
  /\ UNCHANGED <<ev, event, canAsk, spent, walkVars, scanVars, outcomeVars, logged, response>>

-----------------------------------------------------------------------------
(* scan_payload. *)

BudgetRunsOut ==
  /\ pc \in {"walk", "scan"} /\ ~spent
  /\ spent' = TRUE
  /\ UNCHANGED <<ev, pc, event, canAsk, walkVars, scanVars, outcomeVars, logged, response>>

(* Why the walk may not enter node n, its k-th. *)
StopReason(n, k) ==
  CASE ev.tree.depth[n] > MaxDepth -> "depth_cap"
    [] ev.tree.depth[n] <= MaxDepth /\ k > MaxNodes -> "node_cap"
    [] ev.tree.depth[n] <= MaxDepth /\ k <= MaxNodes /\ spent -> "deadline"
    [] OTHER -> "no"

(* A node the walk may not enter is kept whole, its siblings are still seen. *)
Keep(n) ==
  /\ skeleton' = [skeleton EXCEPT ![n] = "kept"]
  /\ stack' = Tail(stack)
  /\ UNCHANGED texts
Collect(n) ==
  /\ ev.tree.kind[n] = "text"
  /\ skeleton' = [skeleton EXCEPT ![n] = "ref"]
  /\ texts' = Append(texts, n)
  /\ stack' = Tail(stack)
Enter(n) ==
  /\ ev.tree.kind[n] # "text"
  /\ skeleton' = [skeleton EXCEPT ![n] = "asis"]
  /\ stack' = ev.tree.children[n] \o Tail(stack)
  /\ UNCHANGED texts

(* Only the first reason is kept. *)
ForgottenStop(why) == why
FirstStop(why) == IF stopped = "no" THEN why ELSE stopped

Visit ==
  /\ pc = "walk" /\ stack # <<>>
  /\ nodes' = nodes + 1
  /\ LET n   == Head(stack)
         why == StopReason(n, nodes')
     IN  IF why # "no"
           THEN Keep(n) /\ stopped' = FirstStop(why)
           ELSE (Collect(n) \/ Enter(n)) /\ stopped' = FirstStop("no")
  /\ UNCHANGED <<ev, pc, event, canAsk, spent, scanVars, outcomeVars, logged, response>>

EndWalk ==
  /\ pc = "walk" /\ stack = <<>>
  /\ incomplete' = (stopped # "no")
  /\ pc' = IF texts = <<>> THEN "materialize" ELSE "scan"
  /\ UNCHANGED <<ev, event, canAsk, spent, walkVars, scanVars, fired, replaced, records,
                 logged, response>>

SkipScan ==
  /\ pc = "scan" /\ spent
  /\ incomplete' = TRUE
  /\ pc' = "materialize"
  /\ UNCHANGED <<ev, event, canAsk, spent, walkVars, scanVars, fired, replaced, records,
                 logged, response>>

StartScan ==
  /\ pc = "scan" /\ ~spent
  /\ \E W \in SUBSET ev.selected : wired' = W
  /\ pc' = "scanning"
  /\ UNCHANGED <<ev, event, canAsk, spent, walkVars, scan, batch, outcomeVars, logged, response>>

(* The promise of the scanner, over the strings it was given and the rules it *)
(* scheduled.                                                                 *)
Truth == {x \in wired \X (1 .. Len(texts)) : <<x[1], texts[x[2]]>> \in ev.matches}
Promise == INSTANCE ScanPromise WITH truth <- Truth, answer <- batch, NoAnswer <- NoBatch
Answers == [complete : BOOLEAN, findings : SUBSET (wired \X (1 .. Len(texts))),
            cut : SUBSET (1 .. Len(texts))]

BatchReturns ==
  /\ pc = "scanning"
  /\ \E a \in Answers : Promise!Keeps(a) /\ batch' = a
  /\ scan' = "answered"
  /\ pc' = "materialize"
  /\ UNCHANGED <<ev, event, canAsk, spent, walkVars, wired, outcomeVars, logged, response>>

(* A scanner that raises leaves no lane, no answer and a warning. *)
ScannerRaises ==
  /\ pc = "scanning"
  /\ scan' = "raised"
  /\ incomplete' = TRUE
  /\ pc' = "log"
  /\ UNCHANGED <<ev, event, canAsk, spent, walkVars, wired, batch, fired, replaced, records, logged, response>>

Found == batch.findings
DeniedPositions == {x[2] : x \in {y \in Found : ev.lane[y[1]] = "DENY"}}

StillIncompleteTrusting == incomplete \/ (scan = "answered" /\ ~batch.complete)
StillIncomplete ==
  incomplete \/ (scan = "answered" /\ (~batch.complete \/ wired # ev.selected))

WithheldNext ==
  IF event = "OUT" THEN {texts[p] : p \in {q \in 1 .. Len(texts) : q - 1 \in DeniedPositions}}
                   ELSE {}
Withheld == IF event = "OUT" THEN {texts[p] : p \in DeniedPositions} ELSE {}

(* The findings are applied and the skeleton turned back into a payload.     *)
Materialize ==
  /\ pc = "materialize"
  /\ fired' = {ev.lane[x[1]] : x \in Found}
  /\ replaced' = Withheld
  /\ incomplete' = StillIncomplete
  /\ records' = {<<x[1], texts[x[2]]>> : x \in Found}
  /\ pc' = "log"
  /\ UNCHANGED <<ev, event, canAsk, spent, walkVars, scanVars, logged, response>>

-----------------------------------------------------------------------------
(* The answer of process. *)

WriteLog ==
  /\ pc = "log"
  /\ \/ UNCHANGED logged
     \/ (records # {} \/ incomplete) /\ logged' = FALSE
  /\ pc' = "answer"
  /\ UNCHANGED <<ev, event, canAsk, spent, walkVars, scanVars, outcomeVars, response>>

DecisionUnasked == IF event = "IN" /\ "DENY" \in fired THEN "deny" ELSE "none"
Decision == CASE event = "IN" /\ "DENY" \in fired -> "deny"
              [] event = "IN" /\ "DENY" \notin fired /\ incomplete /\ canAsk -> "ask"
              [] OTHER -> "none"

Advised == Decision = "none" /\ "ADVISE" \in fired

(* Outcome.changed: the payload put together again differs from the one that  *)
(* came.  Withholding a string that is the withheld text already changes      *)
(* nothing; a payload that is unequal to itself has always changed (inside a  *)
(* list or an object the comparison takes it for the same).                   *)
ChangedIfWithheld == replaced # {}
ChangedIfRebuilt ==
  replaced # {} \/ (skeleton[1] = "asis" /\ ev.tree.kind[1] = "container")
Changed == replaced \ ev.already # {} \/ ev.tree.kind[1] = "nan"

Respond ==
  /\ pc = "answer"
  /\ Answer([ updated  |-> event = "OUT" /\ Changed,
              decision |-> Decision,
              context  |-> CASE incomplete -> "incomplete"
                             [] ~incomplete /\ Advised -> "advice"
                             [] OTHER -> "none",
              message  |-> CASE incomplete -> "degraded"
                             [] ~incomplete /\ ~logged -> "log"
                             [] OTHER -> "none" ])
  /\ UNCHANGED <<ev, event, canAsk, spent, walkVars, scanVars, outcomeVars, logged>>

Done == pc \in {"answered", "failed"} /\ UNCHANGED vars

Hook == \/ ReadConfig \/ TooLarge \/ ParsePayload \/ LoadRules \/ Fails
        \/ NothingToDo \/ MissingPayload \/ StartWalk
        \/ Visit \/ EndWalk \/ SkipScan \/ StartScan
        \/ Materialize \/ WriteLog \/ Respond
Scanner == BatchReturns \/ ScannerRaises

Next == Hook \/ Scanner \/ BudgetRunsOut \/ Done

(* The hook's thread runs and the scanner returns (SupervisorProps,           *)
(* CallerReturns).                                                            *)
Spec == Init /\ [][Next]_vars /\ WF_vars(Hook) /\ WF_vars(Scanner)
=============================================================================
