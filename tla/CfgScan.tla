------------------------------- MODULE CfgScan -------------------------------
(***************************************************************************)
(* One scan of a configuration document (cfg.py, scan_cfg_isolated) and the *)
(* worker process that runs it (_scan_worker.py, _cfg).                     *)
(*                                                                          *)
(* The document crosses whole.  The worker decodes its base64 blocks and    *)
(* runs each rule the way the rule's source does: condition after condition *)
(* on the document and then on each block.  It writes one line per rule and *)
(* can be killed between any two.                                           *)
(*                                                                          *)
(* Text 1 is the document, the others are its decoded blocks.  What a        *)
(* condition finds first in a text is given by the job: nothing, a match in *)
(* the open ("plain") or one in a code block ("code").  Rules and conditions*)
(* are counted from 1.                                                      *)
(***************************************************************************)
EXTENDS Selecting, FiniteSets

CONSTANTS
  Jobs,       \* the calls considered
  MaxTexts, MaxConditions,
  MaxRules,   \* _MAX_RULES
  MaxChars,   \* _MAX_BUNDLE_CHARS
  MaxFrames   \* bound of the model: lines a worker that is not ours writes

Texts == 1 .. MaxTexts
Conditions == 1 .. MaxConditions
Sights == {"none", "plain", "code"}

(* A rule with its CFG binding, if it has one.                                *)
RuleType ==
  [ bound     : BOOLEAN,                 \* has a binding, and an eligible one
    count     : 0 .. MaxConditions,      \* its conditions
    chars     : Nat,                     \* their characters
    logic     : {"any", "all"},
    suppress  : BOOLEAN,                 \* suppress_in_code_blocks
    behaviour : {"runs", "uncompilable", "raises"},
    sees      : [Texts -> [Conditions -> Sights]] ]

JobType ==
  [ rules    : Seq(RuleType),
    blocks   : 0 .. MaxTexts - 1,        \* base64 blocks it decodes to
    decode   : BOOLEAN,                  \* decode_base64
    suppress : BOOLEAN,                  \* suppress_code_blocks
    cut      : BOOLEAN,                  \* longer than max_bytes
    long     : BOOLEAN,                  \* longer than SOURCE_MAX_EVAL_CHARS
    worker   : {"shipped", "arbitrary"} ]

ASSUME JobsAssumption == Jobs \subseteq JobType
ASSUME LimitsAssumption ==
  MaxTexts \in Nat \ {0} /\ MaxConditions \in Nat /\ MaxRules \in Nat
    /\ MaxChars \in Nat /\ MaxFrames \in Nat

VARIABLES
  job, pc,
  taken,         \* bindings the loop has wired
  chars,         \* their predicate characters
  wstate, row,   \* the worker, and the rule it is at
  pipe,          \* the lines it has flushed
  received, cancelled, returncode,
  completed,     \* lines accepted
  found, errors,
  workerError

parentVars == <<taken, chars>>
workerVars == <<wstate, row, pipe>>
replyVars  == <<received, cancelled, returncode>>
parseVars  == <<completed, found, errors>>
vars == <<job, pc, parentVars, workerVars, replyVars, parseVars, workerError>>

Line == [status : {"ok", "error", "junk"}, index : Nat, condition : Nat, text : Nat]
NoMatch == [condition |-> 0, text |-> 0]
Ok(i, m) == [status |-> "ok", index |-> i, condition |-> m.condition, text |-> m.text]
Error(i) == [status |-> "error", index |-> i, condition |-> 0, text |-> 0]
Junk     == [status |-> "junk", index |-> 0, condition |-> 0, text |-> 0]

(* cfg_bindings: the rules their source sends to this channel.                *)
Executable == {r \in RuleType : r.bound /\ r.count > 0}
Bindings == Only(job.rules, Executable)

-----------------------------------------------------------------------------
(* One rule on the texts: _CompiledBinding.search and the loop around it.    *)

Searched == 1 .. (IF job.decode THEN 1 + job.blocks ELSE 1)

(* A first match inside a code block counts as no match at all.              *)
Sees(r, t, c) ==
  r.sees[t][c] = "plain" \/ (r.sees[t][c] = "code" /\ ~(r.suppress /\ job.suppress))

(* The walk over the conditions, first being the first that matched so far:  *)
(* "any" stops at a match, "all" at a condition without one.                 *)
WalkToAnyMatch(r, t) ==
  LET seen == {c \in 1 .. r.count : Sees(r, t, c)}
  IN  IF seen = {} THEN 0 ELSE CHOOSE c \in seen : \A d \in seen : c <= d
At(first, stopped) == [first |-> first, stopped |-> stopped]
Past(r, t, c, w) ==
  IF w.stopped THEN w
  ELSE IF Sees(r, t, c) THEN At(IF w.first = 0 THEN c ELSE w.first, r.logic = "any")
  ELSE IF r.logic = "all" THEN At(0, TRUE) ELSE w
Walk(r, t) ==
  LET walked[c \in 0 .. r.count] ==
        IF c = 0 THEN At(0, FALSE) ELSE Past(r, t, c, walked[c - 1])
  IN  walked[r.count].first

(* The record the worker writes for a rule: the first text that matches ends *)
(* the search.                                                               *)
FirstText(r, Ts) == CHOOSE t \in Ts : \A u \in Ts : t <= u
Search(r) ==
  LET hit == {t \in Searched : Walk(r, t) # 0}
  IN  IF hit = {} THEN NoMatch
      ELSE [condition |-> Walk(r, FirstText(r, hit)), text |-> FirstText(r, hit)]

(* A document that was cut is another text: any outcome is possible.         *)
Outcomes(r) ==
  IF job.cut THEN {NoMatch} \cup [condition : 1 .. r.count, text : Searched] ELSE {Search(r)}

-----------------------------------------------------------------------------
(* The parent prepares the request. *)

Init ==
  /\ job \in Jobs
  /\ pc = "bundle"
  /\ taken = 0 /\ chars = 0
  /\ wstate = "idle" /\ row = 1 /\ pipe = <<>>
  /\ received = <<>> /\ cancelled = "clear" /\ returncode = "none"
  /\ completed = 0 /\ found = {} /\ errors = {}
  /\ workerError = "no"

Return(why) == pc' = "returned" /\ workerError' = why

CheckBundle ==
  /\ pc = "bundle"
  /\ \/ Len(Bindings) = 0 /\ Return("no")
     \/ Len(Bindings) > MaxRules /\ Return("too_many_rules")
     \/ Len(Bindings) \in 1 .. MaxRules /\ pc' = "wire" /\ UNCHANGED workerError
  /\ UNCHANGED <<job, parentVars, workerVars, replyVars, parseVars>>

WireBinding ==
  /\ pc = "wire" /\ taken < Len(Bindings)
  /\ taken' = taken + 1
  /\ chars' = chars + Bindings[taken + 1].chars
  /\ IF chars' > MaxChars THEN Return("bundle_too_large") ELSE UNCHANGED <<pc, workerError>>
  /\ UNCHANGED <<job, workerVars, replyVars, parseVars>>

(* The deadline may have passed before there is anything to send.             *)
Dispatch ==
  /\ pc = "wire" /\ taken = Len(Bindings)
  /\ \/ Return("deadline_exceeded")
     \/ pc' = "running" /\ UNCHANGED workerError
  /\ UNCHANGED <<job, parentVars, workerVars, replyVars, parseVars>>

-----------------------------------------------------------------------------
(* The worker. *)

WorkerFrame == <<job, pc, parentVars, replyVars, parseVars, workerError>>
Working == pc = "running" /\ wstate = "running"

Launch ==
  /\ pc = "running" /\ wstate = "idle"
  /\ wstate' = "running"
  /\ UNCHANGED <<row, pipe, WorkerFrame>>

(* One rule, one line: what it finds, or what went wrong with it.             *)
Evaluate ==
  /\ Working /\ job.worker = "shipped" /\ row <= Len(Bindings)
  /\ LET r == Bindings[row] IN
       \/ /\ r.behaviour = "runs"
          /\ \E m \in Outcomes(r) : pipe' = Append(pipe, Ok(row, m))
       \/ r.behaviour # "runs" /\ pipe' = Append(pipe, Error(row))
  /\ row' = row + 1
  /\ UNCHANGED <<wstate, WorkerFrame>>

Exit ==
  /\ Working /\ job.worker = "shipped" /\ row > Len(Bindings)
  /\ wstate' = "exited"
  /\ UNCHANGED <<row, pipe, WorkerFrame>>

(* It ends on its own, at any point, with a nonzero status.                   *)
Crash ==
  /\ Working
  /\ wstate' = "failed"
  /\ UNCHANGED <<row, pipe, WorkerFrame>>

(* A worker of another installation: any lines, any status.                   *)
Arbitrary ==
  /\ Working /\ job.worker = "arbitrary"
  /\ \/ /\ Len(pipe) < MaxFrames
        /\ \/ \E i \in 1 .. Len(Bindings) + 1, c \in 0 .. MaxConditions + 1, t \in {0, 1, 2} :
                pipe' = Append(pipe, Ok(i, [condition |-> c, text |-> t]))
           \/ \E i \in 1 .. Len(Bindings) + 1 : pipe' = Append(pipe, Error(i))
           \/ pipe' = Append(pipe, Junk)
        /\ UNCHANGED wstate
     \/ wstate' = "exited" /\ UNCHANGED pipe
  /\ UNCHANGED <<row, WorkerFrame>>

Expire ==
  /\ pc = "running" /\ wstate # "idle" /\ cancelled = "clear"
  /\ cancelled' = "set"
  /\ wstate' = IF wstate = "running" THEN "killed" ELSE wstate
  /\ UNCHANGED <<job, pc, parentVars, row, pipe, received, returncode, parseVars, workerError>>

-----------------------------------------------------------------------------
(* _run_worker returns, in one of the four ways of module Supervisor.        *)

Status == CASE wstate = "exited" -> "zero"
            [] wstate \in {"failed", "killed"} -> "nonzero"
            [] OTHER -> "none"
Reply(lines, flags, statuses, why) ==
  received' \in lines /\ cancelled' \in flags /\ returncode' \in statuses /\ workerError' = why

Finished == wstate \in {"exited", "failed", "killed"}
              /\ Reply({pipe}, {cancelled}, {Status}, "no")
GaveUp == wstate # "idle"
            /\ Reply({SubSeq(pipe, 1, n) : n \in 0 .. Len(pipe)}, {"set"}, {"none", Status},
                     "cleanup_exceeded")
NoProcess == wstate = "idle" /\ Reply({<<>>}, {"set"}, {"none", "nonzero"}, "no")
Faulted == Reply({<<>>}, {cancelled, "set"}, {"none"}, "worker_fault")

RunWorkerReturns ==
  /\ pc = "running"
  /\ Finished \/ GaveUp \/ NoProcess \/ Faulted
  /\ pc' = "parse"
  /\ UNCHANGED <<job, parentVars, workerVars, parseVars>>

-----------------------------------------------------------------------------
(* The parser. *)

InOrder(l) == l.index = completed + 1 /\ l.index <= Len(Bindings)
SpanOK(l) == \/ l.condition = 0 /\ l.text = 0
             \/ l.condition \in 1 .. Bindings[l.index].count /\ l.text > 0
Acceptable(l) == \/ l.status = "ok" /\ InOrder(l) /\ SpanOK(l)
                 \/ l.status = "error" /\ InOrder(l)

Finding(l) == [rule |-> l.index, condition |-> l.condition, text |-> l.text]

TakeLine ==
  /\ pc = "parse" /\ completed < Len(received)
  /\ LET l == received[completed + 1] IN
       /\ Acceptable(l)
       /\ found' = found \cup {m \in {Finding(l)} : m.condition # 0}
       /\ errors' = errors \cup {i \in {l.index} : l.status = "error"}
  /\ completed' = completed + 1
  /\ UNCHANGED <<job, pc, parentVars, workerVars, replyVars, workerError>>

RejectLine ==
  /\ pc = "parse" /\ completed < Len(received)
  /\ ~Acceptable(received[completed + 1])
  /\ pc' = "conclude" /\ workerError' = "invalid_worker_response"
  /\ UNCHANGED <<job, parentVars, workerVars, replyVars, parseVars>>

(* A deadline that was noticed counts, even after the last line; so does a    *)
(* status other than zero and a rule without a line.                          *)
Orelse(why) == IF workerError = "no" THEN why ELSE workerError
FinalErrorOfStatus ==
  CASE cancelled = "set" -> Orelse("deadline_exceeded")
    [] cancelled = "clear" /\ returncode # "zero" -> Orelse("worker_failed")
    [] OTHER -> workerError
FinalError ==
  CASE cancelled = "set" -> Orelse("deadline_exceeded")
    [] cancelled = "clear" /\ (returncode # "zero" \/ completed # Len(Bindings)) ->
         Orelse("worker_failed")
    [] OTHER -> workerError

Conclude ==
  /\ \/ pc = "parse" /\ completed = Len(received)
     \/ pc = "conclude"
  /\ Return(FinalError)
  /\ UNCHANGED <<job, parentVars, workerVars, replyVars, parseVars>>

-----------------------------------------------------------------------------
Prepare == CheckBundle \/ WireBinding \/ Dispatch
Worker  == Launch \/ Evaluate \/ Exit \/ Crash \/ Arbitrary
Parent  == Prepare \/ RunWorkerReturns \/ TakeLine \/ RejectLine \/ Conclude
Done    == pc = "returned" /\ UNCHANGED vars

Next == Parent \/ Worker \/ Expire \/ Done

Spec == Init /\ [][Next]_vars

-----------------------------------------------------------------------------
(* CfgScanResult.complete *)
Complete ==
  /\ workerError = "no" /\ errors = {}
  /\ ~job.cut /\ ~job.long /\ Bindings # <<>>
=============================================================================
