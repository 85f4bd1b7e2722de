------------------------------ MODULE ScanBatch ------------------------------
(***************************************************************************)
(* One call of scan_leaves (evaluate.py, _scan_leaves_impl) together with   *)
(* the disposable worker process it starts (_scan_worker.py, _leaves).      *)
(*                                                                          *)
(* The parent caps the leaves, builds the schedule, runs the worker under a *)
(* deadline and parses the JSON lines the worker managed to write.  The     *)
(* worker sweeps rule-major: each rule against every leaf, one "hit" line   *)
(* per matching leaf and one "done" or "err" line per rule.  It can be      *)
(* killed between any two lines.                                            *)
(*                                                                          *)
(* Abstractions.  A rule is a positive integer, its rank under              *)
(* _schedule_key.  What a rule does to a leaf is given by the job: "hit",   *)
(* "miss" or "raise".  A leaf is a number and a size in bytes.  Rows and    *)
(* leaf positions are counted from 1 (from 0 in the code), so last_leaf = 0 *)
(* stands for -1.  _run_worker appears through the tuples it can return;    *)
(* module Supervisor shows that it returns no others.                       *)
(*                                                                          *)
(* Beside an operator, a variant of it whose name says what a bug would     *)
(* forget (DebitUnclamped, SweptEarly, ...) is a mutant: the model itself   *)
(* never uses it; PROJECT.json names the property it must break.            *)
(***************************************************************************)
EXTENDS Integers, Sequences, FiniteSets

CONSTANTS
  Rules,      \* ranks of the rules a bundle may hold
  NumLeaves,  \* leaves a caller may offer
  Jobs,       \* the calls considered, a subset of JobType
  MaxRules,   \* _MAX_RULES
  MaxLeaves,  \* _MAX_LEAVES
  MaxChars,   \* _MAX_BUNDLE_CHARS
  MaxFrames   \* bound of the model: lines a worker that is not ours writes

Leaves   == 1 .. NumLeaves
Kinds    == {"none", "unwireable", "uncompilable", "runnable"}
Verdicts == {"hit", "miss", "raise"}
Workers  == {"shipped", "mismatched", "arbitrary"}

JobType ==
  [ offered   : 0 .. NumLeaves,                \* leaves 1 .. offered
    size      : [Leaves -> Nat],               \* bytes of each leaf
    allowance : Nat,                           \* max_bytes
    bundle    : SUBSET Rules,
    kind      : [Rules -> Kinds],
    chars     : [Rules -> Nat],                \* predicate characters
    verdict   : [Rules -> [Leaves -> Verdicts]],
    worker    : Workers ]

ASSUME RulesAssumption == Rules \subseteq Nat \ {0} /\ IsFiniteSet(Rules)
ASSUME LeavesAssumption == NumLeaves \in Nat
ASSUME JobsAssumption == Jobs \subseteq JobType
ASSUME LimitsAssumption ==
  MaxRules \in Nat /\ MaxLeaves \in Nat /\ MaxChars \in Nat /\ MaxFrames \in Nat

VARIABLES
  job,           \* the arguments of the call
  pc,            \* where the parent is
  remaining,     \* bytes of the allowance left
  capped,        \* leaves the capping loop has passed
  scheduled, truncated,  \* the leaves sent, and those of them that were cut
  sent,          \* per scheduled position, the offered leaf
  todo,          \* rules not yet prepared
  accepted,      \* rules on the wire, before the sort
  charsUsed,     \* predicate characters on the wire
  wire,          \* the schedule
  wstate,        \* the worker process
  row, leaf,     \* the worker's two loops; leaf = 0 before compile_rule
  pipe,          \* the lines the worker has flushed
  received,      \* the lines _run_worker returned
  cancelled,     \* threading.Event: "set" or "clear"
  returncode,
  pos,           \* next line to parse
  rows, lastLeaf, found, rejected,
  errors,        \* rules with a RuleError
  workerError    \* why the batch is incomplete as a whole, or "no"

prepVars   == <<remaining, capped, scheduled, truncated, sent, todo, accepted,
                charsUsed, wire>>
workerVars == <<wstate, row, leaf, pipe>>
replyVars  == <<received, cancelled, returncode>>
parseVars  == <<pos, rows, lastLeaf, found, rejected>>
vars == <<job, pc, prepVars, workerVars, replyVars, parseVars, errors, workerError>>

Frame == [tag : {"hit", "done", "err", "junk"}, row : Nat, arg : Nat]
HitFrame(i, p)  == [tag |-> "hit",  row |-> i, arg |-> p]
DoneFrame(i, n) == [tag |-> "done", row |-> i, arg |-> n]
ErrFrame(i)     == [tag |-> "err",  row |-> i, arg |-> 0]
JunkFrame       == [tag |-> "junk", row |-> 0, arg |-> 0]

Stride == Len(sent)

-----------------------------------------------------------------------------
(* The arguments. *)

Init ==
  /\ job \in Jobs
  /\ pc = "limits"
  /\ remaining = job.allowance
  /\ capped = 0 /\ scheduled = {} /\ truncated = {} /\ sent = <<>>
  /\ todo = job.bundle /\ accepted = {} /\ charsUsed = 0 /\ wire = <<>>
  /\ wstate = "idle" /\ row = 1 /\ leaf = 0 /\ pipe = <<>>
  /\ received = <<>> /\ cancelled = "clear" /\ returncode = "none"
  /\ pos = 1 /\ rows = 0 /\ lastLeaf = 0 /\ found = {} /\ rejected = {}
  /\ errors = {} /\ workerError = "no"

Return(why) ==
  /\ pc' = "returned"
  /\ workerError' = why

CheckLeafCount ==
  /\ pc = "limits"
  /\ IF job.offered > MaxLeaves
       THEN Return("too_many_leaves")
       ELSE pc' = "cap" /\ UNCHANGED workerError
  /\ UNCHANGED <<job, prepVars, workerVars, replyVars, parseVars, errors>>

(* What a leaf of n bytes leaves of the allowance. *)
DebitUnclamped(n) == remaining - n
Debit(n) == IF n > remaining THEN 0 ELSE remaining - n

(* One turn of the capping loop: the leaf is declined once the allowance has *)
(* run out, and otherwise sent, cut to what is left of the allowance.        *)
CapLeaf ==
  LET l == capped + 1
      n == job.size[l]
  IN
  /\ pc = "cap"
  /\ l <= job.offered
  /\ capped' = l
  /\ IF remaining <= 0
       THEN UNCHANGED <<remaining, scheduled, truncated, sent>>
       ELSE /\ scheduled' = scheduled \cup {l}
            /\ truncated' = IF n > remaining THEN truncated \cup {l} ELSE truncated
            /\ sent' = Append(sent, l)
            /\ remaining' = Debit(n)
  /\ UNCHANGED <<job, pc, todo, accepted, charsUsed, wire, workerVars, replyVars,
                 parseVars, errors, workerError>>

CheckRuleCount ==
  /\ pc = "cap"
  /\ capped = job.offered
  /\ IF Cardinality(job.bundle) > MaxRules
       THEN Return("too_many_rules")
       ELSE pc' = "rules" /\ UNCHANGED workerError
  /\ UNCHANGED <<job, prepVars, workerVars, replyVars, parseVars, errors>>

(* One turn of the rule loop, in any order the bundle may have.  A rule that *)
(* cannot be wired leaves an error; one that overruns the predicate budget   *)
(* empties the schedule and ends the call.                                   *)
WireRule(r) ==
  LET k == job.kind[r]
      used == charsUsed + job.chars[r]
  IN
  /\ pc = "rules"
  /\ r \in todo
  /\ todo' = todo \ {r}
  /\ \/ /\ k = "none"
        /\ UNCHANGED <<pc, accepted, charsUsed, errors, workerError>>
     \/ /\ k = "unwireable"
        /\ errors' = errors \cup {r}
        /\ UNCHANGED <<pc, accepted, charsUsed, workerError>>
     \/ /\ k \in {"uncompilable", "runnable"}
        /\ charsUsed' = used
        /\ IF used > MaxChars
             THEN accepted' = {} /\ Return("bundle_too_large")
             ELSE accepted' = accepted \cup {r} /\ UNCHANGED <<pc, workerError>>
        /\ UNCHANGED errors
  /\ UNCHANGED <<job, remaining, capped, scheduled, truncated, sent, wire, workerVars,
                 replyVars, parseVars>>

(* wire.sort(key=_schedule_key): the order depends on the rules alone. *)
Sorted(S) ==
  {s \in [1 .. Cardinality(S) -> S] :
     /\ \A r \in S : \E i \in DOMAIN s : s[i] = r
     /\ \A i, j \in DOMAIN s : i < j => s[i] < s[j]}

(* The three early returns before the request is built and the deadline test *)
(* after it: nothing to schedule, nothing to scan, or no time left.          *)
Schedule ==
  /\ pc = "rules"
  /\ todo = {}
  /\ \E s \in Sorted(accepted) : wire' = s
  /\ \/ Return("no")
     \/ /\ accepted # {}
        /\ Stride > 0
        /\ pc' = "running"
        /\ UNCHANGED workerError
  /\ UNCHANGED <<job, remaining, capped, scheduled, truncated, sent, todo, accepted, charsUsed,
                 workerVars, replyVars, parseVars, errors>>

-----------------------------------------------------------------------------
(* The worker process. *)

WorkerFrame == <<job, pc, prepVars, replyVars, parseVars, errors, workerError>>

Launch ==
  /\ pc = "running" /\ wstate = "idle"
  /\ wstate' = "running"
  /\ UNCHANGED <<row, leaf, pipe, WorkerFrame>>

Working == pc = "running" /\ wstate = "running"

(* main(): another protocol number or stride ends the process with status 2  *)
(* and no frame.                                                             *)
Refuse ==
  /\ Working /\ job.worker = "mismatched"
  /\ wstate' = "failed"
  /\ UNCHANGED <<row, leaf, pipe, WorkerFrame>>

NextRow == row' = row + 1 /\ leaf' = 0

(* compile_rule, hoisted out of the leaf loop. *)
Compile ==
  /\ Working /\ job.worker = "shipped"
  /\ row <= Len(wire) /\ leaf = 0
  /\ IF job.kind[wire[row]] = "uncompilable"
       THEN pipe' = Append(pipe, ErrFrame(row)) /\ NextRow
       ELSE leaf' = 1 /\ UNCHANGED <<row, pipe>>
  /\ UNCHANGED <<wstate, WorkerFrame>>

(* One search.  A leaf that was cut is another text than the one offered, so *)
(* any outcome is possible there.                                            *)
Outcomes(r, l) == IF l \in truncated THEN Verdicts ELSE {job.verdict[r][l]}

Search ==
  /\ Working /\ job.worker = "shipped"
  /\ row <= Len(wire) /\ leaf \in 1 .. Stride
  /\ \E v \in Outcomes(wire[row], sent[leaf]) :
       \/ /\ v = "hit"
          /\ pipe' = Append(pipe, HitFrame(row, leaf))
          /\ leaf' = leaf + 1
          /\ UNCHANGED row
       \/ /\ v = "miss"
          /\ leaf' = leaf + 1
          /\ UNCHANGED <<row, pipe>>
       \/ /\ v = "raise"
          /\ pipe' = Append(pipe, ErrFrame(row))
          /\ NextRow
  /\ UNCHANGED <<wstate, WorkerFrame>>

(* The leaf loop has run out. *)
SweptEarly == leaf = Stride
Swept == leaf = Stride + 1

FinishRow ==
  /\ Working /\ job.worker = "shipped"
  /\ row <= Len(wire) /\ Swept
  /\ pipe' = Append(pipe, DoneFrame(row, Stride))
  /\ NextRow
  /\ UNCHANGED <<wstate, WorkerFrame>>

Exit ==
  /\ Working /\ job.worker = "shipped"
  /\ row > Len(wire)
  /\ wstate' = "exited"
  /\ UNCHANGED <<row, leaf, pipe, WorkerFrame>>

(* The process ends on its own, at any point, with a nonzero status. *)
Crash ==
  /\ Working
  /\ wstate' = "failed"
  /\ UNCHANGED <<row, leaf, pipe, WorkerFrame>>

(* A worker of another installation: any lines, any status.  The parent      *)
(* validates every line because it does not take the worker's word.          *)
Arbitrary ==
  /\ Working /\ job.worker = "arbitrary"
  /\ \/ /\ Len(pipe) < MaxFrames
        /\ \/ \E t \in {"hit", "done", "err"}, i \in 1 .. Len(wire) + 1, a \in 1 .. Stride + 1 :
                pipe' = Append(pipe, [tag |-> t, row |-> i, arg |-> a])
           \/ pipe' = Append(pipe, JunkFrame)
        /\ UNCHANGED wstate
     \/ wstate' = "exited" /\ UNCHANGED pipe
  /\ UNCHANGED <<row, leaf, WorkerFrame>>

-----------------------------------------------------------------------------
(* What _run_worker returns. *)

(* The watchdog, or the supervisor when communicate times out.  Between the  *)
(* test that the process still runs and the event it sets, the process may   *)
(* have ended by itself.                                                     *)
Expire ==
  /\ pc = "running" /\ wstate # "idle" /\ cancelled = "clear"
  /\ cancelled' = "set"
  /\ wstate' = IF wstate = "running" THEN "killed" ELSE wstate
  /\ UNCHANGED <<job, pc, prepVars, row, leaf, pipe, received, returncode, parseVars,
                 errors, workerError>>

ExitStatus == CASE wstate = "exited" -> "zero"
                [] wstate \in {"failed", "killed"} -> "nonzero"
                [] OTHER -> "none"

(* The supervisor finished in time: everything written and the exit status. *)
ReplyFinished ==
  /\ wstate \in {"exited", "failed", "killed"}
  /\ received' = pipe
  /\ returncode' = ExitStatus
  /\ UNCHANGED <<cancelled, workerError>>

(* The caller stopped waiting.  Whatever the supervisor had stored by then   *)
(* is returned, and the error says so when there was a process to reap.      *)
ReplyGaveUp ==
  /\ wstate # "idle"
  /\ cancelled' = "set"
  /\ \E n \in 0 .. Len(pipe) : received' = SubSeq(pipe, 1, n)
  /\ returncode' \in {"none", ExitStatus}
  /\ workerError' = "cleanup_exceeded"

(* No process by the deadline: a late one gets no input and is killed. *)
ReplyNoProcess ==
  /\ wstate = "idle"
  /\ cancelled' = "set"
  /\ received' = <<>>
  /\ returncode' \in {"none", "nonzero"}
  /\ UNCHANGED workerError

(* No slot, no thread, no process, or an exception while talking to it. *)
ReplyFault ==
  /\ received' = <<>>
  /\ returncode' = "none"
  /\ workerError' = "worker_fault"
  /\ cancelled' \in {cancelled, "set"}

RunWorkerReturns ==
  /\ pc = "running"
  /\ ReplyFinished \/ ReplyGaveUp \/ ReplyNoProcess \/ ReplyFault
  /\ pc' = "parse"
  /\ UNCHANGED <<job, prepVars, workerVars, parseVars, errors>>

-----------------------------------------------------------------------------
(* The parser: rows is a cursor into a schedule the parent built itself. *)

InRow(f) == f.row = rows + 1 /\ rows < Len(wire)

ValidHitUnordered(f) == f.tag = "hit" /\ InRow(f) /\ f.arg <= Stride
ValidHitShort(f) == f.tag = "hit" /\ InRow(f) /\ lastLeaf < f.arg /\ f.arg < Stride
ValidHit(f)  == f.tag = "hit" /\ InRow(f) /\ lastLeaf < f.arg /\ f.arg <= Stride
ValidDone(f) == f.tag = "done" /\ InRow(f) /\ f.arg = Stride
ValidErr(f)  == f.tag = "err" /\ InRow(f)

(* The rule and the offered leaf a hit line names. *)
FindingAtCursor(f) == <<wire[f.row], sent[lastLeaf + 1]>>
Finding(f) == <<wire[f.row], sent[f.arg]>>

TakeHit(f) ==
  /\ ValidHit(f)
  /\ found' = found \cup {Finding(f)}
  /\ lastLeaf' = f.arg
  /\ pos' = pos + 1
  /\ UNCHANGED <<pc, rows, rejected, errors, workerError>>

TakeDone(f) ==
  /\ ValidDone(f)
  /\ rows' = rows + 1 /\ lastLeaf' = 0
  /\ pos' = pos + 1
  /\ UNCHANGED <<pc, found, rejected, errors, workerError>>

TakeErr(f) ==
  /\ ValidErr(f)
  /\ errors' = errors \cup {wire[f.row]}
  /\ rejected' = rejected \cup {f.row}
  /\ rows' = rows + 1 /\ lastLeaf' = 0
  /\ pos' = pos + 1
  /\ UNCHANGED <<pc, found, workerError>>

RejectFrame(f) ==
  /\ ~(ValidHit(f) \/ ValidDone(f) \/ ValidErr(f))
  /\ workerError' = "invalid_worker_response"
  /\ pc' = "conclude"
  /\ UNCHANGED <<parseVars, errors>>

ParseFrame ==
  /\ pc = "parse"
  /\ pos <= Len(received)
  /\ LET f == received[pos] IN
       TakeHit(f) \/ TakeDone(f) \/ TakeErr(f) \/ RejectFrame(f)
  /\ UNCHANGED <<job, prepVars, workerVars, replyVars>>

(* End of the stream.  A deadline that passed after the last row is not held *)
(* against the scan; a nonzero status of a worker that ended by itself is.   *)
Orelse(why) == IF workerError = "no" THEN why ELSE workerError

FinalErrorByFlag ==
  CASE cancelled = "set" -> Orelse("deadline_exceeded")
    [] cancelled = "clear" /\ (returncode # "zero" \/ rows # Len(wire)) -> Orelse("worker_failed")
    [] OTHER -> workerError
FinalError ==
  CASE cancelled = "set" /\ rows # Len(wire) -> Orelse("deadline_exceeded")
    [] cancelled = "clear" /\ (returncode # "zero" \/ rows # Len(wire)) -> Orelse("worker_failed")
    [] OTHER -> workerError

Conclude ==
  /\ \/ pc = "parse" /\ pos > Len(received)
     \/ pc = "conclude"
  /\ Return(FinalError)
  /\ UNCHANGED <<job, prepVars, workerVars, replyVars, parseVars, errors>>

-----------------------------------------------------------------------------
Prepare == \/ CheckLeafCount \/ CapLeaf \/ CheckRuleCount
           \/ \E r \in Rules : WireRule(r)
           \/ Schedule
Worker  == \/ Launch \/ Refuse \/ Compile \/ Search \/ FinishRow \/ Exit
           \/ Crash \/ Arbitrary
Parent  == Prepare \/ RunWorkerReturns \/ ParseFrame \/ Conclude

Done == pc = "returned" /\ UNCHANGED vars

Next == Parent \/ Worker \/ Expire \/ Done

Spec == Init /\ [][Next]_vars

-----------------------------------------------------------------------------
(* The BatchScanResult of the call. *)

RulesEvaluated == rows - Cardinality(rejected)

Complete ==
  /\ workerError = "no"
  /\ errors = {}
  /\ Stride = job.offered
  /\ rows * Stride = Len(wire) * Stride
  /\ Cardinality(rejected) * Stride = 0
  /\ \A l \in 1 .. job.offered :
       /\ l \in scheduled /\ l \notin truncated
       /\ RulesEvaluated = Len(wire)

(* LeafScanResult.complete *)
LeafCompleteWhenCut(l) ==
  /\ workerError = "no" /\ errors = {} /\ l \in scheduled
  /\ RulesEvaluated = Len(wire) - Cardinality(errors)
LeafComplete(l) ==
  /\ workerError = "no"
  /\ errors = {}
  /\ l \in scheduled /\ l \notin truncated
  /\ RulesEvaluated = Len(wire) - Cardinality(errors)

(* What an exhaustive search of every offered leaf would find. *)
Runnable == {r \in job.bundle : job.kind[r] \in {"runnable", "uncompilable"}}
Truth == {x \in Runnable \X (1 .. job.offered) : job.verdict[x[1]][x[2]] = "hit"}
=============================================================================
