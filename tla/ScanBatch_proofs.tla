--------------------------- MODULE ScanBatch_proofs ---------------------------
(***************************************************************************)
(* Proofs about ScanBatch, for every bundle, every batch, every way the     *)
(* worker can be interrupted and every prefix of its output: first types,   *)
(* then what a batch result means.                                          *)
(***************************************************************************)
EXTENDS ScanBatchProps, FiniteSetTheorems, SequenceTheorems, TLAPS

-----------------------------------------------------------------------------
(* Typing. *)

(* What JobsAssumption says of the call being made. *)
LEMMA JobFacts ==
  ASSUME job \in Jobs
  PROVE  /\ job.offered \in 0 .. NumLeaves /\ job.offered \in Nat
         /\ job.size \in [1 .. NumLeaves -> Nat]
         /\ job.allowance \in Nat
         /\ job.bundle \subseteq Rules
         /\ job.kind \in [Rules -> Kinds]
         /\ job.chars \in [Rules -> Nat]
         /\ job.verdict \in [Rules -> [1 .. NumLeaves -> Verdicts]]
         /\ job.worker \in Workers
         /\ IsFiniteSet(job.bundle)
<1>1. job \in JobType
  BY JobsAssumption DEF JobsAssumption
<1>2. job.bundle \subseteq Rules /\ IsFiniteSet(Rules)
  BY <1>1, RulesAssumption DEF JobType, RulesAssumption
<1>3. IsFiniteSet(job.bundle)
  BY <1>2, FS_Subset
<1> QED
  BY <1>1, <1>2, <1>3, LeavesAssumption DEF JobType, Leaves, LeavesAssumption

(* The initial state is well typed. *)
LEMMA InitTypeOK == Init => TypeOK
  BY JobFacts DEF Init, TypeOK, PrepTypeOK, WorkerTypeOK, ReplyTypeOK, ParseTypeOK

(* The schedule is a sequence of rules of the bundle. *)
LEMMA SortedType ==
  ASSUME NEW S, S \subseteq job.bundle, job \in Jobs, NEW s \in Sorted(S)
  PROVE  /\ s \in Seq(job.bundle)
         /\ \A r \in S : \E i \in 1 .. Len(s) : s[i] = r
         /\ \A i \in 1 .. Len(s) : s[i] \in S
<1>1. IsFiniteSet(S) /\ Cardinality(S) \in Nat
  BY JobFacts, FS_Subset, FS_CardinalityType
<1>2. s \in [1 .. Cardinality(S) -> S] /\ Len(s) = Cardinality(S)
  BY <1>1 DEF Sorted
<1> QED
  BY <1>1, <1>2 DEF Sorted

(* A group of variables that does not change keeps its type. *)
LEMMA Unchanged ==
  /\ PrepTypeOK /\ UNCHANGED <<job, prepVars>> => PrepTypeOK'
  /\ WorkerTypeOK /\ UNCHANGED workerVars => WorkerTypeOK'
  /\ ReplyTypeOK /\ UNCHANGED replyVars => ReplyTypeOK'
  /\ ParseTypeOK /\ UNCHANGED <<job, parseVars, errors>> => ParseTypeOK'
BY DEF PrepTypeOK, WorkerTypeOK, ReplyTypeOK, ParseTypeOK,
       prepVars, workerVars, replyVars, parseVars

(* The parent's preparation keeps every variable in its type. *)
LEMMA PrepareTypeOK == TypeOK /\ Prepare => TypeOK'
<1> SUFFICES ASSUME TypeOK, Prepare PROVE TypeOK'
  OBVIOUS
<1> USE DEF TypeOK
<1>1. CASE CheckLeafCount
  BY <1>1, Unchanged DEF CheckLeafCount, Return
<1>2. CASE CapLeaf
  <2> DEFINE l == capped + 1
  <2>0. /\ job.offered \in 0 .. NumLeaves /\ NumLeaves \in Nat
        /\ job.size \in [1 .. NumLeaves -> Nat] /\ job.bundle \subseteq Rules
    BY JobFacts, LeavesAssumption DEF LeavesAssumption
  <2>1. l \in 1 .. job.offered /\ l \in 1 .. NumLeaves /\ capped \in Nat
    BY <1>2, <2>0 DEF CapLeaf, PrepTypeOK
  <2>a. l \in Nat /\ l \in 1 .. l /\ sent \in Seq(1 .. capped) /\ capped \in Nat
    BY <2>1, JobFacts DEF PrepTypeOK
  <2>b. sent \in Seq(1 .. l)
    BY <2>a
  <2>2. Append(sent, l) \in Seq(1 .. l)
    BY <2>a, <2>b
  <2>3. /\ remaining' \in Nat
        /\ scheduled' \subseteq 1 .. l /\ truncated' \subseteq scheduled'
    <3>1. job.size[l] \in Nat /\ remaining \in Nat
      BY <2>0, <2>1 DEF PrepTypeOK
    <3>2. scheduled \subseteq 1 .. capped /\ truncated \subseteq scheduled
      BY DEF PrepTypeOK
    <3>3. scheduled \cup {l} \subseteq 1 .. l
      BY <2>1, <3>2
    <3>4. \/ UNCHANGED <<remaining, scheduled, truncated>>
          \/ /\ scheduled' = scheduled \cup {l}
             /\ truncated' \in {truncated, truncated \cup {l}}
             /\ remaining' = IF job.size[l] > remaining THEN 0 ELSE remaining - job.size[l]
      BY <1>2 DEF CapLeaf, Debit
    <3>5. remaining' \in Nat
      BY <3>1, <3>4
    <3> QED
      BY <3>2, <3>3, <3>4, <3>5
  <2>4. sent' \in Seq(1 .. l)
    <3>1. sent' = sent \/ sent' = Append(sent, l)
      BY <1>2 DEF CapLeaf
    <3> QED
      BY <2>b, <2>2, <3>1
  <2>5. PrepTypeOK'
    BY <1>2, <2>1, <2>3, <2>4 DEF CapLeaf, PrepTypeOK
  <2> QED
    BY <1>2, <2>5, Unchanged DEF CapLeaf
<1>3. CASE CheckRuleCount
  BY <1>3, Unchanged DEF CheckRuleCount, Return
<1>4. ASSUME NEW r \in Rules, WireRule(r)
      PROVE  TypeOK'
  <2>1. r \in job.bundle /\ job.chars[r] \in Nat
    BY <1>4, JobFacts DEF WireRule, PrepTypeOK
  <2>2. charsUsed' \in Nat /\ todo' \subseteq job.bundle
    BY <1>4, <2>1 DEF WireRule, PrepTypeOK
  <2>3. accepted' \subseteq job.bundle /\ errors' \subseteq job.bundle
    BY <1>4, <2>1 DEF WireRule, Return, PrepTypeOK, ParseTypeOK
  <2>4. /\ pc' \in {pc, "returned"} /\ workerError' \in {workerError, "bundle_too_large"}
        /\ UNCHANGED <<job, remaining, capped, scheduled, truncated, sent, wire>>
        /\ UNCHANGED <<workerVars, replyVars, parseVars>>
    BY <1>4 DEF WireRule, Return
  <2>5. PrepTypeOK'
    BY <2>2, <2>3, <2>4 DEF PrepTypeOK
  <2>6. ParseTypeOK'
    BY <2>3, <2>4 DEF ParseTypeOK, parseVars
  <2> QED
    BY <2>4, <2>5, <2>6, Unchanged
<1>5. CASE Schedule
  <2>1. wire' \in Seq(job.bundle)
    BY <1>5, SortedType DEF Schedule, PrepTypeOK
  <2>2. PrepTypeOK'
    BY <1>5, <2>1 DEF Schedule, PrepTypeOK
  <2>3. pc' \in {"returned", "running"} /\ workerError' \in {workerError, "no"}
    BY <1>5 DEF Schedule, Return
  <2> QED
    BY <1>5, <2>2, <2>3, Unchanged DEF Schedule
<1> QED
  BY <1>1, <1>2, <1>3, <1>4, <1>5 DEF Prepare

(* The lines the worker can write are frames. *)
LEMMA FrameTypes ==
  /\ \A i, n \in Nat : /\ HitFrame(i, n) \in Frame /\ DoneFrame(i, n) \in Frame
                       /\ ErrFrame(i) \in Frame
  /\ \A t \in {"hit", "done", "err"}, i, n \in Nat : [tag |-> t, row |-> i, arg |-> n] \in Frame
  /\ JunkFrame \in Frame
  /\ \A f \in Frame : f.row \in Nat /\ f.arg \in Nat /\ f.tag \in {"hit", "done", "err", "junk"}
BY DEF HitFrame, DoneFrame, ErrFrame, JunkFrame, Frame

(* The worker, and the clock that kills it, keep every variable in its type. *)
LEMMA WorkerTypeStep == TypeOK /\ (Worker \/ Expire) => TypeOK'
<1> SUFFICES ASSUME TypeOK, Worker \/ Expire PROVE TypeOK'
  OBVIOUS
<1>1. WorkerTypeOK' /\ UNCHANGED WorkerFrame => TypeOK'
  BY Unchanged DEF TypeOK, WorkerFrame
<1> USE DEF TypeOK, WorkerTypeOK
<1>2. \A f \in Frame : Append(pipe, f) \in Seq(Frame)
  OBVIOUS
<1>3. CASE Launch \/ Refuse \/ Exit \/ Crash
  BY <1>1, <1>3 DEF Launch, Refuse, Exit, Crash
<1>4. CASE Compile
  <2>1. ErrFrame(row) \in Frame
    BY FrameTypes
  <2> QED
    BY <1>1, <1>2, <1>4, <2>1 DEF Compile, NextRow
<1>5. CASE Search
  <2>1. HitFrame(row, leaf) \in Frame /\ ErrFrame(row) \in Frame
    BY FrameTypes
  <2>2. /\ pipe' \in {pipe, Append(pipe, HitFrame(row, leaf)), Append(pipe, ErrFrame(row))}
        /\ row' \in {row, row + 1} /\ leaf' \in {0, leaf + 1}
        /\ UNCHANGED <<wstate, WorkerFrame>>
    BY <1>5 DEF Search, NextRow
  <2> QED
    BY <1>1, <1>2, <2>1, <2>2
<1>6. CASE FinishRow
  <2>0. Stride \in Nat
    BY DEF Stride, PrepTypeOK
  <2>1. DoneFrame(row, Stride) \in Frame
    BY <2>0, FrameTypes
  <2> QED
    BY <1>1, <1>2, <1>6, <2>1 DEF FinishRow, NextRow
<1>7. CASE Arbitrary
  <2>1. Stride \in Nat /\ Len(wire) \in Nat
    BY DEF Stride, PrepTypeOK
  <2>2. pipe' \in Seq(Frame)
    <3>1. ASSUME NEW t \in {"hit", "done", "err"}, NEW i \in 1 .. Len(wire) + 1,
                 NEW a \in 1 .. Stride + 1, pipe' = Append(pipe, [tag |-> t, row |-> i, arg |-> a])
          PROVE  pipe' \in Seq(Frame)
      <4>1. i \in Nat /\ a \in Nat
        BY <2>1
      <4>2. [tag |-> t, row |-> i, arg |-> a] \in Frame
        BY <4>1, FrameTypes
      <4> QED
        BY <1>2, <3>1, <4>2
    <3>2. CASE pipe' = Append(pipe, JunkFrame)
      BY <1>2, <3>2, FrameTypes
    <3> QED
      BY <1>7, <3>1, <3>2 DEF Arbitrary
  <2> QED
    BY <1>1, <1>7, <2>2 DEF Arbitrary
<1>8. CASE Expire
  <2>0. /\ wstate' \in {wstate, "killed"} /\ cancelled' = "set"
        /\ UNCHANGED <<row, leaf, pipe, received, returncode>>
    BY <1>8 DEF Expire
  <2>1. WorkerTypeOK' /\ ReplyTypeOK'
    BY <2>0 DEF ReplyTypeOK
  <2> QED
    BY <1>8, <2>1, Unchanged DEF Expire
<1> QED
  BY <1>3, <1>4, <1>5, <1>6, <1>7, <1>8 DEF Worker

(* What comes back from the worker is a prefix of what it wrote. *)
IsPrefixOf(s, t) == Len(s) <= Len(t) /\ \A i \in 1 .. Len(s) : s[i] = t[i]

LEMMA ReceivedPrefix ==
  ASSUME TypeOK, RunWorkerReturns
  PROVE  received' \in Seq(Frame) /\ IsPrefixOf(received', pipe)
<1>1. pipe \in Seq(Frame) /\ Len(pipe) \in Nat
  BY DEF TypeOK, WorkerTypeOK
<1>2. CASE ReplyGaveUp
  <2>1. PICK n \in 0 .. Len(pipe) : received' = SubSeq(pipe, 1, n)
    BY <1>2 DEF ReplyGaveUp
  <2>2. n \in Int /\ \A i \in 1 .. n : pipe[i] \in Frame
    BY <1>1
  <2>3. /\ received' \in Seq(Frame)
        /\ Len(received') = IF 1 <= n THEN n - 1 + 1 ELSE 0
        /\ \A i \in 1 .. n - 1 + 1 : received'[i] = pipe[1 + i - 1]
    BY <2>1, <2>2, SubSeqProperties
  <2> QED
    BY <1>1, <2>3 DEF IsPrefixOf
<1>3. CASE ReplyFinished
  BY <1>1, <1>3 DEF ReplyFinished, IsPrefixOf
<1>4. CASE ReplyNoProcess \/ ReplyFault
  <2>1. received' = <<>>
    BY <1>4 DEF ReplyNoProcess, ReplyFault
  <2> QED
    BY <1>1, <2>1 DEF IsPrefixOf
<1> QED
  BY <1>2, <1>3, <1>4 DEF RunWorkerReturns

(* The reply and the parser keep every variable in its type. *)
LEMMA ReplyTypeStep == TypeOK /\ RunWorkerReturns => TypeOK'
<1> SUFFICES ASSUME TypeOK, RunWorkerReturns PROVE TypeOK'
  OBVIOUS
<1>1. ExitStatus \in {"none", "zero", "nonzero"}
  BY DEF ExitStatus, TypeOK, WorkerTypeOK
<1>2. ReplyTypeOK'
  BY <1>1, ReceivedPrefix
     DEF RunWorkerReturns, ReplyFinished, ReplyGaveUp, ReplyNoProcess, ReplyFault,
         TypeOK, ReplyTypeOK
<1>3. workerError' \in {workerError, "cleanup_exceeded", "worker_fault"}
  BY DEF RunWorkerReturns, ReplyFinished, ReplyGaveUp, ReplyNoProcess, ReplyFault
<1>4. UNCHANGED <<job, prepVars, workerVars, parseVars, errors>> /\ pc' = "parse"
  BY DEF RunWorkerReturns
<1> QED
  BY <1>2, <1>3, <1>4, Unchanged DEF TypeOK

LEMMA ParseTypeStep == TypeOK /\ (ParseFrame \/ Conclude) => TypeOK'
<1> SUFFICES ASSUME TypeOK, ParseFrame \/ Conclude PROVE TypeOK'
  OBVIOUS
<1>1. CASE Conclude
  <2>1. pc' = "returned" /\ workerError' \in {workerError, "deadline_exceeded", "worker_failed"}
    BY <1>1 DEF Conclude, FinalError, Return, Orelse
  <2> QED
    BY <1>1, <2>1, Unchanged DEF Conclude, TypeOK
<1>2. CASE ParseFrame
  <2> DEFINE f == received[pos]
  <2>1. /\ TakeHit(f) \/ TakeDone(f) \/ TakeErr(f) \/ RejectFrame(f)
        /\ UNCHANGED <<job, prepVars, workerVars, replyVars>>
    BY <1>2 DEF ParseFrame
  <2>2. f \in Frame
    BY <1>2 DEF ParseFrame, TypeOK, ReplyTypeOK, ParseTypeOK
  <2>3. /\ InRow(f) => f.row \in 1 .. Len(wire) /\ wire[f.row] \in job.bundle
        /\ f.row \in Nat /\ f.arg \in Nat
    BY <2>2, FrameTypes DEF InRow, TypeOK, PrepTypeOK, ParseTypeOK
  <2> HIDE DEF f
  <2>4. CASE TakeHit(f)
    <3>1. sent[f.arg] \in 1 .. job.offered
      <4>1. lastLeaf \in Nat /\ capped \in 0 .. job.offered /\ job.offered \in Nat
            /\ sent \in Seq(1 .. capped)
        BY JobFacts DEF TypeOK, PrepTypeOK, ParseTypeOK
      <4>2. f.arg \in 1 .. Len(sent)
        BY <2>3, <2>4, <4>1 DEF TakeHit, ValidHit, Stride
      <4> QED
        BY <4>1, <4>2
    <3>2. <<wire[f.row], sent[f.arg]>> \in job.bundle \X (1 .. job.offered)
      BY <2>3, <2>4, <3>1 DEF TakeHit, ValidHit
    <3>3. ParseTypeOK' /\ UNCHANGED <<pc, workerError>>
      <4>1. found' \subseteq job.bundle \X (1 .. job.offered)
        BY <2>4, <3>2 DEF TakeHit, Finding, TypeOK, ParseTypeOK
      <4> QED
        BY <2>1, <2>3, <2>4, <4>1 DEF TakeHit, TypeOK, ParseTypeOK
    <3> QED
      BY <2>1, <3>3, Unchanged DEF TypeOK
  <2>5. CASE TakeDone(f)
    <3>1. ParseTypeOK' /\ UNCHANGED <<pc, workerError>>
      BY <2>1, <2>5 DEF TakeDone, TypeOK, ParseTypeOK
    <3> QED
      BY <2>1, <3>1, Unchanged DEF TypeOK
  <2>6. CASE TakeErr(f)
    <3>1. ParseTypeOK' /\ UNCHANGED <<pc, workerError>>
      <4>1. rejected' \subseteq Nat \ {0} /\ errors' \subseteq job.bundle
        <5>1. f.row \in Nat \ {0} /\ wire[f.row] \in job.bundle
          BY <2>3, <2>6 DEF TakeErr, ValidErr
        <5> QED
          BY <2>6, <5>1 DEF TakeErr, TypeOK, ParseTypeOK
      <4> QED
        BY <2>1, <2>6, <4>1 DEF TakeErr, TypeOK, ParseTypeOK
    <3> QED
      BY <2>1, <3>1, Unchanged DEF TypeOK
  <2>7. CASE RejectFrame(f)
    BY <2>1, <2>7, Unchanged DEF RejectFrame, TypeOK
  <2> QED
    BY <2>1, <2>4, <2>5, <2>6, <2>7
<1> QED
  BY <1>1, <1>2

LEMMA NextTypeOK == TypeOK /\ [Next]_vars => TypeOK'
<1>1. TypeOK /\ UNCHANGED vars => TypeOK'
  BY Unchanged DEF vars, TypeOK
<1> QED
  BY <1>1, PrepareTypeOK, WorkerTypeStep, ReplyTypeStep, ParseTypeStep DEF Next, Parent, Done

(* Every reachable state is well typed. *)
THEOREM TypeCorrect == Spec => []TypeOK
  BY InitTypeOK, NextTypeOK, PTL DEF Spec


-----------------------------------------------------------------------------
(* The inductive invariant.  A property of the answer is a property of two   *)
(* streams: what the worker wrote, and what the parser made of the prefix it *)
(* got.  The parts below say, in turn, what the parent prepared, what every  *)
(* written line means, and what every parsed line has contributed.           *)

Early == pc \in {"limits", "cap", "rules"}

(* Before the worker runs there is no stream; before the reply, no parse.    *)
PhaseInv ==
  /\ Early => wire = <<>> /\ pipe = <<>> /\ wstate = "idle" /\ row = 1 /\ leaf = 0
  /\ Early \/ pc = "running" =>
       /\ received = <<>> /\ pos = 1 /\ rows = 0 /\ lastLeaf = 0
       /\ found = {} /\ rejected = {} /\ workerError = "no"
  /\ pc = "parse" => workerError \in {"no", "cleanup_exceeded", "worker_fault"}
  /\ pc = "conclude" => workerError = "invalid_worker_response"

(* sent enumerates the scheduled leaves, and the schedule the rules.         *)
PrepInv ==
  /\ \A p \in 1 .. Len(sent) : sent[p] \in scheduled
  /\ \A l \in scheduled : \E p \in 1 .. Len(sent) : sent[p] = l
  /\ accepted \subseteq Runnable
  /\ Early => Runnable \subseteq todo \cup accepted
  /\ \A i \in 1 .. Len(wire) : wire[i] \in Runnable
  /\ ~Early /\ workerError \notin {"too_many_leaves", "too_many_rules", "bundle_too_large"} =>
       \A r \in Runnable : \E i \in 1 .. Len(wire) : wire[i] = r

(* The byte allowance that declined or cut a leaf is used up.                *)
AllowanceInv == remaining = 0 \/ (scheduled = 1 .. capped /\ truncated = {})

IsHit(i, p)    == job.verdict[wire[i]][sent[p]] = "hit"
Expected(i, p) == sent[p] \notin truncated /\ IsHit(i, p)
Sound(i, p)    == sent[p] \notin truncated => IsHit(i, p)

(* A line of the shipped worker. *)
FrameOK(f) ==
  /\ f.tag \in {"hit", "done", "err"}
  /\ f.row \in 1 .. Len(wire)
  /\ f.tag = "hit" => f.arg \in 1 .. Stride /\ Sound(f.row, f.arg)
  /\ f.tag = "done" => f.arg = Stride

(* Two lines it writes one after the other. *)
Follows(f, g) ==
  /\ f.tag = "hit" => g.row = f.row /\ (g.tag = "hit" => f.arg < g.arg)
  /\ f.tag # "hit" => g.row = f.row + 1

LinesOK == \A q \in 1 .. Len(pipe) : FrameOK(pipe[q])

(* A "done" line comes after every hit of its row. *)
Covered ==
  \A q \in 1 .. Len(pipe) : pipe[q].tag = "done" =>
    \A p \in 1 .. Stride : Expected(pipe[q].row, p) =>
      \E k \in 1 .. q - 1 : pipe[k] = HitFrame(pipe[q].row, p)

(* The row in progress: its hits so far are written. *)
InProgress ==
  /\ leaf <= Stride + 1 /\ row <= Len(wire) + 1
  /\ row = Len(wire) + 1 => leaf = 0
  /\ wstate = "exited" => row = Len(wire) + 1
  /\ \A p \in 1 .. leaf - 1 : Expected(row, p) =>
       \E k \in 1 .. Len(pipe) : pipe[k] = HitFrame(row, p)

(* The lines form one ascending sweep that ends where the worker is. *)
Chained ==
  /\ \A q \in 1 .. Len(pipe) - 1 : Follows(pipe[q], pipe[q + 1])
  /\ Len(pipe) = 0 => row = 1
  /\ Len(pipe) > 0 => pipe[1].row = 1
  /\ Len(pipe) > 0 /\ pipe[Len(pipe)].tag = "hit" =>
       pipe[Len(pipe)].row = row /\ pipe[Len(pipe)].arg < leaf
  /\ Len(pipe) > 0 /\ pipe[Len(pipe)].tag # "hit" => pipe[Len(pipe)].row = row - 1

StreamInv == Honest => LinesOK /\ Covered /\ InProgress /\ Chained

ReplyInv == IsPrefixOf(received, pipe)

(* The parser, whoever wrote the stream. *)
CursorInv ==
  /\ pos <= Len(received) + 1 /\ rows <= Len(wire) /\ lastLeaf <= Stride
  /\ pos = 1 => rows = 0 /\ lastLeaf = 0
  /\ pos > 1 /\ received[pos - 1].tag = "hit" =>
       rows = received[pos - 1].row - 1 /\ lastLeaf = received[pos - 1].arg
  /\ pos > 1 /\ received[pos - 1].tag # "hit" =>
       rows = received[pos - 1].row /\ lastLeaf = 0
  /\ \A q \in 1 .. pos - 1 :
       \/ received[q].row <= rows
       \/ received[q].row = rows + 1 /\ received[q].tag = "hit" /\ received[q].arg <= lastLeaf

FoundInv ==
  /\ \A x \in found : \E q \in 1 .. pos - 1 :
       /\ received[q].tag = "hit"
       /\ received[q].row \in 1 .. Len(wire) /\ received[q].arg \in 1 .. Stride
       /\ x = <<wire[received[q].row], sent[received[q].arg]>>
  /\ \A q \in 1 .. pos - 1 : received[q].tag = "hit" =>
       <<wire[received[q].row], sent[received[q].arg]>> \in found

RowsInv ==
  /\ \A i \in rejected : i \in 1 .. rows /\ wire[i] \in errors
  /\ \A i \in 1 .. rows : i \in rejected \/ \E q \in 1 .. pos - 1 : received[q] = DoneFrame(i, Stride)

IInv == /\ TypeOK /\ PhaseInv /\ PrepInv /\ AllowanceInv /\ StreamInv /\ ReplyInv
        /\ CursorInv /\ FoundInv /\ RowsInv
        /\ AcceptedIsRowMajor /\ HonestStreamAccepted

-----------------------------------------------------------------------------
(* The initial state. *)

LEMMA InitInv == Init => IInv
<1> SUFFICES ASSUME Init PROVE IInv
  OBVIOUS
<1>1. TypeOK
  BY InitTypeOK
<1>2. job.offered \in Nat /\ job.bundle \subseteq Rules
  BY <1>1, JobFacts DEF TypeOK
<1>3. PhaseInv /\ PrepInv /\ AllowanceInv
  BY <1>2 DEF Init, PhaseInv, PrepInv, AllowanceInv, Early, Runnable
<1>4. StreamInv
  BY <1>2 DEF Init, StreamInv, LinesOK, Covered, InProgress, Chained, Stride
<1>5. ReplyInv /\ CursorInv /\ FoundInv /\ RowsInv /\ AcceptedIsRowMajor /\ HonestStreamAccepted
  BY DEF Init, ReplyInv, IsPrefixOf, CursorInv, FoundInv, RowsInv, AcceptedIsRowMajor,
         HonestStreamAccepted, Stride
<1> QED
  BY <1>1, <1>3, <1>4, <1>5 DEF IInv

(* While the parent prepares, there is no stream to speak of. *)
Blank == /\ pipe = <<>> /\ wstate = "idle" /\ row = 1 /\ leaf = 0
         /\ received = <<>> /\ pos = 1 /\ rows = 0 /\ lastLeaf = 0
         /\ found = {} /\ rejected = {}

LEMMA NoStream ==
  TypeOK /\ Blank => StreamInv /\ ReplyInv /\ CursorInv /\ FoundInv /\ RowsInv /\ AcceptedIsRowMajor
<1> SUFFICES ASSUME TypeOK, Blank
             PROVE  StreamInv /\ ReplyInv /\ CursorInv /\ FoundInv /\ RowsInv /\ AcceptedIsRowMajor
  OBVIOUS
<1>1. Stride \in Nat /\ Len(wire) \in Nat
  BY DEF Stride, TypeOK, PrepTypeOK
<1>2. StreamInv
  BY <1>1 DEF Blank, StreamInv, LinesOK, Covered, InProgress, Chained
<1> QED
  BY <1>1, <1>2 DEF Blank, ReplyInv, IsPrefixOf, CursorInv, FoundInv, RowsInv, AcceptedIsRowMajor

LEMMA NoStreamNext ==
  (TypeOK /\ Blank)' =>
    (StreamInv /\ ReplyInv /\ CursorInv /\ FoundInv /\ RowsInv /\ AcceptedIsRowMajor)'
  BY NoStream, PTL

-----------------------------------------------------------------------------
(* The steps that prepare the call. *)

LEMMA PrepareStep == IInv /\ Prepare => IInv'
<1> SUFFICES ASSUME IInv, Prepare PROVE IInv'
  OBVIOUS
<1>1. TypeOK /\ TypeOK' /\ Early /\ UNCHANGED job
  BY PrepareTypeOK DEF IInv, Prepare, CheckLeafCount, CapLeaf, CheckRuleCount, WireRule, Schedule, Early
<1>2. Blank /\ workerError = "no" /\ wire = <<>>
  BY <1>1 DEF IInv, PhaseInv, Blank
<1>3. Blank' /\ (Early' => wire' = <<>> /\ workerError' = "no") /\ pc' \notin {"parse", "conclude"}
      /\ (pc' = "running" => workerError' = "no")
      /\ workerError' \in {"no", "too_many_leaves", "too_many_rules", "bundle_too_large"}
  <2>1. UNCHANGED <<pipe, wstate, row, leaf, received, pos, rows, lastLeaf, found, rejected>>
    BY DEF Prepare, CheckLeafCount, CapLeaf, CheckRuleCount, WireRule, Schedule,
           workerVars, replyVars, parseVars
  <2>2. /\ Early' => wire' = <<>> /\ workerError' = "no"
        /\ pc' \notin {"parse", "conclude"}
        /\ pc' = "running" => workerError' = "no"
        /\ workerError' \in {"no", "too_many_leaves", "too_many_rules", "bundle_too_large"}
    <3>1. CASE CheckLeafCount
      BY <1>2, <3>1 DEF CheckLeafCount, Return, Early, prepVars
    <3>2. CASE CapLeaf
      BY <1>2, <3>2 DEF CapLeaf, Early
    <3>3. CASE CheckRuleCount
      BY <1>2, <3>3 DEF CheckRuleCount, Return, Early, prepVars
    <3>4. ASSUME NEW r \in Rules, WireRule(r)
          PROVE  /\ Early' => wire' = <<>> /\ workerError' = "no"
                 /\ pc' \notin {"parse", "conclude"}
                 /\ pc' = "running" => workerError' = "no"
                 /\ workerError' \in {"no", "too_many_leaves", "too_many_rules", "bundle_too_large"}
      BY <1>2, <3>4 DEF WireRule, Return, Early
    <3>5. CASE Schedule
      BY <1>2, <3>5 DEF Schedule, Return, Early
    <3> QED
      BY <3>1, <3>2, <3>3, <3>4, <3>5 DEF Prepare
  <2> QED
    BY <1>2, <2>1, <2>2 DEF Blank
<1>4. PhaseInv'
  BY <1>3 DEF PhaseInv, Blank
<1>5. (StreamInv /\ ReplyInv /\ CursorInv /\ FoundInv /\ RowsInv /\ AcceptedIsRowMajor)'
  BY <1>1, <1>3, NoStreamNext
<1>6. HonestStreamAccepted'
  BY <1>3 DEF HonestStreamAccepted
<1>7. AllowanceInv'
  <2>1. CASE CapLeaf
    <3>1. capped \in Nat /\ remaining \in Nat /\ job.size[capped + 1] \in Nat
      <4>1. /\ job.offered \in 0 .. NumLeaves /\ NumLeaves \in Nat
            /\ job.size \in [1 .. NumLeaves -> Nat]
        BY <1>1, JobFacts, LeavesAssumption DEF LeavesAssumption, TypeOK
      <4>2. capped + 1 \in 1 .. NumLeaves /\ capped \in Nat
        BY <1>1, <2>1, <4>1 DEF TypeOK, PrepTypeOK, CapLeaf
      <4> QED
        BY <1>1, <4>1, <4>2 DEF TypeOK, PrepTypeOK
    <3>2. \/ remaining = 0 /\ remaining' = 0
          \/ remaining' = 0
          \/ /\ scheduled' = scheduled \cup {capped + 1} /\ truncated' = truncated
             /\ capped' = capped + 1 /\ remaining # 0
      BY <2>1, <3>1 DEF CapLeaf, Debit
    <3>3. scheduled = 1 .. capped => scheduled \cup {capped + 1} = 1 .. capped + 1
      BY <3>1
    <3> QED
      BY <3>2, <3>3 DEF IInv, AllowanceInv
  <2>2. CASE ~CapLeaf
    <3>1. UNCHANGED <<remaining, capped, scheduled, truncated>>
      BY <2>2 DEF Prepare, CheckLeafCount, CheckRuleCount, WireRule, Schedule, prepVars
    <3> QED
      BY <3>1 DEF IInv, AllowanceInv
  <2> QED
    BY <2>1, <2>2
<1>8. PrepInv'
  <2>1. CASE CheckLeafCount \/ CheckRuleCount
    <3>1. /\ UNCHANGED <<job, scheduled, sent, todo, accepted, wire>>
          /\ Early' \/ workerError' \in {"too_many_leaves", "too_many_rules"}
      BY <2>1 DEF CheckLeafCount, CheckRuleCount, Return, Early, prepVars
    <3> QED
      BY <1>1, <3>1 DEF IInv, PrepInv, Runnable
  <2>2. CASE CapLeaf
    <3>1. /\ UNCHANGED <<job, pc, todo, accepted, wire>>
          /\ \/ UNCHANGED <<scheduled, sent>>
             \/ scheduled' = scheduled \cup {capped + 1} /\ sent' = Append(sent, capped + 1)
      BY <2>2 DEF CapLeaf
    <3>2. sent \in Seq(1 .. capped) /\ Len(sent) \in Nat
      BY <1>1 DEF TypeOK, PrepTypeOK
    <3>3. ASSUME sent' = Append(sent, capped + 1)
          PROVE  /\ Len(sent') = Len(sent) + 1 /\ sent'[Len(sent) + 1] = capped + 1
                 /\ \A p \in 1 .. Len(sent) : sent'[p] = sent[p]
      BY <3>2, <3>3
    <3>4. /\ \A p \in 1 .. Len(sent') : sent'[p] \in scheduled'
          /\ \A l \in scheduled' : \E p \in 1 .. Len(sent') : sent'[p] = l
      BY <3>1, <3>2, <3>3 DEF IInv, PrepInv
    <3> QED
      BY <1>1, <3>1, <3>4 DEF IInv, PrepInv, Runnable, Early
  <2>3. ASSUME NEW r \in Rules, WireRule(r)
        PROVE  PrepInv'
    <3>1. UNCHANGED <<job, scheduled, sent, wire>>
      BY <2>3 DEF WireRule
    <3>2. /\ todo' = todo \ {r} /\ r \in job.bundle
          /\ \/ r \notin Runnable /\ UNCHANGED <<pc, accepted>>
             \/ accepted' = {} /\ pc' = "returned" /\ workerError' = "bundle_too_large"
             \/ r \in Runnable /\ accepted' = accepted \cup {r} /\ UNCHANGED pc
      BY <1>1, <2>3 DEF WireRule, Return, Runnable, TypeOK, PrepTypeOK
    <3>3. Runnable' = Runnable
      BY <3>1 DEF Runnable
    <3> QED
      BY <1>1, <3>1, <3>2, <3>3 DEF IInv, PrepInv, Early
  <2>4. CASE Schedule
    <3>1. /\ UNCHANGED <<job, scheduled, sent, todo, accepted>> /\ todo = {} /\ ~Early'
          /\ \E s \in Sorted(accepted) : wire' = s
      BY <2>4 DEF Schedule, Return, Early
    <3>2. accepted \subseteq job.bundle /\ Runnable' = Runnable /\ Runnable \subseteq accepted
      BY <1>1, <3>1 DEF TypeOK, PrepTypeOK, IInv, PrepInv, Runnable
    <3>3. /\ \A r \in accepted : \E i \in 1 .. Len(wire') : wire'[i] = r
          /\ \A i \in 1 .. Len(wire') : wire'[i] \in accepted
      BY <1>1, <3>1, <3>2, SortedType DEF TypeOK
    <3> QED
      BY <3>1, <3>2, <3>3 DEF IInv, PrepInv
  <2> QED
    BY <2>1, <2>2, <2>3, <2>4 DEF Prepare
<1> QED
  BY <1>1, <1>4, <1>5, <1>6, <1>7, <1>8 DEF IInv

-----------------------------------------------------------------------------
(* The steps of the worker. *)

(* Parts of the invariant that depend on what the worker does not touch. *)
LEMMA WorkerKeeps ==
  ASSUME IInv, UNCHANGED WorkerFrame, pc = "running"
  PROVE  /\ PhaseInv' /\ PrepInv' /\ AllowanceInv' /\ CursorInv' /\ FoundInv' /\ RowsInv'
         /\ AcceptedIsRowMajor' /\ HonestStreamAccepted'
<1>1. UNCHANGED <<job, pc, remaining, capped, scheduled, truncated, sent, todo, accepted, wire,
                  received, cancelled, returncode, pos, rows, lastLeaf, found, rejected,
                  errors, workerError>>
  BY DEF WorkerFrame, prepVars, replyVars, parseVars
<1>2. PhaseInv' /\ PrepInv' /\ AllowanceInv' /\ HonestStreamAccepted'
  BY <1>1 DEF IInv, PhaseInv, PrepInv, AllowanceInv, HonestStreamAccepted, Early, Runnable
<1>3. CursorInv' /\ FoundInv' /\ RowsInv' /\ AcceptedIsRowMajor'
  BY <1>1 DEF IInv, CursorInv, FoundInv, RowsInv, AcceptedIsRowMajor, Stride
<1> QED
  BY <1>2, <1>3

(* One more line of the shipped worker's sweep. *)
LEMMA StreamAppend ==
  ASSUME TypeOK, LinesOK, Covered, InProgress, Chained,
         UNCHANGED <<job, wire, sent, truncated, wstate>>, wstate # "exited",
         row \in 1 .. Len(wire),
         NEW f \in Frame, pipe' = Append(pipe, f), FrameOK(f), f.row = row,
         f.tag = "hit" => f = HitFrame(row, leaf) /\ row' = row /\ leaf' = leaf + 1,
         f.tag # "hit" => row' = row + 1 /\ leaf' = 0,
         f.tag = "done" => leaf = Stride + 1,
         f.tag # "done" => leaf <= Stride
  PROVE  LinesOK' /\ Covered' /\ InProgress' /\ Chained'
<1> DEFINE n == Len(pipe)
<1>1. /\ pipe \in Seq(Frame) /\ n \in Nat /\ row \in Nat \ {0} /\ leaf \in Nat
      /\ Stride \in Nat /\ Len(wire) \in Nat /\ Stride' = Stride
      /\ f.arg \in Nat /\ f.tag \in {"hit", "done", "err"}
  <2>1. pipe \in Seq(Frame) /\ n \in Nat /\ row \in Nat \ {0} /\ leaf \in Nat
    BY DEF TypeOK, WorkerTypeOK
  <2>2. Stride \in Nat /\ Len(wire) \in Nat /\ Stride' = Stride
    BY DEF TypeOK, PrepTypeOK, Stride
  <2>3. f.arg \in Nat /\ f.tag \in {"hit", "done", "err"}
    BY FrameTypes DEF FrameOK
  <2> QED
    BY <2>1, <2>2, <2>3
<1>2. /\ Len(pipe') = n + 1 /\ pipe'[n + 1] = f
      /\ \A q \in 1 .. n : pipe'[q] = pipe[q]
  BY <1>1
<1> HIDE DEF n
<1>0. n \in Nat /\ leaf \in Nat
  BY <1>1
<1>3. LinesOK'
  <2>1. \A g : FrameOK(g) => FrameOK(g)'
    BY <1>1 DEF FrameOK, Sound, IsHit
  <2>2. \A q \in 1 .. n : FrameOK(pipe[q])
    BY DEF LinesOK, n
  <2>3. ASSUME NEW q \in 1 .. n + 1
        PROVE  FrameOK(pipe'[q])
    <3>1. q = n + 1 \/ q \in 1 .. n
      BY <1>1
    <3> QED
      BY <1>2, <2>2, <3>1
  <2> QED
    BY <1>2, <2>1, <2>3 DEF LinesOK
<1>4. Covered'
  <2>1. ASSUME NEW q \in 1 .. n + 1, pipe'[q].tag = "done",
               NEW p \in 1 .. Stride, Expected(pipe'[q].row, p)
        PROVE  \E k \in 1 .. q - 1 : pipe'[k] = HitFrame(pipe'[q].row, p)
    <3>1. CASE q \in 1 .. n
      <4>1. pipe[q].tag = "done" /\ Expected(pipe[q].row, p) /\ pipe'[q] = pipe[q]
        BY <1>2, <2>1, <3>1
      <4>2. PICK k \in 1 .. q - 1 : pipe[k] = HitFrame(pipe[q].row, p)
        BY <2>1, <3>1, <4>1 DEF Covered, n
      <4>3. k \in 1 .. n
        BY <1>1, <3>1
      <4> QED
        BY <1>2, <4>1, <4>2, <4>3
    <3>2. CASE q = n + 1
      <4>1. leaf = Stride + 1 /\ pipe'[q].row = row
        BY <1>2, <2>1, <3>2
      <4>2. \E k \in 1 .. n : pipe[k] = HitFrame(row, p)
        <5>1. p \in 1 .. leaf - 1 /\ Expected(row, p)
          BY <1>1, <2>1, <4>1
        <5> QED
          BY <5>1 DEF InProgress, n
      <4> QED
        BY <1>1, <1>2, <3>2, <4>1, <4>2
    <3>3. q \in 1 .. n \/ q = n + 1
      BY <1>0
    <3> QED
      BY <3>1, <3>2, <3>3
  <2>2. \A i, p : Expected(i, p)' => Expected(i, p)
    BY DEF Expected, IsHit
  <2> QED
    BY <1>1, <1>2, <2>1, <2>2 DEF Covered
<1>5. InProgress'
  <2>1. \A i, p : Expected(i, p)' => Expected(i, p)
    BY DEF Expected, IsHit
  <2>2. CASE f.tag = "hit"
    <3>1. leaf' = leaf + 1 /\ row' = row /\ leaf <= Stride /\ f = HitFrame(row, leaf)
      BY <2>2
    <3>2. ASSUME NEW p \in 1 .. leaf, Expected(row, p)
          PROVE  \E k \in 1 .. n + 1 : pipe'[k] = HitFrame(row, p)
      <4>1. CASE p = leaf
        BY <1>1, <1>2, <3>1, <4>1
      <4>2. CASE p \in 1 .. leaf - 1
        <5>1. PICK k \in 1 .. n : pipe[k] = HitFrame(row, p)
          BY <3>2, <4>2 DEF InProgress, n
        <5>2. k \in 1 .. n + 1 /\ pipe'[k] = pipe[k]
          BY <1>1, <1>2
        <5> QED
          BY <5>1, <5>2
      <4>3. p = leaf \/ p \in 1 .. leaf - 1
        BY <1>0
      <4> QED
        BY <4>1, <4>2, <4>3
    <3> QED
      BY <1>1, <1>2, <2>1, <3>1, <3>2 DEF InProgress
  <2>3. CASE f.tag # "hit"
    BY <1>1, <1>2, <2>3 DEF InProgress
  <2> QED
    BY <2>2, <2>3
<1>6. Chained'
  <2>1. n > 0 => Follows(pipe[n], f)
    BY <1>1, <1>2 DEF Chained, Follows, n, LinesOK, FrameOK, HitFrame
  <2>2. ASSUME NEW q \in 1 .. n
        PROVE  Follows(pipe'[q], pipe'[q + 1])
    <3>1. CASE q \in 1 .. n - 1
      <4>1. q \in 1 .. n /\ q + 1 \in 1 .. n
        BY <1>1, <3>1
      <4>2. Follows(pipe[q], pipe[q + 1])
        BY <3>1 DEF Chained, n
      <4> QED
        BY <1>2, <4>1, <4>2
    <3>2. CASE q = n
      BY <1>1, <1>2, <2>1, <3>2
    <3>3. q \in 1 .. n - 1 \/ q = n
      BY <1>0
    <3> QED
      BY <3>1, <3>2, <3>3
  <2>3. pipe'[1].row = 1
    BY <1>1, <1>2 DEF Chained, n
  <2>4. /\ f.tag = "hit" => f.row = row' /\ f.arg < leaf'
        /\ f.tag # "hit" => f.row = row' - 1
    BY <1>1 DEF HitFrame
  <2> QED
    BY <1>1, <1>2, <2>2, <2>3, <2>4 DEF Chained, Follows
<1> QED
  BY <1>3, <1>4, <1>5, <1>6

(* A step of the worker that writes nothing. *)
LEMMA StreamSilent ==
  ASSUME TypeOK, StreamInv, UNCHANGED <<job, wire, sent, truncated, pipe>>,
         Honest => \/ UNCHANGED <<row, leaf>> /\ (wstate' = "exited" => row = Len(wire) + 1)
                   \/ /\ row \in 1 .. Len(wire) /\ leaf <= Stride /\ row' = row
                      /\ leaf' = leaf + 1 /\ wstate' # "exited"
                      /\ leaf \in 1 .. Stride => ~Expected(row, leaf)
  PROVE  StreamInv'
<1> SUFFICES ASSUME Honest PROVE StreamInv'
  BY DEF StreamInv, Honest
<1>1. /\ pipe \in Seq(Frame) /\ row \in Nat \ {0} /\ leaf \in Nat
      /\ Stride \in Nat /\ Len(wire) \in Nat /\ Stride' = Stride
  BY DEF TypeOK, WorkerTypeOK, PrepTypeOK, Stride
<1>2. LinesOK' /\ Covered'
  <2>1. \A g : FrameOK(g) <=> FrameOK(g)'
    BY <1>1 DEF FrameOK, Sound, IsHit
  <2>2. \A i, p : Expected(i, p)' <=> Expected(i, p)
    BY DEF Expected, IsHit
  <2>3. LinesOK'
    BY <2>1 DEF StreamInv, LinesOK
  <2>4. Covered'
    BY <1>1, <2>2 DEF StreamInv, Covered
  <2> QED
    BY <2>3, <2>4
<1>3. InProgress'
  <2>1. \A i, p : Expected(i, p)' <=> Expected(i, p)
    BY DEF Expected, IsHit
  <2>2. CASE UNCHANGED <<row, leaf>> /\ (wstate' = "exited" => row = Len(wire) + 1)
    BY <1>1, <2>1, <2>2 DEF StreamInv, InProgress
  <2>3. CASE /\ row \in 1 .. Len(wire) /\ leaf <= Stride /\ row' = row
             /\ leaf' = leaf + 1 /\ wstate' # "exited"
             /\ leaf \in 1 .. Stride => ~Expected(row, leaf)
    <3>1. ASSUME NEW p \in 1 .. leaf, Expected(row, p)
          PROVE  \E k \in 1 .. Len(pipe) : pipe[k] = HitFrame(row, p)
      <4>1. p # leaf
        BY <1>1, <2>3, <3>1
      <4>2. p \in 1 .. leaf - 1
        BY <1>1, <4>1
      <4> QED
        BY <3>1, <4>2 DEF StreamInv, InProgress
    <3> QED
      BY <1>1, <2>1, <2>3, <3>1 DEF InProgress
  <2> QED
    BY <2>2, <2>3
<1>4. Chained'
  <2>1. \/ row' = row /\ leaf' = leaf
        \/ row' = row /\ leaf' = leaf + 1
    OBVIOUS
  <2> QED
    BY <1>1, <2>1, FrameTypes DEF StreamInv, Chained, Follows
<1> QED
  BY <1>2, <1>3, <1>4 DEF StreamInv

LEMMA WorkerStep == IInv /\ Worker => IInv'
<1> SUFFICES ASSUME IInv, Worker PROVE IInv'
  OBVIOUS
<1>1. TypeOK /\ TypeOK' /\ pc = "running" /\ UNCHANGED WorkerFrame
  BY WorkerTypeStep
     DEF IInv, Worker, Launch, Working, Refuse, Compile, Search, FinishRow, Exit, Crash, Arbitrary
<1>2. UNCHANGED <<job, wire, sent, truncated, received>> /\ Stride' = Stride
  BY <1>1 DEF WorkerFrame, prepVars, replyVars, Stride
<1>3. /\ pipe \in Seq(Frame) /\ row \in Nat \ {0} /\ leaf \in Nat
      /\ Stride \in Nat /\ Len(wire) \in Nat /\ received = <<>>
  BY <1>1 DEF TypeOK, WorkerTypeOK, PrepTypeOK, Stride, IInv, PhaseInv
<1>4. ReplyInv'
  BY <1>1, <1>2, <1>3 DEF ReplyInv, IsPrefixOf, TypeOK, WorkerTypeOK
<1>5. StreamInv'
  <2>1. CASE Launch \/ Refuse \/ Crash \/ Exit
    <3>1. /\ UNCHANGED <<row, leaf, pipe>> /\ (wstate' = "exited" => row > Len(wire))
      BY <2>1 DEF Launch, Refuse, Crash, Exit
    <3>2. Honest => row <= Len(wire) + 1
      BY DEF IInv, StreamInv, InProgress
    <3> QED
      BY <1>1, <1>2, <1>3, <3>1, <3>2, StreamSilent DEF IInv
  <2>2. CASE Arbitrary
    BY <1>2, <2>2 DEF Arbitrary, StreamInv, Honest
  <2>3. CASE Compile
    <3>1. row \in 1 .. Len(wire) /\ leaf = 0 /\ wstate = "running" /\ wstate' = wstate
      BY <1>3, <2>3 DEF Compile, Working
    <3>2. CASE leaf' = 1 /\ UNCHANGED <<row, pipe>>
      BY <1>1, <1>2, <1>3, <3>1, <3>2, StreamSilent DEF IInv
    <3>3. CASE pipe' = Append(pipe, ErrFrame(row)) /\ NextRow
      <4> DEFINE f == ErrFrame(row)
      <4>1. f \in Frame /\ f.tag = "err" /\ f.row = row /\ FrameOK(f)
        BY <3>1, <1>3, FrameTypes DEF ErrFrame, FrameOK
      <4> HIDE DEF f
      <4>2. pipe' = Append(pipe, f) /\ row' = row + 1 /\ leaf' = 0
        BY <3>3 DEF NextRow, f
      <4>3. Honest => LinesOK' /\ Covered' /\ InProgress' /\ Chained'
        BY <1>1, <1>2, <1>3, <3>1, <4>1, <4>2, StreamAppend DEF IInv, StreamInv
      <4> QED
        BY <1>2, <4>3 DEF StreamInv, Honest
    <3> QED
      BY <2>3, <3>2, <3>3 DEF Compile
  <2>4. CASE Search
    <3>1. /\ row \in 1 .. Len(wire) /\ leaf \in 1 .. Stride /\ wstate = "running" /\ wstate' = wstate
          /\ leaf <= Stride
      BY <1>3, <2>4 DEF Search, Working
    <3>2. PICK v \in Outcomes(wire[row], sent[leaf]) :
            \/ /\ v = "hit"
               /\ pipe' = Append(pipe, HitFrame(row, leaf))
               /\ leaf' = leaf + 1
               /\ UNCHANGED row
            \/ /\ v = "miss"
               /\ leaf' = leaf + 1
               /\ UNCHANGED <<row, pipe>>
            \/ /\ v = "raise"
               /\ pipe' = Append(pipe, ErrFrame(row))
               /\ NextRow
      BY <2>4 DEF Search
    <3>3. CASE v = "hit"
      <4> DEFINE f == HitFrame(row, leaf)
      <4>1. Sound(row, leaf)
        BY <3>2, <3>3 DEF Outcomes, Sound, IsHit
      <4>2. f \in Frame /\ f.tag = "hit" /\ f.row = row /\ FrameOK(f) /\ f = HitFrame(row, leaf)
        BY <1>3, <3>1, <4>1, FrameTypes DEF HitFrame, FrameOK
      <4> HIDE DEF f
      <4>3. pipe' = Append(pipe, f) /\ row' = row /\ leaf' = leaf + 1
        BY <3>2, <3>3, <4>2
      <4>4. Honest => LinesOK' /\ Covered' /\ InProgress' /\ Chained'
        BY <1>1, <1>2, <1>3, <3>1, <4>2, <4>3, StreamAppend DEF IInv, StreamInv
      <4> QED
        BY <1>2, <4>4 DEF StreamInv, Honest
    <3>4. CASE v = "miss"
      <4>1. ~Expected(row, leaf)
        BY <3>2, <3>4 DEF Outcomes, Expected, IsHit
      <4> QED
        BY <1>1, <1>2, <1>3, <3>1, <3>2, <3>4, <4>1, StreamSilent DEF IInv
    <3>5. CASE v = "raise"
      <4> DEFINE f == ErrFrame(row)
      <4>1. f \in Frame /\ f.tag = "err" /\ f.row = row /\ FrameOK(f)
        BY <3>1, <1>3, FrameTypes DEF ErrFrame, FrameOK
      <4> HIDE DEF f
      <4>2. pipe' = Append(pipe, f) /\ row' = row + 1 /\ leaf' = 0
        BY <3>2, <3>5 DEF NextRow, f
      <4>3. Honest => LinesOK' /\ Covered' /\ InProgress' /\ Chained'
        BY <1>1, <1>2, <1>3, <3>1, <4>1, <4>2, StreamAppend DEF IInv, StreamInv
      <4> QED
        BY <1>2, <4>3 DEF StreamInv, Honest
    <3> QED
      BY <3>2, <3>3, <3>4, <3>5
  <2>5. CASE FinishRow
    <3>1. /\ row \in 1 .. Len(wire) /\ leaf = Stride + 1 /\ wstate = "running" /\ wstate' = wstate
      BY <1>3, <2>5 DEF FinishRow, Swept, Working
    <3> DEFINE f == DoneFrame(row, Stride)
    <3>2. f \in Frame /\ f.tag = "done" /\ f.row = row /\ FrameOK(f)
      BY <3>1, <1>3, FrameTypes DEF DoneFrame, FrameOK
    <3> HIDE DEF f
    <3>3. pipe' = Append(pipe, f) /\ row' = row + 1 /\ leaf' = 0
      BY <2>5 DEF FinishRow, NextRow, f
    <3>4. Honest => LinesOK' /\ Covered' /\ InProgress' /\ Chained'
      BY <1>1, <1>2, <1>3, <3>1, <3>2, <3>3, StreamAppend DEF IInv, StreamInv
    <3> QED
      BY <1>2, <3>4 DEF StreamInv, Honest
  <2> QED
    BY <2>1, <2>2, <2>3, <2>4, <2>5 DEF Worker
<1> QED
  BY <1>1, <1>4, <1>5, WorkerKeeps DEF IInv

LEMMA ExpireStep == IInv /\ Expire => IInv'
<1> SUFFICES ASSUME IInv, Expire PROVE IInv'
  OBVIOUS
<1>1. TypeOK /\ TypeOK' /\ pc = "running" /\ wstate' \in {wstate, "killed"}
      /\ UNCHANGED <<job, pc, remaining, capped, scheduled, truncated, sent, todo, accepted, wire,
                     row, leaf, pipe, received, pos, rows, lastLeaf, found, rejected,
                     errors, workerError>>
  BY WorkerTypeStep DEF IInv, Expire, prepVars, parseVars
<1>2. PhaseInv' /\ PrepInv' /\ AllowanceInv' /\ HonestStreamAccepted' /\ ReplyInv'
  BY <1>1 DEF IInv, PhaseInv, PrepInv, AllowanceInv, HonestStreamAccepted, ReplyInv, IsPrefixOf,
              Early, Runnable
<1>3. CursorInv' /\ FoundInv' /\ RowsInv' /\ AcceptedIsRowMajor'
  <2>1. CursorInv'
    BY <1>1 DEF IInv, CursorInv, Stride
  <2>2. FoundInv'
    <3>1. FoundInv /\ UNCHANGED <<found, pos, received, wire, sent>>
      BY <1>1 DEF IInv
    <3> QED
      BY <3>1 DEF FoundInv, Stride
  <2>3. RowsInv'
    BY <1>1 DEF IInv, RowsInv, Stride
  <2>4. AcceptedIsRowMajor'
    BY <1>1 DEF IInv, AcceptedIsRowMajor
  <2> QED
    BY <2>1, <2>2, <2>3, <2>4
<1>4. StreamInv'
  <2>1. Honest => (wstate' = "exited" => row = Len(wire) + 1)
    BY <1>1 DEF IInv, StreamInv, InProgress
  <2> QED
    BY <1>1, <2>1, StreamSilent DEF IInv
<1> QED
  BY <1>1, <1>2, <1>3, <1>4 DEF IInv

-----------------------------------------------------------------------------
(* The reply and the parser. *)

LEMMA ReplyStep == IInv /\ RunWorkerReturns => IInv'
<1> SUFFICES ASSUME IInv, RunWorkerReturns PROVE IInv'
  OBVIOUS
<1>1. /\ TypeOK /\ TypeOK' /\ pc = "running" /\ pc' = "parse"
      /\ workerError' \in {workerError, "cleanup_exceeded", "worker_fault"}
      /\ UNCHANGED <<job, remaining, capped, scheduled, truncated, sent, todo, accepted, wire,
                     wstate, row, leaf, pipe, pos, rows, lastLeaf, found, rejected, errors>>
  BY ReplyTypeStep
     DEF IInv, RunWorkerReturns, ReplyFinished, ReplyGaveUp, ReplyNoProcess, ReplyFault,
         prepVars, workerVars, parseVars
<1>2. pos = 1 /\ rows = 0 /\ lastLeaf = 0 /\ found = {} /\ rejected = {} /\ workerError = "no"
  BY <1>1 DEF IInv, PhaseInv
<1>3. ReplyInv' /\ Len(received') \in Nat
  BY <1>1, ReceivedPrefix DEF ReplyInv, IsPrefixOf
<1>4. PhaseInv' /\ PrepInv' /\ AllowanceInv' /\ HonestStreamAccepted'
  BY <1>1, <1>2 DEF IInv, PhaseInv, PrepInv, AllowanceInv, HonestStreamAccepted, Early, Runnable
<1>5. CursorInv' /\ FoundInv' /\ RowsInv' /\ AcceptedIsRowMajor'
  <2>1. Len(wire) \in Nat /\ Stride \in Nat /\ Stride' = Stride
    BY <1>1 DEF TypeOK, PrepTypeOK, Stride
  <2> QED
    BY <1>1, <1>2, <1>3, <2>1 DEF CursorInv, FoundInv, RowsInv, AcceptedIsRowMajor
<1>6. StreamInv'
  <2>1. Honest => (wstate' = "exited" => row = Len(wire) + 1)
    BY <1>1 DEF IInv, StreamInv, InProgress
  <2> QED
    BY <1>1, <2>1, StreamSilent DEF IInv
<1> QED
  BY <1>1, <1>3, <1>4, <1>5, <1>6 DEF IInv

(* The parser accepts every line the shipped worker wrote. *)
LEMMA HonestFrameValid ==
  ASSUME IInv, Honest, pos \in 1 .. Len(received)
  PROVE  \/ ValidHit(received[pos]) \/ ValidDone(received[pos]) \/ ValidErr(received[pos])
<1> DEFINE f == received[pos]
           g == received[pos - 1]
<1>1. /\ received \in Seq(Frame) /\ pipe \in Seq(Frame) /\ Len(received) \in Nat /\ Len(pipe) \in Nat
      /\ pos \in Nat \ {0} /\ rows \in Nat /\ lastLeaf \in Nat /\ Stride \in Nat /\ Len(wire) \in Nat
  BY DEF IInv, TypeOK, ReplyTypeOK, WorkerTypeOK, ParseTypeOK, PrepTypeOK, Stride
<1>2. pos \in 1 .. Len(pipe) /\ f = pipe[pos] /\ Len(pipe) > 0
  BY <1>1 DEF IInv, ReplyInv, IsPrefixOf
<1>3. FrameOK(f)
  BY <1>2 DEF IInv, StreamInv, LinesOK
<1>4. /\ f.tag \in {"hit", "done", "err"} /\ f.row \in 1 .. Len(wire)
      /\ f.tag = "hit" => f.arg \in 1 .. Stride
      /\ f.tag = "done" => f.arg = Stride
  BY <1>3 DEF FrameOK
<1>5. f.row = rows + 1 /\ (f.tag = "hit" => lastLeaf < f.arg)
  <2>1. CASE pos = 1
    <3>1. rows = 0 /\ lastLeaf = 0 /\ pipe[1].row = 1
      BY <1>2, <2>1 DEF IInv, CursorInv, StreamInv, Chained
    <3> QED
      BY <1>1, <1>2, <1>4, <2>1, <3>1
  <2>2. CASE pos > 1
    <3>1. pos - 1 \in 1 .. Len(pipe) - 1 /\ pos - 1 \in 1 .. Len(received) /\ pos - 1 + 1 = pos
      BY <1>1, <1>2, <2>2
    <3>2. g = pipe[pos - 1] /\ Follows(g, f) /\ FrameOK(g)
      BY <1>2, <3>1 DEF IInv, ReplyInv, IsPrefixOf, StreamInv, Chained, LinesOK
    <3>3. g.row \in 1 .. Len(wire) /\ (g.tag = "hit" => g.arg \in 1 .. Stride)
      BY <3>2 DEF FrameOK
    <3>4. /\ g.tag = "hit" => rows = g.row - 1 /\ lastLeaf = g.arg
          /\ g.tag # "hit" => rows = g.row /\ lastLeaf = 0
      BY <2>2 DEF IInv, CursorInv
    <3> HIDE DEF f, g
    <3>5. CASE g.tag = "hit"
      BY <1>1, <1>4, <3>2, <3>3, <3>4, <3>5 DEF Follows
    <3>6. CASE g.tag # "hit"
      BY <1>1, <1>4, <3>2, <3>3, <3>4, <3>6 DEF Follows
    <3> QED
      BY <3>5, <3>6
  <2> QED
    BY <1>1, <2>1, <2>2
<1> HIDE DEF f
<1>6. InRow(f)
  BY <1>1, <1>4, <1>5 DEF InRow
<1>7. ValidHit(f) \/ ValidDone(f) \/ ValidErr(f)
  BY <1>4, <1>5, <1>6 DEF ValidHit, ValidDone, ValidErr
<1> QED
  BY <1>7 DEF f

(* One accepted line moves the cursor and nothing behind it. *)
LEMMA CursorStep ==
  ASSUME IInv, TypeOK', pos \in 1 .. Len(received), pos' = pos + 1,
         UNCHANGED <<job, received, wire, sent>>,
         InRow(received[pos]),
         \/ /\ received[pos].tag = "hit" /\ lastLeaf < received[pos].arg
            /\ received[pos].arg <= Stride
            /\ rows' = rows /\ lastLeaf' = received[pos].arg
         \/ received[pos].tag \in {"done", "err"} /\ rows' = rows + 1 /\ lastLeaf' = 0
  PROVE  CursorInv' /\ AcceptedIsRowMajor'
<1> DEFINE f == received[pos]
<1>1. /\ pos \in Nat \ {0} /\ rows \in Nat /\ lastLeaf \in Nat /\ Len(received) \in Nat
      /\ Stride \in Nat /\ Len(wire) \in Nat /\ Stride' = Stride
      /\ \A q \in 1 .. Len(received) : received[q].row \in Nat /\ received[q].arg \in Nat
  <2>1. received \in Seq(Frame)
    BY DEF IInv, TypeOK, ReplyTypeOK
  <2>2. \A q \in 1 .. Len(received) : received[q] \in Frame
    BY <2>1
  <2>3. \A q \in 1 .. Len(received) : received[q].row \in Nat /\ received[q].arg \in Nat
    BY <2>2, FrameTypes
  <2>4. pos \in Nat \ {0} /\ rows \in Nat /\ lastLeaf \in Nat /\ Stride \in Nat /\ Len(wire) \in Nat
    BY DEF IInv, TypeOK, ParseTypeOK, PrepTypeOK, Stride
  <2> QED
    BY <2>1, <2>3, <2>4 DEF Stride
<1>2. f.row = rows + 1 /\ rows < Len(wire)
  BY DEF InRow
<1>3. \A q \in 1 .. pos - 1 :
        \/ received[q].row <= rows
        \/ received[q].row = rows + 1 /\ received[q].tag = "hit" /\ received[q].arg <= lastLeaf
  BY DEF IInv, CursorInv
<1>4. \A q \in 1 .. pos : q = pos \/ q \in 1 .. pos - 1
  BY <1>1
<1>5. pos' - 1 = pos
  BY <1>1
<1>6. CursorInv'
  <2>1. ASSUME NEW q \in 1 .. pos
        PROVE  \/ received[q].row <= rows'
               \/ /\ received[q].row = rows' + 1 /\ received[q].tag = "hit"
                  /\ received[q].arg <= lastLeaf'
    <3>1. CASE q = pos
      BY <1>1, <1>2, <3>1
    <3>2. CASE q \in 1 .. pos - 1
      BY <1>1, <1>2, <1>3, <2>1, <3>2
    <3> QED
      BY <1>4, <3>1, <3>2
  <2>2. pos' <= Len(received) + 1 /\ rows' <= Len(wire) /\ lastLeaf' <= Stride /\ pos' # 1
    BY <1>1, <1>2
  <2>3. /\ f.tag = "hit" => rows' = f.row - 1 /\ lastLeaf' = f.arg
        /\ f.tag # "hit" => rows' = f.row /\ lastLeaf' = 0
    BY <1>1, <1>2
  <2>4. UNCHANGED <<received, wire>> /\ Stride' = Stride /\ received'[pos' - 1] = f
    BY <1>5 DEF Stride
  <2>5. /\ received'[pos' - 1].tag = "hit" =>
             rows' = received'[pos' - 1].row - 1 /\ lastLeaf' = received'[pos' - 1].arg
        /\ received'[pos' - 1].tag # "hit" => rows' = received'[pos' - 1].row /\ lastLeaf' = 0
    BY <2>3, <2>4
  <2>6. \A q \in 1 .. pos' - 1 :
          \/ received'[q].row <= rows'
          \/ /\ received'[q].row = rows' + 1 /\ received'[q].tag = "hit"
             /\ received'[q].arg <= lastLeaf'
    BY <1>5, <2>1, <2>4
  <2> QED
    BY <2>2, <2>4, <2>5, <2>6 DEF CursorInv
<1>7. AcceptedIsRowMajor'
  <2>1. ASSUME NEW p \in 1 .. pos, NEW q \in 1 .. pos, p < q
        PROVE  Before(received[p], received[q])
    <3>1. CASE q = pos
      <4>1. p \in 1 .. pos - 1
        BY <1>1, <2>1, <3>1
      <4>2. /\ received[p].row \in Nat /\ received[p].arg \in Nat /\ f.arg \in Nat
            /\ \/ received[p].row <= rows
               \/ /\ received[p].row = rows + 1 /\ received[p].tag = "hit"
                  /\ received[p].arg <= lastLeaf
        BY <1>1, <1>3, <4>1
      <4>3. f.tag = "hit" => lastLeaf < f.arg
        OBVIOUS
      <4> HIDE DEF f
      <4>4. Before(received[p], f)
        BY <1>1, <1>2, <4>2, <4>3 DEF Before
      <4> QED
        BY <3>1, <4>4 DEF f
    <3>2. CASE q \in 1 .. pos - 1
      <4>1. p \in 1 .. pos - 1
        BY <1>1, <2>1, <3>2
      <4> QED
        BY <2>1, <3>2, <4>1 DEF IInv, AcceptedIsRowMajor
    <3> QED
      BY <1>4, <3>1, <3>2
  <2>2. ASSUME NEW i \in 1 .. rows'
        PROVE  \E p \in 1 .. pos : received[p].row = i /\ received[p].tag \in {"done", "err"}
    <3>1. CASE i \in 1 .. rows
      <4>1. PICK p \in 1 .. pos - 1 : received[p].row = i /\ received[p].tag \in {"done", "err"}
        BY <3>1 DEF IInv, AcceptedIsRowMajor
      <4>2. pos \in Nat
        BY <1>1
      <4>3. p \in 1 .. pos
        BY <4>1, <4>2
      <4> QED
        BY <4>1, <4>3
    <3>2. CASE i \notin 1 .. rows
      <4>1. rows' = rows + 1 /\ i = rows + 1 /\ f.tag \in {"done", "err"}
        BY <1>1, <3>2
      <4> QED
        BY <1>1, <1>2, <4>1
    <3> QED
      BY <3>1, <3>2
  <2> QED
    BY <1>1, <1>5, <2>1, <2>2 DEF AcceptedIsRowMajor
<1> QED
  BY <1>6, <1>7

(* Parts of the invariant that depend on what the parser does not touch. *)
LEMMA ParserKeeps ==
  ASSUME IInv, pc \in {"parse", "conclude"}, ~Early', pc' # "running",
         UNCHANGED <<job, prepVars, workerVars, replyVars>>,
         \/ pc' = "parse" /\ UNCHANGED <<pc, workerError>>
         \/ pc' = "conclude" /\ workerError' = "invalid_worker_response"
         \/ pc' = "returned" /\ workerError' \in {workerError, "deadline_exceeded", "worker_failed"}
  PROVE  PhaseInv' /\ PrepInv' /\ AllowanceInv' /\ StreamInv' /\ ReplyInv'
<1>1. UNCHANGED <<job, remaining, capped, scheduled, truncated, sent, todo, accepted, wire,
                  wstate, row, leaf, pipe, received>>
  BY DEF prepVars, workerVars, replyVars
<1>2. PhaseInv' /\ AllowanceInv' /\ ReplyInv'
  <2>1. /\ pc' = "parse" => workerError' \in {"no", "cleanup_exceeded", "worker_fault"}
        /\ pc' = "conclude" => workerError' = "invalid_worker_response"
    BY DEF IInv, PhaseInv
  <2>2. PhaseInv'
    BY <2>1 DEF PhaseInv
  <2> QED
    BY <1>1, <2>2 DEF IInv, AllowanceInv, ReplyInv, IsPrefixOf
<1>3. StreamInv'
  <2>1. Honest => (wstate' = "exited" => row = Len(wire) + 1)
    BY <1>1 DEF IInv, StreamInv, InProgress
  <2> QED
    BY <1>1, <2>1, StreamSilent DEF IInv
<1>4. PrepInv'
  <2>1. ~Early /\ Runnable' = Runnable
    BY <1>1 DEF Early, Runnable
  <2>2. workerError \notin {"too_many_leaves", "too_many_rules", "bundle_too_large"}
    BY DEF IInv, PhaseInv
  <2> QED
    BY <1>1, <2>1, <2>2 DEF IInv, PrepInv
<1> QED
  BY <1>2, <1>3, <1>4

LEMMA ParseStep == IInv /\ ParseFrame => IInv'
<1> SUFFICES ASSUME IInv, ParseFrame PROVE IInv'
  OBVIOUS
<1> DEFINE f == received[pos]
<1>1. /\ TypeOK /\ TypeOK' /\ pc = "parse" /\ pos \in 1 .. Len(received)
      /\ TakeHit(f) \/ TakeDone(f) \/ TakeErr(f) \/ RejectFrame(f)
      /\ UNCHANGED <<job, prepVars, workerVars, replyVars>>
  BY ParseTypeStep DEF ParseFrame, IInv, TypeOK, ReplyTypeOK, ParseTypeOK
<1>2. UNCHANGED <<job, received, wire, sent>> /\ Stride' = Stride
  BY <1>1 DEF prepVars, replyVars, Stride
<1>3. /\ pos \in Nat \ {0} /\ rows \in Nat /\ Len(received) \in Nat /\ Stride \in Nat
      /\ Len(wire) \in Nat
  BY <1>1 DEF TypeOK, ReplyTypeOK, ParseTypeOK, PrepTypeOK, Stride
<1>4. \A q \in 1 .. pos : q = pos \/ q \in 1 .. pos - 1
  BY <1>3
<1>5. CASE TakeHit(f)
  <2>1. /\ ValidHit(f) /\ found' = found \cup {<<wire[f.row], sent[f.arg]>>} /\ lastLeaf' = f.arg
        /\ pos' = pos + 1 /\ UNCHANGED <<pc, rows, rejected, errors, workerError>>
    BY <1>5 DEF TakeHit, Finding
  <2>2. /\ InRow(f) /\ f.tag = "hit" /\ lastLeaf < f.arg /\ f.arg <= Stride
    BY <2>1 DEF ValidHit
  <2>3. CursorInv' /\ AcceptedIsRowMajor'
    BY <1>1, <1>2, <2>1, <2>2, CursorStep
  <2>4. PhaseInv' /\ PrepInv' /\ AllowanceInv' /\ StreamInv' /\ ReplyInv'
    BY <1>1, <2>1, ParserKeeps DEF Early
  <2>5. pos' - 1 = pos /\ pos - 1 \in Int /\ \A q \in 1 .. pos - 1 : q \in 1 .. pos
    BY <1>3, <2>1
  <2>6. FoundInv'
    <3>1. f.row \in 1 .. Len(wire) /\ f.arg \in 1 .. Stride
      <4>1. lastLeaf \in Nat /\ f \in Frame
        BY <1>1 DEF TypeOK, ReplyTypeOK, ParseTypeOK
      <4>2. f.arg \in Nat
        BY <4>1, FrameTypes
      <4> HIDE DEF f
      <4> QED
        BY <1>3, <2>2, <4>1, <4>2 DEF InRow
    <3>2. ASSUME NEW x \in found'
          PROVE  \E q \in 1 .. pos :
                    /\ received[q].tag = "hit"
                    /\ received[q].row \in 1 .. Len(wire) /\ received[q].arg \in 1 .. Stride
                    /\ x = <<wire[received[q].row], sent[received[q].arg]>>
      <4>1. CASE x \in found
        BY <2>5, <4>1 DEF IInv, FoundInv
      <4>2. CASE x = <<wire[f.row], sent[f.arg]>>
        BY <1>1, <1>3, <2>2, <3>1, <4>2
      <4> QED
        BY <2>1, <3>2, <4>1, <4>2
    <3>3. ASSUME NEW q \in 1 .. pos, received[q].tag = "hit"
          PROVE  <<wire[received[q].row], sent[received[q].arg]>> \in found'
      <4>1. CASE q = pos
        BY <2>1, <4>1
      <4>2. CASE q \in 1 .. pos - 1
        BY <2>1, <3>3, <4>2 DEF IInv, FoundInv
      <4> QED
        BY <1>4, <4>1, <4>2
    <3> QED
      BY <1>2, <2>5, <3>2, <3>3 DEF FoundInv
  <2>7. RowsInv'
    BY <1>2, <2>1, <2>5 DEF IInv, RowsInv
  <2>8. HonestStreamAccepted'
    BY <1>2, <2>1 DEF IInv, HonestStreamAccepted
  <2> QED
    BY <1>1, <2>3, <2>4, <2>6, <2>7, <2>8 DEF IInv
<1>6. CASE TakeDone(f) \/ TakeErr(f)
  <2>1. /\ InRow(f) /\ rows' = rows + 1 /\ lastLeaf' = 0 /\ pos' = pos + 1
        /\ UNCHANGED <<pc, found, workerError>>
        /\ \/ f.tag = "done" /\ f.arg = Stride /\ UNCHANGED <<rejected, errors>>
           \/ /\ f.tag = "err"
              /\ errors' = errors \cup {wire[f.row]} /\ rejected' = rejected \cup {f.row}
    BY <1>6 DEF TakeDone, TakeErr, ValidDone, ValidErr
  <2>2. f.row = rows + 1
    BY <2>1 DEF InRow
  <2>3. CursorInv' /\ AcceptedIsRowMajor'
    BY <1>1, <1>2, <2>1, CursorStep
  <2>4. PhaseInv' /\ PrepInv' /\ AllowanceInv' /\ StreamInv' /\ ReplyInv'
    BY <1>1, <2>1, ParserKeeps DEF Early
  <2>5. pos' - 1 = pos /\ pos - 1 \in Int /\ \A q \in 1 .. pos - 1 : q \in 1 .. pos
    BY <1>3, <2>1
  <2>6. FoundInv'
    BY <1>2, <1>4, <2>1, <2>5 DEF IInv, FoundInv
  <2>7. RowsInv'
    <3>1. ASSUME NEW i \in rejected'
          PROVE  i \in 1 .. rows' /\ wire[i] \in errors'
      <4>1. i \in rejected \/ (i = rows + 1 /\ wire[i] \in errors')
        <5>1. CASE UNCHANGED rejected
          BY <3>1, <5>1
        <5>2. CASE errors' = errors \cup {wire[f.row]} /\ rejected' = rejected \cup {f.row}
          BY <2>2, <3>1, <5>2
        <5> QED
          BY <2>1, <5>1, <5>2
      <4>2. i \in rejected => i \in 1 .. rows /\ wire[i] \in errors'
        BY <2>1 DEF IInv, RowsInv
      <4> QED
        BY <1>3, <2>1, <4>1, <4>2
    <3>2. ASSUME NEW i \in 1 .. rows', i \notin rejected'
          PROVE  \E q \in 1 .. pos : received[q] = DoneFrame(i, Stride)
      <4>1. CASE i \in 1 .. rows
        <5>1. i \notin rejected
          BY <2>1, <3>2
        <5> QED
          BY <2>5, <4>1, <5>1 DEF IInv, RowsInv
      <4>2. CASE i = rows + 1
        <5>1. f.tag = "done" /\ f.arg = Stride /\ f.row = i
          BY <2>1, <2>2, <3>2, <4>2
        <5>2. f = DoneFrame(i, Stride)
          <6>1. f \in Frame
            BY <1>1 DEF TypeOK, ReplyTypeOK
          <6> QED
            BY <5>1, <6>1 DEF Frame, DoneFrame
        <5> QED
          BY <1>3, <5>2
      <4>3. i \in 1 .. rows \/ i = rows + 1
        BY <1>3, <2>1
      <4> QED
        BY <4>1, <4>2, <4>3
    <3> QED
      BY <1>2, <2>5, <3>1, <3>2 DEF RowsInv
  <2>8. HonestStreamAccepted'
    BY <1>2, <2>1 DEF IInv, HonestStreamAccepted
  <2> QED
    BY <1>1, <2>3, <2>4, <2>6, <2>7, <2>8 DEF IInv
<1>7. CASE RejectFrame(f)
  <2>1. /\ pc' = "conclude" /\ workerError' = "invalid_worker_response"
        /\ UNCHANGED <<pos, rows, lastLeaf, found, rejected, errors>>
        /\ ~(ValidHit(f) \/ ValidDone(f) \/ ValidErr(f))
    BY <1>7 DEF RejectFrame, parseVars
  <2>2. ~Honest
    BY <1>1, <2>1, HonestFrameValid
  <2>3. HonestStreamAccepted'
    BY <1>2, <2>2 DEF Honest, HonestStreamAccepted
  <2>4. CursorInv' /\ FoundInv' /\ RowsInv' /\ AcceptedIsRowMajor'
    BY <1>2, <2>1 DEF IInv, CursorInv, FoundInv, RowsInv, AcceptedIsRowMajor
  <2>5. PhaseInv' /\ PrepInv' /\ AllowanceInv' /\ StreamInv' /\ ReplyInv'
    BY <1>1, <2>1, ParserKeeps DEF Early
  <2> QED
    BY <1>1, <2>3, <2>4, <2>5 DEF IInv
<1> QED
  BY <1>1, <1>5, <1>6, <1>7

LEMMA ConcludeStep == IInv /\ Conclude => IInv'
<1> SUFFICES ASSUME IInv, Conclude PROVE IInv'
  OBVIOUS
<1>1. /\ TypeOK' /\ pc \in {"parse", "conclude"} /\ pc' = "returned"
      /\ workerError' \in {workerError, "deadline_exceeded", "worker_failed"}
      /\ UNCHANGED <<job, prepVars, workerVars, replyVars, parseVars, errors>>
  BY ParseTypeStep DEF IInv, Conclude, FinalError, Return, Orelse
<1>2. UNCHANGED <<job, received, wire, sent, pos, rows, lastLeaf, found, rejected, errors>>
      /\ Stride' = Stride
  BY <1>1 DEF prepVars, replyVars, parseVars, Stride
<1>3. HonestStreamAccepted'
  BY <1>1, <1>2 DEF IInv, HonestStreamAccepted
<1>4. CursorInv' /\ FoundInv' /\ RowsInv' /\ AcceptedIsRowMajor'
  BY <1>2 DEF IInv, CursorInv, FoundInv, RowsInv, AcceptedIsRowMajor
<1>5. PhaseInv' /\ PrepInv' /\ AllowanceInv' /\ StreamInv' /\ ReplyInv'
  BY <1>1, ParserKeeps DEF Early
<1> QED
  BY <1>1, <1>3, <1>4, <1>5 DEF IInv

LEMMA NextInv == IInv /\ [Next]_vars => IInv'
<1>1. IInv /\ UNCHANGED vars => IInv'
  <2> SUFFICES ASSUME IInv, UNCHANGED vars PROVE IInv'
    OBVIOUS
  <2>1. TypeOK'
    BY NextTypeOK DEF IInv
  <2>3. UNCHANGED <<job, pc, remaining, capped, scheduled, truncated, sent, todo, accepted, wire,
                    wstate, row, leaf, pipe, received, pos, rows, lastLeaf, found, rejected,
                    errors, workerError>>
    BY DEF vars, workerVars, prepVars, replyVars, parseVars
  <2>4. PhaseInv' /\ PrepInv' /\ AllowanceInv' /\ HonestStreamAccepted' /\ ReplyInv'
    BY <2>3 DEF IInv, PhaseInv, PrepInv, AllowanceInv, HonestStreamAccepted, ReplyInv, IsPrefixOf,
                Early, Runnable
  <2>5. CursorInv' /\ FoundInv' /\ RowsInv' /\ AcceptedIsRowMajor'
    <3>1. Stride' = Stride
      BY <2>3 DEF Stride
    <3> QED
      BY <2>3, <3>1 DEF IInv, CursorInv, FoundInv, RowsInv, AcceptedIsRowMajor
  <2>6. StreamInv'
    <3>1. Honest => (wstate' = "exited" => row = Len(wire) + 1)
      BY <2>3 DEF IInv, StreamInv, InProgress
    <3> QED
      BY <2>3, <3>1, StreamSilent DEF IInv
  <2> QED
    BY <2>1, <2>4, <2>5, <2>6 DEF IInv
<1>2. IInv /\ Done => IInv'
  BY <1>1 DEF Done
<1> QED
  BY <1>1, <1>2, PrepareStep, WorkerStep, ExpireStep, ReplyStep, ParseStep, ConcludeStep
     DEF Next, Parent

(* The strengthening that carries the theorems below is an invariant of the  *)
(* whole call.                                                               *)
THEOREM Inductive == Spec => []IInv
  BY InitInv, NextInv, PTL DEF Spec

-----------------------------------------------------------------------------
(* What follows from it. *)

LEMMA WholeRows == IInv => FinishedRowsAreWhole
<1> SUFFICES ASSUME IInv, Honest
             PROVE  /\ \A x \in found : x[2] \notin truncated => x \in Truth
                    /\ \A i \in (1 .. rows) \ rejected, p \in 1 .. Stride :
                         Expected(i, p) => <<wire[i], sent[p]>> \in found
  BY DEF FinishedRowsAreWhole, Expected, IsHit
<1>1. /\ Len(received) \in Nat /\ pos \in Nat \ {0} /\ Stride \in Nat /\ rows \in Nat
      /\ pos - 1 <= Len(received)
      /\ \A q \in 1 .. Len(received) : q \in 1 .. Len(pipe) /\ received[q] = pipe[q]
  <2>1. received \in Seq(Frame) /\ pipe \in Seq(Frame) /\ sent \in Seq(1 .. capped)
        /\ pos \in Nat \ {0} /\ rows \in Nat
    BY DEF IInv, TypeOK, ReplyTypeOK, WorkerTypeOK, PrepTypeOK, ParseTypeOK
  <2>2. pos <= Len(received) + 1 /\ IsPrefixOf(received, pipe)
    BY DEF IInv, CursorInv, ReplyInv
  <2> QED
    BY <2>1, <2>2 DEF IsPrefixOf, Stride
<1>2. \A q \in 1 .. pos - 1 : q \in 1 .. Len(pipe) /\ received[q] = pipe[q]
  BY <1>1
<1>3. \A q \in 1 .. pos - 1 : FrameOK(received[q])
  BY <1>2 DEF IInv, StreamInv, LinesOK
<1>4. ASSUME NEW x \in found, x[2] \notin truncated
      PROVE  x \in Truth
  <2>1. PICK q \in 1 .. pos - 1 :
          /\ received[q].tag = "hit"
          /\ received[q].row \in 1 .. Len(wire) /\ received[q].arg \in 1 .. Stride
          /\ x = <<wire[received[q].row], sent[received[q].arg]>>
    BY DEF IInv, FoundInv
  <2> DEFINE i == received[q].row
             p == received[q].arg
  <2>2. Sound(i, p)
    BY <1>3, <2>1 DEF FrameOK
  <2> HIDE DEF i, p
  <2>3. x = <<wire[i], sent[p]>> /\ i \in 1 .. Len(wire) /\ p \in 1 .. Stride
    BY <2>1 DEF i, p
  <2>4. job.verdict[wire[i]][sent[p]] = "hit"
    BY <1>4, <2>2, <2>3 DEF Sound, IsHit
  <2>5. wire[i] \in Runnable
    BY <2>3 DEF IInv, PrepInv
  <2>6. sent[p] \in 1 .. job.offered
    <3>1. sent[p] \in scheduled
      BY <2>3 DEF IInv, PrepInv, Stride
    <3>2. scheduled \subseteq 1 .. capped /\ capped \in 0 .. job.offered
      BY DEF IInv, TypeOK, PrepTypeOK
    <3>3. job.offered \in Nat
      BY JobFacts DEF IInv, TypeOK
    <3>4. \A n \in 0 .. job.offered : 1 .. n \subseteq 1 .. job.offered
      BY <3>3
    <3> QED
      BY <3>1, <3>2, <3>4
  <2> QED
    BY <2>3, <2>4, <2>5, <2>6 DEF Truth
<1>5. ASSUME NEW i \in (1 .. rows) \ rejected, NEW p \in 1 .. Stride, Expected(i, p)
      PROVE  <<wire[i], sent[p]>> \in found
  <2>1. PICK q \in 1 .. pos - 1 : received[q] = DoneFrame(i, Stride)
    BY DEF IInv, RowsInv
  <2>2. q \in 1 .. Len(pipe) /\ pipe[q].tag = "done" /\ pipe[q].row = i
    BY <1>2, <2>1 DEF DoneFrame
  <2>3. PICK k \in 1 .. q - 1 : pipe[k] = HitFrame(i, p)
    BY <1>5, <2>2 DEF IInv, StreamInv, Covered
  <2>4. k \in 1 .. pos - 1 /\ received[k] = HitFrame(i, p)
    BY <1>1, <1>2, <2>3
  <2>5. received[k].tag = "hit" /\ received[k].row = i /\ received[k].arg = p
    BY <2>4 DEF HitFrame
  <2> QED
    BY <2>4, <2>5 DEF IInv, FoundInv
<1> QED
  BY <1>4, <1>5

(* Once a call has returned without an error, no row was rejected, so a leaf *)
(* that claims every rule was evaluated saw the whole schedule.              *)
LEMMA NoErrorAllRows ==
  ASSUME IInv, Returned, workerError = "no", errors = {}, RulesEvaluated = Len(wire)
  PROVE  rows = Len(wire) /\ rejected = {} /\ \A r \in Runnable : \E i \in 1 .. rows : wire[i] = r
<1>1. rejected = {}
  BY DEF IInv, RowsInv
<1>2. Cardinality(rejected) = 0
  BY <1>1, FS_EmptySet
<1>3. rows \in Nat
  BY DEF IInv, TypeOK, ParseTypeOK
<1>4. rows = Len(wire)
  BY <1>2, <1>3 DEF RulesEvaluated
<1> QED
  BY <1>1, <1>4 DEF IInv, PrepInv, Returned, Early

LEMMA LeafExhaustive == IInv => CompleteLeafIsExhaustive
<1> SUFFICES ASSUME IInv, Returned, Honest, NEW l \in 1 .. job.offered, LeafComplete(l),
                    NEW r \in Runnable
             PROVE  <<r, l>> \in found <=> <<r, l>> \in Truth
  BY DEF CompleteLeafIsExhaustive
<1>1. FinishedRowsAreWhole
  BY WholeRows
<1>2. workerError = "no" /\ errors = {} /\ l \in scheduled /\ l \notin truncated
      /\ RulesEvaluated = Len(wire) - Cardinality(errors)
  BY DEF LeafComplete
<1>3. RulesEvaluated = Len(wire)
  <2>1. Cardinality(errors) = 0
    BY <1>2, FS_EmptySet
  <2>2. Len(wire) \in Nat
    BY DEF IInv, TypeOK, PrepTypeOK
  <2> QED
    BY <1>2, <2>1, <2>2
<1>4. PICK i \in 1 .. rows : wire[i] = r
  BY <1>2, <1>3, NoErrorAllRows
<1>5. PICK p \in 1 .. Stride : sent[p] = l
  BY <1>2 DEF IInv, PrepInv, Stride
<1>6. i \notin rejected
  BY <1>2, <1>3, NoErrorAllRows
<1>7. ASSUME <<r, l>> \in Truth PROVE <<r, l>> \in found
  <2>1. job.verdict[r][l] = "hit"
    BY <1>7 DEF Truth
  <2> QED
    BY <1>1, <1>2, <1>4, <1>5, <1>6, <2>1 DEF FinishedRowsAreWhole
<1>8. ASSUME <<r, l>> \in found PROVE <<r, l>> \in Truth
  <2>1. <<r, l>>[2] = l
    OBVIOUS
  <2> QED
    BY <1>1, <1>2, <1>8, <2>1 DEF FinishedRowsAreWhole
<1> QED
  BY <1>7, <1>8

LEMMA BatchExhaustive == IInv => CompleteIsExhaustive
<1> SUFFICES ASSUME IInv, Returned, Honest, Complete PROVE found = Truth
  BY DEF CompleteIsExhaustive
<1>1. /\ \A l \in 1 .. job.offered : LeafComplete(l)
      /\ \A l \in 1 .. job.offered : l \notin truncated
  <2>1. errors = {} /\ Cardinality(errors) = 0
    BY FS_EmptySet DEF Complete
  <2>2. Len(wire) \in Nat
    BY DEF IInv, TypeOK, PrepTypeOK
  <2> QED
    BY <2>1, <2>2 DEF Complete, LeafComplete
<1>2. \A l \in 1 .. job.offered, r \in Runnable : <<r, l>> \in found <=> <<r, l>> \in Truth
  BY <1>1, LeafExhaustive DEF CompleteLeafIsExhaustive
<1>3. found \subseteq Runnable \X (1 .. job.offered)
  <2>1. \A x \in found : x \in job.bundle \X (1 .. job.offered)
    BY DEF IInv, TypeOK, ParseTypeOK
  <2>2. \A x \in found : x[2] \in 1 .. job.offered
    BY <2>1
  <2>3. \A x \in found : x \in Truth
    BY <1>1, <2>2, WholeRows DEF FinishedRowsAreWhole
  <2> QED
    BY <2>3 DEF Truth
<1>4. Truth \subseteq Runnable \X (1 .. job.offered)
  BY DEF Truth
<1>5. ASSUME NEW x \in Runnable \X (1 .. job.offered)
      PROVE  x \in found <=> x \in Truth
  <2>1. x = <<x[1], x[2]>> /\ x[1] \in Runnable /\ x[2] \in 1 .. job.offered
    OBVIOUS
  <2> QED
    BY <1>2, <2>1
<1> QED
  BY <1>3, <1>4, <1>5

(* A complete batch reports exactly what an exhaustive search of every leaf  *)
(* would have found, wherever the worker was killed and whatever prefix of   *)
(* its output arrived.                                                       *)
THEOREM CompleteBatch == Spec => []CompleteIsExhaustive
  BY Inductive, BatchExhaustive, PTL

(* The same leaf by leaf: a leaf of an incomplete batch that is complete     *)
(* itself has all of its findings.                                           *)
THEOREM CompleteLeaf == Spec => []CompleteLeafIsExhaustive
  BY Inductive, LeafExhaustive, PTL

(* At every moment, an incomplete batch's findings are real, and a row that  *)
(* ended has all of its hits.                                                *)
THEOREM FinishedRows == Spec => []FinishedRowsAreWhole
  BY Inductive, WholeRows, PTL

(* The parser refuses no line of the worker this parent ships.               *)
THEOREM StreamAccepted == Spec => []HonestStreamAccepted
  BY Inductive, PTL DEF IInv

(* The lines accepted from any worker at all form one ascending sweep.       *)
THEOREM AcceptedOrder == Spec => []AcceptedIsRowMajor
  BY Inductive, PTL DEF IInv

-----------------------------------------------------------------------------
(* Two properties with an induction of their own. *)

LEMMA SuffixStep == IInv /\ DeclinedIsSuffix /\ [Next]_vars => DeclinedIsSuffix'
<1> SUFFICES ASSUME IInv, DeclinedIsSuffix, [Next]_vars PROVE DeclinedIsSuffix'
  OBVIOUS
<1>1. capped \in Nat /\ scheduled \subseteq 1 .. capped
  <2>1. job.offered \in Nat
    BY JobFacts DEF IInv, TypeOK
  <2> QED
    BY <2>1 DEF IInv, TypeOK, PrepTypeOK
<1>2. CASE CapLeaf
  <2>1. CASE remaining <= 0
    <3>1. capped' = capped + 1 /\ UNCHANGED <<scheduled, truncated>>
      BY <1>2, <2>1 DEF CapLeaf
    <3>2. capped + 1 \notin scheduled
      BY <1>1
    <3>3. \A k \in 1 .. capped + 1 : k = capped + 1 \/ k \in 1 .. capped
      BY <1>1
    <3>4. ASSUME NEW l \in 1 .. capped + 1, l \notin scheduled \/ l \in truncated,
                 NEW k \in l + 1 .. capped + 1
          PROVE  k \notin scheduled
      <4>1. CASE k = capped + 1
        BY <3>2, <4>1
      <4>2. CASE k # capped + 1
        <5>1. l \in 1 .. capped /\ k \in l + 1 .. capped
          BY <1>1, <3>4, <4>2
        <5> QED
          BY <3>4, <5>1 DEF DeclinedIsSuffix
      <4> QED
        BY <4>1, <4>2
    <3> QED
      BY <3>1, <3>4 DEF DeclinedIsSuffix
  <2>2. CASE ~(remaining <= 0)
    <3>1. /\ capped' = capped + 1 /\ scheduled' = scheduled \cup {capped + 1}
          /\ truncated' \subseteq truncated \cup {capped + 1}
      BY <1>2, <2>2 DEF CapLeaf
    <3>2. scheduled = 1 .. capped /\ truncated = {}
      BY <2>2 DEF IInv, AllowanceInv
    <3>3. ASSUME NEW l \in 1 .. capped + 1, l \notin scheduled' \/ l \in truncated'
          PROVE  l = capped + 1
      BY <1>1, <3>1, <3>2, <3>3
    <3>4. \A k : k \notin capped + 1 + 1 .. capped + 1
      BY <1>1
    <3> QED
      BY <3>1, <3>3, <3>4 DEF DeclinedIsSuffix
  <2> QED
    BY <2>1, <2>2
<1>3. CASE ~CapLeaf
  <2>1. UNCHANGED <<capped, scheduled, truncated>>
    BY <1>3 DEF Next, Parent, Prepare, CheckLeafCount, CheckRuleCount, WireRule, Schedule,
                RunWorkerReturns, ParseFrame, Conclude, Worker, Launch, Refuse, Compile, Search,
                FinishRow, Exit, Crash, Arbitrary, WorkerFrame, Expire, Done, prepVars, vars
  <2> QED
    BY <2>1 DEF DeclinedIsSuffix
<1> QED
  BY <1>2, <1>3

(* The byte allowance declines a suffix of the offered leaves, and cuts only *)
(* the last leaf before it.                                                  *)
THEOREM Suffix == Spec => []DeclinedIsSuffix
<1>1. Init => DeclinedIsSuffix
  BY DEF Init, DeclinedIsSuffix
<1> QED
  BY <1>1, Inductive, SuffixStep, PTL DEF Spec

(* The last line of a worker that ended by itself closes its last row.       *)
LEMMA ExitedParsed ==
  ASSUME IInv, Honest, pc = "parse", pos > Len(received), wstate = "exited", received = pipe
  PROVE  rows = Len(wire)
<1>1. /\ Len(pipe) \in Nat /\ Len(wire) \in Nat /\ pos \in Nat \ {0} /\ rows \in Nat
      /\ row = Len(wire) + 1 /\ pos = Len(pipe) + 1
  <2>1. pipe \in Seq(Frame) /\ wire \in Seq(job.bundle) /\ pos \in Nat \ {0} /\ rows \in Nat
    BY DEF IInv, TypeOK, WorkerTypeOK, PrepTypeOK, ParseTypeOK
  <2>2. pos <= Len(received) + 1 /\ row = Len(wire) + 1
    BY DEF IInv, CursorInv, StreamInv, InProgress
  <2> QED
    BY <2>1, <2>2
<1>2. CASE Len(pipe) = 0
  <2>1. row = 1 /\ rows = 0
    BY <1>1, <1>2 DEF IInv, StreamInv, Chained, CursorInv
  <2> QED
    BY <1>1, <2>1
<1>3. CASE Len(pipe) > 0
  <2> DEFINE f == pipe[Len(pipe)]
  <2>1. f = received[pos - 1] /\ pos > 1 /\ Len(pipe) \in 1 .. Len(pipe)
    BY <1>1, <1>3
  <2>2. FrameOK(f)
    BY <2>1 DEF IInv, StreamInv, LinesOK
  <2>3. /\ f.tag = "hit" => f.row = row
        /\ f.tag # "hit" => f.row = row - 1
        /\ f.tag # "hit" => rows = f.row
    BY <1>3, <2>1 DEF IInv, StreamInv, Chained, CursorInv
  <2> HIDE DEF f
  <2>4. f.row \in 1 .. Len(wire)
    BY <2>2 DEF FrameOK
  <2> QED
    BY <1>1, <2>3, <2>4
<1> QED
  BY <1>1, <1>2, <1>3

LEMMA LateCancelStep == IInv /\ LateCancelHarmless /\ [Next]_vars => LateCancelHarmless'
<1> SUFFICES ASSUME IInv, LateCancelHarmless, [Next]_vars,
                    Returned', job'.worker = "shipped", wstate' = "exited", received' = pipe',
                    returncode' = "zero", workerError' \notin {"cleanup_exceeded", "worker_fault"}
             PROVE  workerError' = "no"
  BY DEF LateCancelHarmless
<1>1. CASE UNCHANGED vars
  <2>1. UNCHANGED <<job, pc, wstate, received, pipe, returncode, workerError>>
    BY <1>1 DEF vars, workerVars, replyVars
  <2> QED
    BY <2>1 DEF LateCancelHarmless, Returned
<1>2. CASE Prepare
  <2>1. wstate' = "idle"
    BY <1>2 DEF IInv, PhaseInv, Early, Prepare, CheckLeafCount, CapLeaf, CheckRuleCount, WireRule,
                Schedule, workerVars
  <2> QED
    BY <2>1
<1>3. CASE Conclude
  <2>1. UNCHANGED <<job, wstate, received, pipe, returncode>>
    BY <1>3 DEF Conclude, workerVars, replyVars
  <2>2. Honest /\ workerError # "invalid_worker_response"
    BY <2>1 DEF Honest, IInv, HonestStreamAccepted
  <2>3. pc = "parse" /\ pos > Len(received) /\ workerError \in {"no", "cleanup_exceeded", "worker_fault"}
    BY <1>3, <2>2 DEF Conclude, IInv, PhaseInv
  <2>4. rows = Len(wire)
    BY <2>1, <2>2, <2>3, ExitedParsed
  <2>5. workerError' = workerError
    BY <1>3, <2>1, <2>4 DEF Conclude, FinalError, Return
  <2> QED
    BY <2>3, <2>5
<1>4. CASE Worker \/ Expire \/ RunWorkerReturns \/ ParseFrame
  <2>1. pc' # "returned"
    <3>1. CASE Worker
      BY <3>1 DEF Worker, Launch, Working, Refuse, Compile, Search, FinishRow, Exit, Crash,
                  Arbitrary, WorkerFrame
    <3>2. CASE Expire
      BY <3>2 DEF Expire
    <3>3. CASE RunWorkerReturns
      BY <3>3 DEF RunWorkerReturns
    <3>4. CASE ParseFrame
      BY <3>4 DEF ParseFrame, TakeHit, TakeDone, TakeErr, RejectFrame
    <3> QED
      BY <1>4, <3>1, <3>2, <3>3, <3>4
  <2> QED
    BY <2>1 DEF Returned
<1> QED
  BY <1>1, <1>2, <1>3, <1>4 DEF Next, Parent, Done

(* A worker that ended by itself and was read to the end is never reported   *)
(* as cut short, even when the watchdog fired in between.                    *)
THEOREM LateCancel == Spec => []LateCancelHarmless
<1>1. Init => LateCancelHarmless
  BY DEF Init, LateCancelHarmless, Returned
<1> QED
  BY <1>1, Inductive, LateCancelStep, PTL DEF Spec

-----------------------------------------------------------------------------
(* The refinement of the promise. *)

LEMMA ReturnedKeeps ==
  ASSUME IInv, Honest, Returned
  PROVE  Promise!Keeps(Answer) /\ Answer # NoAnswer
<1>1. /\ Answer.complete = Complete /\ Answer.findings = found /\ Answer.cut = truncated
  BY DEF Answer
<1>2. truncated \subseteq 1 .. job.offered
  <2>1. truncated \subseteq 1 .. capped /\ capped \in 0 .. job.offered /\ job.offered \in Nat
    BY JobFacts DEF IInv, TypeOK, PrepTypeOK
  <2> QED
    BY <2>1
<1>3. Complete => found = Truth /\ truncated = {}
  <2>1. Complete => found = Truth
    BY BatchExhaustive DEF CompleteIsExhaustive
  <2>2. Complete => truncated = {}
    BY <1>2 DEF Complete
  <2> QED
    BY <2>1, <2>2
<1>4. \A x \in found : x[2] \notin truncated => x \in Truth
  BY WholeRows DEF FinishedRowsAreWhole
<1>5. Promise!Keeps(Answer)
  BY <1>1, <1>3, <1>4 DEF Promise!Keeps, Promise!OnWholeLeaves
<1>6. Answer # NoAnswer
  <2>1. 0 \notin Answer.cut
    BY <1>1, <1>2
  <2> QED
    BY <2>1 DEF NoAnswer
<1> QED
  BY <1>5, <1>6

LEMMA PromiseStep ==
  ASSUME IInv, IInv', [Next]_vars
  PROVE  [Promise!Next]_<<Truth, Answer>>
<1>1. UNCHANGED job
  BY DEF Next, Parent, Prepare, CheckLeafCount, CapLeaf, CheckRuleCount, WireRule, Schedule,
         RunWorkerReturns, ParseFrame, Conclude, Worker, Launch, Refuse, Compile, Search,
         FinishRow, Exit, Crash, Arbitrary, WorkerFrame, Expire, Done, vars
<1>2. Truth' = Truth
  BY <1>1 DEF Truth, Runnable
<1>worker. Honest' = Honest
  BY <1>1 DEF Honest
<1>3. CASE Returned
  <2>1. UNCHANGED vars
    BY <1>3 DEF Returned, Next, Parent, Prepare, CheckLeafCount, CapLeaf, CheckRuleCount, WireRule,
                Schedule, RunWorkerReturns, ParseFrame, Conclude, Worker, Launch, Working, Refuse,
                Compile, Search, FinishRow, Exit, Crash, Arbitrary, Expire, Done
  <2>2. Answer' = Answer
    BY <1>worker, <2>1 DEF vars, prepVars, parseVars, Answer, Returned, Complete, RulesEvaluated, Stride
  <2> QED
    BY <1>2, <2>2
<1>4. CASE ~Returned /\ ~Returned'
  BY <1>2, <1>4 DEF Answer
<1>5. CASE ~Honest
  BY <1>worker, <1>2, <1>5 DEF Answer
<1>6. CASE Honest /\ ~Returned /\ Returned'
  <2>1. Answer = NoAnswer
    BY <1>6 DEF Answer
  <2>2. (IInv /\ Honest /\ Returned)' => (Promise!Keeps(Answer) /\ Answer # NoAnswer)'
    BY ReturnedKeeps, PTL
  <2>3. Promise!Keeps(Answer') /\ Answer' # NoAnswer
    BY <1>worker, <1>2, <1>6, <2>2 DEF Promise!Keeps, Promise!OnWholeLeaves, NoAnswer
  <2> QED
    BY <1>2, <2>1, <2>3 DEF Promise!Next, Promise!Answer
<1> QED
  BY <1>3, <1>4, <1>5, <1>6

(* A call of scan_leaves implements the promise of ScanPromise with every    *)
(* worker that runs this protocol: one answer, real findings, and everything *)
(* there was to find when it says complete.                                  *)
THEOREM Refinement == Spec => KeepsPromise
<1>1. Init => Promise!Init
  BY DEF Init, Promise!Init, Answer, Returned
<1>2. IInv /\ IInv' /\ [Next]_vars => [Promise!Next]_<<Truth, Answer>>
  BY PromiseStep
<1> QED
  BY <1>1, <1>2, Inductive, PTL DEF Spec, KeepsPromise, Promise!Spec
=============================================================================
