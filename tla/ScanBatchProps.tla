---------------------------- MODULE ScanBatchProps ----------------------------
(***************************************************************************)
(* The properties of ScanBatch that the runs check and ScanBatch_proofs     *)
(* proves, and the refinement of ScanPromise.                               *)
(***************************************************************************)
EXTENDS ScanBatch

Honest == job.worker # "arbitrary"
Returned == pc = "returned"

(* Every variable holds a value of its kind (evaluate.py, _scan_leaves_impl). *)
PrepTypeOK ==
  /\ remaining \in Nat
  /\ capped \in 0 .. job.offered
  /\ scheduled \subseteq 1 .. capped /\ truncated \subseteq scheduled
  /\ sent \in Seq(1 .. capped)
  /\ todo \subseteq job.bundle /\ accepted \subseteq job.bundle
  /\ charsUsed \in Nat
  /\ wire \in Seq(job.bundle)
WorkerTypeOK ==
  /\ wstate \in {"idle", "running", "exited", "failed", "killed"}
  /\ row \in Nat \ {0} /\ leaf \in Nat
  /\ pipe \in Seq(Frame)
ReplyTypeOK ==
  /\ received \in Seq(Frame)
  /\ cancelled \in {"clear", "set"}
  /\ returncode \in {"none", "zero", "nonzero"}
ParseTypeOK ==
  /\ pos \in Nat \ {0} /\ rows \in Nat /\ lastLeaf \in Nat
  /\ found \subseteq job.bundle \X (1 .. job.offered)
  /\ rejected \subseteq Nat \ {0}
  /\ errors \subseteq job.bundle
TypeOK ==
  /\ job \in Jobs
  /\ pc \in {"limits", "cap", "rules", "running", "parse", "conclude", "returned"}
  /\ workerError \in {"no", "too_many_leaves", "too_many_rules", "bundle_too_large",
                      "cleanup_exceeded", "worker_fault", "invalid_worker_response",
                      "deadline_exceeded", "worker_failed"}
  /\ PrepTypeOK /\ WorkerTypeOK /\ ReplyTypeOK /\ ParseTypeOK

(* BatchScanResult.complete: "a negative result is meaningful only after     *)
(* every required check finished".  A complete batch reports exactly what an *)
(* exhaustive search of every offered leaf would, whatever was killed.       *)
CompleteIsExhaustive ==
  Returned /\ Complete /\ Honest => found = Truth

(* LeafScanResult.complete: the same promise leaf by leaf, which holds of a  *)
(* leaf even when the allowance declined another one.                        *)
CompleteLeafIsExhaustive ==
  Returned /\ Honest =>
    \A l \in 1 .. job.offered :
      LeafComplete(l) => \A r \in Runnable : <<r, l>> \in found <=> <<r, l>> \in Truth

(* A hook acts on the findings of an incomplete batch too: none of them is   *)
(* invented, and every row that ended normally has all of its hits on the    *)
(* leaves that were not cut ("a kill still leaves the rows that already      *)
(* finished, and their hits", _leaves).                                      *)
FinishedRowsAreWhole ==
  Honest =>
    /\ \A x \in found : x[2] \notin truncated => x \in Truth
    /\ \A i \in (1 .. rows) \ rejected, p \in 1 .. Stride :
         sent[p] \notin truncated /\ job.verdict[wire[i]][sent[p]] = "hit"
           => <<wire[i], sent[p]>> \in found

(* The shipped worker never writes a line the parser refuses, however the    *)
(* stream is cut.                                                            *)
HonestStreamAccepted ==
  job.worker = "shipped" => workerError # "invalid_worker_response"

(* "Cancellation races the finish rather than preceding it": a worker that   *)
(* ended by itself and whose lines all arrived is not called incomplete      *)
(* because the deadline was noticed late.                                    *)
LateCancelHarmless ==
  Returned /\ job.worker = "shipped" /\ wstate = "exited" /\ received = pipe
    /\ returncode = "zero" /\ workerError \notin {"cleanup_exceeded", "worker_fault"}
      => workerError = "no"

(* Whatever wrote the stream, the lines the parser accepted are row-major and*)
(* strictly ascending: no line counts twice, no row is skipped, and a        *)
(* leaf-major worker "cannot emit a well-formed stream at all".              *)
Before(f, g) == \/ f.row < g.row
                \/ /\ f.row = g.row
                   /\ f.tag = "hit"
                   /\ g.tag = "hit" => f.arg < g.arg
AcceptedIsRowMajor ==
  /\ \A p, q \in 1 .. pos - 1 : p < q => Before(received[p], received[q])
  /\ \A i \in 1 .. rows : \E p \in 1 .. pos - 1 :
       received[p].row = i /\ received[p].tag \in {"done", "err"}

(* "The byte allowance only ever runs down": the declined leaves come after  *)
(* every scheduled one and only the last scheduled leaf is cut, so a batch   *)
(* that declines a leaf says so for a suffix of the leaves.                  *)
DeclinedIsSuffix ==
  \A l \in 1 .. capped : l \notin scheduled \/ l \in truncated =>
    \A k \in l + 1 .. capped : k \notin scheduled

(* scan_leaves keeps the promise of ScanPromise, with any worker that runs    *)
(* this protocol.                                                            *)
NoAnswer == [complete |-> FALSE, findings |-> {}, cut |-> {0}]
Answer ==
  IF Returned /\ Honest
    THEN [complete |-> Complete, findings |-> found, cut |-> truncated]
    ELSE NoAnswer
Promise == INSTANCE ScanPromise WITH truth <- Truth, answer <- Answer
KeepsPromise == Promise!Spec
=============================================================================
