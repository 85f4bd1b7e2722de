----------------------------- MODULE ScanPromise -----------------------------
(***************************************************************************)
(* What a caller of scan_leaves is promised, whatever happens to the worker *)
(* (the docstrings of BatchScanResult, scan_leaves and scan in evaluate.py):*)
(* one answer; findings it can act on even when the answer is incomplete;   *)
(* and, when the answer says complete, exactly the findings an exhaustive   *)
(* search of every leaf would have made.                                    *)
(***************************************************************************)
CONSTANT NoAnswer
VARIABLES
  truth,   \* the pairs <<rule, leaf>> that match
  answer   \* [complete, findings, cut] or NoAnswer

(* A finding on a leaf that was cut says nothing of the whole leaf. *)
OnWholeLeaves(a) == {x \in a.findings : x[2] \notin a.cut}

Keeps(a) ==
  /\ OnWholeLeaves(a) \subseteq truth
  /\ a.complete => a.findings = truth /\ a.cut = {}

Init == answer = NoAnswer

Answer ==
  /\ answer = NoAnswer
  /\ answer' # NoAnswer
  /\ Keeps(answer')
  /\ UNCHANGED truth

Next == Answer

Spec == Init /\ [][Next]_<<truth, answer>>
=============================================================================
