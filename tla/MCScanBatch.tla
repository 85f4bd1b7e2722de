----------------------------- MODULE MCScanBatch -----------------------------
(***************************************************************************)
(* Small calls of scan_leaves for TLC.                                      *)
(***************************************************************************)
EXTENDS ScanBatchProps

Job(n, allowance, bundle, kind, verdict, worker) ==
  [ offered |-> n, size |-> [l \in Leaves |-> IF l = 1 THEN 2 ELSE 1],
    allowance |-> allowance, bundle |-> bundle, kind |-> kind,
    chars |-> [r \in Rules |-> 1], verdict |-> verdict, worker |-> worker ]

AllKinds(k) == [r \in Rules |-> k]
(* Verdicts that differ by leaf and rule, filled in for the third ones. *)
Spread(m) ==
  [r \in Rules |-> [l \in Leaves |-> IF r < 3 /\ l < 3 THEN m[<<r, l>>] ELSE "hit"]]
Mixed == [r \in Rules |-> [l \in Leaves |-> IF r = l THEN "hit" ELSE "miss"]]

(* Every verdict of two rules on two leaves, all of the text scanned. *)
VerdictJobs ==
  {Job(2, 9, {1, 2}, AllKinds("runnable"), Spread(m), "shipped") :
     m \in [{1, 2} \X {1, 2} -> Verdicts]}
(* Every kind of two rules, and an allowance that cuts or declines. *)
KindJobs ==
  {Job(n, a, {1, 2}, [r \in Rules |-> IF r = 1 THEN k1 ELSE k2], Mixed, "shipped") :
     n \in 0 .. 2, a \in {0, 1, 2, 9}, k1 \in Kinds, k2 \in Kinds}
(* The limits: more rules, leaves or predicate characters than allowed. *)
LimitJobs ==
  {Job(3, 9, {1, 2}, AllKinds("runnable"), Mixed, "shipped"),
   Job(2, 9, {1, 2, 3}, AllKinds("runnable"), Mixed, "shipped"),
   [Job(2, 9, {1, 2}, AllKinds("runnable"), Mixed, "shipped")
      EXCEPT !.chars = [r \in Rules |-> 2]]}
MismatchedJobs == {Job(2, 9, {1, 2}, AllKinds("runnable"), Mixed, "mismatched")}

ArbitraryJobs == {Job(2, 9, {1, 2}, AllKinds("runnable"), Mixed, "arbitrary")}

AllJobs == VerdictJobs \cup KindJobs \cup LimitJobs \cup MismatchedJobs \cup ArbitraryJobs
=============================================================================
