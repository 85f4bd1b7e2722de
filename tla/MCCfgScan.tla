------------------------------ MODULE MCCfgScan ------------------------------
(***************************************************************************)
(* Small configuration scans for TLC: every pair of conditions on a document*)
(* and one decoded block, then bundles that reach each limit and error.     *)
(***************************************************************************)
EXTENDS CfgScanProps

Rule(bound, count, logic, suppress, behaviour, sees) ==
  [ bound |-> bound, count |-> count, chars |-> 1, logic |-> logic, suppress |-> suppress,
    behaviour |-> behaviour, sees |-> sees ]
Job(rules, blocks, decode, suppress, cut, long, worker) ==
  [ rules |-> rules, blocks |-> blocks, decode |-> decode, suppress |-> suppress,
    cut |-> cut, long |-> long, worker |-> worker ]

Blank == [t \in Texts |-> [c \in Conditions |-> "none"]]
Open == [t \in Texts |-> [c \in Conditions |-> "plain"]]
Hidden == [t \in Texts |-> [c \in Conditions |-> IF t = 1 THEN "none" ELSE "plain"]]

(* One rule, everything it can see. *)
SightJobs ==
  {Job(<<Rule(TRUE, 2, logic, s, "runs", sees)>>, 1, TRUE, TRUE, FALSE, FALSE, "shipped") :
     logic \in {"any", "all"}, s \in BOOLEAN,
     sees \in [Texts -> [Conditions -> Sights]]}
SwitchJobs ==
  {Job(<<Rule(TRUE, 2, "any", TRUE, "runs", sees)>>, 1, d, s, c, l, "shipped") :
     d \in BOOLEAN, s \in BOOLEAN, c \in BOOLEAN, l \in BOOLEAN, sees \in {Open, Hidden}}
(* Two rules of any behaviour, bound or not, and the limits. *)
BundleJobs ==
  {Job(<<Rule(x, 1, "any", FALSE, k1, Open), Rule(y, n, "all", FALSE, k2, Hidden)>>,
       1, TRUE, TRUE, FALSE, FALSE, "shipped") :
     x \in BOOLEAN, y \in BOOLEAN, n \in {0, 2},
     k1 \in {"runs", "uncompilable", "raises"}, k2 \in {"runs", "uncompilable", "raises"}}
Plain == Rule(TRUE, 1, "any", FALSE, "runs", Open)
LimitJobs ==
  { Job(<<Plain, Plain, Plain>>, 0, TRUE, TRUE, FALSE, FALSE, "shipped"),
    Job(<<Plain, [Plain EXCEPT !.chars = 3]>>, 0, TRUE, TRUE, FALSE, FALSE, "shipped") }
Pair == Rule(TRUE, 2, "all", FALSE, "runs", Blank)
ArbitraryJobs == {Job(rules, 1, TRUE, TRUE, FALSE, FALSE, "arbitrary") :
                    rules \in {<<Pair>>, <<Plain, Pair>>}}

AllJobs == SightJobs \cup SwitchJobs \cup BundleJobs \cup LimitJobs \cup ArbitraryJobs
=============================================================================
