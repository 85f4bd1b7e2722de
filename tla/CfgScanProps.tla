---------------------------- MODULE CfgScanProps ----------------------------
(***************************************************************************)
(* What a caller of scan_cfg may rely on.                                   *)
(***************************************************************************)
EXTENDS CfgScan, Functions

Returned == pc = "returned"
Honest == job.worker = "shipped"

(* What scan_cfg_trusted reports, in the words of the docstring of search:   *)
(* "any" needs a condition, "all" needs every one, a condition whose first   *)
(* match lies in a code block does not match when both sides suppress it;    *)
(* the finding names the first condition seen in the first text that fires.  *)
Counts(r, t, c) ==
  r.sees[t][c] # "none" /\ (r.suppress /\ job.suppress => r.sees[t][c] = "plain")
Fires(r, t) ==
  IF r.logic = "all" THEN \A c \in 1 .. r.count : Counts(r, t, c)
                     ELSE \E c \in 1 .. r.count : Counts(r, t, c)
ReportedFor(r, c, t) ==
  /\ t = 1 \/ (job.decode /\ t <= 1 + job.blocks)
  /\ Fires(r, t) /\ \A u \in 1 .. t - 1 : ~Fires(r, u)
  /\ c <= r.count /\ Counts(r, t, c) /\ \A d \in 1 .. c - 1 : ~Counts(r, t, d)
Trusted ==
  {f \in [rule : 1 .. Len(Bindings), condition : Conditions, text : Texts] :
     /\ Bindings[f.rule].behaviour = "runs"
     /\ ReportedFor(Bindings[f.rule], f.condition, f.text)}

(* test_the_isolated_path_decides_what_the_in_process_path_decides, however  *)
(* the worker is killed: the isolated scan keeps the promise of ScanPromise, *)
(* the truth being what the scan in this process finds.  A finding of an     *)
(* incomplete scan is real, and a complete scan has them all.                *)
NoAnswer == [complete |-> FALSE, findings |-> {}, cut |-> {0}]
Answer ==
  IF Returned /\ Honest
    THEN [complete |-> Complete, findings |-> {<<f, 1>> : f \in found},
          cut |-> {x \in {1} : job.cut}]
    ELSE NoAnswer
Promise == INSTANCE ScanPromise WITH truth <- {<<f, 1>> : f \in Trusted}, answer <- Answer
KeepsPromise == Promise!Spec

(* "A rule the worker never reached is unfinished rather than clean", and    *)
(* whatever wrote the lines, the ones accepted are one per rule in the order *)
(* of the rules: a rule has one finding at most, at a condition of its own,  *)
(* and none beside an error; a complete scan has a line for every rule.      *)
EveryRuleInPlace ==
  /\ \A i \in 1 .. completed : received[i].index = i
  /\ \A f, g \in found : f.rule = g.rule => f = g
  /\ \A f \in found :
       f.rule \in (1 .. completed) \ errors /\ f.condition <= Bindings[f.rule].count
  /\ Returned /\ Complete =>
       Len(received) = Len(Bindings) /\ \A l \in Range(received) : l.status = "ok"
=============================================================================
