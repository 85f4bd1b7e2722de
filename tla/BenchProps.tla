------------------------------ MODULE BenchProps ------------------------------
(***************************************************************************)
(* What a report, and a lane taken from one, may be trusted for.             *)
(***************************************************************************)
EXTENDS Bench

CONSTANT Exact   \* the true upper limit of <<trials, hits>>, on the scale of U95

(* What a hook would scan of a unit, and what the rules find in it.           *)
Leaves(u) == IF u.leafwise THEN { t \in ToSet(u.parts) : t # EmptyText } ELSE {u.text}
Fires(r, u) == r.runnable /\ \E t \in Leaves(u) : t \in r.matches

In(c, s, t) == { i \in DOMAIN c.units : c.units[i].surface = s /\ t \in Strata(c.units[i]) }
Truth(R, c, s, t) ==
  << Cardinality(In(c, s, t)), Cardinality({ i \in In(c, s, t) : \E r \in R : Fires(r, c.units[i]) }) >>
Cells(c) == UNION { Keys(c.units[i]) : i \in DOMAIN c.units }
On(rules, s) == { r \in ToSet(rules) : r.surface = s }

(***************************************************************************)
(* The report of a benchmark holds, for every corpus, surface and stratum     *)
(* that has units, one row for each rule that runs and one for the bundle of   *)
(* that surface, and the row counts exactly the units and the units that a    *)
(* hook would have fired on - whatever ended first, failed first or was       *)
(* measured before.                                                        *)
(***************************************************************************)
CountsAreExact ==
  results # NoReport =>
    \A i \in DOMAIN results.corpora : \A cell \in Cells(results.corpora[i]) :
      LET c == results.corpora[i]
          Rows(id) == { x \in results.rows :
            x.of = id /\ x.corpus = c.identity /\ x.surface = cell[1] /\ x.stratum = cell[2] }
          Says(id, R) == { Count(x) : x \in Rows(id) } = {Truth(R, c, cell[1], cell[2])}
      IN  /\ \A r \in ToSet(results.rules) : r.runnable => Says(r.id, {r})
          /\ (\E r \in On(results.rules, cell[1]) : r.runnable) => Says("bundle", On(results.rules, cell[1]))

(***************************************************************************)
(* A rule that apply_report gives ADVISE or DENY is the rule that was         *)
(* measured: one of its own examples matches, on its surface no stratum's     *)
(* true limit exceeds the ceiling of the lane, nor does that of all rules     *)
(* together on any surface that has rules, every one of those surfaces was    *)
(* measured on both kinds of prose, and no unit was counted twice.            *)
(***************************************************************************)
CeilingOf(lane) == IF lane = "DENY" THEN DenyMax ELSE AdviseMax
QuietOn(R, s, max) ==
  \A i \in DOMAIN assigned.corpora : \A cell \in Cells(assigned.corpora[i]) :
    cell[1] = s => Exact[Truth(R, assigned.corpora[i], s, cell[2])] <= max
Representative(c) ==
  /\ \A i, j \in DOMAIN c.units :
       c.units[i].surface = c.units[j].surface /\ c.units[i].text = c.units[j].text => i = j
  /\ \A cell \in Cells(c), p \in {"ordinary", "security-adjacent"} : <<cell[1], <<"prose", p>>>> \in Cells(c)

AdmissionIsEarned ==
  \A i \in DOMAIN assigned.rules : assigned.lanes[i] \in {"ADVISE", "DENY"} =>
    LET r   == assigned.rules[i]
        max == CeilingOf(assigned.lanes[i])
        surfaces == { x.surface : x \in { x \in ToSet(assigned.rules) : x.runnable } }
    IN  /\ r.runnable /\ \E e \in r.examples : e \in r.matches
        /\ QuietOn({r}, r.surface, max)
        /\ \A s \in surfaces :
             /\ QuietOn(On(assigned.rules, s), s, max)
             /\ \E j \in DOMAIN assigned.corpora : \E cell \in Cells(assigned.corpora[j]) : cell[1] = s
        /\ \A j \in DOMAIN assigned.corpora : Representative(assigned.corpora[j])
-----------------------------------------------------------------------------
(* The units of a corpus that were taken so far, and what they show.         *)
UnitsOf(c, n, cell)  == { i \in 1 .. n : cell \in Keys(c.units[i]) }
Fired(c, n, cell, R) == { i \in UnitsOf(c, n, cell) : \E r \in R : Fires(r, c.units[i]) }

(* The rows of a corpus, as they must be.                                    *)
TrueRow(id, R, c, cell) ==
  [ of |-> id, corpus |-> c.identity, surface |-> cell[1], stratum |-> cell[2],
    trials |-> Cardinality(UnitsOf(c, Len(c.units), cell)),
    hits   |-> Cardinality(Fired(c, Len(c.units), cell, R)) ]
TrueRows(rules, c) ==
  { TrueRow("bundle", On(rules, cell[1]), c, cell) :
      cell \in { k \in Cells(c) : \E r \in On(rules, k[1]) : r.runnable } }
  \cup UNION { { TrueRow(r.id, {r}, c, cell) : cell \in Cells(c) } : r \in { r \in ToSet(rules) : r.runnable } }
AllRows(rules, corpora, n) == UNION { TrueRows(rules, corpora[j]) : j \in 1 .. n }

(* The counters after the first n units of a corpus.                         *)
Tallied(t, rules, c, n) ==
  /\ DOMAIN t.counts = UNION { Keys(c.units[i]) : i \in 1 .. n }
  /\ \A cell \in Cells(c) :
       /\ Times(t.counts, cell) = Cardinality(UnitsOf(c, n, cell))
       /\ Times(t.bundle, cell) = Cardinality(Fired(c, n, cell, On(rules, cell[1])))
       /\ \A r \in ToSet(rules) :
            r.runnable => Times(t.rule, <<r.id, cell>>) = Cardinality(Fired(c, n, cell, {r}))
  /\ t.seen = { <<c.units[i].surface, c.units[i].text>> : i \in 1 .. n }
  /\ t.duplicates \in Nat
  /\ t.duplicates = 0 =>
       \A i, j \in 1 .. n : c.units[i].surface = c.units[j].surface /\ c.units[i].text = c.units[j].text => i = j

(* What is being measured.                                                   *)
Measuring ==
  /\ held \in RuleLists /\ stage \in {"idle", "examples", "units"} /\ DOMAIN sums = DOMAIN NoSums
  /\ stage # "idle" =>
       input.rules \in RuleLists /\ input.corpora \in CorpusLists /\ Accepted(input.rules, input.corpora)
  /\ stage # "units" => at = <<1, 1>> /\ batch = <<>> /\ tally = NoTally /\ sums = NoSums
(* What the examples showed.                                                 *)
Tried ==
  /\ reach \in Seq({"not_runnable", "reachable", "no_examples", "unreachable"})
  /\ stage = "idle" => reach = <<>>
  /\ stage # "idle" => /\ Len(reach) <= Len(input.rules)
                       /\ \A i \in 1 .. Len(reach) : reach[i] = Reachability(input.rules[i])
  /\ stage = "units" => Len(reach) = Len(input.rules)
(* Where the units stand, and the scans under way.                           *)
Standing ==
  /\ at \in Nat \X Nat /\ at[1] > 0 /\ at[2] > 0
  /\ stage = "units" => /\ at[1] <= Len(input.corpora) + 1
                        /\ at[1] <= Len(input.corpora) => at[2] <= Len(Corpus.units) + 1
  /\ batch # <<>> =>
       /\ stage = "units" /\ at[1] <= Len(input.corpora)
       /\ at[2] \in DOMAIN batch /\ DOMAIN batch \subseteq 1 .. Len(Corpus.units)
       /\ \A i \in DOMAIN batch : batch[i].state = "complete" => batch[i].hits = Hits(Unit(i))
(* What is summed up, of this corpus and of those before.                     *)
Summed ==
  stage = "units" =>
    /\ at[1] <= Len(input.corpora) => Tallied(tally, input.rules, Corpus, at[2] - 1)
    /\ sums.rows = AllRows(input.rules, input.corpora, at[1] - 1)
    /\ sums.faults = {} => \A j \in 1 .. at[1] - 1 : Representative(input.corpora[j])
    /\ \A s \in sums.surfaces : \E j \in DOMAIN input.corpora : \E cell \in Cells(input.corpora[j]) : cell[1] = s
    /\ \A r \in ToSet(input.rules) : Times(sums.findings, r.id) \in Nat
(* What the report says.                                                     *)
TrueReport(report) ==
  LET rules == report.rules  corpora == report.corpora
      surfaces == { r.surface : r \in { r \in ToSet(rules) : r.runnable } }
  IN  /\ rules \in RuleLists /\ corpora \in CorpusLists /\ Accepted(rules, corpora)
      /\ report.rows = AllRows(rules, corpora, Len(corpora))
      /\ \A r \in ToSet(rules) : report.reach[r.id] = Reachability(r) /\ report.hits[r.id] \in Nat
      /\ report.ok =>
           /\ \A j \in DOMAIN corpora : Representative(corpora[j])
           /\ \A s \in surfaces : \E j \in DOMAIN corpora : \E cell \in Cells(corpora[j]) : cell[1] = s
           /\ BundleRows(report.rows) # {} /\ Within(Worst(BundleRows(report.rows)), AdviseMax)
Reported == results # NoReport => TrueReport(results)

(***************************************************************************)
(* The inductive invariant.  CountsAreExact is not inductive because it        *)
(* speaks of finished reports only: the counters under way are exact for the   *)
(* units taken so far, in the order of the units, whatever ended first.        *)
(***************************************************************************)
BenchInv == Measuring /\ Tried /\ Standing /\ Summed /\ Reported /\ AdmissionIsEarned
=============================================================================
