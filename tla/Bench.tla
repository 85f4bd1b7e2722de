-------------------------------- MODULE Bench --------------------------------
(***************************************************************************)
(* The benchmark (bench.py): a bundle is scanned over benign corpora, every  *)
(* stratum is counted, and the report decides which lane a rule may take.    *)
(*   a rule    id, surface, runnable, matches (the texts it fires on),       *)
(*             examples; its fingerprint is the record itself                *)
(*   a unit    surface, type, prose, text (its digest is its text), and the   *)
(*             parts a hook would scan if leafwise                          *)
(*   a corpus  identity, units, required (strata), intact (digests match)     *)
(***************************************************************************)
EXTENDS Integers, Sequences, FiniteSets, SequencesExt

CONSTANTS
  RuleLists,    \* the bundles a person may keep
  CorpusLists,  \* what a bundle may be measured on
  Workers,      \* scans at once
  EmptyText,    \* the text of no characters
  U95,          \* binomial_u95 of <<trials, hits>>, as its rank
  AdviseMax,    \* ADVISE_MAX_U95 and
  DenyMax,      \*   DENY_MAX_U95, on the same scale
  Unresolved,   \* the <<trials, hits>> bound_within cannot place
  MaxChanges,   \* bound: how often the bundle changes
  MaxCalls,     \* bound: how often it is measured
  NoReport

VARIABLES
  held,      \* the rules the person keeps
  changes,   \* how often they changed
  calls,     \* how often measure was called
  stage,     \* what measure is doing
  input,     \* its rules and its corpora
  reach,     \* what the examples showed, rule by rule
  at,        \* the corpus under way and its next unit
  batch,     \* the outcomes of the scans under way, by unit
  tally,     \* the counters of this corpus
  sums,      \* what the corpora before it left
  results,   \* the report file
  assigned   \* what apply_report returned last

call == <<calls, stage, input, reach, at, batch, tally, sums>>
benchVars == <<held, changes, call, results, assigned>>

NoInput == [rules |-> <<>>, corpora |-> <<>>]
(* A Counter has no entry for what it never counted.                          *)
NoCounts == [x \in {} |-> 0]
Times(counter, x) == IF x \in DOMAIN counter THEN counter[x] ELSE 0
Added(counter, S) == [x \in DOMAIN counter \cup S |-> Times(counter, x) + IF x \in S THEN 1 ELSE 0]

NoTally == [counts |-> NoCounts, bundle |-> NoCounts, rule |-> NoCounts, seen |-> {}, duplicates |-> 0]
NoSums  == [rows |-> {}, faults |-> {}, findings |-> NoCounts, surfaces |-> {}]
Nobody  == [rules |-> <<>>, lanes |-> <<>>, corpora |-> <<>>]

Idle ==
  /\ stage' = "idle" /\ input' = NoInput /\ reach' = <<>> /\ at' = <<1, 1>> /\ batch' = <<>>
  /\ UNCHANGED calls /\ tally' = NoTally /\ sums' = NoSums

Init ==
  /\ held \in RuleLists /\ changes = 0
  /\ calls = 0 /\ stage = "idle" /\ input = NoInput /\ reach = <<>> /\ at = <<1, 1>> /\ batch = <<>>
  /\ tally = NoTally /\ sums = NoSums
  /\ results = NoReport /\ assigned = Nobody

-----------------------------------------------------------------------------
Runnable == { r \in ToSet(input.rules) : r.runnable }
Enabled == { r.surface : r \in Runnable }
Corpus == input.corpora[at[1]]
Unit(i) == Corpus.units[i]

Strata(u) ==
  { <<"all">>, <<"file_type", u.type>>, <<"prose", u.prose>>, <<"file_type&prose", u.type, u.prose>> }
Keys(u) == {u.surface} \X Strata(u)

(* load_corpus and the checks measure begins with.                            *)
Loadable(c) == c.intact /\ c.units # <<>>
Accepted(rules, corpora) ==
  /\ corpora # <<>> /\ \A i \in DOMAIN corpora : Loadable(corpora[i])
  /\ \A i, j \in DOMAIN corpora : corpora[i].identity = corpora[j].identity => i = j
  /\ \A i, j \in DOMAIN rules : rules[i].id = rules[j].id => i = j

Begin ==
  /\ stage = "idle"
  /\ calls < MaxCalls /\ calls' = calls + 1
  /\ \E cs \in CorpusLists : Accepted(held, cs) /\ input' = [rules |-> held, corpora |-> cs]
  /\ stage' = "examples"
  /\ UNCHANGED <<held, changes, reach, at, batch, tally, sums, results, assigned>>

(***************************************************************************)
(* reachability: every rule on its own examples.  A scan that is not         *)
(* complete ends the benchmark; nothing is written.                         *)
(***************************************************************************)
Reachability(r) ==
  IF ~r.runnable THEN "not_runnable"
  ELSE IF r.examples \cap r.matches # {} THEN "reachable"
  ELSE IF r.examples = {} THEN "no_examples" ELSE "unreachable"

TryExamples ==
  /\ stage = "examples" /\ Len(reach) < Len(input.rules)
  /\ reach' = Append(reach, Reachability(input.rules[Len(reach) + 1]))
  /\ UNCHANGED <<held, changes, calls, stage, input, at, batch, tally, sums, results, assigned>>

ExampleScanCut ==
  /\ stage = "examples" /\ Len(reach) < Len(input.rules)
  /\ input.rules[Len(reach) + 1].runnable /\ input.rules[Len(reach) + 1].examples # {}
  /\ Idle /\ UNCHANGED <<held, changes, results, assigned>>

(***************************************************************************)
(* The units, Workers of them at a time.  The scans of a batch end in any     *)
(* order; their outcomes are taken in the order of the units.                *)
(***************************************************************************)
(* A hook never scans an empty string.                                        *)
Texts(u) == IF u.leafwise THEN ToSet(u.parts) \ {EmptyText} ELSE {u.text}
Hits(u) == { r.id : r \in { r \in Runnable : r.matches \cap Texts(u) # {} } }

Outcome(state, hits) == [state |-> state, hits |-> hits]
Pending == Outcome("pending", {})

StartBatch ==
  /\ \/ stage = "examples" /\ Len(reach) = Len(input.rules)
     \/ stage = "units"
  /\ batch = <<>> /\ at[1] <= Len(input.corpora) /\ at[2] <= Len(Corpus.units)
  /\ stage' = "units"
  /\ batch' = [i \in at[2] .. Min({at[2] + Workers - 1, Len(Corpus.units)}) |-> Pending]
  /\ UNCHANGED <<held, changes, calls, input, reach, at, tally, sums, results, assigned>>

Evaluate(i) ==
  /\ batch[i] = Pending
  /\ \E o \in {Outcome("complete", Hits(Unit(i)))} \cup { Outcome("cut", h) : h \in SUBSET Hits(Unit(i)) } :
       batch' = [batch EXCEPT ![i] = o]
  /\ UNCHANGED <<held, changes, calls, stage, input, reach, at, tally, sums, results, assigned>>

Native(u) == { r.id : r \in { r \in Runnable : r.surface = u.surface } }

Counted(u, hits) ==
  [ counts     |-> Added(tally.counts, Keys(u)),
    bundle     |-> IF hits \cap Native(u) = {} THEN tally.bundle ELSE Added(tally.bundle, Keys(u)),
    rule       |-> Added(tally.rule, hits \X Keys(u)),
    seen       |-> tally.seen \cup {<<u.surface, u.text>>},
    duplicates |-> tally.duplicates + IF <<u.surface, u.text>> \in tally.seen THEN 1 ELSE 0 ]

(* _hits refuses a scan that did not finish.                                  *)
UsableWhenCut(outcome) == outcome.state # "pending"
Usable(outcome) == outcome.state = "complete"

Consume ==
  /\ at[2] \in DOMAIN batch /\ Usable(batch[at[2]])
  /\ LET u == Unit(at[2])
         hits == batch[at[2]].hits
     IN  /\ tally' = Counted(u, hits)
         /\ sums' = [sums EXCEPT !.findings = Added(@, hits), !.surfaces = @ \cup {u.surface}]
  /\ at' = <<at[1], at[2] + 1>>
  /\ batch' = IF at[2] + 1 \in DOMAIN batch THEN batch ELSE <<>>
  /\ UNCHANGED <<held, changes, calls, stage, input, reach, results, assigned>>

UnitScanCut ==
  /\ at[2] \in DOMAIN batch /\ batch[at[2]].state = "cut" /\ ~Usable(batch[at[2]])
  /\ Idle /\ UNCHANGED <<held, changes, results, assigned>>

(***************************************************************************)
(* The end of a corpus: one row for each stratum and rule, and one for the    *)
(* bundle on the surfaces it has rules for.                                 *)
(***************************************************************************)
RowOf(id, key, hits) ==
  [ of |-> id, corpus |-> Corpus.identity, surface |-> key[1], stratum |-> key[2],
    trials |-> Times(tally.counts, key), hits |-> hits ]

CorpusRows ==
  LET keys == DOMAIN tally.counts
  IN  { RowOf("bundle", key, Times(tally.bundle, key)) : key \in { k \in keys : k[1] \in Enabled } }
      \cup UNION { { RowOf(r.id, key, Times(tally.rule, <<r.id, key>>)) : key \in keys } : r \in Runnable }

RequiredStrata == Corpus.required \cup { <<"prose", "ordinary">>, <<"prose", "security-adjacent">> }
Faults ==
  LET units == ToSet(Corpus.units)
  IN  { "missing strata" : u \in { u \in units : ~({u.surface} \X RequiredStrata \subseteq DOMAIN tally.counts) } }
      \cup { "duplicates" : n \in { n \in {tally.duplicates} : n > 0 } }
      \cup { "mixed procedures" : u \in { u \in units : \E v \in units : u.leafwise # v.leafwise } }

FinishCorpus ==
  /\ stage = "units" /\ at[1] <= Len(input.corpora) /\ at[2] > Len(Corpus.units)
  /\ sums' = [sums EXCEPT !.rows = @ \cup CorpusRows, !.faults = @ \cup Faults]
  /\ tally' = NoTally /\ at' = <<at[1] + 1, 1>>
  /\ UNCHANGED <<held, changes, calls, stage, input, reach, batch, results, assigned>>

(***************************************************************************)
(* Bounds.  The worst row is the one whose reported bound is highest; it is   *)
(* compared by bound_within, which may say that it cannot tell.              *)
(***************************************************************************)
Count(row) == <<row.trials, row.hits>>
Worst(rows) == CHOOSE x \in rows : \A y \in rows : U95[Count(y)] <= U95[Count(x)]
WithinByRate(row, max) == U95[Count(row)] <= max
Within(row, max) == Count(row) \notin Unresolved /\ U95[Count(row)] <= max

BundleRows(rows) == { x \in rows : x.of = "bundle" }
BundleOK ==
  /\ sums.faults = {}
  /\ Enabled \subseteq sums.surfaces
  /\ Runnable # {}
  /\ BundleRows(sums.rows) # {} /\ Within(Worst(BundleRows(sums.rows)), AdviseMax)

(* admit, for a rule with a measurement.                                      *)
Admit(worst) ==
  IF ~Within(worst, AdviseMax) THEN "RECORD" ELSE IF Within(worst, DenyMax) THEN "DENY" ELSE "ADVISE"

AdmitFromReport(r, report) ==
  LET native == { x \in report.rows : x.of = r.id /\ x.surface = r.surface }
      lane   == Admit(Worst(native))
      shown  == report.reach[r.id]
  IN  CASE ~r.runnable \/ (shown = "unreachable" /\ report.hits[r.id] = 0) -> "DO_NOT_SHIP"
        [] r.runnable /\ shown = "unreachable" /\ report.hits[r.id] > 0 -> "RECORD"
        [] shown = "no_examples" \/ (shown = "reachable" /\ (native = {} \/ ~report.ok)) -> "RECORD"
        [] shown = "reachable" /\ native # {} /\ report.ok ->
             IF lane = "DENY" /\ ~Within(Worst(BundleRows(report.rows)), DenyMax) THEN "ADVISE" ELSE lane

Lanes(rules, report) == [i \in DOMAIN rules |-> AdmitFromReport(rules[i], report)]

Conclude ==
  /\ stage = "units" /\ at[1] > Len(input.corpora)
  /\ LET Index(id) == CHOOSE i \in DOMAIN input.rules : input.rules[i].id = id
         ids == { r.id : r \in ToSet(input.rules) }
     IN  results' = [ rules |-> input.rules, corpora |-> input.corpora, rows |-> sums.rows, ok |-> BundleOK,
                      reach |-> [id \in ids |-> reach[Index(id)]],
                      hits  |-> [id \in ids |-> Times(sums.findings, id)] ]
  /\ Idle /\ UNCHANGED <<held, changes, assigned>>

(***************************************************************************)
(* apply_report gives the lanes of a report to the very rules it is of.       *)
(***************************************************************************)
SameRules(rules, others) ==
  /\ \A i, j \in DOMAIN rules : rules[i].id = rules[j].id => i = j
  /\ ToSet(rules) = ToSet(others)

Apply ==
  /\ results # NoReport /\ SameRules(held, results.rules)
  /\ assigned' = [rules |-> held, lanes |-> Lanes(held, results), corpora |-> results.corpora]
  /\ UNCHANGED <<held, changes, call, results>>

EditRules ==
  /\ changes < MaxChanges /\ changes' = changes + 1
  /\ \E rules \in RuleLists \ {held} : held' = rules
  /\ UNCHANGED <<call, results, assigned>>

Next ==
  \/ Begin \/ TryExamples \/ ExampleScanCut
  \/ StartBatch \/ (\E i \in DOMAIN batch : Evaluate(i)) \/ Consume \/ UnitScanCut
  \/ FinishCorpus \/ Conclude \/ Apply \/ EditRules
Spec == Init /\ [][Next]_benchVars
=============================================================================
