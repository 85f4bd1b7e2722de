------------------------------- MODULE Release -------------------------------
(***************************************************************************)
(* From a timing sweep to the rules that ship (scripts/build_hazards.py and *)
(* scripts/build_bundle.py): four files that people write at different times *)
(* from a checkout that moves on in between.  Nothing ties them together but *)
(* the digests in them.                                                     *)
(***************************************************************************)
EXTENDS AtrLoader

CONSTANTS
  Checkouts,    \* the states upstream's rules pass through, sequences of files
  SweepSlow,    \* the texts a sweep finds a witness for
  ReplaySlow,   \* the texts that replaying other rules' witnesses finds slow too
  MaxEdits,     \* bound: how often upstream changes
  MaxSources,   \* bound: how many sources of corrections there are
  MaxSweeps,    \* bound: how many sweeps are run
  SurfaceSets,  \* what --surface may select
  HeldBack,     \* the ids in bundle-held-back.json
  ContentFree,  \* the blank texts no shipped rule may match
  Nothing       \* a file that was not written yet

ASSUME SlowAssumption == SweepSlow \subseteq ReplaySlow
(* A checkout is a list of files, and an id its rank among all ids.           *)
ASSUME CheckoutAssumption ==
  \A fs \in Checkouts :
    Len(fs) \in Nat /\ DOMAIN fs = 1 .. Len(fs) /\ \A i \in DOMAIN fs : fs[i].id \in Nat \ {0}

VARIABLES
  files,     \* the checkout: a sequence of files
  edits,     \* how often it changed
  report,    \* report_data.json: what the sweep measured, rule by rule
  manifest,  \* hazards-manifest.json: the texts each rule carried
  merge,     \* hazards-merge.json: a sequence of sources
  table,     \* hazards.json
  bundle,    \* the shipped rules
  swept,     \* history: the rules' texts when the sweep read them
  sweeps,    \* history: the number of sweeps
  timed,     \* history: every text that was ever timed
  slow,      \* history: every text that was ever found slow
  basis,     \* history: what was known when the table was written
  origin     \* history: the checkout and the table the bundle was built from

checkout == <<files, edits>>
evidence == <<report, swept, sweeps, timed, slow>>
vars == <<checkout, evidence, manifest, merge, table, bundle, basis, origin>>

(* Rules by id; of two files with one id the builder keeps the last.          *)
Ids(fs) == { fs[i].id : i \in DOMAIN fs }
LastOf(fs, id) == fs[Max({ i \in DOMAIN fs : fs[i].id = id })]
TextsOf(fs) == [id \in Ids(fs) |-> ConditionTexts(LastOf(fs, id))]
Distinct(texts) == Range(texts)

Init ==
  /\ files \in Checkouts /\ edits = 0
  /\ report = Nothing /\ manifest = Nothing /\ merge = <<>>
  /\ table = EmptyTable /\ bundle = Nothing
  /\ swept = Nothing /\ sweeps = 0 /\ timed = {} /\ slow = {}
  /\ basis = Nothing /\ origin = Nothing

(* Upstream publishes another revision and the checkout follows.              *)
Edit ==
  /\ edits < MaxEdits
  /\ \E fs \in Checkouts \ {files} : files' = fs
  /\ edits' = edits + 1
  /\ UNCHANGED <<evidence, manifest, merge, table, bundle, basis, origin>>

(***************************************************************************)
(* A sweep times every distinct pattern of the rules it gets through.  Of    *)
(* the patterns of a rule that crossed it names at most two.                *)
(***************************************************************************)
Row(fully, texts, reps) == [fully |-> fully, total |-> Cardinality(Distinct(texts)), reps |-> reps]

Crossing(texts) == Distinct(texts) \cap SweepSlow
Reps(texts) == IF Crossing(texts) = {} THEN {{}} ELSE { {a, b} : a, b \in Crossing(texts) }

Sweep ==
  LET texts == TextsOf(files)
  IN  /\ sweeps < MaxSweeps
      /\ \E fully \in SUBSET Ids(files), named \in [Ids(files) -> SUBSET SweepSlow] :
           /\ fully # {} /\ \A id \in Ids(files) : named[id] \in Reps(texts[id])
           /\ report' = [id \in Ids(files) |-> Row(id \in fully, texts[id], named[id])]
           /\ timed' = timed \cup UNION { Distinct(texts[id]) : id \in fully }
           /\ slow' = slow \cup UNION { Crossing(texts[id]) : id \in fully }
      /\ swept' = texts /\ sweeps' = sweeps + 1
      /\ UNCHANGED <<checkout, manifest, merge, table, bundle, basis, origin>>

(* Every script reads every rule file first.                                  *)
EmitManifest ==
  /\ report # Nothing
  /\ \A i \in DOMAIN files : files[i].readable
  /\ manifest' = TextsOf(files)
  /\ UNCHANGED <<checkout, evidence, merge, table, bundle, basis, origin>>

(***************************************************************************)
(* Corrections: a text timed on its own, as the sweep would, or by replaying *)
(* other rules' witnesses, with a row for the rule it is the whole of.       *)
(***************************************************************************)
Source(text, verdict) ==
  [ patterns |-> [t \in {text} |-> verdict],
    rules |-> [id \in { id \in Ids(files) : TextsOf(files)[id] = <<text>> } |->
                 [digest |-> <<text>>, row |-> verdict]] ]

Derived(id) ==
  LET ported == [i \in DOMAIN TextsOf(files)[id] |-> Ported(TextsOf(files)[id][i])]
  IN  Range(ported) \cup {Joined(ported)}

Correct(text, found) ==
  /\ Len(merge) < MaxSources
  /\ merge' = Append(merge, Source(text, IF text \in found THEN "slow" ELSE "fast"))
  /\ timed' = timed \cup {text}
  /\ slow' = IF text \in found THEN slow \cup {text} ELSE slow
  /\ UNCHANGED <<checkout, report, swept, sweeps, manifest, table, bundle, basis, origin>>

Candidates == UNION { Derived(id) \cup Distinct(TextsOf(files)[id]) : id \in Ids(files) } \ {<<>>}
TimeExactly == \E text \in Candidates : Correct(text, SweepSlow)
Replay      == \E text \in Candidates \cap ReplaySlow : Correct(text, ReplaySlow)

(***************************************************************************)
(* build_hazards: the rows of one rule are added to those of the rules       *)
(* before it.  A rule that crossed says something of the patterns it names   *)
(* only.  One that did not says it of each of its patterns, and of what the  *)
(* loader derives from them only that it was inferred.                      *)
(***************************************************************************)
Overlay(rows, more) == [k \in DOMAIN rows \cup DOMAIN more |-> IF k \in DOMAIN more THEN more[k] ELSE rows[k]]
Default(rows, key, row) == IF key \in DOMAIN rows THEN rows ELSE Overlay(rows, [k \in {key} |-> row])

(* A rule's own patterns are fast unless a row says more; a derived text gets  *)
(* a row only where there is none.                                           *)
FastRows(rows, texts) ==
  LET own == Distinct(texts)  ports == { Ported(t) : t \in own }
  IN  [ k \in DOMAIN rows \cup own \cup ports |->
          IF k \in DOMAIN rows /\ rows[k] # "inferred-fast" THEN rows[k]
          ELSE IF k \in own THEN "fast" ELSE "inferred-fast" ]
JoinedRow(rows, raw, texts) ==
  IF raw.logic = "any" /\ Len(texts) > 1
  THEN Default(rows, Joined([i \in DOMAIN texts |-> Ported(texts[i])]), "inferred-fast")
  ELSE rows

AddRule(acc, raw, row) ==
  LET texts == ConditionTexts(raw)
      verdict == IF row.reps # {} THEN "slow" ELSE "fast"
  IN  [ rules    |-> Overlay(acc.rules, [id \in {raw.id} |-> [digest |-> texts, row |-> verdict]]),
        patterns |-> IF row.reps # {} THEN Overlay(acc.patterns, [t \in row.reps |-> "slow"])
                     ELSE JoinedRow(FastRows(acc.patterns, texts), raw, texts) ]

MeasuredIn(rep, fs) == { id \in Ids(fs) : id \in DOMAIN rep /\ rep[id].fully }

IdentifiedByCount(fs, rep, man) ==
  \A id \in MeasuredIn(rep, fs) : rep[id].total = Cardinality(Distinct(TextsOf(fs)[id]))

(* The report gives a number of patterns; the manifest says which.            *)
Identified(fs, rep, man) ==
  \A id \in MeasuredIn(rep, fs) :
    /\ rep[id].total = Cardinality(Distinct(TextsOf(fs)[id]))
    /\ id \in DOMAIN man /\ man[id] = TextsOf(fs)[id]

(* The rules in the order of their ids; one that was not measured is passed.  *)
LastId(fs) == Max(Ids(fs) \cup {0})
Built(fs, rep) ==
  LET upTo[id \in 0 .. LastId(fs)] ==
        IF id = 0 THEN EmptyTable
        ELSE IF id \in MeasuredIn(rep, fs) THEN AddRule(upTo[id - 1], LastOf(fs, id), rep[id])
        ELSE upTo[id - 1]
  IN  upTo[LastId(fs)]

(* The corrections, in their order, over what was built.                      *)
ApplySource(t, source) ==
  [ rules |-> Overlay(t.rules, source.rules), patterns |-> Overlay(t.patterns, source.patterns) ]
Corrected(t, sources) ==
  LET after[i \in 0 .. Len(sources)] == IF i = 0 THEN t ELSE ApplySource(after[i - 1], sources[i])
  IN  after
(* A row of the table is stronger than a correction.                          *)
WithMissingOnly(t, sources) == FoldLeft(LAMBDA acc, s : ApplySource(s, acc), t, sources)

WithCorrections(t, sources) == Corrected(t, sources)[Len(sources)]

(* The build stops rather than let a correction take a slow row back.         *)
Downgrades(t, sources) ==
  \E i \in DOMAIN sources :
    LET before == Corrected(t, sources)[i - 1]
        new    == sources[i]
    IN  \/ \E k \in DOMAIN before.patterns \cap DOMAIN new.patterns :
             before.patterns[k] = "slow" /\ new.patterns[k] # "slow"
        \/ \E k \in DOMAIN before.rules \cap DOMAIN new.rules :
             before.rules[k].row = "slow" /\ new.rules[k].row # "slow"

BuildHazards ==
  /\ report # Nothing /\ manifest # Nothing
  /\ \A i \in DOMAIN files : files[i].readable
  /\ Identified(files, report, manifest)
  /\ ~Downgrades(Built(files, report), merge)
  /\ table' = WithCorrections(Built(files, report), merge)
  /\ basis' = [ timed |-> timed, slow |-> slow, merge |-> merge,
                together |-> \A id \in MeasuredIn(report, files) : manifest[id] = swept[id] ]
  /\ UNCHANGED <<checkout, evidence, manifest, merge, bundle, origin>>

(***************************************************************************)
(* build_bundle: the rules of the pinned archive that travel.               *)
(***************************************************************************)
Accepted(t, rule) == Compiles(t, rule.pred, TRUE)
FiresOnNothing(t, rule) == \E s \in ContentFree : TrustedScan(t, rule.pred, TRUE, s).hit # NoHit

Travels(t, rule, surfaces) ==
  /\ rule.surface \in surfaces
  /\ rule.pred.kind # "none"
  /\ ~rule.restricted
  /\ rule.id \notin HeldBack
  /\ Accepted(t, rule)
  /\ ~FiresOnNothing(t, rule)

(* The examples stay behind; what they showed travels.                        *)
Reachability(t, rule) ==
  IF \E s \in rule.examples : TrustedScan(t, rule.pred, TRUE, s).hit # NoHit THEN "reachable"
  ELSE IF rule.examples = {} THEN "no_examples" ELSE "unreachable"
Trimmed(t, rule) ==
  [ id |-> rule.id, surface |-> rule.surface, pred |-> rule.pred,
    binding |-> rule.binding, reach |-> Reachability(t, rule) ]

BuildBundle ==
  \E surfaces \in SurfaceSets :
    LET loaded == Load(table, files).rules
        keep   == Only(loaded, { rule \in Range(loaded) : Travels(table, rule, surfaces) })
    IN  /\ keep # <<>>
        /\ bundle' = [i \in DOMAIN keep |-> Trimmed(table, keep[i])]
        /\ origin' = [files |-> files, table |-> table]
        /\ UNCHANGED <<checkout, evidence, manifest, merge, table, basis>>

Next == Edit \/ Sweep \/ EmitManifest \/ TimeExactly \/ Replay \/ BuildHazards \/ BuildBundle
Spec == Init /\ [][Next]_vars
=============================================================================
