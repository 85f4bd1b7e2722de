--------------------------- MODULE HookConfig_proofs ---------------------------
(***************************************************************************)
(* Why a lane is earned whatever commands, edits and upgrades interleave:   *)
(* every copy of the config, on disk or in the hands of a command or of the *)
(* hook, carries no evidence or evidence that is a completed measurement of *)
(* the rule set its fingerprint names.  A stale write can only bring back   *)
(* evidence that was true of another rule set, and the fingerprint then     *)
(* refuses it.                                                              *)
(***************************************************************************)
EXTENDS HookConfigProps, FiniteSetTheorems, TLAPS

DistinctIds(R) == R \subseteq AllRules /\ \A r, s \in R : r.id = s.id => r = s

(* A measurement has at most a sample per surface, each of bounded length.    *)
WellFormed(m) ==
  /\ \A x, y, z \in m : x = y \/ y = z \/ x = z
  /\ \A s \in m : s.trials \in Trials /\ Len(s.trials) <= MaxCount

Truthful(e) ==
  /\ DistinctIds(e.fingerprint.rules)
  /\ \E m \in measured :
       /\ Sampled(m) = e.fingerprint.rules
       /\ e = Evidence(e.fingerprint.surfaces, e.fingerprint.rules, m)

Backed(c) == c.evidence # NoEvidence => Truthful(c.evidence)

ReportOK ==
  report # NoReport =>
    report.samples \in measured /\ Sampled(report.samples) \subseteq report.rules

JobsOK ==
  /\ job = [p \in Procs |-> job[p]]
  /\ \A p \in Procs : Backed(job[p].config) /\ DistinctIds(job[p].rules)

HookOK == Backed(hook.config) /\ DistinctIds(hook.rules)

MeasuredOK == \A m \in measured : WellFormed(m)

IInv == /\ bundle \in Bundles
        /\ MeasuredOK
        /\ Backed(config)
        /\ ReportOK
        /\ JobsOK
        /\ HookOK

-----------------------------------------------------------------------------
(* Rows and samples. *)

(* A row counts at most as many hits as trials, so U95 is defined on it.      *)
LEMMA RowBound ==
  ASSUME NEW trials \in Trials, Len(trials) <= MaxCount, NEW R
  PROVE  U95[Row(trials, R)] \in Nat
<1> DEFINE H == {i \in DOMAIN trials : trials[i] \cap R # {}}
<1>1. Len(trials) \in Nat /\ DOMAIN trials = 1 .. Len(trials)
  <2>1. trials \in Seq(SUBSET AllRules)
    BY DEF Trials
  <2> QED
    BY <2>1
<1>2. IsFiniteSet(1 .. Len(trials)) /\ Cardinality(1 .. Len(trials)) = Len(trials)
  <2>1. IsFiniteSet(1 .. Len(trials))
    BY <1>1, FS_Interval
  <2>2. Cardinality(1 .. Len(trials)) = IF 1 > Len(trials) THEN 0 ELSE Len(trials) - 1 + 1
    BY <1>1, FS_Interval
  <2> QED
    BY <1>1, <2>1, <2>2
<1>3. H \subseteq 1 .. Len(trials)
  BY <1>1
<1>4. Cardinality(H) <= Len(trials) /\ IsFiniteSet(H)
  BY <1>2, <1>3, FS_Subset
<1>5. Cardinality(H) \in Nat
  BY <1>4, FS_CardinalityType
<1>6. Row(trials, R) = <<Len(trials), Cardinality(H)>>
  BY DEF Row
<1>7. Row(trials, R) \in (0 .. MaxCount) \X (0 .. MaxCount)
  <2> HIDE DEF H
  <2> QED
    BY <1>1, <1>4, <1>5, <1>6, TrialsAssumption DEF TrialsAssumption
<1> QED
  BY <1>7, BoundsAssumption DEF BoundsAssumption

(* The bundle's row is the worst of its samples' rows.                        *)
LEMMA WorstIsWorst ==
  ASSUME NEW m, WellFormed(m), NEW s \in m
  PROVE  /\ Worst({Row(t.trials, t.of) : t \in m}) \in {Row(t.trials, t.of) : t \in m}
         /\ U95[Row(s.trials, s.of)] <= U95[Worst({Row(t.trials, t.of) : t \in m})]
<1> DEFINE R(t) == Row(t.trials, t.of)
<1> DEFINE rows == {R(t) : t \in m}
<1>1. \A t \in m : U95[R(t)] \in Nat
  BY RowBound DEF WellFormed
<1>2. \E t \in m : \A u \in m : U95[R(u)] <= U95[R(t)]
  <2>1. CASE \A u \in m : U95[R(u)] <= U95[R(s)]
    BY <2>1
  <2>2. CASE \E u \in m : ~(U95[R(u)] <= U95[R(s)])
    <3>1. PICK u \in m : ~(U95[R(u)] <= U95[R(s)])
      BY <2>2
    <3> HIDE DEF R
    <3>2. u # s
      BY <1>1, <3>1
    <3>3. \A v \in m : v = u \/ v = s
      BY <3>2 DEF WellFormed
    <3>4. U95[R(s)] <= U95[R(u)]
      BY <1>1, <3>1
    <3> QED
      BY <1>1, <3>3, <3>4
  <2> QED
    BY <2>1, <2>2
<1>3. \E x \in rows : \A y \in rows : U95[y] <= U95[x]
  BY <1>2
<1>4. Worst(rows) \in rows /\ \A y \in rows : U95[y] <= U95[Worst(rows)]
  BY <1>3 DEF Worst
<1>5. R(s) \in rows
  OBVIOUS
<1> QED
  BY <1>4, <1>5

(* A bench run measures its rules, at most once per surface.                  *)
LEMMA BenchWellFormed ==
  ASSUME NEW R, NEW c \in Corpora
  PROVE  WellFormed(Samples(R, c))
<1> DEFINE At(s) == [of |-> OnSurface(R, s), trials |-> c[s]]
<1>1. \A x \in Samples(R, c) : x = At("IN") \/ x = At("OUT")
  BY DEF Samples, Surfaces
<1>2. \A s \in Surfaces : At(s).trials \in Trials /\ Len(At(s).trials) <= MaxCount
  BY TrialsAssumption DEF TrialsAssumption
<1>3. "IN" \in Surfaces /\ "OUT" \in Surfaces
  BY DEF Surfaces
<1> HIDE DEF At
<1>4. \A x, y, z \in Samples(R, c) : x = y \/ y = z \/ x = z
  BY <1>1
<1>5. \A x \in Samples(R, c) : x.trials \in Trials /\ Len(x.trials) <= MaxCount
  BY <1>1, <1>2, <1>3
<1> QED
  BY <1>4, <1>5 DEF WellFormed
LEMMA SamplesOfRules ==
  ASSUME NEW R, NEW c
  PROVE  Sampled(Samples(R, c)) \subseteq R
  BY DEF Sampled, Samples, OnSurface

(* What an evidence record holds.                                             *)
LEMMA EvidenceFields ==
  ASSUME NEW surfaces, NEW R, NEW m
  PROVE  /\ Evidence(surfaces, R, m).fingerprint = Fingerprint(R, surfaces)
         /\ Evidence(surfaces, R, m).bundle = Worst({Row(s.trials, s.of) : s \in m})
  BY DEF Evidence
LEMMA EvidenceRules ==
  ASSUME NEW surfaces, NEW R, NEW m, NEW r \in R
  PROVE  Evidence(surfaces, R, m).rules[r.id] = RowOf(m, RuleOf(R, r.id))
  BY DEF Evidence

(* Truthful evidence that admits a rule is a measurement that earns it.       *)
LEMMA AdmittedIsEarned ==
  ASSUME IInv, NEW c, Backed(c), NEW R, Valid(c, R), NEW r \in R,
         NEW lane \in {"ADVISE", "DENY"}, Admitted(c.evidence, r, Max(lane))
  PROVE  \E m \in measured : Earned(m, R, r, lane)
<1> DEFINE e == c.evidence
<1>1. e.fingerprint.rules = R
  BY DEF Valid, Fingerprint
<1>2. DistinctIds(R)
  BY <1>1 DEF Backed, Truthful, Valid
<1>3. PICK m \in measured : Sampled(m) = R /\ e = Evidence(e.fingerprint.surfaces, R, m)
  BY <1>1 DEF Backed, Truthful, Valid
<1> HIDE DEF e
<1>4. WellFormed(m)
  BY <1>3 DEF IInv, MeasuredOK
<1>5. e.bundle = Worst({Row(s.trials, s.of) : s \in m})
  BY <1>3, EvidenceFields
<1>6. RuleOf(R, r.id) = r
  BY <1>2 DEF RuleOf, DistinctIds
<1>7. e.rules[r.id] = RowOf(m, r)
  BY <1>3, <1>6, EvidenceRules
<1>8. SampleOf(m, r) \in m /\ r \in SampleOf(m, r).of
  BY <1>3 DEF SampleOf, Sampled
<1>9. U95[e.rules[r.id]] <= Max(lane) /\ U95[e.bundle] <= Max(lane)
  BY DEF Admitted, Within, e
<1>10. \A s \in m : U95[Row(s.trials, s.of)] <= Max(lane)
  <2> SUFFICES ASSUME NEW s \in m
               PROVE  U95[Row(s.trials, s.of)] <= Max(lane)
    OBVIOUS
  <2>1. U95[Row(s.trials, s.of)] <= U95[e.bundle]
    BY <1>4, <1>5, WorstIsWorst
  <2>2. U95[Row(s.trials, s.of)] \in Nat
    BY <1>4, RowBound DEF WellFormed
  <2>3. Max(lane) \in Nat
    BY BoundsAssumption DEF Max, BoundsAssumption
  <2>4. PICK t \in m : e.bundle = Row(t.trials, t.of)
    BY <1>4, <1>5, WorstIsWorst
  <2>5. U95[e.bundle] \in Nat
    BY <1>4, <2>4, RowBound DEF WellFormed
  <2> QED
    BY <2>1, <2>2, <2>3, <2>5, <1>9
<1> QED
  BY <1>3, <1>7, <1>8, <1>9, <1>10 DEF Earned, RowOf

-----------------------------------------------------------------------------
(* The invariant. *)

(* A completed measurement stays completed, so truthful evidence stays so.    *)
LEMMA StaysBacked ==
  ASSUME NEW c, Backed(c), measured \subseteq measured'
  PROVE  Backed(c)'
BY DEF Backed, Truthful

(* The rules enabled in a bundle have one version each.                       *)
LEMMA ActiveDistinct ==
  ASSUME NEW c, NEW B \in Bundles
  PROVE  DistinctIds(Active(c, B))
BY BundlesAssumption DEF BundlesAssumption, DistinctIds, Active

LEMMA DefaultBacked == Backed(DefaultConfig)
BY DEF Backed, DefaultConfig, Config

LEMMA NoRules == DistinctIds({})
BY DEF DistinctIds

LEMMA InitIInv == Init => IInv
<1> SUFFICES ASSUME Init PROVE IInv
  OBVIOUS
<1>1. MeasuredOK /\ ReportOK /\ bundle \in Bundles
  BY DEF Init, MeasuredOK, ReportOK
<1>2. JobsOK
  BY NoRules, DefaultBacked DEF Init, JobsOK, NoJob, Job
<1>3. HookOK
  BY NoRules, DefaultBacked DEF Init, HookOK, Event
<1> QED
  BY <1>1, <1>2, <1>3, DefaultBacked DEF Init, IInv

(* Evidence built from a completed measurement of its rules is truthful.      *)
LEMMA NewEvidence ==
  ASSUME NEW c, NEW R, DistinctIds(R), NEW m \in measured', Sampled(m) = R
  PROVE  Backed(WithEvidence(c, Evidence(c.surfaces, R, m)))'
<1> DEFINE e == Evidence(c.surfaces, R, m)
<1>1. e.fingerprint = [rules |-> R, surfaces |-> c.surfaces]
  BY EvidenceFields DEF Fingerprint
<1> HIDE DEF e
<1>2. e.fingerprint.rules = R /\ e.fingerprint.surfaces = c.surfaces
  BY <1>1
<1>3. e = Evidence(e.fingerprint.surfaces, e.fingerprint.rules, m)
  BY <1>2 DEF e
<1>4. Truthful(e)'
  BY <1>2, <1>3 DEF Truthful
<1>5. WithEvidence(c, e).evidence = e
  BY DEF WithEvidence, Config
<1>6. Backed(WithEvidence(c, e))'
  BY <1>4, <1>5 DEF Backed, Truthful
<1> QED
  BY <1>6 DEF e

(* A command that gives itself a backed config and sound rules keeps JobsOK.  *)
LEMMA OneJob ==
  ASSUME JobsOK, measured \subseteq measured', NEW p \in Procs,
         NEW stage, NEW cmd, NEW c, NEW R, NEW want, Backed(c)', DistinctIds(R),
         job' = [job EXCEPT ![p] = Job(stage, cmd, c, R, want)]
  PROVE  JobsOK'
<1>1. \A q \in Procs : job'[q] = IF q = p THEN Job(stage, cmd, c, R, want) ELSE job[q]
  BY DEF JobsOK
<1>2. ASSUME NEW q \in Procs
      PROVE  Backed(job[q].config)' /\ DistinctIds(job[q].rules)'
  <2>1. CASE q = p
    <3>1. job'[q].config = c /\ job'[q].rules = R
      BY <1>1, <2>1 DEF Job
    <3> QED
      BY <3>1 DEF Backed, Truthful
  <2>2. CASE q # p
    <3>1. job'[q] = job[q] /\ Backed(job[q].config) /\ DistinctIds(job[q].rules)
      BY <1>1, <2>2 DEF JobsOK
    <3> QED
      BY <3>1 DEF Backed, Truthful
  <2> QED
    BY <2>1, <2>2
<1>3. job' = [q \in Procs |-> job'[q]]
  BY DEF JobsOK
<1> QED
  BY <1>2, <1>3 DEF JobsOK

(* What a command leaves alone stays sound.                                   *)
LEMMA Untouched ==
  ASSUME IInv, measured \subseteq measured'
  PROVE  /\ UNCHANGED config => Backed(config)'
         /\ UNCHANGED report => ReportOK'
         /\ UNCHANGED hook => HookOK'
         /\ UNCHANGED job => JobsOK'
         /\ UNCHANGED measured => MeasuredOK'
         /\ UNCHANGED bundle => (bundle \in Bundles)'
BY DEF IInv, Backed, Truthful, ReportOK, HookOK, JobsOK, MeasuredOK

LEMMA StepIInv == IInv /\ [Next]_vars => IInv'
<1> SUFFICES ASSUME IInv, [Next]_vars PROVE IInv'
  OBVIOUS
<1>0. \A p \in Procs : Backed(job[p].config) /\ DistinctIds(job[p].rules)
  BY DEF IInv, JobsOK
<1>j. JobsOK /\ HookOK /\ Backed(config) /\ bundle \in Bundles /\ MeasuredOK /\ ReportOK
  BY DEF IInv
(* The steps that measure nothing keep what was backed.                       *)
<1>k. ASSUME UNCHANGED measured, NEW c, Backed(c)
      PROVE  Backed(c)'
  BY <1>k DEF Backed, Truthful
<1>1. ASSUME NEW p \in Procs, Start(p) \/ StartPromote(p)
      PROVE  IInv'
  <2>1. UNCHANGED <<config, bundle, report, hook, measured>>
    BY <1>1 DEF Start, StartPromote, Others
  <2>2. PICK c : c = config
    OBVIOUS
  <2>3. PICK cmd, want : job' = [job EXCEPT ![p] = Job("read", cmd, c, {}, want)]
    <3>1. CASE Start(p)
      BY <2>2, <3>1 DEF Start
    <3>2. CASE StartPromote(p)
      BY <2>2, <3>2 DEF StartPromote
    <3> QED
      BY <1>1, <3>1, <3>2
  <2>4. JobsOK'
    <3>1. Backed(c)'
      BY <1>j, <1>k, <2>1, <2>2
    <3> QED
      BY <1>j, <2>1, <2>3, <3>1, NoRules, OneJob
  <2> QED
    BY <2>1, <2>4, Untouched DEF IInv
<1>2. ASSUME NEW p \in Procs, StartInstall(p) \/ Abandon(p)
      PROVE  IInv'
  <2>1. UNCHANGED <<config, bundle, report, hook, measured>>
    BY <1>2 DEF StartInstall, Abandon, Others
  <2>2. PICK stage, cmd : job' = [job EXCEPT ![p] = Job(stage, cmd, DefaultConfig, {}, NoWant)]
    <3>1. CASE StartInstall(p)
      BY <3>1 DEF StartInstall
    <3>2. CASE Abandon(p)
      BY <3>2 DEF Abandon
    <3> QED
      BY <1>2, <3>1, <3>2
  <2>3. JobsOK'
    <3>1. Backed(DefaultConfig)'
      BY <2>1, DefaultBacked DEF Backed, Truthful
    <3> QED
      BY <1>j, <2>1, <2>2, <3>1, NoRules, OneJob
  <2> QED
    BY <2>1, <2>3, Untouched DEF IInv
<1>3. ASSUME NEW p \in Procs, LoadRules(p)
      PROVE  IInv'
  <2>1. UNCHANGED <<config, bundle, report, hook, measured>>
    BY <1>3 DEF LoadRules, Others
  <2>2. PICK c, R : c = job[p].config /\ R = Active(c, bundle)
    OBVIOUS
  <2>3. DistinctIds(R) /\ Backed(c)'
    BY <1>0, <1>j, <1>k, <2>1, <2>2, ActiveDistinct
  <2>4. JobsOK'
    BY <1>3, <1>j, <2>1, <2>2, <2>3, OneJob DEF LoadRules, Goes
  <2> QED
    BY <2>1, <2>4, Untouched DEF IInv
<1>4. ASSUME NEW p \in Procs, Calibrate(p)
      PROVE  IInv'
  <2>1. UNCHANGED <<config, bundle, report, hook>>
    BY <1>4 DEF Calibrate
  <2>2. PICK c, R : c = job[p].config /\ R = job[p].rules
    OBVIOUS
  <2>3. PICK d \in Directories :
          /\ measured' = measured \cup {{[of |-> R, trials |-> d]}}
          /\ Goes(p, "ready", WithEvidence(c, Evidence(c.surfaces, R, {[of |-> R, trials |-> d]})), R)
    BY <1>4, <2>2 DEF Calibrate
  <2> DEFINE m == {[of |-> R, trials |-> d]}
  <2>4. WellFormed(m)
    BY TrialsAssumption DEF WellFormed, TrialsAssumption
  <2>5. Sampled(m) = R
    BY DEF Sampled
  <2> HIDE DEF m
  <2>6. measured' = measured \cup {m}
    BY <2>3 DEF m
  <2>7. PICK k : k = WithEvidence(c, Evidence(c.surfaces, R, m))
    OBVIOUS
  <2>8. DistinctIds(R) /\ Backed(k)'
    <3>1. DistinctIds(R)
      BY <1>0, <2>2
    <3>2. m \in measured'
      BY <2>6
    <3>3. Backed(WithEvidence(c, Evidence(c.surfaces, R, m)))'
      BY <2>5, <3>1, <3>2, NewEvidence
    <3> QED
      BY <2>7, <3>1, <3>3
  <2>9. job' = [job EXCEPT ![p] = Job("ready", job[p].cmd, k, R, job[p].want)]
    BY <2>3, <2>7 DEF Goes, m
  <2>10. JobsOK'
    BY <1>j, <2>6, <2>8, <2>9, OneJob
  <2>11. MeasuredOK'
    BY <1>j, <2>4, <2>6 DEF MeasuredOK
  <2> QED
    BY <2>1, <2>6, <2>10, <2>11, Untouched DEF IInv
<1>5. ASSUME NEW p \in Procs, Import(p)
      PROVE  IInv'
  <2>1. UNCHANGED <<config, bundle, report, hook, measured>>
    BY <1>5 DEF Import, Others
  <2>2. PICK c, R, m : c = job[p].config /\ R = job[p].rules /\ m = report.samples
    OBVIOUS
  <2>3. m \in measured /\ Sampled(m) = R
    BY <1>5, <1>j, <2>2 DEF Import, ReportOK
  <2>4. PICK k : k = WithEvidence(c, Evidence(c.surfaces, R, m))
    OBVIOUS
  <2>5. DistinctIds(R) /\ Backed(k)'
    <3>1. DistinctIds(R)
      BY <1>0, <2>2
    <3>2. m \in measured'
      BY <2>1, <2>3
    <3>3. Backed(WithEvidence(c, Evidence(c.surfaces, R, m)))'
      BY <2>3, <3>1, <3>2, NewEvidence
    <3> QED
      BY <2>4, <3>1, <3>3
  <2>6. job' = [job EXCEPT ![p] = Job("ready", job[p].cmd, k, R, job[p].want)]
    BY <1>5, <2>2, <2>4 DEF Import, Goes
  <2>7. JobsOK'
    BY <1>j, <2>1, <2>5, <2>6, OneJob
  <2> QED
    BY <2>1, <2>7, Untouched DEF IInv
<1>6. ASSUME NEW p \in Procs, Promote(p)
      PROVE  IInv'
  <2>1. UNCHANGED <<config, bundle, report, hook, measured>>
    BY <1>6 DEF Promote, Others
  <2>2. PICK c, R : /\ R = job[p].rules
                    /\ c.evidence = job[p].config.evidence
                    /\ job' = [job EXCEPT ![p] = Job("ready", job[p].cmd, c, R, job[p].want)]
    BY <1>6 DEF Promote, Goes, Config
  <2>3. DistinctIds(R) /\ Backed(c)
    BY <1>0, <2>2 DEF Backed
  <2>4. JobsOK'
    BY <1>j, <1>k, <2>1, <2>2, <2>3, OneJob
  <2> QED
    BY <2>1, <2>4, Untouched DEF IInv
<1>7. ASSUME NEW p \in Procs, Save(p)
      PROVE  IInv'
  <2>1. UNCHANGED <<bundle, report, hook, measured>> /\ config' = job[p].config
    BY <1>7 DEF Save
  <2>2. PICK c, R : c = job[p].config /\ R = job[p].rules
    OBVIOUS
  <2>3. DistinctIds(R) /\ Backed(c)'
    BY <1>0, <1>k, <2>1, <2>2
  <2>4. job' = [job EXCEPT ![p] = Job("done", job[p].cmd, c, R, job[p].want)]
    BY <1>7, <2>2 DEF Save, Goes
  <2>5. JobsOK'
    BY <1>j, <2>1, <2>3, <2>4, OneJob
  <2>6. Backed(config)'
    BY <2>1, <2>2, <2>3 DEF Backed, Truthful
  <2> QED
    BY <2>1, <2>5, <2>6, Untouched DEF IInv
<1>8. CASE HookReads
  <2>1. UNCHANGED <<config, bundle, report, job, measured>> /\ hook' = Event("read", config, {})
    BY <1>8 DEF HookReads
  <2>2. HookOK'
    BY <1>j, <2>1, NoRules DEF HookOK, Event, Backed, Truthful
  <2> QED
    BY <2>1, <2>2, Untouched DEF IInv
<1>9. CASE HookDecides
  <2>1. /\ UNCHANGED <<config, bundle, report, job, measured>>
        /\ hook' = Event("decided", hook.config, Active(hook.config, bundle))
    BY <1>9 DEF HookDecides
  <2>2. DistinctIds(Active(hook.config, bundle))
    BY <1>j, ActiveDistinct
  <2>3. HookOK'
    BY <1>j, <2>1, <2>2 DEF HookOK, Event, Backed, Truthful
  <2> QED
    BY <2>1, <2>3, Untouched DEF IInv
<1>10. CASE Edit
  <2>1. UNCHANGED <<bundle, report, job, hook, measured>> /\ config'.evidence = config.evidence
    BY <1>10 DEF Edit, Config
  <2>2. Backed(config)'
    BY <1>j, <2>1 DEF Backed, Truthful
  <2> QED
    BY <2>1, <2>2, Untouched DEF IInv
<1>11. CASE Upgrade
  <2>1. UNCHANGED <<config, report, job, hook, measured>> /\ bundle' \in Bundles
    BY <1>11 DEF Upgrade
  <2> QED
    BY <2>1, Untouched DEF IInv
<1>12. CASE Bench
  <2>1. UNCHANGED <<config, bundle, job, hook>>
    BY <1>12 DEF Bench
  <2>2. PICK R \in SUBSET bundle, c \in Corpora :
          /\ measured' = measured \cup {Samples(R, c)}
          /\ report'.rules = R /\ report'.samples = Samples(R, c)
    BY <1>12 DEF Bench
  <2>3. WellFormed(Samples(R, c))
    BY BenchWellFormed
  <2>4. Sampled(Samples(R, c)) \subseteq R
    BY SamplesOfRules
  <2>5. MeasuredOK'
    BY <1>j, <2>2, <2>3 DEF MeasuredOK
  <2>6. ReportOK'
    BY <2>2, <2>4 DEF ReportOK
  <2> QED
    BY <2>1, <2>2, <2>5, <2>6, Untouched DEF IInv
<1>13. CASE UNCHANGED vars
  BY <1>13, Untouched DEF vars, IInv
<1> QED
  BY <1>1, <1>2, <1>3, <1>4, <1>5, <1>6, <1>7, <1>8, <1>9, <1>10, <1>11, <1>12, <1>13
  DEF Next, Command

(* Every copy of the config carries truthful evidence or none.                *)
THEOREM Inductive == Spec => []IInv
<1>1. Init => IInv
  BY InitIInv
<1>2. IInv /\ [Next]_vars => IInv'
  BY StepIInv
<1> QED
  BY <1>1, <1>2, PTL DEF Spec

(* "A rule may not act until its benign firing rate is measured"              *)
(* (README.md:75), for every set of sources, rules, corpora and bounds and    *)
(* every interleaving of commands, edits, upgrades and hook events.           *)
THEOREM LaneEarned == Spec => []LaneIsEarned
<1>1. IInv => LaneIsEarned
  <2> SUFFICES ASSUME IInv, NEW r \in hook.rules, NEW lane \in {"ADVISE", "DENY"},
                      EffectiveLane(hook.config, hook.rules, r) = lane
               PROVE  \E m \in measured : Earned(m, hook.rules, r, lane)
    BY DEF LaneIsEarned
  <2> DEFINE k == Ceiling(hook.config, hook.rules, r)
  <2>1. k = lane \/ (lane = "ADVISE" /\ k = "DENY")
    BY DEF EffectiveLane, Lower, Ceiling, Rank
  <2>2. /\ Valid(hook.config, hook.rules)
        /\ Admitted(hook.config.evidence, r, Max(lane))
    BY <2>1 DEF Ceiling, Max
  <2> QED
    BY <2>2, AdmittedIsEarned DEF IInv, HookOK
<1> QED
  BY <1>1, Inductive, PTL
-----------------------------------------------------------------------------
(* What a command was asked for.  Between the read and the write a command    *)
(* holds lanes somebody asked for, except the one lane a promotion is about   *)
(* to write: that one is asked for in the step that writes it.  A promotion   *)
(* past its check holds rules of its source, all of which reach the lane.     *)

Pending(j, s) ==
  /\ j.stage = "ready" /\ j.cmd = "promote"
  /\ j.want.source = s /\ j.want.lane = j.config.sources[s]

Asks(j, A) ==
  /\ j.config.sources \in [Sources -> Lanes]
  /\ \A s \in Sources : <<s, j.config.sources[s]>> \in A \/ Pending(j, s)
  /\ j.cmd = "promote" =>
       j.want.source \in Sources /\ j.want.lane \in Lanes \ {"DO_NOT_SHIP"}
  /\ j.cmd = "promote" /\ j.stage \in {"ready", "done"} =>
       /\ Reaches(j.config, j.rules, j.want)
       /\ j.config.sources[j.want.source] = j.want.lane
       /\ \E r \in j.rules : r.source = j.want.source

RequestsOK ==
  /\ \A s \in Sources : <<s, "RECORD">> \in asked
  /\ config.sources \in [Sources -> Lanes]
  /\ PromotionIsExplicit
  /\ job = [p \in Procs |-> job[p]]
  /\ \A p \in Procs : Asks(job[p], asked)

(* What was asked for stays asked for.                                        *)
LEMMA StillAsks ==
  ASSUME NEW j, NEW A, NEW B, A \subseteq B, Asks(j, A)
  PROVE  Asks(j, B)
BY DEF Asks

(* The default asks for nothing.                                              *)
LEMMA DefaultAsks ==
  ASSUME NEW stage, NEW cmd, cmd # "promote", NEW R, NEW want, NEW A,
         \A s \in Sources : <<s, "RECORD">> \in A
  PROVE  /\ DefaultConfig.sources \in [Sources -> Lanes]
         /\ \A s \in Sources : <<s, DefaultConfig.sources[s]>> \in A
         /\ Asks(Job(stage, cmd, DefaultConfig, R, want), A)
<1>1. DefaultConfig.sources = [s \in Sources |-> "RECORD"]
  BY DEF DefaultConfig, Config
<1>2. "RECORD" \in Lanes
  BY DEF Lanes
<1>3. DefaultConfig.sources \in [Sources -> Lanes]
  BY <1>1, <1>2
<1>4. \A s \in Sources : <<s, DefaultConfig.sources[s]>> \in A
  BY <1>1
<1> QED
  BY <1>3, <1>4 DEF Asks, Job

(* The steps that move one command and leave the file alone.                  *)
LEMMA OneRequest ==
  ASSUME RequestsOK, asked \subseteq asked', NEW p \in Procs, NEW j, Asks(j, asked'),
         job' = [job EXCEPT ![p] = j],
         config'.sources \in [Sources -> Lanes], PromotionIsExplicit'
  PROVE  RequestsOK'
<1>1. \A q \in Procs : job'[q] = IF q = p THEN j ELSE job[q]
  BY DEF RequestsOK
<1>2. \A q \in Procs : Asks(job'[q], asked')
  BY <1>1, StillAsks DEF RequestsOK
<1>3. job' = [q \in Procs |-> job'[q]]
  BY DEF RequestsOK
<1>4. \A s \in Sources : <<s, "RECORD">> \in asked'
  BY DEF RequestsOK
<1> QED
  BY <1>2, <1>3, <1>4 DEF RequestsOK

LEMMA InitRequests == Init => RequestsOK
<1> SUFFICES ASSUME Init PROVE RequestsOK
  OBVIOUS
<1>1. \A s \in Sources : <<s, "RECORD">> \in asked
  BY DEF Init
<1>2. PICK A : A = asked
  OBVIOUS
<1>3. /\ DefaultConfig.sources \in [Sources -> Lanes]
      /\ \A s \in Sources : <<s, DefaultConfig.sources[s]>> \in A
      /\ Asks(NoJob, A)
  BY <1>1, <1>2, DefaultAsks DEF NoJob
<1>4. job = [p \in Procs |-> NoJob] /\ config = DefaultConfig
  BY DEF Init
<1>5. PromotionIsExplicit
  BY <1>2, <1>3, <1>4 DEF PromotionIsExplicit
<1>6. \A p \in Procs : Asks(job[p], asked)
  BY <1>2, <1>3, <1>4
<1> QED
  BY <1>1, <1>3, <1>4, <1>5, <1>6 DEF RequestsOK

LEMMA StepRequests == RequestsOK /\ [Next]_vars => RequestsOK'
<1> SUFFICES ASSUME RequestsOK, [Next]_vars PROVE RequestsOK'
  OBVIOUS
<1>0. /\ \A p \in Procs : Asks(job[p], asked)
      /\ config.sources \in [Sources -> Lanes]
      /\ \A s \in Sources : <<s, config.sources[s]>> \in asked
      /\ \A s \in Sources : <<s, "RECORD">> \in asked
  BY DEF RequestsOK, PromotionIsExplicit
<1>u. UNCHANGED <<config, asked>> =>
        config'.sources \in [Sources -> Lanes] /\ PromotionIsExplicit'
  BY DEF RequestsOK, PromotionIsExplicit
<1>v. ASSUME UNCHANGED job, asked \subseteq asked', config'.sources \in [Sources -> Lanes],
             PromotionIsExplicit'
      PROVE  RequestsOK'
  <2>1. \A p \in Procs : Asks(job'[p], asked')
    BY <1>0, <1>v, StillAsks
  <2> QED
    BY <1>v, <2>1 DEF RequestsOK
<1>1. ASSUME NEW p \in Procs, Start(p)
      PROVE  RequestsOK'
  <2>1. PICK cmd \in {"calibrate", "import"} :
          job' = [job EXCEPT ![p] = Job("read", cmd, config, {}, NoWant)]
    BY <1>1 DEF Start
  <2>2. UNCHANGED <<config, asked>>
    BY <1>1 DEF Start, Others
  <2>3. Asks(Job("read", cmd, config, {}, NoWant), asked')
    BY <1>0, <2>1, <2>2 DEF Asks, Job
  <2> QED
    BY <1>u, <2>1, <2>2, <2>3, OneRequest
<1>2. ASSUME NEW p \in Procs, StartPromote(p)
      PROVE  RequestsOK'
  <2>1. PICK s \in Sources, l \in Lanes \ {"DO_NOT_SHIP"} :
          job' = [job EXCEPT ![p] =
                    Job("read", "promote", config, {}, [source |-> s, lane |-> l])]
    BY <1>2 DEF StartPromote
  <2>2. UNCHANGED <<config, asked>>
    BY <1>2 DEF StartPromote, Others
  <2>3. Asks(Job("read", "promote", config, {}, [source |-> s, lane |-> l]), asked')
    BY <1>0, <2>2 DEF Asks, Job
  <2> QED
    BY <1>u, <2>1, <2>2, <2>3, OneRequest
<1>3. ASSUME NEW p \in Procs, StartInstall(p) \/ Abandon(p)
      PROVE  RequestsOK'
  <2>1. UNCHANGED <<config, asked>>
    BY <1>3 DEF StartInstall, Abandon, Others
  <2>2. PICK stage, cmd :
          cmd # "promote" /\ job' = [job EXCEPT ![p] = Job(stage, cmd, DefaultConfig, {},
          NoWant)]
    <3>1. CASE StartInstall(p)
      BY <3>1 DEF StartInstall
    <3>2. CASE Abandon(p)
      BY <3>2 DEF Abandon
    <3> QED
      BY <1>3, <3>1, <3>2
  <2>3. Asks(Job(stage, cmd, DefaultConfig, {}, NoWant), asked')
    BY <1>0, <2>1, <2>2, DefaultAsks
  <2> QED
    BY <1>u, <2>1, <2>2, <2>3, OneRequest
(* A job that moves on with lanes already asked for.                          *)
<1>4. ASSUME NEW p \in Procs, NEW stage, NEW c, NEW R, Goes(p, stage, c, R),
             c.sources = job[p].config.sources, stage # "done",
             job[p].stage # "ready", job[p].cmd = "promote" => stage # "ready",
             UNCHANGED <<config, asked>>
      PROVE  RequestsOK'
  <2>1. job' = [job EXCEPT ![p] = Job(stage, job[p].cmd, c, R, job[p].want)]
    BY <1>4 DEF Goes
  <2>2. Asks(Job(stage, job[p].cmd, c, R, job[p].want), asked')
    BY <1>0, <1>4 DEF Asks, Job, Pending
  <2> QED
    BY <1>u, <1>4, <2>1, <2>2, OneRequest
<1>5. ASSUME NEW p \in Procs, LoadRules(p)
      PROVE  RequestsOK'
  <2>1. UNCHANGED <<config, asked>> /\ job[p].stage = "read"
    BY <1>5 DEF LoadRules, Others
  <2>2. Goes(p, "rules", job[p].config, Active(job[p].config, bundle))
    BY <1>5 DEF LoadRules
  <2> QED
    BY <1>4, <2>1, <2>2
<1>6. ASSUME NEW p \in Procs, Calibrate(p) \/ Import(p)
      PROVE  RequestsOK'
  <2>1. UNCHANGED <<config, asked>> /\ job[p].stage = "rules" /\ job[p].cmd # "promote"
    BY <1>6 DEF Calibrate, Import, Others
  <2>2. PICK e : Goes(p, "ready", WithEvidence(job[p].config, e), job[p].rules)
    <3>1. CASE Calibrate(p)
      BY <3>1 DEF Calibrate
    <3>2. CASE Import(p)
      BY <3>2 DEF Import
    <3> QED
      BY <1>6, <3>1, <3>2
  <2>3. WithEvidence(job[p].config, e).sources = job[p].config.sources
    BY DEF WithEvidence, Config
  <2> QED
    BY <1>4, <2>1, <2>2, <2>3
<1>7. ASSUME NEW p \in Procs, Promote(p)
      PROVE  RequestsOK'
  <2> DEFINE c == job[p].config
             want == job[p].want
             trial == Config([c.sources EXCEPT ![want.source] = want.lane],
                             c.surfaces, c.evidence)
  <2>1. /\ UNCHANGED <<config, asked>> /\ job[p].stage = "rules" /\ job[p].cmd = "promote"
        /\ Reaches(trial, job[p].rules, want)
        /\ \E r \in job[p].rules : r.source = want.source
        /\ job' = [job EXCEPT ![p] = Job("ready", "promote", trial, job[p].rules, want)]
    BY <1>7 DEF Promote, Others, Goes
  <2>2. /\ c.sources \in [Sources -> Lanes] /\ want.source \in Sources
        /\ want.lane \in Lanes \ {"DO_NOT_SHIP"}
        /\ \A s \in Sources : <<s, c.sources[s]>> \in asked
    BY <1>0, <2>1 DEF Asks, Pending
  <2>3. trial.sources = [c.sources EXCEPT ![want.source] = want.lane]
    BY DEF Config
  <2> HIDE DEF trial, want, c
  <2>4. Asks(Job("ready", "promote", trial, job[p].rules, want), asked')
    <3>1. trial.sources \in [Sources -> Lanes]
      BY <2>2, <2>3
    <3>2. \A s \in Sources : <<s, trial.sources[s]>> \in asked'
                             \/ (s = want.source /\ want.lane = trial.sources[s])
      BY <2>1, <2>2, <2>3
    <3>3. trial.sources[want.source] = want.lane
      BY <2>2, <2>3
    <3> QED
      BY <2>1, <2>2, <3>1, <3>2, <3>3 DEF Asks, Job, Pending
  <2> QED
    BY <1>u, <2>1, <2>4, OneRequest
<1>8. ASSUME NEW p \in Procs, Save(p)
      PROVE  RequestsOK'
  <2>1. /\ config' = job[p].config /\ asked \subseteq asked' /\ job[p].stage = "ready"
        /\ job[p].cmd = "promote" => <<job[p].want.source, job[p].want.lane>> \in asked'
        /\ job' = [job EXCEPT ![p] = Job("done", job[p].cmd, job[p].config,
                                         job[p].rules, job[p].want)]
    BY <1>8 DEF Save, Goes
  <2>2. Asks(job[p], asked)
    BY <1>0
  <2>3. /\ config'.sources \in [Sources -> Lanes]
        /\ \A s \in Sources : <<s, job[p].config.sources[s]>> \in asked'
    BY <2>1, <2>2 DEF Asks, Pending
  <2>4. PromotionIsExplicit'
    BY <2>1, <2>3 DEF PromotionIsExplicit
  <2>5. Asks(Job("done", job[p].cmd, job[p].config, job[p].rules, job[p].want), asked')
    BY <2>1, <2>2, <2>3 DEF Asks, Job
  <2> QED
    BY <2>1, <2>3, <2>4, <2>5, OneRequest
<1>9. CASE Edit
  <2>1. UNCHANGED job /\ asked \subseteq asked'
    BY <1>9 DEF Edit
  <2>2. config'.sources \in [Sources -> Lanes] /\ PromotionIsExplicit'
    <3>1. CASE \E s \in Sources, l \in Lanes :
                 /\ config' = Config([config.sources EXCEPT ![s] = l], config.surfaces,
                                     config.evidence)
                 /\ asked' = asked \cup {<<s, l>>}
      <4>1. PICK s \in Sources, l \in Lanes :
              /\ config'.sources = [config.sources EXCEPT ![s] = l]
              /\ asked' = asked \cup {<<s, l>>}
        BY <3>1 DEF Config
      <4> QED
        BY <1>0, <4>1 DEF PromotionIsExplicit
    <3>2. CASE \E S \in SUBSET (Surfaces \cup {"CFG"}) :
                 config' = Config(config.sources, S, config.evidence) /\ UNCHANGED asked
      <4>1. config'.sources = config.sources /\ asked' = asked
        BY <3>2 DEF Config
      <4> QED
        BY <1>0, <4>1 DEF PromotionIsExplicit
    <3> QED
      BY <1>9, <3>1, <3>2 DEF Edit
  <2> QED
    BY <1>v, <2>1, <2>2
<1>10. CASE HookReads \/ HookDecides \/ Upgrade \/ Bench \/ UNCHANGED vars
  <2>1. UNCHANGED <<config, job, asked>>
    BY <1>10 DEF HookReads, HookDecides, Upgrade, Bench, vars
  <2> QED
    BY <1>u, <1>v, <2>1
<1> QED
  BY <1>1, <1>2, <1>3, <1>5, <1>6, <1>7, <1>8, <1>9, <1>10 DEF Next, Command

(* Every copy of the config asks only for lanes somebody asked for.           *)
THEOREM Requests == Spec => []RequestsOK
<1>1. Init => RequestsOK
  BY InitRequests
<1>2. RequestsOK /\ [Next]_vars => RequestsOK'
  BY StepRequests
<1> QED
  BY <1>1, <1>2, PTL DEF Spec

(* "until you explicitly promote its source" (README.md:96), however the      *)
(* commands, which read the file and replace it later, overtake one another.  *)
THEOREM NoLaneUnasked == Spec => []PromotionIsExplicit
<1>1. RequestsOK => PromotionIsExplicit
  BY DEF RequestsOK
<1> QED
  BY <1>1, Requests, PTL

(* Identical evidence, rules and surfaces admit a rule to the same lane.      *)
LEMMA SameCeiling ==
  ASSUME NEW c, NEW d, NEW R, NEW r, c.evidence = d.evidence, c.surfaces = d.surfaces
  PROVE  Ceiling(c, R, r) = Ceiling(d, R, r)
BY DEF Ceiling, Valid

(* A promotion is kept on what it was checked on, and on nothing else.        *)
LEMMA CheckedLane ==
  ASSUME NEW j, NEW A, Asks(j, A), j.cmd = "promote", j.stage = "done",
         NEW c, c.evidence = j.config.evidence, c.sources[j.want.source] = j.want.lane,
         NEW R, NEW r \in R, r.source = j.want.source
  PROVE  EffectiveLane(c, R, r) =
           IF R = j.rules /\ c.surfaces = j.config.surfaces THEN j.want.lane ELSE "RECORD"
<1>1. /\ Reaches(j.config, j.rules, j.want)
      /\ j.want.lane \in Lanes \ {"DO_NOT_SHIP"}
      /\ j.config.sources[j.want.source] = j.want.lane
  BY DEF Asks
<1>2. PICK x \in j.rules : x.source = j.want.source
  BY DEF Asks
<1>3. CASE R = j.rules /\ c.surfaces = j.config.surfaces
  <2>1. EffectiveLane(j.config, j.rules, r) = j.want.lane
    BY <1>1, <1>3 DEF Reaches
  <2>2. Ceiling(c, R, r) = Ceiling(j.config, j.rules, r)
    BY <1>3, SameCeiling
  <2> QED
    BY <1>1, <1>3, <2>1, <2>2 DEF EffectiveLane
<1>4. CASE ~(R = j.rules /\ c.surfaces = j.config.surfaces)
  <2>1. CASE Valid(j.config, j.rules)
    <3>1. j.config.evidence.fingerprint = Fingerprint(j.rules, j.config.surfaces)
      BY <2>1 DEF Valid
    <3>2. Fingerprint(R, c.surfaces) # Fingerprint(j.rules, j.config.surfaces)
      BY <1>4 DEF Fingerprint
    <3>3. Ceiling(c, R, r) = "RECORD"
      BY <3>1, <3>2 DEF Ceiling, Valid
    <3> QED
      BY <1>1, <1>4, <3>3 DEF EffectiveLane, Lower, Rank, Lanes
  <2>2. CASE ~Valid(j.config, j.rules)
    <3>1. Ceiling(j.config, j.rules, x) = "RECORD"
      BY <2>2 DEF Ceiling
    <3>2. EffectiveLane(j.config, j.rules, x) = j.want.lane
      BY <1>1, <1>2 DEF Reaches
    <3>3. j.want.lane = "RECORD"
      BY <1>1, <1>2, <3>1, <3>2 DEF EffectiveLane, Lower, Rank, Lanes
    <3>4. Ceiling(c, R, r) \in {"RECORD", "ADVISE", "DENY"}
      BY DEF Ceiling
    <3> QED
      BY <1>4, <3>3, <3>4 DEF EffectiveLane, Lower, Rank
  <2> QED
    BY <2>1, <2>2
<1> QED
  BY <1>3, <1>4

(* promote checks one rule set and one config, and writes later: whatever     *)
(* happens between, a hook event that finds its lane and its evidence keeps   *)
(* the source at RECORD except on what was checked, where the lane is reached.*)
THEOREM PromotionHolds == Spec => []PromotionHoldsWhereChecked
<1>1. RequestsOK => PromotionHoldsWhereChecked
  BY CheckedLane DEF RequestsOK, PromotionHoldsWhereChecked
<1> QED
  BY <1>1, Requests, PTL
=============================================================================
