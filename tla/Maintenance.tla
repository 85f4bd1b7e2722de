------------------------------ MODULE Maintenance ------------------------------
(***************************************************************************)
(* The maintainers' tools, which share no state: a behaviour is one of the    *)
(* release of the rules (Release), of the benchmark (Bench) or of the         *)
(* calibration gate (CalibrationGate), and the other two are never called.    *)
(***************************************************************************)
EXTENDS ReleaseProps

CONSTANTS
  RuleLists, CorpusLists, Workers, EmptyText, U95, Exact, AdviseMax, DenyMax, Unresolved,
  MaxChanges, MaxCalls, NoReport,
  Figures, Revs, RuleFiles, CorpusFiles, Worlds, AnyScores, Tolerance, MinAgreeing, MaxKills, MaxTaken

VARIABLES
  tool,   \* which of the three is at work
  held, changes, calls, stage, input, reach, at, batch, tally, sums, results, assigned,
  world, upstream, disk, builder, scorer, figures, verdict, kills, taken, sound, still

benching == <<held, changes, calls, stage, input, reach, at, batch, tally, sums, results, assigned>>
gating   == <<world, upstream, disk, builder, scorer, figures, verdict, kills, taken, sound, still>>

B == INSTANCE BenchProps
G == INSTANCE CalibrationGateProps

(***************************************************************************)
(* The tables of the gate are lists, no path and no revision stands in them   *)
(* twice, the corpus that is exported is in no archive and of one revision    *)
(* only, and a figure on its own rules and its own corpus has a score.        *)
(***************************************************************************)
Listed(s) == Len(s) \in Nat /\ DOMAIN s = 1 .. Len(s)
Distinguished(s) == \A i, j \in DOMAIN s : s[i] = s[j] => i = j
ASSUME GateAssumption ==
  /\ Listed(Figures) /\ Listed(Revs) /\ Listed(G!Archive) /\ Listed(RuleFiles)
  /\ Revs # <<>> /\ Distinguished(Revs)
  /\ G!Archive # <<>> /\ Distinguished(G!Archive) /\ \A i \in DOMAIN G!Archive : G!Archive[i] # "self"
  /\ \A i \in DOMAIN RuleFiles : \E k \in DOMAIN G!Archive : RuleFiles[i] = G!Archive[k]
  /\ \A i \in DOMAIN Figures :
       /\ \E k \in DOMAIN Revs : Figures[i].rev = Revs[k]
       /\ Figures[i].corpus = "self" \/ \E k \in DOMAIN G!Archive : Figures[i].corpus = G!Archive[k]
  /\ \A i, j \in DOMAIN Figures :
       Figures[i].corpus = "self" /\ Figures[j].corpus = "self" => Figures[i].rev = Figures[j].rev
  /\ \A w \in Worlds : \A i \in DOMAIN Figures : w.scores[i] # <<>>

(***************************************************************************)
(* The rules and corpora of the benchmark are lists, and "bundle" names no    *)
(* rule.  The bound of one hit in one trial is 1 and no bound is higher.  A    *)
(* count that is resolved to be within a ceiling leaves the room by which a    *)
(* computed bound may be off: a count whose computed bound is not higher is    *)
(* within the ceiling too.                                                  *)
(***************************************************************************)
Possible(corpora) ==
  UNION { (0 .. Len(corpora[j].units)) \X (0 .. Len(corpora[j].units)) : j \in DOMAIN corpora }
ASSUME BenchAssumption ==
  /\ Workers \in Nat \ {0} /\ AdviseMax \in Int /\ DenyMax \in Int /\ U95[<<1, 1>>] \in Int
  /\ \A rules \in RuleLists : Listed(rules) /\ \A i \in DOMAIN rules : rules[i].id # "bundle"
  /\ \A corpora \in CorpusLists :
       /\ Listed(corpora) /\ \A j \in DOMAIN corpora : Listed(corpora[j].units)
       /\ \A x \in Possible(corpora) : U95[x] \in Int /\ U95[x] <= U95[<<1, 1>>]
       /\ \A x, w \in Possible(corpora), max \in {AdviseMax, DenyMax} :
            w \notin Unresolved /\ U95[w] <= max /\ U95[x] <= U95[w] => Exact[x] <= max

NoRelease ==
  /\ files = <<>> /\ edits = Nothing /\ report = Nothing /\ manifest = Nothing /\ merge = Nothing
  /\ table = EmptyTable /\ bundle = Nothing /\ swept = Nothing /\ sweeps = Nothing /\ timed = Nothing
  /\ slow = Nothing /\ basis = Nothing /\ origin = Nothing
NoBench ==
  /\ held = Nothing /\ changes = Nothing /\ calls = Nothing /\ stage = Nothing /\ input = Nothing
  /\ reach = Nothing /\ at = Nothing /\ batch = Nothing /\ tally = Nothing /\ sums = Nothing
  /\ results = NoReport /\ assigned = B!Nobody
NoGate ==
  /\ world = Nothing /\ upstream = Nothing /\ disk = Nothing /\ builder = Nothing /\ scorer = Nothing
  /\ figures = Nothing /\ verdict = "none" /\ kills = Nothing /\ taken = Nothing /\ sound = Nothing
  /\ still = FALSE

MaintenanceInit ==
  \/ tool = "release" /\ Init /\ NoBench /\ NoGate
  \/ tool = "bench" /\ B!Init /\ NoRelease /\ NoGate
  \/ tool = "gate" /\ G!Init /\ NoRelease /\ NoBench

ByRelease == tool = "release" /\ UNCHANGED <<tool, benching, gating>>
ByBench   == tool = "bench" /\ UNCHANGED <<tool, vars, gating>>
ByGate    == tool = "gate" /\ UNCHANGED <<tool, vars, benching>>

MaintenanceNext ==
  \/ ByRelease /\ Edit
  \/ ByRelease /\ Sweep
  \/ ByRelease /\ EmitManifest
  \/ ByRelease /\ TimeExactly
  \/ ByRelease /\ Replay
  \/ ByRelease /\ BuildHazards
  \/ ByRelease /\ BuildBundle
  \/ ByBench /\ B!Begin
  \/ ByBench /\ B!TryExamples
  \/ ByBench /\ B!ExampleScanCut
  \/ ByBench /\ B!StartBatch
  \/ ByBench /\ B!Consume
  \/ ByBench /\ B!UnitScanCut
  \/ ByBench /\ B!FinishCorpus
  \/ ByBench /\ B!Conclude
  \/ ByBench /\ B!Apply
  \/ ByBench /\ B!EditRules
  \/ ByBench /\ \E i \in DOMAIN batch : B!Evaluate(i)
  \/ ByGate /\ G!StartPrepare
  \/ ByGate /\ G!Clone
  \/ ByGate /\ G!CheckHistory
  \/ ByGate /\ G!MakeRoot
  \/ ByGate /\ G!OpenMember
  \/ ByGate /\ G!FillMember
  \/ ByGate /\ G!Mark
  \/ ByGate /\ G!OpenExport
  \/ ByGate /\ G!FillExport
  \/ ByGate /\ G!NoExport
  \/ ByGate /\ G!WriteReport
  \/ ByGate /\ G!Kill
  \/ ByGate /\ G!Take
  \/ ByGate /\ G!StartRun
  \/ ByGate /\ G!VerifySnapshot
  \/ ByGate /\ G!LoadCorpus
  \/ ByGate /\ G!LoadRules
  \/ ByGate /\ G!Measure
  \/ ByGate /\ G!Conclude
MaintenanceSpec == MaintenanceInit /\ [][MaintenanceNext]_<<tool, vars, benching, gating>>

-----------------------------------------------------------------------------
(* BenchProps: the rows of a report count what is there.                      *)
CountsAreExact == B!CountsAreExact
(* BenchProps: a lane taken from a report is earned.                          *)
AdmissionIsEarned == B!AdmissionIsEarned
(* CalibrationGateProps: PASS and FAIL are said of the pinned rules.           *)
VerdictIsExact == G!VerdictIsExact
(* CalibrationGateProps: a prepare that ends well repairs the snapshots.       *)
PrepareRepairs == G!PrepareRepairs
=============================================================================
