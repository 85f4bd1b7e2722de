------------------------------ MODULE HookConfig ------------------------------
(***************************************************************************)
(* The hook's config file and the commands that rewrite it                  *)
(* (hooks/_claude_code_impl.py): calibrate, calibrate_from_report, promote, *)
(* and the default that install writes.  Each reads the config, works for   *)
(* seconds or minutes and replaces the file, with no lock between; the      *)
(* bundle, the report and the person's editor change under it; a hook event *)
(* reads the same file to learn what its rules may do.                      *)
(*                                                                          *)
(* A rule is a record whose identity stands for its whole content, a trial  *)
(* the set of rules that fire on it.                                        *)
(***************************************************************************)
EXTENDS Integers, Sequences, FiniteSets

CONSTANTS
  Procs,        \* command processes, one command each
  Sources,      \* the sources a config names
  AllRules,     \* every version of every rule: [id, source, surface, ...]
  Bundles,      \* the rule sets hook_rules may find
  Directories,  \* benign directories, as sequences of trials
  Corpora,      \* bench corpora: per surface, a sequence of trials
  MaxCount,     \* the longest of them
  U95,          \* binomial_u95 of <<trials, hits>>, as its rank among all bounds
  AdviseMax,    \* ADVISE_MAX_U95 and
  DenyMax,      \*   DENY_MAX_U95, on the same scale
  Unresolved,   \* the <<trials, hits>> bound_within cannot place
  MaxTrials,    \* MAX_TRIALS
  NoEvidence, NoReport,
  MaxEvents,    \* bound on edits, upgrades and bench runs
  MaxActive     \* bound on commands under way at once

Lanes == {"DO_NOT_SHIP", "RECORD", "ADVISE", "DENY"}
Rank == [DO_NOT_SHIP |-> 0, RECORD |-> 1, ADVISE |-> 2, DENY |-> 3]
Surfaces == {"IN", "OUT"}

Trials == Seq(SUBSET AllRules)
ASSUME RulesAssumption ==
  /\ IsFiniteSet(Sources) /\ IsFiniteSet(AllRules)
  /\ \A r \in AllRules : r.source \in Sources /\ r.surface \in Surfaces
ASSUME BundlesAssumption ==
  \A B \in Bundles :
    B \subseteq AllRules /\ \A r, s \in B : r.id = s.id => r = s
ASSUME TrialsAssumption ==
  /\ MaxCount \in Nat
  /\ \A d \in Directories : d \in Trials /\ Len(d) <= MaxCount
  /\ \A c \in Corpora : \A s \in Surfaces : c[s] \in Trials /\ Len(c[s]) <= MaxCount
ASSUME BoundsAssumption ==
  /\ U95 \in [(0 .. MaxCount) \X (0 .. MaxCount) -> Nat]
  /\ AdviseMax \in Nat /\ DenyMax \in Nat /\ DenyMax <= AdviseMax
  /\ MaxTrials \in Nat
ASSUME EventsAssumption == MaxEvents \in Nat /\ MaxActive \in Nat

VARIABLES
  config,    \* the file, or the default where there is none
  exists,    \* the file is there
  bundle,    \* the rules hook_rules would return
  report,    \* the bench report at hand
  job,       \* what each command is doing
  hook,      \* the hook event in flight
  measured,  \* every completed measurement, a set of samples each
  asked,     \* every lane a person has asked for: pairs <<source, lane>>
  events     \* edits, upgrades and bench runs so far

vars == <<config, exists, bundle, report, job, hook, measured, asked, events>>

Config(sources, surfaces, evidence) ==
  [sources |-> sources, surfaces |-> surfaces, evidence |-> evidence]
DefaultConfig == Config([s \in Sources |-> "RECORD"], Surfaces, NoEvidence)

(* want is the source and lane of a promotion.                                *)
Job(stage, cmd, c, R, want) ==
  [stage |-> stage, cmd |-> cmd, config |-> c, rules |-> R, want |-> want]
NoWant == [source |-> "none", lane |-> "RECORD"]
NoJob == Job("idle", "none", DefaultConfig, {}, NoWant)
Event(stage, c, R) == [stage |-> stage, config |-> c, rules |-> R]

-----------------------------------------------------------------------------
(* A row is what n trials said of a set of rules: <<trials, hits>>.           *)
Row(trials, R) ==
  << Len(trials), Cardinality({i \in DOMAIN trials : trials[i] \cap R # {}}) >>

(* bound_within *)
Within(row, max) == row \notin Unresolved /\ U95[row] <= max

(* measurement: what is read back of a stored row. *)
Counted(row) == row[1] \in 1 .. MaxTrials

(* A sample is the rules evaluated together on some trials.                   *)
Sampled(m) == UNION {s.of : s \in m}
SampleOf(m, r) == CHOOSE s \in m : r \in s.of
RowOf(m, r) == Row(SampleOf(m, r).trials, {r})
Worst(rows) == CHOOSE x \in rows : \A y \in rows : U95[y] <= U95[x]

FingerprintOfIds(R, surfaces) == [rules |-> {r.id : r \in R}, surfaces |-> surfaces]
Fingerprint(R, surfaces) == [rules |-> R, surfaces |-> surfaces]

RuleOf(R, i) == CHOOSE r \in R : r.id = i
Evidence(surfaces, R, m) ==
  [ fingerprint |-> Fingerprint(R, surfaces),
    bundle      |-> Worst({Row(s.trials, s.of) : s \in m}),
    rules       |-> [i \in {r.id : r \in R} |-> RowOf(m, RuleOf(R, i))] ]

WithEvidencePromoting(c, e) ==
  Config([s \in Sources |-> IF Within(e.bundle, AdviseMax) THEN "ADVISE" ELSE c.sources[s]],
         c.surfaces, e)
WithEvidence(c, e) == Config(c.sources, c.surfaces, e)

(* active_rules *)
Active(c, B) == {r \in B : r.surface \in c.surfaces /\ c.sources[r.source] # "DO_NOT_SHIP"}

(* admit, and the bundle's own ceilings.                                      *)
Admitted(e, r, max) ==
  /\ Counted(e.bundle) /\ Counted(e.rules[r.id])
  /\ Within(e.bundle, max) /\ Within(e.rules[r.id], max)
Valid(c, R) ==
  c.evidence # NoEvidence /\ c.evidence.fingerprint = Fingerprint(R, c.surfaces)
Ceiling(c, R, r) ==
  IF Valid(c, R) /\ Admitted(c.evidence, r, AdviseMax)
    THEN IF Admitted(c.evidence, r, DenyMax) THEN "DENY" ELSE "ADVISE"
    ELSE "RECORD"

(* effective_lanes *)
Lower(k, l) == IF Rank[k] <= Rank[l] THEN k ELSE l
EffectiveLane(c, R, r) == Lower(c.sources[r.source], Ceiling(c, R, r))

(* read_config refuses a file it does not understand.                         *)
Readable(c) == c.surfaces \subseteq Surfaces

Init ==
  /\ config = DefaultConfig /\ exists = FALSE
  /\ bundle \in Bundles /\ report = NoReport
  /\ job = [p \in Procs |-> NoJob]
  /\ hook = Event("idle", DefaultConfig, {})
  /\ measured = {}
  /\ asked = {<<s, "RECORD">> : s \in Sources}
  /\ events = 0

-----------------------------------------------------------------------------
(* The commands. *)

UnderWay == {p \in Procs : job[p].stage \in {"read", "rules", "ready"}}
Goes(p, stage, c, R) == job' = [job EXCEPT ![p] = Job(stage, job[p].cmd, c, R, job[p].want)]
Others == <<bundle, report, hook, measured, asked, events>>

(* read_config, first thing. *)
Start(p) ==
  /\ job[p].stage = "idle" /\ Cardinality(UnderWay) < MaxActive
  /\ Readable(config)
  /\ \E cmd \in {"calibrate", "import"} :
       job' = [job EXCEPT ![p] = Job("read", cmd, config, {}, NoWant)]
  /\ UNCHANGED <<config, exists, Others>>

StartPromote(p) ==
  /\ job[p].stage = "idle" /\ Cardinality(UnderWay) < MaxActive
  /\ Readable(config)
  /\ \E s \in Sources, l \in Lanes \ {"DO_NOT_SHIP"} :
       job' = [job EXCEPT ![p] =
                 Job("read", "promote", config, {}, [source |-> s, lane |-> l])]
  /\ UNCHANGED <<config, exists, Others>>

(* install writes a default where it has just seen no config. *)
StartInstall(p) ==
  /\ job[p].stage = "idle" /\ Cardinality(UnderWay) < MaxActive
  /\ ~exists
  /\ job' = [job EXCEPT ![p] = Job("ready", "install", DefaultConfig, {}, NoWant)]
  /\ UNCHANGED <<config, exists, Others>>

LoadRules(p) ==
  /\ job[p].stage = "read"
  /\ Goes(p, "rules", job[p].config, Active(job[p].config, bundle))
  /\ UNCHANGED <<config, exists, Others>>

(* calibrate scans every file of the directory with every enabled rule.       *)
Calibrate(p) ==
  /\ job[p].stage = "rules" /\ job[p].cmd = "calibrate"
  /\ \E d \in Directories :
       LET m == {[of |-> job[p].rules, trials |-> d]}
           e == Evidence(job[p].config.surfaces, job[p].rules, m)
       IN  /\ measured' = measured \cup {m}
           /\ Goes(p, "ready", WithEvidence(job[p].config, e), job[p].rules)
  /\ UNCHANGED <<config, exists, bundle, report, hook, asked, events>>

(* calibrate_from_report: the report must be of this very rule set, cover     *)
(* every rule on its own surface, and be one the benchmark did not refuse for *)
(* a reason the caller cannot waive.                                          *)
Import(p) ==
  /\ job[p].stage = "rules" /\ job[p].cmd = "import"
  /\ report # NoReport /\ report.verdict # "fatal"
  /\ report.rules = job[p].rules
  /\ job[p].rules # {} /\ job[p].rules \subseteq Sampled(report.samples)
  /\ LET e == Evidence(job[p].config.surfaces, job[p].rules, report.samples)
     IN  Goes(p, "ready", WithEvidence(job[p].config, e), job[p].rules)
  /\ UNCHANGED <<config, exists, Others>>

(* promote: every enabled rule of the source must reach the lane it asks for. *)
ReachesUnchecked(trial, R, want) == TRUE
Reaches(trial, R, want) ==
  \A r \in {x \in R : x.source = want.source} : EffectiveLane(trial, R, r) = want.lane
Promote(p) ==
  /\ job[p].stage = "rules" /\ job[p].cmd = "promote"
  /\ LET want  == job[p].want
         trial == Config([job[p].config.sources EXCEPT ![want.source] = want.lane],
                         job[p].config.surfaces, job[p].config.evidence)
     IN  /\ \E r \in job[p].rules : r.source = want.source
         /\ Reaches(trial, job[p].rules, want)
         /\ Goes(p, "ready", trial, job[p].rules)
  /\ UNCHANGED <<config, exists, Others>>

(* Any other outcome, a kill included, leaves the file alone.                 *)
Abandon(p) ==
  /\ p \in UnderWay
  /\ job' = [job EXCEPT ![p] = Job("abandoned", "none", DefaultConfig, {}, NoWant)]
  /\ UNCHANGED <<config, exists, Others>>

(* atomic_json: the file is replaced whole.                                   *)
Save(p) ==
  /\ job[p].stage = "ready"
  /\ config' = job[p].config /\ exists' = TRUE
  /\ Goes(p, "done", job[p].config, job[p].rules)
  /\ asked' = IF job[p].cmd = "promote"
                THEN asked \cup {<<job[p].want.source, job[p].want.lane>>} ELSE asked
  /\ UNCHANGED <<bundle, report, hook, measured, events>>

-----------------------------------------------------------------------------
(* A hook event: the config, then the rules of the bundle it finds.           *)

HookReads ==
  /\ hook.stage # "read" /\ Readable(config)
  /\ hook' = Event("read", config, {})
  /\ UNCHANGED <<config, exists, bundle, report, job, measured, asked, events>>

HookDecides ==
  /\ hook.stage = "read"
  /\ hook' = Event("decided", hook.config, Active(hook.config, bundle))
  /\ UNCHANGED <<config, exists, bundle, report, job, measured, asked, events>>

-----------------------------------------------------------------------------
(* The world around them. *)

(* A person edits the file.                                                   *)
Edit ==
  /\ events < MaxEvents /\ Cardinality(UnderWay) < MaxActive
  /\ events' = events + 1 /\ exists' = TRUE
  /\ \/ \E s \in Sources, l \in Lanes :
          /\ config' = Config([config.sources EXCEPT ![s] = l], config.surfaces, config.evidence)
          /\ asked' = asked \cup {<<s, l>>}
     \/ \E S \in SUBSET (Surfaces \cup {"CFG"}) :
          config' = Config(config.sources, S, config.evidence) /\ UNCHANGED asked
  /\ UNCHANGED <<bundle, report, job, hook, measured>>

Upgrade ==
  /\ events < MaxEvents
  /\ events' = events + 1
  /\ bundle' \in Bundles
  /\ UNCHANGED <<config, exists, report, job, hook, measured, asked>>

(* bench.measure over a set of rules: a sample per surface that has rules and *)
(* trials.  A missing surface is fatal; a report is only ok if no stratum,    *)
(* the whole surface being one, exceeds the ADVISE ceiling.                   *)
OnSurface(R, s) == {r \in R : r.surface = s}
Samples(R, c) ==
  { [of |-> OnSurface(R, s), trials |-> c[s]] :
      s \in {t \in Surfaces : OnSurface(R, t) # {} /\ c[t] # <<>>} }
Verdicts(R, m) ==
  IF Sampled(m) # R THEN {"fatal"}
  ELSE {"fatal", "pooled"} \cup
         {v \in {"ok"} : m # {} /\ Within(Worst({Row(s.trials, s.of) : s \in m}), AdviseMax)}

Bench ==
  /\ events < MaxEvents
  /\ events' = events + 1
  /\ \E R \in SUBSET bundle, c \in Corpora :
       /\ measured' = measured \cup {Samples(R, c)}
       /\ \E v \in Verdicts(R, Samples(R, c)) :
            report' = [rules |-> R, samples |-> Samples(R, c), verdict |-> v]
  /\ UNCHANGED <<config, exists, bundle, job, hook, asked>>

Command(p) == \/ Start(p) \/ StartPromote(p) \/ StartInstall(p) \/ LoadRules(p)
              \/ Calibrate(p) \/ Import(p) \/ Promote(p) \/ Abandon(p) \/ Save(p)

Next == \/ \E p \in Procs : Command(p)
        \/ HookReads \/ HookDecides
        \/ Edit \/ Upgrade \/ Bench

Spec == Init /\ [][Next]_vars
=============================================================================
