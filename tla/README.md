# Verification of agent-defs

TLA+ models of `agent-defs`, the TLC runs that check them on small instances and
the theorems TLAPS proves about them for every instance. The package scans text
from agent sessions for patterns of prompt injection and similar, with rule sets
it takes from upstream projects, and serves as a hook of Claude Code. All source
paths below are relative to `src/`; the Python package is
`src/agent_defs/`.

1. [The system](#1-the-system) — components, state, operations, interactions
2. [The models](#2-the-models) — module by module, how it corresponds to the code
3. [The runs](#3-the-runs) — what each checks, its bounds, the fairness assumed
4. [The proofs](#4-the-proofs) — what is proved and along which argument
5. [Findings](#5-findings)
6. [Limits](#6-limits) — only model-checked, abstracted, not modelled
7. [Plan](#7-plan)

`PROJECT.json` lists components, runs, the source lines of every definition, the
hazards and the mutants. Run a check with
`tlc -config Supervisor.cfg MCSupervisor.tla`, a proof with
`tlapm ScanBatch_proofs.tla`.

## 1. The system

| Component | State it keeps | Operations | Hard behaviour | What makes it correct |
|---|---|---|---|---|
| Batch scan (`evaluate.py`: `scan_leaves`, `_scan_leaves_impl`, result types; `_scan_worker.py`: `_leaves`, `main`) | byte allowance, scheduled and cut leaves, wire order of the rules, cursor of the parser, errors; in the worker, two loop counters and the pipe | cap the leaves, wire the rules, start the worker, parse its lines, conclude | a kill between any two lines; one rule failing on one leaf; a deadline noticed after the end; an allowance that ends inside a leaf; a worker of another version | `complete` means exhaustive; findings of an incomplete batch are true; a well-formed stream is never refused, a malformed one never advances coverage |
| Worker supervision (`evaluate.py`: `_run_worker`) | the semaphore `_SUPERVISORS`, a plain dict shared by caller and supervisor thread, three events, a timer, a process | acquire, start thread, launch, feed, wait, kill, reap, give up, interpret | unlocked shared dict, hung `Popen`, hung `communicate`, late launch, failing thread start, `KeyboardInterrupt` | the caller always returns, with a tuple the parser can interpret; no process without a slot, no slot lost |
| Hook event (`hooks/_claude_code_impl.py`: `run`, `process`; `hooks/_core.py`: `scan_payload`) | the event as far as it is known, walk stack and caps, collected strings, skeleton, findings, log | read, parse, load rules, walk, scan, apply lanes, rebuild, log, answer | exceptions at any stage, caps, budget, unfinished scans, failing log, answers put back by position | silence means checked, DENY is exact, an unfinished DENY check asks, weaker lanes never block |
| Hook config (`hooks/_claude_code_impl.py`: `calibrate`, `calibrate_from_report`, `promote`, `effective_lanes`, `measurement`, `fingerprint`; `lanes.py`) | the config file with its evidence; bundle; bench report | calibrate, import a report, promote, default of install, read by the hook | read–work–replace with no lock, evidence that outlives the rules it is of, edits by hand | a lane above RECORD is earned by a measurement of exactly the rules that run; no lane nobody asked for; a calibration keeps the lanes |
| Settings installer (`install`, `uninstall`, `settings_lock`, `owned`; `hooks/_settings.py`: `merge`, `validate`) | the harness's settings file, lock file, receipt, backups | lock, read, merge, check, back up, receipt, recheck, replace | kills, stale locks, edits by a person who ignores the lock, handlers of several versions, stale receipts | only our handlers change, the hook runs once, what the person wrote survives, uninstall restores |
| Benchmark (`bench.py`) | counters per surface, stratum, rule and bundle; a batch of scans; the report file | `measure`, `reachability`, `admit_from_report`, `apply_report` | scans that end in any order or early; strata and corpora that do not cover a surface; a bundle that changed since | a row counts exactly its units; a lane taken from a report is earned by the very rule it is given to |
| Binomial bounds (`lanes.py`) | none | `binomial_u95`, `bound_within`, `admit` | a bound at a ceiling, double precision | a count is admitted only if its exact bound is under the ceiling |
| Configuration channel (`cfg.py`, `_scan_worker.py`: `_cfg`) | bundle limits, cursor of the parser, errors; in the worker, the rule it is at | scan of one document and its decoded base64 blocks by multi-condition rules, in this process or isolated | a kill between two rules; the same walk in two processes; late deadline | the isolated scan decides what the in-process one decides; complete means every rule was reached |
| Source cache (`sources.py`) | content-addressed directories shared by processes | fetch, verify, check upstream | two fetches, kills while extracting, damage on disk, links into excluded directories | what is visible is whole, what is excluded is never written, answers are justified |
| Screening and compilation (`evaluate.py`) | the hazard table, read only | `screen_pattern`, `port_utf16_surrogates`, `compile_rule`, `scan_trusted` | patterns that take exponential time; patterns written for UTF-16 | what runs was timed as that very text, and finds what its author's engine finds |
| Rule model, bundle, rights (`model.py`, `bundle.py`, `builtin.py`, `rights.py`) | immutable data | read and write | – | round trips |
| ATR loader (`loaders/atr.py`, `loaders/atr_skill_gates.py`) | none | surface, predicate and binding of a rule, load | conditions of which some are refused, duplicate ids, gates read from upstream's source | a rule means what upstream's engine makes of it; a binding never gains a match |
| Other loaders (`loaders/`) | none | upstream format to rules | – | one rule per upstream rule |
| Release of the rules (`scripts/build_hazards.py`, `scripts/build_bundle.py`) | sweep report, manifest, corrections, hazard table, bundle: five files of different days | emit the manifest, build the table, build the bundle | a checkout that moves between the steps, corrections that collide | nothing runs that was not timed; a correction lasts |
| Calibration gate (`scripts/calibration_gate.py`) | clone, one snapshot directory per revision, its marker, the exported corpus | `prepare`, `run` | kills while extracting, files quarantined later, snapshots of another revision | PASS and FAIL are said of the pinned rules and corpora only |
| Command line (`cli.py`, `hooks/claude_code.py`) | none | arguments to the commands above | – | – |
| Other scripts, tools, examples, benchmarks | none | one-shot reports | – | – |

How they interact. The harness starts a hook process per event (`run`). It reads
the config, resolves the lane of every rule from the evidence in it, walks the
payload and hands all strings to `scan_leaves`, which starts one worker process
through `_run_worker` and reads its pipe. Commands of the person (calibrate,
promote, install) run beside hook events and share only files with them: the
config, the harness's settings, the bundle, a bench report. `calibrate` uses
`scan_leaves` itself. The bundle and the hazard table are made long before, by
maintainers: a sweep and its corrections become the table, the loader asks the table
of every condition, and what it accepts is trimmed into the bundle that ships.

```
 harness ──event──▶ HookEvent ──strings──▶ ScanBatch ──request──▶ Supervisor ─▶ worker
                        ▲                     │ ScanPromise            │ reply tuples
                        │ lanes               └──────── answer ◀───────┘
                    HookConfig ◀── calibrate / import / promote / edit
                    Installer  ──▶ settings file that names the hook
 scan_cfg ──document──▶ CfgScan (same worker program, same Supervisor)
 build    ──▶ SourceCache ──▶ AtrLoader ──▶ Release ──▶ bundle of rules ──▶ HookConfig
                              Screening (hazard table) ┘         └──▶ Bench ──▶ bench report
```

## 2. The models

| Module | Contents |
|---|---|
| `ScanBatch` | one call of `scan_leaves` with its worker |
| `ScanBatchProps` | its properties and the refinement mapping to `ScanPromise` |
| `ScanPromise` | abstract specification: what a caller of `scan_leaves` may rely on |
| `Supervisor`, `SupervisorProps` | concurrent calls of `_run_worker` |
| `CfgScan`, `CfgScanProps` | one scan of a configuration document, and its refinement mapping to `ScanPromise` |
| `HookEvent`, `HookEventProps` | one hook event, with the scanner as `ScanPromise` |
| `HookConfig`, `HookConfigProps` | the config file and everything that rewrites or reads it |
| `Installer`, `InstallerProps` | the settings file and the installers |
| `SourceCache`, `SourceCacheProps` | the cache of source archives and the processes that share it |
| `Utf16Port`, `Screening` | operators: the surrogate port and a small matcher; the hazard table, screen, compilation and trusted scan |
| `AtrLoader` | operators: from an upstream rule to a predicate, a surface and a binding |
| `Release`, `ReleaseProps` | the files from a sweep to the shipped bundle |
| `Bench`, `BenchProps` | a benchmark, its report and the lanes taken from it |
| `CalibrationGate`, `CalibrationGateProps` | `prepare` and `run` of the calibration gate |
| `Selecting` | an operator: a list comprehension with a condition |
| `Maintenance` | `Release`, `Bench` and `CalibrationGate` side by side; they share no state |
| `*_proofs` | the theorems of a module, its inductive invariant and lemmas |
| `MC*` | values for the constants, the instances TLC runs |

The composition is by contract. `Supervisor` shows that `_run_worker` returns one
of four kinds of tuple (`RepliesInterpretable`); `ScanBatch` takes exactly these
four (`ReplyFinished`, `ReplyGaveUp`, `ReplyNoProcess`, `ReplyFault`) and shows
that `scan_leaves` implements `ScanPromise`, `CfgScan` the same of `scan_cfg`; `HookEvent` instantiates
`ScanPromise` for its scanner (`BatchReturns`) and for the rest trusts only
`CallerReturns`, its fairness. `HookEvent` takes the lane of each rule as given;
`HookConfig` says what it can be. `HookConfig` takes of a bench report the worst
counts of each rule and the bundle; `Bench` shows that such rows count what is there
(`CountsAreExact`). `Release` EXTENDS `AtrLoader`, that `Screening`, that
`Utf16Port`: the loader's answer depends on the table that the release builds.

Beside some operators stands a variant no action uses (`SweptEarly`,
`GiveUpNever`, ...). It is the operator with a plausible bug. `PROJECT.json`
(`mutants`) names the property that must fail when it takes the operator's place;
every property of every passing run has one.

### ScanBatch

`_scan_leaves_impl` is one action per step: `CheckLeafCount`, `CapLeaf` (a turn
of the capping loop), `CheckRuleCount`, `WireRule` (a turn of the rule loop, in
any order), `Schedule`, `RunWorkerReturns`, `ParseFrame`, `Conclude`. The worker's
rule-major sweep is `Compile`, `Search`, `FinishRow`, `Exit`, one line written per
step, with `Crash` and `Expire` (the kill) between any two. `Refuse` is a worker
of another protocol number; `Arbitrary` a worker that writes anything, which the
parser is written for. `Complete` and `LeafComplete` are the result types'
properties. Positions count from 1.

Data: a rule is its rank under `_schedule_key`; what it does to a leaf is a table
in the job (`hit`, `miss`, `raise`), except on a cut leaf, where every outcome is
possible. The bytes of leaves are numbers.

### Supervisor

Per call: a caller, a supervisor thread, a watchdog timer, a process. Each read or
write of the shared dictionary, each event set or tested, each acquire and release
is a step of its own, because the code takes no lock there. Failures: no thread,
no process, an exception while talking to it, a caller interrupted while waiting.
The deadline passes once, at any time, per call. The worker is only its life and
how many lines it has written.

### CfgScan

`scan_cfg_isolated` step by step: `CheckBundle`, `WireBinding`, `Dispatch`,
`RunWorkerReturns` (the same four replies), `TakeLine` or `RejectLine`, `Conclude`.
The worker writes one line per rule (`Evaluate`). `Walk` is
`_CompiledBinding.search` as the code runs it, condition after condition (`Past` is
one turn of its loop); the property does not use it: `Trusted` says by quantifiers what the docstring
promises, and the refinement takes that as the truth. What a condition sees first
in a text (nothing, a match in the open, one in a code block) is data of the job.

### HookEvent

The stages of `run` make `event` and `canAsk` known one after the other. `Fails` is
the handler around them all (`except BaseException`): it may end any of them, the walk,
the second pass, the log and the response included, with the `degraded_response` of
what is known then (`pc = "failed"`); only the call of the scanner has a handler of its
own (`ScannerRaises`). A payload is a tree; `Visit` is a turn of the walk with both caps and the budget;
`StartScan`, `BatchReturns`, `ScannerRaises` the scan; `Materialize` applies the
findings and rebuilds the payload from the skeleton; `WriteLog` may fail;
`Respond` is the ladder at the end of `process`. The budget may run out at any
time.

`Changed` is `Outcome.changed`, which compares payloads and does not ask what was
withheld. An event therefore says which strings are the withheld text `already`
(another hook put it there): replacing them by itself changes nothing and emits
nothing. And a payload that is the token NaN is unequal to itself and is sent back
although nothing was replaced; inside a container the comparison takes a shortcut and
it is not (both are pinned by `tests/test_leaf_traversal.py`).

### HookConfig

A command is the record it carries: the config it read, the rules it loaded, and
what it is about to write. Its steps (`Start`, `LoadRules`, then `Calibrate`,
`Import` or `Promote`, then `Save`) interleave with those of another command, with
`HookReads`/`HookDecides` of a hook event, and with edits of the file, upgrades of
the package and bench runs. A rule is a record whose identity is its content, so
two versions of one rule share an `id` and nothing else. Rows, `Worst`,
fingerprints, `Admitted`, `Ceiling` and `EffectiveLane` are the code's. Two history
variables: `measured`, every measurement made, and `asked`, every lane asked for.

### Installer

A settings document is what `merge` tells apart: whether it has `hooks`, which
events it names, and for each its groups of handlers (`star` is our own form,
`extra` a group with keys `merge` does not know). `MergeInstall` and
`MergeUninstall` are `merge`; `Acquire`, `Read`, `Propose`, `Check`, `Backup`,
`WriteReceipt`, `Recheck`, `Replace`, `Leave` the steps of the command; `Raise` an
error at any of them, `Crash` a kill, `Edit` the person. `raced` is a history
variable: it is `"yes"` after an edit fell between the last look at the file and
its replacement, the one window the code cannot close and its documentation owns
up to.

### SourceCache

Entries are what `_check` tells apart: kind of the path, tarball, files with the
origin of their bytes, directories. `Valid`, `KeptFiles` and `KeptDirs` are
`_layout` and `_kept`; an archive is a set of members whose paths are sequences of
names (after escaping, below the root). A fetch is `Look`, `MakeStage`, `Download`,
`Digest`, `MakeTree`, `ExtractFile` (one file each), `Publish` or `LoseRename` and
`CheckWinner`; a check reads tarball, paths and bytes in three steps
(`CheckTarball`, `CheckPaths`, `CheckBytes`). The network or the disk may fail a call
wherever it reads or writes: while an entry is made (`FailsStaging`), at any of the
checks, where `_check` takes what it cannot read for an entry that does not hold
(`FailsChecking`), at the first look at the path, which no handler covers
(`FailsLooking`), and when the temporary directory is removed (`LeavesStage`, the error
of `Publish`). `Kill` leaves the stage behind, `Touch` is somebody changing an entry. The file
system is the strictest one: names that differ in case are one name, and an empty
directory may or may not give way to a rename. History variables: `damaged`,
`touched`, and `trouble`, the calls that were failed and the source each was at.

### Utf16Port, Screening, AtrLoader

A condition is a sequence of tokens: an ordinary character, a class of `\uXXXX`
escapes and ranges, a star. The text of a pattern is the sequence of the conditions it
was joined from, and its digest is that text. `PairAt`, `Combine` and `Port` are
`port_utf16_surrogates` with its refusals (a quantifier after the pair, too many
ranges) on blocks of three high and three low surrogates. `SearchAtom` is the engine,
run over code units for the source and over code points for this package; the two are
compared. `Screened` is `screen_pattern` condition by condition: the row of this very
text first, then a verdict supplied for the rule, then the shape. `FlatPredicate`
and `CfgBinding` are `_predicate` and `_cfg_binding` with their gates in the order of
the code; `Load` keeps the first rule of an id.

### Release

`Edit` moves the checkout; `Sweep`, `TimeExactly` and `Replay` are the people who time
texts, the report and the merge file what they write. `EmitManifest` and `BuildHazards`
are the two modes of `build_hazards.py`: `Identified` its refusals, `Built` its loop
over the rules, `WithCorrections` and `Downgrades` the merge. `BuildBundle` is
`build_bundle.py`: load, select, screen, drop what fires on nothing, trim. History:
what was swept, timed and found slow, and what of it was known at the last build.

### Bench

`Begin` is the checks of `measure`, `TryExamples` a rule's reachability, `StartBatch`,
`Evaluate` and `Consume` the pool: scans of a batch end in any order, their outcomes
are taken in the order of the units, and `Usable` refuses one that is not complete
(`ExampleScanCut`, `UnitScanCut`: nothing is written). Counters are functions from
surface and stratum to numbers, as a `Counter` is (`Times`, `Added`). `FinishCorpus` makes rows and faults, `Conclude` the report, `Apply` the
lanes, `EditRules` a person in between.

### CalibrationGate

`prepare` makes a clone (`StartPrepare`, `Clone`), checks it (`CheckHistory`), and for
each revision makes the directory, writes every member in two steps (`OpenMember`
leaves it torn, `FillMember` whole) and the marker (`Mark`); then it exports
the one corpus that lives in TypeScript. `run` verifies each snapshot, reads and verifies
its corpus, reads the rules again and scores. `Kill` ends a prepare anywhere, `Take` is a
file lost to a scanner. History: `sound`, whether the last prepare ended well;
`still`, whether anything was written while `run` was at work.

## 3. The runs

Every cfg gives all bounds; a bound of the model and not of the code is named
`MaxFrames`, `MaxLines`, `MaxEvents`, `MaxActive`, `MaxCommands`, `MaxEdits`,
`MaxCalls`, `MaxTouches`, `MaxSweeps`, `MaxSources`, `MaxChanges`, `MaxKills` or
`MaxTaken`.

| Run | States | Shows |
|---|---|---|
| `ScanBatch` | 2.6 M | 278 calls: all verdicts of two rules on two leaves, all kinds of rule with allowances that decline, cut or suffice, each limit overrun, a mismatched worker, killed anywhere, and one worker that writes up to 3 arbitrary lines. All batch properties, `AcceptedIsRowMajor` and `KeepsPromise` |
| `CfgScan` | 256 k | 430 scans: everything one rule of two conditions can see in a document and a block, every switch, two rules of every kind, each limit overrun, killed anywhere, and 2 arbitrary lines. `KeepsPromise`, `EveryRuleInPlace` |
| `Supervisor` | 14 k | one call, 2 lines: `RepliesInterpretable`, `CallerReturns`, `SlotsReturn` |
| `SupervisorSlots` | 4.5 M | two calls, one slot: `SlotsCoverProcesses` |
| `HookEvent` | 318 k | seven payload shapes that reach the depth cap, the node cap, empty strings and siblings behind a kept subtree, one of them NaN; all lanes and matches of two rules; strings withheld already; an exception at every stage: `SilenceMeansChecked`, `DenyIsExact`, `UnfinishedDenyAsks`, `LanesBoundPower`, `NoStringLost`, `EventIsAnswered` |
| `HookAdvice` | – | violation, see Findings |
| `HookConfig` | 664 k | two commands at once and one event: `LaneIsEarned`, `PromotionIsExplicit`, `PromotionHoldsWhereChecked` |
| `HookConfigRace`, `HookConfigHits` | – | violations, see Findings |
| `Installer` | 301 k | two processes, three commands of either kind and version, one edit, five shapes of settings file: `Recoverable`, `UninstallRestores`, `OnlyOursChanges`, `RunsOnce`, `CommandEnds`, `LockGivenBack` |
| `SourceCache` | 2.9 M | two processes, two calls, one change from outside, disk errors at every step, two sources (with and without declared inputs), nine archives: `WholeOrAbsent`, `NothingExcluded`, `AnswersAreRight`, `FailuresHaveReasons` |
| `Maintenance` | 1.0 M | a behaviour is one of: the release of the rules (four checkouts, one edit, one sweep, two corrections: `NoUntimedPatternRuns`, `CorrectionsSurvive`, `FlatIsFaithful`, `BindingOnlyLoses`), a benchmark (five bundles, eleven corpus lists, two scans at once, one edit: `CountsAreExact`, `AdmissionIsEarned`), the calibration gate (three figures on two revisions, four worlds, one kill, one file lost: `VerdictIsExact`, `PrepareRepairs`). The three share no state and are side by side in one run |

What the properties say is written above each in its module. Why the bounds suffice:

- *ScanBatch*. Two rules and two leaves are the least with a next row and a next
  leaf; a third of each overruns the limits (2). Leaf 1 has two bytes so an
  allowance of 1 cuts it and one of 2 ends exactly at it. Three arbitrary lines
  allow a duplicate, a gap and a step back.
- `CompleteIsExhaustive` is proved and not run: `KeepsPromise` contains it.
- *CfgScan*. Two conditions tell `any` from `all` and first from later; two texts
  the first that fires from the next; two lines a repetition from a gap.
- *SourceCache*. Two calls are two fetches at once, or one after the other on the
  entry it left, with one change in between. The archives have an excluded
  directory, links into and out of it, and every reason for refusal.
- *Supervisor*. Calls share only the semaphore, so one call is enough for
  everything but slots, and two calls with one slot for those. Two lines
  distinguish none, some and all of the output. In `SupervisorSlots` calls are
  interchangeable (`SYMMETRY`; no liveness is checked there).
- *HookEvent*. Two rules give two lanes at once; the trees have at most six nodes,
  with caps of depth 1 and 4 nodes inside them. Of two strings none, one or both are
  withheld already, which tells a match in them from a match beside them.
- *HookConfig*. Two commands are the least that overlap. Two sources, a rule on
  each surface, one rule in two versions of which one is loud; bounds rank as
  DENY, ADVISE or RECORD. Two trials give all three. The one event is enough for
  `PromotionHoldsWhereChecked`: an upgrade between a check and a hook event.
- *Installer*. Two processes contend for the lock; three commands are install,
  upgrade and uninstall; the initial file already is one the person edited, and one
  more edit falls between any two steps.
- *Maintenance*. The checkouts hold each shape the loader, the port and the screen tell
  apart: a pair that ports and one that does not (quantified, too many ranges), `any`
  and `all`, a rule with too many branches, nested quantifiers, duplicate ids, an
  unreadable file, texts that are fast alone and slow when replayed or joined. One edit
  is enough to make sweep, manifest and checkout disagree, two corrections to make one
  contradict another. The corpora are quiet, loud, at the ceiling with a bound that
  cannot be placed, damaged, repeated, lacking a stratum, mixed, listed twice; their
  bounds are the real ones for up to five trials, in percent. One kill tears one file;
  two revisions are the least with one prepared and the next not.

`CHECK_DEADLOCK FALSE` is in the HookConfig runs (each process runs one command,
and a file left unreadable by an edit stops hook and commands alike) and in
the Installer and Maintenance runs (commands end and their number is bounded). The other models end
in a stutter that is enabled only when the call is over, so a deadlock would be
found.

A type invariant is run and proved for `ScanBatch` (`TypeOK`). The other modules run
none: their runs are spent on properties that relate pieces of state. Their proofs
state one of their own where they rest on it.

**Fairness.** `CallerReturns` assumes `CallerFairness` alone: the calling thread
runs and time passes. Nothing is assumed of `Popen`, the supervisor or the worker,
which is the point of the code's design. `SlotsReturn` has its further assumption,
`ServiceFairness`, in the formula: the supervisor thread and the watchdog run,
`Popen` returns and the operating system reaps what was killed; without it a hung
launch keeps its slot by design. `EventIsAnswered` assumes weak fairness of the
hook's own steps and of the scanner, which `CallerReturns` justifies. `CommandEnds`
and `LockGivenBack` assume that a process which is not killed continues.

## 4. The proofs

Every theorem is of the specification, for every value of the constants. `IInv` is the
inductive invariant of a module (`ReleaseInv`, `BenchInv`, `GateInv` of the three tools):
the initial states satisfy it, every step keeps it, and each property follows from it.

| Theorem | Module | States |
|---|---|---|
| `TypeCorrect`, `Inductive` | `ScanBatch_proofs` | `Spec => []TypeOK`, `Spec => []IInv` |
| `CompleteBatch`, `CompleteLeaf`, `FinishedRows`, `StreamAccepted`, `AcceptedOrder`, `Suffix`, `LateCancel` | `ScanBatch_proofs` | each batch property of the runs, and two that are proved and not run: `CompleteIsExhaustive`, `DeclinedIsSuffix` |
| `Refinement` | `ScanBatch_proofs` | `Spec => KeepsPromise`: the call implements `ScanPromise` |
| `SupervisorTypes`, `SlotsAreCovered`, `RepliesAreInterpretable` | `Supervisor_proofs` | types, `SlotsCoverProcesses`, `RepliesInterpretable` |
| `WorkersBounded` | `Supervisor_proofs` | never more live workers than slots |
| `Inductive`, `RulesInPlace` | `CfgScan_proofs` | `Spec => []IInv`, `EveryRuleInPlace` |
| `PromiseKept` | `CfgScan_proofs` | `Spec => KeepsPromise`: the scan implements `ScanPromise` |
| `StringsAreKept`, `LanesAreBounded`, `DenialsAreExact`, `UnfinishedChecksAsk`, `SilenceIsChecked` | `HookEvent_proofs` | `NoStringLost`, `LanesBoundPower`, `DenyIsExact`, `UnfinishedDenyAsks`, `SilenceMeansChecked` |
| `Inductive`, `LaneEarned` | `HookConfig_proofs` | truthful evidence, `LaneIsEarned` |
| `Requests`, `NoLaneUnasked`, `PromotionHolds` | `HookConfig_proofs` | lanes asked for, `PromotionIsExplicit`, `PromotionHoldsWhereChecked` |
| `Recovery`, `Restored` | `Installer_proofs` | `Recoverable`, `UninstallRestores` |
| `NothingOfTheirs`, `OneHandler` | `Installer_proofs` | the action properties `OnlyOursChanges`, `RunsOnce` |
| `OnlyTimedRuns`, `SlowRemains` | `Maintenance_proofs` | of `Release`: `NoUntimedPatternRuns`, `CorrectionsSurvive` |
| `ShippedIsFaithful`, `BindingLoses` | `Maintenance_proofs` | of `Release`: `FlatIsFaithful`, `BindingOnlyLoses` |
| `Counted`, `Admitted` | `Maintenance_proofs` | of `Bench`: `CountsAreExact`, `AdmissionIsEarned` |
| `Verdicts`, `Repairs` | `Maintenance_proofs` | of `CalibrationGate`: `VerdictIsExact`, `PrepareRepairs` |
| `EntriesAreWhole`, `ExcludedStaysOut`, `AnswersAreTrue`, `FailuresAreExplained` | `SourceCache_proofs` | `WholeOrAbsent`, `NothingExcluded`, `AnswersAreRight`, `FailuresHaveReasons` |

The constants' assumptions are the ASSUMEs of the modules, and TLC evaluates each:
finiteness of rules and calls, ranges of the limits, what a job or an event is; in
`HookEvent` that a payload is a tree (`TreesAssumption`: every node
is below the first, and the walks of two children never meet); in `SourceCache` that the lock is not empty and paths are
sequences of names; in `Installer` that a person's file is absent, refused by `validate`
or a document it accepts (`DocsAssumption`), and no process is named like a state of
the lock; in `Release` that a checkout is a list of files and an id its rank among all ids
(`CheckoutAssumption`), that texts and examples are well formed (no lone surrogate) and
that conditions are written in code units, what lies beyond them as escapes
(`TextsAssumption`). In `Maintenance`, of the gate's tables (`GateAssumption`): no path and no
revision stands in them twice, the exported corpus belongs to one revision, and a
figure has a score on its own rules and corpus. Of the benchmark (`BenchAssumption`):
no rule is called `bundle`, which is what the row of the whole bundle is called; the
bound of one hit in one trial is 1 and none is higher; and a count `bound_within`
places under a ceiling stays clear of it by more than the figure `binomial_u95` can be
off, so that any count with no higher figure is under it as well. The last is the claim of
`lanes.py` about its own slack (`LOG_CDF_SLACK`). It is taken as it stands, because the
code picks the worst row by the figure and asks `bound_within` of that row only.

**ScanBatch.** None of the promises is inductive: that a finding is true depends on
the line it was read from, that line on the worker's loop counters, those on the
schedule. The invariant has a layer per step of this chain: the schedule (`sent`
ascending, the declined leaves a suffix, `wire` sorted and drawn from runnable
rules); the worker (every line written is the one the sweep would write there; a
row is closed once; `row`, `leaf` stand where the last line says); the transfer
(`received` is a prefix of `pipe`, all of it if the worker finished in time); the
parser (`rows`, `lastLeaf` are what the accepted prefix says, `found` exactly its
hits); the conclusion (no error left means all rows were read). Each step of `Next`
disturbs one layer. The promises then follow state by state; `Refinement` adds that
only the last step (`Return`) changes the answer and that it keeps the promise.

**Supervisor.** Every step belongs to one call, so the invariant is stated of a call
(`CallInv`) and only the count of the slots (`SlotsAdded`) ties the calls together:
free slots and holders add up, which gives `SlotsCoverProcesses` and `WorkersBounded`.
`RepliesInterpretable` is about four fields read one after the other while somebody else
writes them. `Answered` carries what is known after each read: either the
supervisor has finished and the dictionary will not change (`Settling`), or the caller
gave up, and then it has cancelled before reading, so that any error or return code that
arrives in between still reads as a cut (`Withdrawn`). `Stored`, `Blamed` and `Excused`
say who may have written which field by then.

**CfgScan.** Two arguments. The run: the lines in the pipe are one per rule in order,
what is received is a prefix of them, and what is accepted is exactly what is reported,
also for a worker that writes anything (`ParseOK`). The walk: `Walk` is a loop with an
early exit, a suppressed first match and two logics, `Trusted` a formula of quantifiers
over the same conditions; `WalkFinds` and `SearchReports` show them equal by induction on
the number of conditions passed. Together they make the refinement.

**HookEvent.** The walk: every string is collected, or below a node that was kept with a
reason, or below a node still on the stack; the subtrees on the stack lie apart and hold
nothing visited (`Ahead`, `Apart`), which is why nothing is collected twice. This is
where `NoStringLost` alone is not inductive: it says nothing of the stack. The answer:
`Scanned` keeps what the scanner promised until `Materialize`, `Known` what `run` knows
at each stage and so what `Fails` may answer, `Settled` that the decision is taken from
just that. `SilenceMeansChecked` joins both halves: silence needs a batch that is
complete over the strings collected, and an empty stack with no reason kept. It does not
mean that no DENY rule matched: it may have, in strings that were withheld already, and
the property says so. `DenyIsExact` has the same exception and a clause for an exception
that comes after the scan: the degraded answer is not the decision, but on IN a call that
was to be refused is still asked about, since `canAsk` holds wherever a DENY rule was selected
(`FailKeeps`). `LanesBoundPower` needs `ScannedIsNoNumber`: what was scanned has a
string, so a payload that is NaN was not, and is resent as it was.

**HookConfig.** Evidence lies in many copies of the config: the file, each command's
copy, the hook's. The invariant says that every copy carries no evidence or
*truthful* evidence: its rows are those of one measurement in `measured` that
sampled exactly the rules its fingerprint names. A command writes evidence only
from a measurement it has just made, or from a report that carries its own; every
other step copies a config or changes its lanes and surfaces, and truth does
not depend on these. A hook gives a lane above RECORD only where the
fingerprint equals its own rules and surfaces, so that measurement is of these very
rules, and the admission test gives the bounds. The lanes have an invariant of their
own (`RequestsOK`): every copy asks only for lanes in `asked`, except the one a
promotion is about to save; so a stale copy that comes back late cannot raise a lane.
It also keeps, for a promotion past its check, that the rules it loaded reach the lane
and one of them is of its source. `PromotionHoldsWhereChecked` then turns on the
fingerprint: if the lane is above RECORD the evidence names the rules and surfaces that
were checked, so a hook event with the same evidence and any others has RECORD for a
ceiling (`CheckedLane`).

**Installer.** `Recoverable` needs the lock: the invariant says the lock's holder is
the only process between `Acquire` and `Leave`; that from `Backup` on the document
it read is in `backups`; and that at `rechecked`, unless `raced`, the file still is
that document. So a replacement overwrites either a document backed up or, in the
race, one the property excepts. The other three are about what `merge` does.
By induction over lists of groups, `Cleared` takes out every handler of ours, keeps
the person's part as it was and changes a list without ours not at all; `Installed` leaves one
handler of ours whatever was there. From these follow the lemmas on documents, the
one that matters being that `MergeUninstall` undoes `MergeInstall` if it is told
the containers that install made (`UninstallFresh`). `UninstallRestores` is then a question
of receipts: `Follows` says that the file is what the person wrote or that with one
handler of ours in each event *and* a receipt that names what was made, and
`Merged` that a command in flight used that receipt exactly if the file it read had our
handlers. The case it turns on is a receipt written for a replacement that never comes:
it must be right before and after.

**SourceCache.** An entry nobody else changed is absent or whole (`Stored`), because only
`Publish` makes one and a stage it publishes has gone through `ExtractFile` to
the end (`Staged`, `Finished`); stages of killed processes hold no excluded path either (`Clean`).
`AnswersAreRight` needs what each check found to hold still when the next one is
made: `Found` says it does unless the entry was touched since the call began.
`FailuresHaveReasons` needs it the other way round: an entry nobody changed passes every
check (`StoredPasses`), so a check that ends badly was failed by the disk, at that very
source (`FailsKeeps`); that a verify has no outcome while it runs is part of `Fetched`. The rest
are lemmas on paths and links: what `KeptFiles` keeps has no excluded prefix, not even
through the name a link resolves to.

**Release.** `ReleaseInv`. `NoUntimedPatternRuns` speaks of texts that run, but the strict
screen lets a text run only on a fast row of its own (`RunningIsFast`), so it comes down to
the table: a fast row is of a text that was timed and never found slow (`TableIsTrue`).
A fast row is a rule's that did not cross, and then no sweep finds its texts slow
(`SweepIsTrue`; here the manifest must be of the texts swept), or a correction's
(`MergeIsTrue`). What else may have found the text slow is a correction, and a slow
correction is in the table at the end (`SlowStays`, which is `CorrectionsSurvive`):
the build refuses one that would take it back. `Built` and `Corrected` are recursive
functions; that they have a value and what it keeps is by induction on their argument.

`FlatIsFaithful` and `BindingOnlyLoses` are about one matcher run over code units and
another over code points, so the argument is mostly about the port. They hold for conditions
of ordinary characters, classes and stars; a dot or a negated class takes half a pair in one
engine and a whole point in the other, and the model has neither.


- *Texts.* Each point of a text is one code unit or a pair of them; a list of offsets
  says which (`Encodes`, `UnitsEncode`). A position among the units is then a point's end
  or the middle of a pair, never both (`OffsetsCover`).
- *Ranges.* `Combine` makes of two classes exactly the points whose first unit is in
  the one and whose second is in the other, whenever it does not give up
  (`CombineIs`), so the ported token takes a point where the two take its units
  (`PairPoint`).
- *Conditions.* `Port` is read from the left. Without a surrogate left over, the last step
  was a pair, an ordinary token, or such a token with its star, and what came before has
  no surrogate left over either (`CleanStep`, `CleanInduction`). Step by step both matches
  end at the same points (`MatchOutside`). A match over the units that begins inside a
  pair can only be empty, and if it is, the port matches the empty text at every
  point (`MatchInside`). Together: the port hits where the original does
  (`PortMatches`). A surrogate left over is what `screen_pattern` refuses.
- *Rules.* A disjunction hits with one of its conditions, and its branches tried one after
  the other find the alternation's own span, the leftmost and of those the first
  (`TextHit`, `AnyHit`, `OneEach`, `OneBest`). So the flat predicate of a rule fires
  where upstream's conditions do (`FlatFaithful`), and a binding holds only conditions of
  its document (`BindingFaithful`). Of two files with one id the first is loaded
  (`LoadedFirst`).
- *Bundle.* The bundle outlives the checkout and the table it was built from, so
  `FlatIsFaithful` needs `BundleIsTrue` in `ReleaseInv`: what ships was loaded,
  accepted and trimmed from the origin it names, whatever was edited since.

**CalibrationGate.** `GateInv`. A `prepare` that ends well has been past every figure,
so what it has written is whole as far as its place in the table says (`Progress`),
whatever a killed one left before it: it writes every member over what is there, the
marker last. What a `run` has verified is what it reads
later as long as `still` holds (`Quiet`, `Trusting`), so a figure it measured agrees exactly if
the published one does; and what a sound `prepare` left makes no figure unreachable
(`Reaching`).

**Bench.** `BenchInv`. `CountsAreExact` is not inductive since it speaks of finished
reports. The counters under way are those of the units taken so far (`Tallied`), in
the order of the units although scans end in any order: a scan that is complete has the
hits of its unit, and one that is not is never counted. A corpus that is finished adds
its true rows (`Summed`), the report has those of all corpora (`TrueReport`). The rows of
a rule are told apart by their headings because ids and corpora's identities are
distinct, which `measure` checks (`Accepted`). A lane follows because the row judged has
the highest bound of all.

Liveness and `ENABLED` are out of the prover's reach. So is induction by the library's
theorems that take an operator; where it is needed (`CfgScan`, `Installer`, `Maintenance`) it is done as a fact
about sets: a set that holds zero and with every number the next one holds all of them
(`SetInduction`, from the well-foundedness of the numbers), and the same for lists
(`ListInduction`, in `Installer_proofs`). No module declares a RECURSIVE operator.


## 5. Findings

1. `HookConfigRace` — `calibrate` (`hooks/_claude_code_impl.py:510`) and
   `calibrate_from_report` (`:711`) write back the config they read before a scan
   that takes minutes. A lane set meanwhile, by `promote` or by hand, is reverted: even a
   source switched off comes back. `docs/claude-code.md:60` says "It never changes
   requested lanes." A stale write never gives a
   lane that nobody asked for (`PromotionIsExplicit`) or that no measurement earns
   (`LaneIsEarned`).
2. `HookAdvice` — when an event is incomplete, `process` (`:275`) overwrites the
   advice of a finding that did complete with the text for incompleteness.
   `docs/claude-code.md:126` says "completed findings remain effective when later
   work fails". They do for DENY when the scan is what fails (`DenyIsExact`); after an
   exception in `process` itself, see Limits.
3. `HookConfigHits` — `measurement` (`:160`) admits positive hit counts on their
   exact bound; `docs/claude-code.md:62` says "This first adapter refuses
   positive-hit measurements." The code's own comment agrees with the code.

## 6. Limits

*Only model-checked*: all liveness: `CallerReturns`, `SlotsReturn`, `EventIsAnswered`, `CommandEnds`,
`LockGivenBack`. That `U95` is the exact binomial bound is neither checked nor proved.

*Abstracted*: texts, patterns and matching (a table); time (a deadline that passes
once); JSON text and its splicing (groups and containers); log and report files;
floating-point bounds (`U95` is a table of ranks; TLC's instance is chosen to
distinguish the lanes, the proof holds for any); in `HookConfig`, strata and provenance of bench
reports (`Verdicts` is a choice among what the gate could say) and one corpus per
bench run; code blocks and base64 (data of the job); escaping of archive paths. A
person removes only a stale lock. `RemoveLock`, `Edit` and `Touch` are the
environment and mapped as external.

In the release: the numbers in a slow row (witness length, seconds); the revision
named in the manifest, which only repeats an argument; the dot and negated classes, quantifiers
other than the star, global flags and backreferences made by joining; the extraction of
examples (`_examples`) and of an archive; detection fields outside conditions. In the
benchmark: strata a manifest adds, summary and diagnostic figures, duplicate unit names. In the
gate: the metrics behind a score (a score is data), a marker equal to the package's own
pin, two prepares at once. A prepare killed inside its clone leaves a `.git` that every
later one takes for the clone and fails on; this is modelled (`"partial"`) and no
document says otherwise. `VerdictIsExact` and `PrepareRepairs` say nothing of a `run`
during which files are written: the rule files are read twice, once to be verified.

What the properties do not promise, because the code does not: if an exception comes after
the scan (in the second pass, the log or the response), an *output* with DENY findings goes
to the model as it is, with the warning of `degraded_response` alone; an input is asked
about. A NaN is resent with nothing withheld. A DENY match in a string that is withheld
already is only logged.

Nearest to the code but not it: `Path.exists` raises for a path that may not be read up to Python
3.13 and answers no from 3.14 on; `FailsLooking` is the former, the latter is not modelled. `Release` gives its rules the gates of the
checkout, while `build_bundle.py` unpacks only `rules/` and `LICENSE`, so the rules it ships have no
bindings: the model ships more than the code, and what is said of bindings holds all the more.
`CalibrationGate` writes the marker `SOURCE_REV` in one step, `calibration_gate.py:740` truncates
and writes; no verdict rests on what the marker says (`Verified` recomputes the digests).

*Not modelled*: `check_upstream` and `load_lock` (no state is kept); the loaders other
than ATR's, `read_skill_gates`, the built-in rules, licence texts and the JSON form of a
bundle (data without steps); the floating-point arithmetic of `lanes.py`; the byte
cap's cut at a character boundary; command line, other scripts, tools, examples,
benchmarks (arguments and reports).

Hazards no property covers yet are listed in `PROJECT.json` with a note.

## 7. Plan

Done so far, in this order: ScanBatch with its promise and proofs, Supervisor,
HookEvent, HookConfig with its proof, Installer with its proof, CfgScan,
SourceCache, then Utf16Port, Screening, AtrLoader and Release, Bench, CalibrationGate.
The model stands; what is left out is named above.

Every safety property of the runs is proved. What could still be done:

- The contract between `Supervisor` and `ScanBatch` as one instance: the four replies of
  the first are those of the second.
- The dot, negated classes and the other quantifiers in `Utf16Port`. The port leaves a pair alone
  before any of them; the model has one, the star.
