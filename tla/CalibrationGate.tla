--------------------------- MODULE CalibrationGate ---------------------------
(***************************************************************************)
(* The acceptance gate (scripts/calibration_gate.py).  "prepare" rebuilds,   *)
(* in a directory, the snapshots upstream's published figures were measured  *)
(* on; "run" measures every figure again, later and offline.  Both may be    *)
(* under way at once, prepare may be killed at any point, and the host's     *)
(* virus scanner may take a file away.                                      *)
(*                                                                         *)
(* A file is whole, torn (written in part) or missing; a digest tells which. *)
(***************************************************************************)
EXTENDS Integers, Sequences, FiniteSets, SequencesExt

CONSTANTS
  Figures,     \* a sequence of [rev, corpus, claims]; a claim is what was published
  Revs,        \* their revisions, in the order prepare takes them
  RuleFiles,   \* the rule files of every revision, a sequence
  CorpusFiles, \* the corpora in an archive, a sequence; "self" is exported instead
  Worlds,      \* [network, windows] of the host, and the scores of
               \*   each figure's claims on its own rules and corpus
  AnyScores,   \* what a figure may score on a part of the rules
  Tolerance, MinAgreeing,
  MaxKills,    \* bound: how often prepare is killed
  MaxTaken     \* bound: how many files are taken away

VARIABLES
  world,
  upstream,  \* the clone of upstream's history
  disk,      \* by revision: the directory, its marker and its files
  builder,   \* prepare
  scorer,    \* run
  figures,   \* the figures run has scored
  verdict,   \* what run said last
  kills, taken,
  sound,     \* history: did the last prepare end well, with nothing taken since it began?
  still      \* history: nobody wrote while run was at work

hazards == <<kills, taken>>
gateVars == <<world, upstream, disk, builder, scorer, figures, verdict, hazards, sound, still>>

Archive == RuleFiles \o CorpusFiles
Names == ToSet(Archive) \cup {"self"}
NoRoot == [made |-> FALSE, marked |-> FALSE, files |-> [f \in Names |-> "missing"]]
Builder(step, rev, file) == [step |-> step, rev |-> rev, file |-> file]
NoBuilder == Builder("idle", 0, 0)
Scorer(step, rules) == [step |-> step, rules |-> rules]
NoScorer == Scorer("idle", "none")

Init ==
  /\ world \in Worlds
  /\ upstream \in {"none", "other"} /\ disk = [r \in ToSet(Revs) |-> NoRoot]
  /\ builder = NoBuilder /\ scorer = NoScorer /\ figures = <<>> /\ verdict = "none"
  /\ kills = 0 /\ taken = 0 /\ sound = "no" /\ still = FALSE

-----------------------------------------------------------------------------
(* prepare: the clone, then the checks.  A directory with a .git is a clone.  *)
BuilderOnly == UNCHANGED <<world, scorer, figures, verdict, hazards>>
DiskAsItIs == UNCHANGED <<disk, still>>

StartPrepare ==
  /\ builder.step = "idle" /\ (upstream # "none" \/ world.network)
  /\ builder' = Builder(IF upstream = "none" THEN "clone" ELSE "check", 1, 1)
  /\ upstream' = IF upstream = "none" THEN "partial" ELSE upstream
  /\ sound' = "so far" /\ still' = FALSE
  /\ BuilderOnly /\ UNCHANGED disk

Clone ==
  /\ builder.step = "clone"
  /\ upstream' = "whole" /\ builder' = [builder EXCEPT !.step = "check"]
  /\ BuilderOnly /\ DiskAsItIs /\ UNCHANGED sound

(* Every revision an ancestor of the pin, every tree the pinned one; and no   *)
(* malicious sample on a Windows world.                                      *)
CheckHistory ==
  /\ builder.step = "check"
  /\ builder' = IF upstream = "whole" /\ ~world.windows THEN [builder EXCEPT !.step = "root"] ELSE NoBuilder
  /\ BuilderOnly /\ DiskAsItIs /\ UNCHANGED <<upstream, sound>>

(***************************************************************************)
(* One revision: its directory, which may be there already, every member of  *)
(* the archive over what is there, and the marker last.                     *)
(***************************************************************************)
Rev == Revs[builder.rev]
SetFile(r, f, state) == disk' = [disk EXCEPT ![r].files[f] = state]

MakeRoot ==
  /\ builder.step = "root"
  /\ disk' = [disk EXCEPT ![Rev].made = TRUE]
  /\ builder' = Builder("open", builder.rev, 1)
  /\ still' = FALSE /\ BuilderOnly /\ UNCHANGED <<upstream, sound>>

(* A member that is there is not written again.                              *)
FillMissingOnly ==
  LET left == { i \in (builder.file + 1) .. Len(Archive) : disk[Rev].files[Archive[i]] = "missing" }
  IN  /\ builder.step = "fill"
      /\ SetFile(Rev, Archive[builder.file], "whole")
      /\ builder' = IF left # {} THEN Builder("open", builder.rev, CHOOSE i \in left : \A k \in left : i <= k)
                    ELSE [builder EXCEPT !.step = "mark"]
      /\ still' = FALSE /\ BuilderOnly /\ UNCHANGED <<upstream, sound>>

OpenMember ==
  /\ builder.step = "open"
  /\ SetFile(Rev, Archive[builder.file], "torn")
  /\ builder' = [builder EXCEPT !.step = "fill"]
  /\ still' = FALSE /\ BuilderOnly /\ UNCHANGED <<upstream, sound>>

FillMember ==
  /\ builder.step = "fill"
  /\ SetFile(Rev, Archive[builder.file], "whole")
  /\ builder' = IF builder.file < Len(Archive) THEN Builder("open", builder.rev, builder.file + 1)
                ELSE [builder EXCEPT !.step = "mark"]
  /\ still' = FALSE /\ BuilderOnly /\ UNCHANGED <<upstream, sound>>

Mark ==
  /\ builder.step = "mark"
  /\ disk' = [disk EXCEPT ![Rev].marked = TRUE]
  /\ builder' = IF builder.rev < Len(Revs) THEN Builder("root", builder.rev + 1, 1) ELSE Builder("export", 0, 0)
  /\ still' = FALSE /\ BuilderOnly /\ UNCHANGED <<upstream, sound>>

(***************************************************************************)
(* The corpus that lives in TypeScript source is exported into its snapshot. *)
(* Without the tool, or when it fails, prepare says so and ends well.        *)
(***************************************************************************)
SelfRev == LET i == CHOOSE i \in DOMAIN Figures : Figures[i].corpus = "self" IN Figures[i].rev
OpenExport ==
  /\ builder.step = "export"
  /\ SetFile(SelfRev, "self", "torn") /\ builder' = Builder("exporting", 0, 0)
  /\ still' = FALSE /\ BuilderOnly /\ UNCHANGED <<upstream, sound>>
FillExport ==
  /\ builder.step = "exporting"
  /\ SetFile(SelfRev, "self", "whole") /\ builder' = Builder("report", 0, 0)
  /\ still' = FALSE /\ BuilderOnly /\ UNCHANGED <<upstream, sound>>
NoExport ==
  /\ builder.step \in {"export", "exporting"}
  /\ builder' = Builder("report lacking", 0, 0)
  /\ BuilderOnly /\ DiskAsItIs /\ UNCHANGED <<upstream, sound>>

WriteReport ==
  /\ builder.step \in {"report", "report lacking"}
  /\ builder' = NoBuilder
  /\ sound' = IF builder.step = "report" /\ sound = "so far" THEN "yes" ELSE "no"
  /\ BuilderOnly /\ DiskAsItIs /\ UNCHANGED upstream

Kill ==
  /\ builder.step # "idle" /\ kills < MaxKills /\ kills' = kills + 1
  /\ builder' = NoBuilder
  /\ DiskAsItIs /\ UNCHANGED <<world, upstream, scorer, figures, verdict, taken, sound>>

Take ==
  /\ taken < MaxTaken /\ taken' = taken + 1
  /\ \E r \in ToSet(Revs), f \in Names : disk[r].files[f] # "missing" /\ SetFile(r, f, "missing")
  /\ sound' = "no" /\ still' = FALSE
  /\ UNCHANGED <<world, upstream, builder, scorer, figures, verdict, kills>>

-----------------------------------------------------------------------------
(* run: figure after figure.                                                *)
Figure == Figures[Len(figures) + 1]
Root == disk[Figure.rev]
Rules(root) == IF \A i \in DOMAIN RuleFiles : root.files[RuleFiles[i]] = "whole" THEN "pinned" ELSE "other"

VerifiedByMarker(root) == root.made /\ root.marked
(* verify_snapshot: the marker, the number of rule files and their digest.    *)
Verified(root) == root.made /\ root.marked /\ Rules(root) = "pinned"

ScorerOnly == UNCHANGED <<world, upstream, disk, builder, hazards, sound, still>>

(* _claim_row and evaluate_figure's report: scores is empty when unreachable. *)
InTolerance(published, ours) == published - ours <= Tolerance /\ ours - published <= Tolerance
Scored(figure, scores) ==
  [ status |-> IF scores = <<>> THEN "unreachable" ELSE "measured",
    agrees |-> scores # <<>> /\ \A k \in DOMAIN figure.claims : InTolerance(figure.claims[k], scores[k]) ]

Report(scores) == figures' = Append(figures, Scored(Figure, scores)) /\ scorer' = Scorer("verify", "none")

StartRun ==
  /\ scorer.step = "idle"
  /\ scorer' = Scorer("verify", "none") /\ figures' = <<>> /\ verdict' = "none"
  /\ still' = (builder.step = "idle")
  /\ UNCHANGED <<world, upstream, disk, builder, hazards, sound>>

VerifySnapshot ==
  /\ scorer.step = "verify" /\ Len(figures) < Len(Figures)
  /\ IF Verified(Root) THEN scorer' = Scorer("corpus", "none") /\ UNCHANGED figures ELSE Report(<<>>)
  /\ ScorerOnly /\ UNCHANGED verdict

(* The corpus is read once and verified as it was read.                       *)
CorpusVerified(root, figure) == root.files[figure.corpus] = "whole"
LoadCorpus ==
  /\ scorer.step = "corpus"
  /\ IF CorpusVerified(Root, Figure) THEN scorer' = Scorer("rules", "none") /\ UNCHANGED figures
     ELSE Report(<<>>)
  /\ ScorerOnly /\ UNCHANGED verdict

(* The rule files are read a second time; one that does not parse is an entry *)
(* error of the loader.                                                     *)
LoadRules ==
  /\ scorer.step = "rules"
  /\ scorer' = Scorer("measure", Rules(Root))
  /\ ScorerOnly /\ UNCHANGED <<figures, verdict>>

Measure ==
  /\ scorer.step = "measure"
  /\ \E scores \in IF scorer.rules = "pinned" THEN {world.scores[Len(figures) + 1]} ELSE AnyScores \cup {<<>>} :
       Report(scores)
  /\ ScorerOnly /\ UNCHANGED verdict

Agreeing == { i \in DOMAIN figures : figures[i].agrees }
Conclude ==
  /\ scorer.step = "verify" /\ Len(figures) = Len(Figures)
  /\ verdict' = IF \E i \in DOMAIN figures : figures[i].status = "unreachable" THEN "unreachable"
                ELSE IF Cardinality(Agreeing) >= MinAgreeing THEN "pass" ELSE "fail"
  /\ scorer' = NoScorer
  /\ ScorerOnly /\ UNCHANGED figures

Next ==
  \/ StartPrepare \/ Clone \/ CheckHistory \/ MakeRoot \/ OpenMember \/ FillMember \/ Mark
  \/ OpenExport \/ FillExport \/ NoExport \/ WriteReport \/ Kill \/ Take
  \/ StartRun \/ VerifySnapshot \/ LoadCorpus \/ LoadRules \/ Measure \/ Conclude
Spec == Init /\ [][Next]_gateVars
=============================================================================
