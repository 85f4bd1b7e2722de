-------------------------- MODULE Maintenance_proofs --------------------------
(***************************************************************************)
(* Proofs about the maintainers' tools.                                     *)
(***************************************************************************)
EXTENDS Maintenance, FiniteSetTheorems, TLAPS

-----------------------------------------------------------------------------
(* The calibration gate: what a step may write. *)

(* The files as the disk is typed.                                           *)
DiskType == [G!ToSet(Revs) -> [made : BOOLEAN, marked : BOOLEAN, files : [G!Names -> G!FileStates]]]

(* Writing one file changes that file only.                                  *)
LEMMA OneFile ==
  ASSUME disk \in DiskType, NEW r, NEW f, NEW s \in G!FileStates, G!SetFile(r, f, s)
  PROVE  /\ disk' \in DiskType
         /\ \A q \in G!ToSet(Revs) :
              /\ disk'[q].made = disk[q].made /\ disk'[q].marked = disk[q].marked
              /\ \A g \in G!Names : disk'[q].files[g] = IF q = r /\ g = f THEN s ELSE disk[q].files[g]
<1>1. disk' = [disk EXCEPT ![r].files[f] = s]
  BY DEF G!SetFile
<1>2. CASE r \in G!ToSet(Revs)
  <2>1. PICK d \in [made : BOOLEAN, marked : BOOLEAN, files : [G!Names -> G!FileStates]] : d = disk[r]
    BY <1>2 DEF DiskType
  <2> DEFINE e == [d EXCEPT !.files[f] = s]
  <2>2. /\ e \in [made : BOOLEAN, marked : BOOLEAN, files : [G!Names -> G!FileStates]]
        /\ e.made = d.made /\ e.marked = d.marked
        /\ \A g \in G!Names : e.files[g] = IF g = f THEN s ELSE d.files[g]
    OBVIOUS
  <2>3. disk' = [disk EXCEPT ![r] = e]
    BY <1>1, <2>1
  <2> HIDE DEF e
  <2> QED
    BY <1>2, <2>1, <2>2, <2>3 DEF DiskType
<1>3. CASE r \notin G!ToSet(Revs)
  <2>1. disk' = disk
    BY <1>1, <1>3 DEF DiskType
  <2> QED
    BY <1>3, <2>1
<1> QED
  BY <1>2, <1>3

(* The names of an archive are names, its members are apart, and neither is   *)
(* the exported corpus.                                                      *)
LEMMA Members ==
  /\ Len(Revs) \in Nat \ {0} /\ Len(G!Archive) \in Nat \ {0} /\ Len(Figures) \in Nat
  /\ \A k \in 1 .. Len(Revs) : Revs[k] \in G!ToSet(Revs)
  /\ \A r \in G!ToSet(Revs) : \E k \in 1 .. Len(Revs) : r = Revs[k]
  /\ \A i, j \in 1 .. Len(Revs) : Revs[i] = Revs[j] => i = j
  /\ \A i \in 1 .. Len(G!Archive) : G!Archive[i] \in G!Names /\ G!Archive[i] # "self"
  /\ \A i, j \in 1 .. Len(G!Archive) : G!Archive[i] = G!Archive[j] => i = j
  /\ "self" \in G!Names
<1>1. /\ Len(Revs) \in Nat /\ DOMAIN Revs = 1 .. Len(Revs) /\ Revs # <<>>
      /\ Len(G!Archive) \in Nat /\ DOMAIN G!Archive = 1 .. Len(G!Archive) /\ G!Archive # <<>>
      /\ Len(Figures) \in Nat
  BY GateAssumption DEF GateAssumption, Listed
<1>2. Len(Revs) # 0 /\ Len(G!Archive) # 0
  BY <1>1
<1> QED
  BY <1>1, <1>2, GateAssumption DEF GateAssumption, Distinguished, G!ToSet, G!Names
-----------------------------------------------------------------------------
(* The gate: every part of its invariant is kept by every step. *)

GateSteps ==
  \/ G!StartPrepare \/ G!Clone \/ G!CheckHistory \/ G!MakeRoot \/ G!OpenMember \/ G!FillMember \/ G!Mark
  \/ G!OpenExport \/ G!FillExport \/ G!NoExport \/ G!WriteReport \/ G!Kill \/ G!Take
GateRuns == G!StartRun \/ G!VerifySnapshot \/ G!LoadCorpus \/ G!LoadRules \/ G!Measure \/ G!Conclude

(* What the files are and where prepare stands, after a step of prepare or a  *)
(* loss.                                                                     *)
LEMMA PlacedDisk ==
  ASSUME G!Placed, GateSteps
  PROVE  disk' \in DiskType
<1> USE DEF G!BuilderOnly, G!DiskAsItIs
<1>1. disk \in DiskType /\ "torn" \in G!FileStates /\ "whole" \in G!FileStates /\ "missing" \in G!FileStates
  BY DEF G!Placed, DiskType, G!FileStates
<1>2. CASE G!OpenMember
  BY <1>1, <1>2, OneFile DEF G!OpenMember
<1>3. CASE G!FillMember
  BY <1>1, <1>3, OneFile DEF G!FillMember
<1>4. CASE G!OpenExport
  BY <1>1, <1>4, OneFile DEF G!OpenExport
<1>5. CASE G!FillExport
  BY <1>1, <1>5, OneFile DEF G!FillExport
<1>6. CASE G!Take
  BY <1>1, <1>6, OneFile DEF G!Take
<1>7. CASE G!MakeRoot
  BY <1>1, <1>7 DEF G!MakeRoot, DiskType
<1>8. CASE G!Mark
  BY <1>1, <1>8 DEF G!Mark, DiskType
<1>9. CASE G!StartPrepare \/ G!Clone \/ G!CheckHistory \/ G!NoExport \/ G!WriteReport \/ G!Kill
  BY <1>1, <1>9 DEF G!StartPrepare, G!Clone, G!CheckHistory, G!NoExport, G!WriteReport, G!Kill
<1> QED
  BY <1>2, <1>3, <1>4, <1>5, <1>6, <1>7, <1>8, <1>9 DEF GateSteps

BuilderType ==
  /\ builder \in [step : G!BuilderSteps, rev : Nat, file : Nat]
  /\ builder.step \in {"clone", "check", "root", "open", "fill", "mark"} => builder.rev \in 1 .. Len(Revs)
  /\ builder.step \in {"open", "fill"} => builder.file \in 1 .. Len(G!Archive)
  /\ builder.step \in {"clone", "check"} => builder.rev = 1

(* Where prepare goes.                                                       *)
LEMMA BuilderMade ==
  ASSUME NEW s \in G!BuilderSteps, NEW r \in Nat, NEW f \in Nat
  PROVE  /\ G!Builder(s, r, f) \in [step : G!BuilderSteps, rev : Nat, file : Nat]
         /\ G!Builder(s, r, f).step = s /\ G!Builder(s, r, f).rev = r /\ G!Builder(s, r, f).file = f
BY DEF G!Builder

(* As BuilderMade says.                                                      *)
LEMMA BuilderMoved ==
  ASSUME BuilderType, NEW s
  PROVE  /\ [builder EXCEPT !.step = s] = G!Builder(s, builder.rev, builder.file)
         /\ builder.rev \in Nat /\ builder.file \in Nat
<1>1. builder \in [step : G!BuilderSteps, rev : Nat, file : Nat]
  BY DEF BuilderType
<1> QED
  BY <1>1 DEF G!Builder

(* As PlacedDisk says.                                                       *)
LEMMA PlacedBuilder ==
  ASSUME BuilderType, GateSteps
  PROVE  BuilderType'
<1>1. /\ Len(Revs) \in Nat \ {0} /\ Len(G!Archive) \in Nat \ {0}
      /\ 1 \in Nat /\ 1 \in 1 .. Len(Revs) /\ 1 \in 1 .. Len(G!Archive)
  BY Members
<1>2. builder.rev \in Nat /\ builder.file \in Nat
  BY BuilderMoved
<1>3. ASSUME NEW s \in G!BuilderSteps, NEW r \in Nat, NEW f \in Nat, builder' = G!Builder(s, r, f),
             s \in {"clone", "check", "root", "open", "fill", "mark"} => r \in 1 .. Len(Revs),
             s \in {"open", "fill"} => f \in 1 .. Len(G!Archive),
             s \in {"clone", "check"} => r = 1
      PROVE  BuilderType'
  <2>1. /\ builder' \in [step : G!BuilderSteps, rev : Nat, file : Nat]
        /\ builder'.step = s /\ builder'.rev = r /\ builder'.file = f
    BY <1>3, BuilderMade
  <2> QED
    BY <1>3, <2>1 DEF BuilderType
<1>4. /\ "idle" \in G!BuilderSteps /\ "clone" \in G!BuilderSteps /\ "check" \in G!BuilderSteps
      /\ "root" \in G!BuilderSteps /\ "open" \in G!BuilderSteps /\ "fill" \in G!BuilderSteps
      /\ "mark" \in G!BuilderSteps /\ "export" \in G!BuilderSteps /\ "exporting" \in G!BuilderSteps
      /\ "report" \in G!BuilderSteps /\ "report lacking" \in G!BuilderSteps
  BY DEF G!BuilderSteps
<1>5. CASE G!StartPrepare
  <2>1. PICK s \in {"clone", "check"} : builder' = G!Builder(s, 1, 1)
    BY <1>5 DEF G!StartPrepare
  <2> QED
    BY <1>1, <1>3, <1>4, <2>1
<1>6. CASE G!Clone
  <2>1. builder.step = "clone" /\ builder' = G!Builder("check", builder.rev, builder.file)
    BY <1>4, <1>6, BuilderMoved DEF G!Clone
  <2>2. builder.rev = 1
    BY <2>1 DEF BuilderType
  <2> QED
    BY <1>1, <1>2, <1>3, <1>4, <2>1, <2>2
<1>7. ASSUME builder' = G!NoBuilder PROVE BuilderType'
  BY <1>3, <1>4, <1>7 DEF G!NoBuilder
<1>8. CASE G!CheckHistory
  <2>1. builder.step = "check" /\ builder.rev = 1
    BY <1>8 DEF G!CheckHistory, BuilderType
  <2>2. builder' = G!Builder("root", builder.rev, builder.file) \/ builder' = G!NoBuilder
    BY <1>4, <1>8, BuilderMoved DEF G!CheckHistory
  <2> QED
    BY <1>1, <1>2, <1>3, <1>4, <1>7, <2>1, <2>2
<1>9. CASE G!MakeRoot
  <2>1. builder' = G!Builder("open", builder.rev, 1) /\ builder.rev \in 1 .. Len(Revs)
    BY <1>9 DEF G!MakeRoot, BuilderType
  <2> QED
    BY <1>1, <1>2, <1>3, <1>4, <2>1
<1>10. CASE G!OpenMember
  <2>1. /\ builder' = G!Builder("fill", builder.rev, builder.file)
        /\ builder.rev \in 1 .. Len(Revs) /\ builder.file \in 1 .. Len(G!Archive)
    BY <1>4, <1>10, BuilderMoved DEF G!OpenMember, BuilderType
  <2> QED
    BY <1>2, <1>3, <1>4, <2>1
<1>11. CASE G!FillMember
  <2>1. builder.rev \in 1 .. Len(Revs) /\ builder.file \in 1 .. Len(G!Archive)
    BY <1>11 DEF G!FillMember, BuilderType
  <2>2. CASE builder.file < Len(G!Archive)
    <3>1. builder' = G!Builder("open", builder.rev, builder.file + 1)
      BY <1>11, <2>2 DEF G!FillMember
    <3>2. builder.file + 1 \in Nat /\ builder.file + 1 \in 1 .. Len(G!Archive)
      BY <1>1, <1>2, <2>2
    <3> QED
      BY <1>2, <1>3, <1>4, <2>1, <3>1, <3>2
  <2>3. CASE ~ (builder.file < Len(G!Archive))
    <3>1. builder' = G!Builder("mark", builder.rev, builder.file)
      BY <1>4, <1>11, <2>3, BuilderMoved DEF G!FillMember
    <3> QED
      BY <1>2, <1>3, <1>4, <2>1, <3>1
  <2> QED
    BY <2>2, <2>3
<1>12. CASE G!Mark
  <2>1. builder.rev \in 1 .. Len(Revs)
    BY <1>12 DEF G!Mark, BuilderType
  <2>2. CASE builder.rev < Len(Revs)
    <3>1. builder' = G!Builder("root", builder.rev + 1, 1)
      BY <1>12, <2>2 DEF G!Mark
    <3>2. builder.rev + 1 \in Nat /\ builder.rev + 1 \in 1 .. Len(Revs)
      BY <1>1, <1>2, <2>2
    <3> QED
      BY <1>3, <1>4, <3>1, <3>2
  <2>3. CASE ~ (builder.rev < Len(Revs))
    <3>1. builder' = G!Builder("export", 0, 0)
      BY <1>12, <2>3 DEF G!Mark
    <3> QED
      BY <1>3, <1>4, <3>1
  <2> QED
    BY <2>2, <2>3
<1>13. CASE G!OpenExport \/ G!FillExport \/ G!NoExport
  <2>1. PICK s \in {"exporting", "report", "report lacking"} : builder' = G!Builder(s, 0, 0)
    BY <1>13 DEF G!OpenExport, G!FillExport, G!NoExport
  <2> QED
    BY <1>3, <1>4, <2>1
<1>14. CASE G!WriteReport \/ G!Kill
  BY <1>7, <1>14 DEF G!WriteReport, G!Kill
<1>15. CASE G!Take
  BY <1>15 DEF G!Take, BuilderType
<1> QED
  BY <1>5, <1>6, <1>8, <1>9, <1>10, <1>11, <1>12, <1>13, <1>14, <1>15 DEF GateSteps

ScorerTyped ==
  /\ scorer \in [step : {"idle", "verify", "corpus", "rules", "measure"}, rules : {"none", "pinned", "other"}]
  /\ figures \in Seq([status : {"measured", "unreachable"}, agrees : BOOLEAN])
  /\ Len(figures) <= Len(Figures)
  /\ scorer.step \in {"corpus", "rules", "measure"} => Len(figures) < Len(Figures)
  /\ scorer.step # "idle" => verdict = "none"

(* A figure's report is typed, and one more.                                 *)
LEMMA ReportTyped ==
  ASSUME ScorerTyped, scorer.step # "idle", NEW scores, G!Report(scores), Len(figures) < Len(Figures), verdict' = verdict
  PROVE  /\ ScorerTyped' /\ scorer'.step = "verify"
         /\ figures \in Seq([status : {"measured", "unreachable"}, agrees : BOOLEAN])
         /\ Len(figures) \in Nat /\ Len(figures') = Len(figures) + 1
         /\ \A i \in 1 .. Len(figures) : figures'[i] = figures[i]
         /\ figures'[Len(figures) + 1] = G!Scored(G!Figure, scores)
<1>1. G!Scored(G!Figure, scores) \in [status : {"measured", "unreachable"}, agrees : BOOLEAN]
  BY DEF G!Scored
<1>2. figures' = Append(figures, G!Scored(G!Figure, scores)) /\ scorer' = [step |-> "verify", rules |-> "none"]
  BY DEF G!Report, G!Scorer
<1>3. figures \in Seq([status : {"measured", "unreachable"}, agrees : BOOLEAN])
  BY DEF ScorerTyped
<1>4. PICK e \in [status : {"measured", "unreachable"}, agrees : BOOLEAN] : e = G!Scored(G!Figure, scores)
  BY <1>1
<1>5. /\ figures' \in Seq([status : {"measured", "unreachable"}, agrees : BOOLEAN])
      /\ Len(figures) \in Nat /\ Len(figures') = Len(figures) + 1
      /\ \A i \in 1 .. Len(figures) : figures'[i] = figures[i]
      /\ figures'[Len(figures) + 1] = e
  BY <1>2, <1>3, <1>4
<1>6. Len(Figures) \in Nat
  BY Members
<1>7. /\ scorer' \in [step : {"idle", "verify", "corpus", "rules", "measure"}, rules : {"none", "pinned", "other"}]
      /\ scorer'.step = "verify"
  BY <1>2
<1>8. verdict' = "none" /\ Len(figures') <= Len(Figures)
  BY <1>5, <1>6 DEF ScorerTyped
<1>9. ScorerTyped'
  BY <1>5, <1>7, <1>8 DEF ScorerTyped
<1> QED
  BY <1>3, <1>4, <1>5, <1>7, <1>9
(* Whoever prepares or takes a file away leaves nobody in peace.              *)
LEMMA WritersDisturb ==
  ASSUME G!Quiet, GateSteps
  PROVE  ~still'
<1> USE DEF G!Quiet, G!DiskAsItIs
<1>1. CASE G!StartPrepare \/ G!MakeRoot \/ G!OpenMember \/ G!FillMember \/ G!Mark
  BY <1>1 DEF G!StartPrepare, G!MakeRoot, G!OpenMember, G!FillMember, G!Mark
<1>2. CASE G!OpenExport \/ G!FillExport \/ G!Take
  BY <1>2 DEF G!OpenExport, G!FillExport, G!Take
<1>3. CASE G!Clone \/ G!CheckHistory \/ G!NoExport \/ G!WriteReport \/ G!Kill
  BY <1>3 DEF G!Clone, G!CheckHistory, G!NoExport, G!WriteReport, G!Kill
<1> QED
  BY <1>1, <1>2, <1>3 DEF GateSteps

(* They do not touch what run has found.                                     *)
LEMMA WritersLeave ==
  ASSUME GateSteps
  PROVE  scorer' = scorer /\ figures' = figures /\ verdict' = verdict /\ world' = world
<1> USE DEF G!BuilderOnly
<1>1. CASE G!StartPrepare \/ G!MakeRoot \/ G!OpenMember \/ G!FillMember \/ G!Mark
  BY <1>1 DEF G!StartPrepare, G!MakeRoot, G!OpenMember, G!FillMember, G!Mark
<1>2. CASE G!OpenExport \/ G!FillExport \/ G!Take
  BY <1>2 DEF G!OpenExport, G!FillExport, G!Take
<1>3. CASE G!Clone \/ G!CheckHistory \/ G!NoExport \/ G!WriteReport \/ G!Kill
  BY <1>3 DEF G!Clone, G!CheckHistory, G!NoExport, G!WriteReport, G!Kill
<1> QED
  BY <1>1, <1>2, <1>3 DEF GateSteps

(* The steps of run read only.                                               *)
LEMMA RunReads ==
  ASSUME GateRuns
  PROVE  /\ disk' = disk /\ builder' = builder /\ world' = world /\ sound' = sound
         /\ still' = still \/ G!StartRun
<1> QED
  BY DEF GateRuns, G!StartRun, G!VerifySnapshot, G!LoadCorpus, G!LoadRules, G!Measure, G!Conclude, G!ScorerOnly

-----------------------------------------------------------------------------
(* How far prepare has come. *)

(* A revision that is done stays done while its files do.                     *)
LEMMA DoneStays ==
  ASSUME NEW r, G!Done(r), disk'[r].made, disk'[r].marked,
         \A i \in 1 .. Len(G!Archive) : disk'[r].files[G!Archive[i]] = disk[r].files[G!Archive[i]]
  PROVE  G!Done(r)'
BY DEF G!Done, G!Filled

(* As DoneStays says, for any number of files.                               *)
LEMMA FilledStays ==
  ASSUME NEW r, NEW n, G!Filled(r, n),
         \A i \in 1 .. n : disk'[r].files[G!Archive[i]] = disk[r].files[G!Archive[i]]
  PROVE  G!Filled(r, n)'
BY DEF G!Filled

(* Opening or filling a member leaves the revisions before it, and the        *)
(* members before it, as they were.                                         *)
LEMMA OneMember ==
  ASSUME disk \in DiskType, BuilderType, builder.step \in {"open", "fill"}, NEW s \in G!FileStates,
         G!SetFile(G!Rev, G!Archive[builder.file], s)
  PROVE  /\ disk'[G!Rev].made = disk[G!Rev].made
         /\ disk'[G!Rev].files[G!Archive[builder.file]] = s
         /\ \A i \in 1 .. Len(G!Archive) : i # builder.file =>
              disk'[G!Rev].files[G!Archive[i]] = disk[G!Rev].files[G!Archive[i]]
         /\ \A k \in 1 .. builder.rev - 1 : G!Done(Revs[k]) => G!Done(Revs[k])'
<1>1. /\ builder.rev \in 1 .. Len(Revs) /\ builder.file \in 1 .. Len(G!Archive)
      /\ G!Rev = Revs[builder.rev]
  BY DEF BuilderType, G!Rev
<1>2. /\ \A q \in G!ToSet(Revs) :
           /\ disk'[q].made = disk[q].made /\ disk'[q].marked = disk[q].marked
           /\ \A g \in G!Names :
                disk'[q].files[g] = IF q = G!Rev /\ g = G!Archive[builder.file] THEN s ELSE disk[q].files[g]
  BY OneFile
<1>3. G!Rev \in G!ToSet(Revs) /\ G!Archive[builder.file] \in G!Names
  BY <1>1, Members
<1>4. ASSUME NEW i \in 1 .. Len(G!Archive), i # builder.file
      PROVE  disk'[G!Rev].files[G!Archive[i]] = disk[G!Rev].files[G!Archive[i]]
  <2>1. G!Archive[i] \in G!Names /\ G!Archive[i] # G!Archive[builder.file]
    BY <1>1, <1>4, Members
  <2> QED
    BY <1>2, <1>3, <2>1
<1>5. ASSUME NEW k \in 1 .. builder.rev - 1, G!Done(Revs[k]) PROVE G!Done(Revs[k])'
  <2>1. k \in 1 .. Len(Revs) /\ k # builder.rev
    BY <1>1, Members
  <2>2. Revs[k] \in G!ToSet(Revs) /\ Revs[k] # G!Rev
    BY <1>1, <2>1, Members
  <2>3. \A i \in 1 .. Len(G!Archive) : disk'[Revs[k]].files[G!Archive[i]] = disk[Revs[k]].files[G!Archive[i]]
    BY <1>2, <2>2, Members
  <2>4. disk'[Revs[k]].made /\ disk'[Revs[k]].marked
    BY <1>2, <1>5, <2>2 DEF G!Done
  <2> QED
    BY <1>5, <2>3, <2>4, DoneStays
<1> QED
  BY <1>2, <1>3, <1>4, <1>5

(* Writing the exported corpus leaves every revision done.                    *)
LEMMA ExportLeaves ==
  ASSUME disk \in DiskType, NEW s \in G!FileStates, G!SetFile(G!SelfRev, "self", s)
  PROVE  \A r \in G!ToSet(Revs) : G!Done(r) => G!Done(r)'
<1> SUFFICES ASSUME NEW r \in G!ToSet(Revs), G!Done(r) PROVE G!Done(r)'
  OBVIOUS
<1>1. /\ disk'[r].made = disk[r].made /\ disk'[r].marked = disk[r].marked
      /\ \A g \in G!Names : disk'[r].files[g] = IF r = G!SelfRev /\ g = "self" THEN s ELSE disk[r].files[g]
  BY OneFile
<1>2. \A i \in 1 .. Len(G!Archive) : disk'[r].files[G!Archive[i]] = disk[r].files[G!Archive[i]]
  BY <1>1, Members
<1>3. disk'[r].made /\ disk'[r].marked
  BY <1>1 DEF G!Done
<1> QED
  BY <1>2, <1>3, DoneStays

(* The revision of every exported corpus is the one that is exported into.    *)
LEMMA ExportReaches ==
  ASSUME disk \in DiskType, G!SetFile(G!SelfRev, "self", "whole")
  PROVE  G!Exported'
<1> SUFFICES ASSUME NEW i \in DOMAIN Figures, Figures[i].corpus = "self"
             PROVE  disk'[Figures[i].rev].files["self"] = "whole"
  BY DEF G!Exported
<1> DEFINE j == CHOOSE k \in DOMAIN Figures : Figures[k].corpus = "self"
<1>1. j \in DOMAIN Figures /\ Figures[j].corpus = "self"
  OBVIOUS
<1>2. G!SelfRev = Figures[j].rev
  BY DEF G!SelfRev
<1> HIDE DEF j
<1>3. Figures[i].rev = G!SelfRev /\ \E k \in DOMAIN Revs : Figures[i].rev = Revs[k]
  BY <1>1, <1>2, GateAssumption DEF GateAssumption
<1>4. Figures[i].rev \in G!ToSet(Revs)
  BY <1>3 DEF G!ToSet
<1>5. "whole" \in G!FileStates /\ "self" \in G!Names
  BY Members DEF G!FileStates
<1>6. disk'[Figures[i].rev].files["self"] =
        IF Figures[i].rev = G!SelfRev /\ "self" = "self" THEN "whole" ELSE disk[Figures[i].rev].files["self"]
  BY <1>4, <1>5, OneFile
<1> QED
  BY <1>3, <1>6
(* Prepare comes as far as it says, whatever it finds on the disk.            *)
LEMMA ProgressKept ==
  ASSUME disk \in DiskType, BuilderType, G!Progress, GateSteps
  PROVE  G!Progress'
<1> USE DEF G!BuilderOnly, G!DiskAsItIs
<1>1. /\ builder.rev \in Nat /\ builder.file \in Nat /\ Len(Revs) \in Nat \ {0} /\ Len(G!Archive) \in Nat \ {0}
      /\ "torn" \in G!FileStates /\ "whole" \in G!FileStates
  BY BuilderMoved, Members DEF G!FileStates
<1>2. ASSUME NEW s, NEW r, NEW f, builder' = G!Builder(s, r, f)
      PROVE  builder'.step = s /\ builder'.rev = r /\ builder'.file = f
  BY <1>2 DEF G!Builder
<1>3. ASSUME NEW s, builder' = [builder EXCEPT !.step = s]
      PROVE  builder'.step = s /\ builder'.rev = builder.rev /\ builder'.file = builder.file
  BY <1>2, <1>3, BuilderMoved
<1>4. builder.step # "idle" => sound # "yes"
  BY DEF G!Progress
<1>5. CASE G!StartPrepare
  <2>1. sound' = "so far" /\ builder'.step \in {"clone", "check"}
    BY <1>2, <1>5 DEF G!StartPrepare
  <2> QED
    BY <2>1 DEF G!Progress
<1>6. CASE G!Clone
  <2>1. sound' # "yes" /\ builder'.step = "check"
    BY <1>3, <1>4, <1>6 DEF G!Clone
  <2> QED
    BY <2>1 DEF G!Progress
<1>7. CASE G!CheckHistory
  <2>1. sound' # "yes" /\ builder.rev = 1
    BY <1>4, <1>7 DEF G!CheckHistory, BuilderType
  <2>2. builder'.step = "idle" \/ (builder'.step = "root" /\ builder'.rev = 1)
    BY <1>2, <1>3, <1>7, <2>1 DEF G!CheckHistory, G!NoBuilder
  <2>3. 1 .. 1 - 1 = {}
    OBVIOUS
  <2> QED
    BY <2>1, <2>2, <2>3 DEF G!Progress
<1>8. CASE G!MakeRoot
  <2>1. /\ builder.step = "root" /\ sound' = sound /\ sound # "yes" /\ builder.rev \in 1 .. Len(Revs)
        /\ builder'.step = "open" /\ builder'.rev = builder.rev /\ builder'.file = 1
        /\ disk' = [disk EXCEPT ![G!Rev].made = TRUE]
    BY <1>2, <1>4, <1>8 DEF G!MakeRoot, BuilderType
  <2>2. G!Rev' = G!Rev /\ G!Rev \in G!ToSet(Revs)
    BY <2>1, Members DEF G!Rev
  <2>3. disk'[G!Rev].made
    BY <2>1, <2>2 DEF DiskType
  <2>4. ASSUME sound = "so far", NEW k \in 1 .. builder.rev - 1 PROVE G!Done(Revs[k])'
    <3>1. G!Done(Revs[k])
      BY <2>1, <2>4 DEF G!Progress
    <3>2. k \in 1 .. Len(Revs) /\ k # builder.rev
      BY <1>1, <2>1
    <3>3. Revs[k] \in G!ToSet(Revs) /\ Revs[k] # G!Rev
      BY <2>1, <3>2, Members DEF G!Rev
    <3>4. disk'[Revs[k]] = disk[Revs[k]]
      BY <2>1, <3>3 DEF DiskType
    <3> QED
      BY <3>1, <3>4 DEF G!Done, G!Filled
  <2>5. G!Filled(G!Rev, builder.file - 1)'
    <3>1. 1 .. builder'.file - 1 = {}
      BY <2>1
    <3> QED
      BY <3>1 DEF G!Filled
  <2>6. sound = "so far" => \A k \in 1 .. builder'.rev - 1 : G!Done(Revs[k])'
    BY <2>1, <2>4
  <2> QED
    BY <2>1, <2>2, <2>3, <2>5, <2>6 DEF G!Progress
<1>9. CASE G!OpenMember
  <2>1. /\ builder.step = "open" /\ sound' = sound /\ sound # "yes"
        /\ builder'.step = "fill" /\ builder'.rev = builder.rev /\ builder'.file = builder.file
        /\ G!SetFile(G!Rev, G!Archive[builder.file], "torn")
    BY <1>3, <1>4, <1>9 DEF G!OpenMember
  <2>2. G!Rev' = G!Rev
    BY <2>1 DEF G!Rev
  <2>3. /\ disk'[G!Rev].made = disk[G!Rev].made
        /\ \A i \in 1 .. Len(G!Archive) : i # builder.file =>
             disk'[G!Rev].files[G!Archive[i]] = disk[G!Rev].files[G!Archive[i]]
        /\ \A k \in 1 .. builder.rev - 1 : G!Done(Revs[k]) => G!Done(Revs[k])'
    BY <1>1, <2>1, OneMember
  <2>4. \A i \in 1 .. builder.file - 1 : i \in 1 .. Len(G!Archive) /\ i # builder.file
    BY <1>1, <2>1 DEF BuilderType
  <2>5. ASSUME sound = "so far" PROVE G!Filled(G!Rev, builder.file - 1)'
    <3>1. G!Filled(G!Rev, builder.file - 1)
      BY <2>1, <2>5 DEF G!Progress
    <3> QED
      BY <2>1, <2>2, <2>3, <2>4, <3>1 DEF G!Filled
  <2> QED
    BY <2>1, <2>2, <2>3, <2>5 DEF G!Progress
<1>10. CASE G!FillMember
  <2>1. /\ builder.step = "fill" /\ sound' = sound /\ sound # "yes"
        /\ builder'.rev = builder.rev
        /\ \/ builder.file < Len(G!Archive) /\ builder'.step = "open" /\ builder'.file = builder.file + 1
           \/ ~ (builder.file < Len(G!Archive)) /\ builder'.step = "mark"
        /\ G!SetFile(G!Rev, G!Archive[builder.file], "whole")
    BY <1>2, <1>3, <1>4, <1>10 DEF G!FillMember
  <2>2. G!Rev' = G!Rev /\ builder.file \in 1 .. Len(G!Archive)
    BY <2>1 DEF G!Rev, BuilderType
  <2>3. /\ disk'[G!Rev].made = disk[G!Rev].made
        /\ disk'[G!Rev].files[G!Archive[builder.file]] = "whole"
        /\ \A i \in 1 .. Len(G!Archive) : i # builder.file =>
             disk'[G!Rev].files[G!Archive[i]] = disk[G!Rev].files[G!Archive[i]]
        /\ \A k \in 1 .. builder.rev - 1 : G!Done(Revs[k]) => G!Done(Revs[k])'
    BY <1>1, <2>1, OneMember
  <2>4. ASSUME sound = "so far", NEW i \in 1 .. builder.file
        PROVE  disk'[G!Rev].files[G!Archive[i]] = "whole"
    <3>1. \A l \in 1 .. builder.file - 1 : disk[G!Rev].files[G!Archive[l]] = "whole"
      BY <2>1, <2>4 DEF G!Progress, G!Filled
    <3>2. i \in 1 .. Len(G!Archive) /\ (i = builder.file \/ i \in 1 .. builder.file - 1)
      BY <1>1, <2>2
    <3> QED
      BY <2>3, <3>1, <3>2
  <2>5. sound = "so far" => disk'[G!Rev].made /\ \A k \in 1 .. builder.rev - 1 : G!Done(Revs[k])'
    BY <2>1, <2>3 DEF G!Progress
  <2>6. CASE builder.file < Len(G!Archive)
    <3>1. builder'.step = "open" /\ builder'.file - 1 = builder.file
      BY <1>1, <2>1, <2>6
    <3>2. sound = "so far" => G!Filled(G!Rev, builder.file - 1)'
      BY <2>2, <2>4, <3>1 DEF G!Filled
    <3> QED
      BY <2>1, <2>2, <2>5, <3>1, <3>2 DEF G!Progress
  <2>7. CASE ~ (builder.file < Len(G!Archive))
    <3>1. builder'.step = "mark" /\ builder.file = Len(G!Archive)
      BY <1>1, <2>1, <2>2, <2>7
    <3>2. sound = "so far" => G!Filled(G!Rev, Len(G!Archive))'
      BY <2>2, <2>4, <3>1 DEF G!Filled
    <3> QED
      BY <2>1, <2>2, <2>5, <3>1, <3>2 DEF G!Progress
  <2> QED
    BY <2>6, <2>7
<1>11. CASE G!Mark
  <2>1. /\ builder.step = "mark" /\ sound' = sound /\ sound # "yes" /\ builder.rev \in 1 .. Len(Revs)
        /\ \/ builder.rev < Len(Revs) /\ builder'.step = "root" /\ builder'.rev = builder.rev + 1
           \/ ~ (builder.rev < Len(Revs)) /\ builder'.step = "export"
        /\ disk' = [disk EXCEPT ![G!Rev].marked = TRUE]
    BY <1>2, <1>4, <1>11 DEF G!Mark, BuilderType
  <2>2. G!Rev \in G!ToSet(Revs) /\ G!Rev = Revs[builder.rev]
    BY <2>1, Members DEF G!Rev
  <2>3. /\ disk'[G!Rev].marked /\ disk'[G!Rev].made = disk[G!Rev].made
        /\ disk'[G!Rev].files = disk[G!Rev].files
        /\ \A q \in G!ToSet(Revs) : q # G!Rev => disk'[q] = disk[q]
    BY <2>1, <2>2 DEF DiskType
  <2>4. ASSUME sound = "so far", NEW k \in 1 .. builder.rev PROVE G!Done(Revs[k])'
    <3>1. CASE k = builder.rev
      <4>1. disk[G!Rev].made /\ G!Filled(G!Rev, Len(G!Archive))
        BY <2>1, <2>4 DEF G!Progress
      <4> QED
        BY <2>2, <2>3, <3>1, <4>1 DEF G!Done, G!Filled
    <3>2. CASE k # builder.rev
      <4>1. k \in 1 .. builder.rev - 1 /\ k \in 1 .. Len(Revs)
        BY <1>1, <2>1, <3>2
      <4>2. G!Done(Revs[k])
        BY <2>1, <2>4, <4>1 DEF G!Progress
      <4>3. Revs[k] \in G!ToSet(Revs) /\ Revs[k] # G!Rev
        BY <2>1, <2>2, <3>2, <4>1, Members
      <4> QED
        BY <2>3, <4>2, <4>3 DEF G!Done, G!Filled
    <3> QED
      BY <3>1, <3>2
  <2>5. CASE builder.rev < Len(Revs)
    <3>1. builder'.step = "root" /\ builder'.rev - 1 = builder.rev
      BY <1>1, <2>1, <2>5
    <3> QED
      BY <2>1, <2>4, <3>1 DEF G!Progress
  <2>6. CASE ~ (builder.rev < Len(Revs))
    <3>1. builder'.step = "export" /\ builder.rev = Len(Revs)
      BY <1>1, <2>1, <2>6
    <3>2. ASSUME sound = "so far", NEW r \in G!ToSet(Revs) PROVE G!Done(r)'
      <4>1. PICK k \in 1 .. Len(Revs) : r = Revs[k]
        BY Members
      <4> QED
        BY <2>4, <3>1, <3>2, <4>1
    <3> QED
      BY <2>1, <3>1, <3>2 DEF G!Progress
  <2> QED
    BY <2>5, <2>6
<1>12. CASE G!OpenExport
  <2>1. /\ builder.step = "export" /\ sound' = sound /\ sound # "yes" /\ builder'.step = "exporting"
        /\ G!SetFile(G!SelfRev, "self", "torn")
    BY <1>2, <1>4, <1>12 DEF G!OpenExport
  <2>2. sound = "so far" => \A r \in G!ToSet(Revs) : G!Done(r)'
    BY <1>1, <2>1, ExportLeaves DEF G!Progress
  <2> QED
    BY <2>1, <2>2 DEF G!Progress
<1>13. CASE G!FillExport
  <2>1. /\ builder.step = "exporting" /\ sound' = sound /\ sound # "yes" /\ builder'.step = "report"
        /\ G!SetFile(G!SelfRev, "self", "whole")
    BY <1>2, <1>4, <1>13 DEF G!FillExport
  <2>2. sound = "so far" => \A r \in G!ToSet(Revs) : G!Done(r)'
    BY <1>1, <2>1, ExportLeaves DEF G!Progress
  <2>3. G!Exported'
    BY <2>1, ExportReaches
  <2> QED
    BY <2>1, <2>2, <2>3 DEF G!Progress
<1>14. ASSUME disk' = disk
       PROVE  /\ \A r : G!Done(r)' <=> G!Done(r)
              /\ G!Exported' <=> G!Exported
  BY <1>14 DEF G!Done, G!Filled, G!Exported
<1>15. CASE G!NoExport
  <2>1. /\ builder.step \in {"export", "exporting"} /\ sound' = sound /\ sound # "yes"
        /\ builder'.step = "report lacking" /\ disk' = disk
    BY <1>2, <1>4, <1>15 DEF G!NoExport
  <2>2. sound = "so far" => \A r \in G!ToSet(Revs) : G!Done(r)'
    BY <1>14, <2>1 DEF G!Progress
  <2> QED
    BY <2>1, <2>2 DEF G!Progress
<1>16. CASE G!WriteReport
  <2>1. /\ builder.step \in {"report", "report lacking"} /\ builder'.step = "idle" /\ disk' = disk
        /\ sound' = IF builder.step = "report" /\ sound = "so far" THEN "yes" ELSE "no"
    BY <1>2, <1>16 DEF G!WriteReport, G!NoBuilder
  <2>2. sound' = "yes" => builder.step = "report" /\ sound = "so far"
    BY <2>1
  <2>3. sound' = "yes" => G!Exported' /\ \A r \in G!ToSet(Revs) : G!Done(r)'
    BY <1>14, <2>1, <2>2 DEF G!Progress
  <2> QED
    BY <2>1, <2>3 DEF G!Progress
<1>17. CASE G!Kill
  <2>1. sound' # "yes" /\ builder'.step = "idle"
    BY <1>2, <1>4, <1>17 DEF G!Kill, G!NoBuilder
  <2> QED
    BY <2>1 DEF G!Progress
<1>18. CASE G!Take
  <2>1. sound' = "no"
    BY <1>18 DEF G!Take
  <2> QED
    BY <2>1 DEF G!Progress
<1> QED
  BY <1>5, <1>6, <1>7, <1>8, <1>9, <1>10, <1>11, <1>12, <1>13, <1>15, <1>16, <1>17, <1>18 DEF GateSteps
-----------------------------------------------------------------------------
(* What run finds. *)

(* Where run goes.                                                           *)
LEMMA ScorerMade ==
  ASSUME NEW s, NEW r
  PROVE  G!Scorer(s, r).step = s /\ G!Scorer(s, r).rules = r
BY DEF G!Scorer

(* Run stays where it may be.                                                *)
LEMMA RunTyped ==
  ASSUME ScorerTyped, GateRuns
  PROVE  ScorerTyped'
<1> DEFINE F == [status : {"measured", "unreachable"}, agrees : BOOLEAN]
<1>1. /\ figures \in Seq(F) /\ Len(figures) \in Nat /\ Len(Figures) \in Nat
      /\ Len(figures) <= Len(Figures)
      /\ scorer.step \in {"corpus", "rules", "measure"} => Len(figures) < Len(Figures)
      /\ scorer.step # "idle" => verdict = "none"
  BY Members DEF ScorerTyped
<1>2. CASE G!StartRun
  <2>1. scorer' = [step |-> "verify", rules |-> "none"] /\ figures' = <<>> /\ verdict' = "none"
    BY <1>2 DEF G!StartRun, G!Scorer
  <2> QED
    BY <1>1, <2>1 DEF ScorerTyped
<1>3. ASSUME NEW s \in {"corpus", "rules", "measure"}, NEW r \in {"none", "pinned", "other"},
             scorer' = G!Scorer(s, r), figures' = figures, verdict' = verdict, scorer.step # "idle",
             Len(figures) < Len(Figures)
      PROVE  ScorerTyped'
  <2>1. scorer' = [step |-> s, rules |-> r]
    BY <1>3 DEF G!Scorer
  <2> QED
    BY <1>1, <1>3, <2>1 DEF ScorerTyped
<1>4. CASE G!VerifySnapshot
  <2>1. scorer.step = "verify" /\ Len(figures) < Len(Figures) /\ verdict' = verdict
    BY <1>4 DEF G!VerifySnapshot
  <2>2. CASE G!Verified(G!Root)
    BY <1>3, <1>4, <2>1, <2>2 DEF G!VerifySnapshot
  <2>3. CASE ~G!Verified(G!Root)
    <3>1. G!Report(<<>>)
      BY <1>4, <2>3 DEF G!VerifySnapshot
    <3> QED
      BY <2>1, <3>1, ReportTyped
  <2> QED
    BY <2>2, <2>3
<1>5. CASE G!LoadCorpus
  <2>1. scorer.step = "corpus" /\ verdict' = verdict /\ Len(figures) < Len(Figures)
    BY <1>1, <1>5 DEF G!LoadCorpus
  <2>2. CASE G!CorpusVerified(G!Root, G!Figure)
    BY <1>3, <1>5, <2>1, <2>2 DEF G!LoadCorpus
  <2>3. CASE ~G!CorpusVerified(G!Root, G!Figure)
    <3>1. G!Report(<<>>)
      BY <1>5, <2>3 DEF G!LoadCorpus
    <3> QED
      BY <2>1, <3>1, ReportTyped
  <2> QED
    BY <2>2, <2>3
<1>6. CASE G!LoadRules
  <2>1. scorer.step = "rules" /\ verdict' = verdict /\ figures' = figures /\ Len(figures) < Len(Figures)
        /\ scorer' = G!Scorer("measure", G!Rules(G!Root))
    BY <1>1, <1>6 DEF G!LoadRules
  <2>2. G!Rules(G!Root) \in {"none", "pinned", "other"}
    BY DEF G!Rules
  <2> QED
    BY <1>3, <2>1, <2>2
<1>7. CASE G!Measure
  <2>1. /\ scorer.step = "measure" /\ verdict' = verdict /\ Len(figures) < Len(Figures)
        /\ \E scores : G!Report(scores)
    BY <1>1, <1>7 DEF G!Measure
  <2> QED
    BY <2>1, ReportTyped
<1>8. CASE G!Conclude
  <2>1. scorer' = [step |-> "idle", rules |-> "none"] /\ figures' = figures
    BY <1>8 DEF G!Conclude, G!NoScorer, G!Scorer
  <2> QED
    BY <1>1, <2>1 DEF ScorerTyped
<1> QED
  BY <1>2, <1>4, <1>5, <1>6, <1>7, <1>8 DEF GateRuns

(* A figure that is measured on the pinned rules is what upstream's would be. *)
LEMMA ScoredRight ==
  ASSUME NEW i, NEW scores, scores = world.scores[i], scores # <<>>
  PROVE  /\ G!Scored(Figures[i], scores).status = "measured"
         /\ G!Scored(Figures[i], scores).agrees <=> G!TrulyAgrees(i)
BY DEF G!Scored, G!TrulyAgrees

(* What run has measured stays right, while nobody writes.                    *)
LEMMA RunTrusts ==
  ASSUME ScorerTyped, G!Trusting, GateRuns
  PROVE  G!Trusting'
<1> USE DEF G!ScorerOnly
<1>1. Len(figures) \in Nat /\ DOMAIN figures = 1 .. Len(figures)
  BY DEF ScorerTyped
<1>2. CASE G!StartRun
  <2>1. scorer'.step = "verify" /\ figures' = <<>>
    BY <1>2, ScorerMade DEF G!StartRun
  <2>2. DOMAIN figures' = {}
    BY <2>1
  <2> QED
    BY <2>1, <2>2 DEF G!Trusting
<1> DEFINE n == Len(figures) + 1
<1>3. ASSUME NEW scores, G!Report(scores), scorer.step # "idle", Len(figures) < Len(Figures), verdict' = verdict,
             still' = still, world' = world,
             still => scores = <<>> \/ scores = world.scores[n]
      PROVE  G!Trusting'
  <2>1. /\ scorer'.step = "verify" /\ Len(figures') = n
        /\ \A i \in 1 .. Len(figures) : figures'[i] = figures[i]
        /\ figures'[n] = G!Scored(G!Figure, scores) /\ ScorerTyped'
    BY <1>3, ReportTyped
  <2>2. DOMAIN figures' = 1 .. n
    BY <2>1 DEF ScorerTyped
  <2>3. ASSUME NEW i \in 1 .. n, still PROVE G!Measured(i)'
    <3>1. G!TrulyAgrees(i)' <=> G!TrulyAgrees(i)
      BY <1>3 DEF G!TrulyAgrees
    <3>2. CASE i \in 1 .. Len(figures)
      <4>1. G!Measured(i)
        BY <1>1, <2>3, <3>2 DEF G!Trusting
      <4> QED
        BY <2>1, <3>1, <3>2, <4>1 DEF G!Measured
    <3>3. CASE i = n
      <4>1. G!Figure = Figures[i]
        BY <3>3 DEF G!Figure
      <4>2. CASE scores = <<>>
        <5>1. figures'[i].status # "measured"
          BY <2>1, <3>3, <4>2 DEF G!Scored
        <5> QED
          BY <5>1 DEF G!Measured
      <4>3. CASE scores # <<>>
        <5>1. scores = world.scores[i]
          BY <1>3, <2>3, <3>3, <4>3
        <5>2. figures'[i].agrees <=> G!TrulyAgrees(i)
          BY <2>1, <3>3, <4>1, <4>3, <5>1, ScoredRight
        <5> QED
          BY <3>1, <5>2 DEF G!Measured
      <4> QED
        BY <4>2, <4>3
    <3> QED
      BY <1>1, <3>2, <3>3
  <2> QED
    BY <1>3, <2>1, <2>2, <2>3 DEF G!Trusting
<1>4. ASSUME figures' = figures, world' = world, still' = still, still' PROVE \A i \in DOMAIN figures' : G!Measured(i)'
  <2>1. \A i : G!TrulyAgrees(i)' <=> G!TrulyAgrees(i)
    BY <1>4 DEF G!TrulyAgrees
  <2>2. \A i \in DOMAIN figures : G!Measured(i)
    BY <1>4 DEF G!Trusting
  <2> QED
    BY <1>4, <2>1, <2>2 DEF G!Measured
<1>5. ASSUME figures' = figures, disk' = disk PROVE G!Verified(G!Root)' <=> G!Verified(G!Root)
  BY <1>5 DEF G!Verified, G!Root, G!Figure, G!Rules
<1>6. CASE G!VerifySnapshot
  <2>1. /\ scorer.step = "verify" /\ Len(figures) < Len(Figures) /\ verdict' = verdict
        /\ still' = still /\ world' = world /\ disk' = disk
    BY <1>6 DEF G!VerifySnapshot
  <2>2. CASE G!Verified(G!Root)
    <3>1. scorer'.step = "corpus" /\ figures' = figures
      BY <1>6, <2>2, ScorerMade DEF G!VerifySnapshot
    <3> QED
      BY <1>4, <1>5, <2>1, <2>2, <3>1 DEF G!Trusting
  <2>3. CASE ~G!Verified(G!Root)
    <3>1. G!Report(<<>>)
      BY <1>6, <2>3 DEF G!VerifySnapshot
    <3> QED
      BY <1>3, <2>1, <3>1
  <2> QED
    BY <2>2, <2>3
<1>7. CASE G!LoadCorpus
  <2>1. /\ scorer.step = "corpus" /\ Len(figures) < Len(Figures) /\ verdict' = verdict
        /\ still' = still /\ world' = world /\ disk' = disk
    BY <1>7 DEF G!LoadCorpus, ScorerTyped
  <2>2. CASE G!CorpusVerified(G!Root, G!Figure)
    <3>1. scorer'.step = "rules" /\ figures' = figures
      BY <1>7, <2>2, ScorerMade DEF G!LoadCorpus
    <3>2. still => G!Verified(G!Root)
      BY <2>1 DEF G!Trusting
    <3> QED
      BY <1>4, <1>5, <2>1, <3>1, <3>2 DEF G!Trusting
  <2>3. CASE ~G!CorpusVerified(G!Root, G!Figure)
    <3>1. G!Report(<<>>)
      BY <1>7, <2>3 DEF G!LoadCorpus
    <3> QED
      BY <1>3, <2>1, <3>1
  <2> QED
    BY <2>2, <2>3
<1>8. CASE G!LoadRules
  <2>1. /\ scorer.step = "rules" /\ figures' = figures /\ still' = still /\ world' = world /\ disk' = disk
        /\ scorer'.step = "measure" /\ scorer'.rules = G!Rules(G!Root)
    BY <1>8, ScorerMade DEF G!LoadRules
  <2>2. still => G!Rules(G!Root) = "pinned"
    BY <2>1 DEF G!Trusting, G!Verified
  <2> QED
    BY <1>4, <2>1, <2>2 DEF G!Trusting
<1>9. CASE G!Measure
  <2>1. /\ scorer.step = "measure" /\ Len(figures) < Len(Figures) /\ verdict' = verdict
        /\ still' = still /\ world' = world
    BY <1>9 DEF G!Measure, ScorerTyped
  <2>2. PICK scores \in IF scorer.rules = "pinned" THEN {world.scores[n]} ELSE AnyScores \cup {<<>>} :
          G!Report(scores)
    BY <1>9 DEF G!Measure
  <2>3. still => scores = world.scores[n]
    BY <2>1, <2>2 DEF G!Trusting
  <2> QED
    BY <1>3, <2>1, <2>2, <2>3
<1>10. CASE G!Conclude
  <2>1. scorer'.step = "idle" /\ figures' = figures /\ still' = still /\ world' = world
    BY <1>10, ScorerMade DEF G!Conclude, G!NoScorer
  <2> QED
    BY <1>4, <2>1 DEF G!Trusting
<1> QED
  BY <1>2, <1>6, <1>7, <1>8, <1>9, <1>10 DEF GateRuns
(* On a sound disk every figure is verified, and its corpus is.               *)
LEMMA SoundIsVerified ==
  ASSUME G!Progress, sound = "yes", Len(figures) \in Nat, Len(figures) < Len(Figures)
  PROVE  G!Verified(G!Root) /\ G!CorpusVerified(G!Root, G!Figure)
<1> DEFINE n == Len(figures) + 1
<1>1. n \in DOMAIN Figures /\ G!Figure = Figures[n]
  BY GateAssumption DEF GateAssumption, Listed, G!Figure
<1>2. Figures[n].rev \in G!ToSet(Revs) /\ G!Root = disk[Figures[n].rev]
  BY <1>1, GateAssumption DEF GateAssumption, G!ToSet, G!Root
<1>3. G!Done(Figures[n].rev) /\ G!Exported
  BY <1>2 DEF G!Progress
<1>4. G!Root.made /\ G!Root.marked /\ \A k \in DOMAIN G!Archive : G!Root.files[G!Archive[k]] = "whole"
  BY <1>2, <1>3, GateAssumption DEF GateAssumption, Listed, G!Done, G!Filled
<1>5. \A i \in DOMAIN RuleFiles : G!Root.files[RuleFiles[i]] = "whole"
  BY <1>4, GateAssumption DEF GateAssumption
<1>6. G!Verified(G!Root)
  BY <1>4, <1>5 DEF G!Verified, G!Rules
<1>7. CASE Figures[n].corpus = "self"
  BY <1>1, <1>2, <1>3, <1>6, <1>7 DEF G!Exported, G!CorpusVerified
<1>8. CASE Figures[n].corpus # "self"
  <2>1. PICK k \in DOMAIN G!Archive : Figures[n].corpus = G!Archive[k]
    BY <1>1, <1>8, GateAssumption DEF GateAssumption
  <2> QED
    BY <1>1, <1>4, <1>6, <2>1 DEF G!CorpusVerified
<1> QED
  BY <1>7, <1>8

(* After a sound prepare, run reaches every figure.                           *)
LEMMA RunReaches ==
  ASSUME ScorerTyped, world \in Worlds, G!Trusting, G!Progress, G!Reaching, GateRuns
  PROVE  G!Reaching'
<1> USE DEF G!ScorerOnly
<1>1. Len(figures) \in Nat /\ DOMAIN figures = 1 .. Len(figures) /\ sound' = sound
  BY RunReads DEF ScorerTyped
<1>2. CASE G!StartRun
  <2>1. DOMAIN figures' = {}
    BY <1>2 DEF G!StartRun
  <2> QED
    BY <2>1 DEF G!Reaching
<1> DEFINE n == Len(figures) + 1
<1>3. ASSUME figures' = figures, still' = still PROVE G!Reaching'
  BY <1>1, <1>3 DEF G!Reaching
<1>4. ASSUME NEW scores, G!Report(scores), scorer.step # "idle", Len(figures) < Len(Figures), verdict' = verdict,
             still' = still, still /\ sound = "yes" => scores # <<>>
      PROVE  G!Reaching'
  <2>1. /\ Len(figures') = n /\ \A i \in 1 .. Len(figures) : figures'[i] = figures[i]
        /\ figures'[n] = G!Scored(G!Figure, scores) /\ ScorerTyped'
    BY <1>4, ReportTyped
  <2>2. DOMAIN figures' = 1 .. n
    BY <2>1 DEF ScorerTyped
  <2>3. ASSUME still, sound = "yes", NEW i \in 1 .. n PROVE figures'[i].status = "measured"
    <3>1. CASE i \in 1 .. Len(figures)
      BY <1>1, <2>1, <2>3, <3>1 DEF G!Reaching
    <3>2. CASE i = n
      BY <1>4, <2>1, <2>3, <3>2 DEF G!Scored
    <3> QED
      BY <1>1, <3>1, <3>2
  <2> QED
    BY <1>1, <1>4, <2>2, <2>3 DEF G!Reaching
<1>5. CASE G!VerifySnapshot
  <2>1. scorer.step = "verify" /\ Len(figures) < Len(Figures) /\ verdict' = verdict /\ still' = still
    BY <1>5 DEF G!VerifySnapshot
  <2>2. figures' = figures \/ (~G!Verified(G!Root) /\ G!Report(<<>>))
    BY <1>5 DEF G!VerifySnapshot
  <2>3. ~G!Verified(G!Root) => ~ (still /\ sound = "yes")
    BY <1>1, <2>1, SoundIsVerified
  <2> QED
    BY <1>3, <1>4, <2>1, <2>2, <2>3
<1>6. CASE G!LoadCorpus
  <2>1. scorer.step = "corpus" /\ Len(figures) < Len(Figures) /\ verdict' = verdict /\ still' = still
    BY <1>6 DEF G!LoadCorpus, ScorerTyped
  <2>2. figures' = figures \/ (~G!CorpusVerified(G!Root, G!Figure) /\ G!Report(<<>>))
    BY <1>6 DEF G!LoadCorpus
  <2>3. ~G!CorpusVerified(G!Root, G!Figure) => ~ (still /\ sound = "yes")
    BY <1>1, <2>1, SoundIsVerified
  <2> QED
    BY <1>3, <1>4, <2>1, <2>2, <2>3
<1>7. CASE G!Measure
  <2>1. scorer.step = "measure" /\ Len(figures) < Len(Figures) /\ verdict' = verdict /\ still' = still
    BY <1>7 DEF G!Measure, ScorerTyped
  <2>2. PICK scores \in IF scorer.rules = "pinned" THEN {world.scores[n]} ELSE AnyScores \cup {<<>>} :
          G!Report(scores)
    BY <1>7 DEF G!Measure
  <2>3. still => scores = world.scores[n]
    BY <2>1, <2>2 DEF G!Trusting
  <2>4. n \in DOMAIN Figures
    BY <1>1, <2>1, GateAssumption DEF GateAssumption, Listed
  <2>5. world.scores[n] # <<>>
    BY <2>4, GateAssumption DEF GateAssumption
  <2> QED
    BY <1>4, <2>1, <2>2, <2>3, <2>5
<1>8. CASE G!LoadRules \/ G!Conclude
  BY <1>3, <1>8 DEF G!LoadRules, G!Conclude
<1> QED
  BY <1>2, <1>5, <1>6, <1>7, <1>8 DEF GateRuns

Enough(S) == G!Cardinality(S) >= MinAgreeing
TrulyAgreeing == { i \in DOMAIN Figures : G!TrulyAgrees(i) }

(* What run says is what it found.                                           *)
LEMMA RunSays ==
  ASSUME ScorerTyped, G!Trusting, G!Reaching, G!VerdictIsExact, G!PrepareRepairs, GateRuns
  PROVE  G!VerdictIsExact' /\ G!PrepareRepairs'
<1> USE DEF G!ScorerOnly
<1>1. ASSUME verdict' = "none" PROVE G!VerdictIsExact' /\ G!PrepareRepairs'
  BY <1>1 DEF G!VerdictIsExact, G!PrepareRepairs
<1>2. CASE G!StartRun
  BY <1>1, <1>2 DEF G!StartRun
<1>3. CASE G!VerifySnapshot \/ G!LoadCorpus \/ G!LoadRules \/ G!Measure
  <2>1. verdict' = verdict /\ scorer.step # "idle"
    BY <1>3 DEF G!VerifySnapshot, G!LoadCorpus, G!LoadRules, G!Measure
  <2> QED
    BY <1>1, <2>1 DEF ScorerTyped
<1>4. CASE G!Conclude
  <2>1. /\ Len(figures) = Len(Figures) /\ still' = still /\ sound' = sound /\ world' = world
        /\ verdict' = IF \E i \in DOMAIN figures : figures[i].status = "unreachable" THEN "unreachable"
                      ELSE IF Enough(G!Agreeing) THEN "pass" ELSE "fail"
    BY <1>4, Zenon DEF G!Conclude, Enough
  <2>2. DOMAIN figures = DOMAIN Figures
    BY <2>1, GateAssumption DEF GateAssumption, Listed, ScorerTyped
  <2>3. ASSUME still, ~ (\E i \in DOMAIN figures : figures[i].status = "unreachable")
        PROVE  G!Agreeing = TrulyAgreeing
    <3>1. \A i \in DOMAIN figures : figures[i] \in [status : {"measured", "unreachable"}, agrees : BOOLEAN]
      <4> DEFINE F == [status : {"measured", "unreachable"}, agrees : BOOLEAN]
      <4>1. figures \in Seq(F)
        BY DEF ScorerTyped
      <4> HIDE DEF F
      <4>2. \A i \in DOMAIN figures : figures[i] \in F
        BY <4>1
      <4> QED
        BY <4>2 DEF F
    <3>2. \A i \in DOMAIN figures : figures[i].status = "measured"
      BY <2>3, <3>1
    <3>3. \A i \in DOMAIN figures : figures[i].agrees <=> G!TrulyAgrees(i)
      BY <2>3, <3>2 DEF G!Trusting, G!Measured
    <3> QED
      BY <2>2, <3>3 DEF G!Agreeing, TrulyAgreeing
  <2>4. \A i : G!TrulyAgrees(i)' <=> G!TrulyAgrees(i)
    BY <2>1 DEF G!TrulyAgrees
  <2>5. TrulyAgreeing' = TrulyAgreeing
    BY <2>4 DEF TrulyAgreeing
  <2>6. G!VerdictIsExact'
    <3>1. G!VerdictIsExact' <=> (still' /\ verdict' \in {"pass", "fail"} => (verdict' = "pass" <=> Enough(TrulyAgreeing')))
      BY Zenon DEF G!VerdictIsExact, Enough, TrulyAgreeing
    <3>2. ASSUME still, verdict' \in {"pass", "fail"} PROVE verdict' = "pass" <=> Enough(TrulyAgreeing)
      <4>1. ~ (\E i \in DOMAIN figures : figures[i].status = "unreachable")
        BY <2>1, <3>2
      <4>2. verdict' = IF Enough(TrulyAgreeing) THEN "pass" ELSE "fail"
        BY <2>1, <2>3, <3>2, <4>1
      <4> QED
        BY <4>2
    <3> QED
      BY <2>1, <2>5, <3>1, <3>2
  <2>7. still /\ sound = "yes" => ~ (\E i \in DOMAIN figures : figures[i].status = "unreachable")
    BY DEF G!Reaching
  <2>8. G!PrepareRepairs'
    BY <2>1, <2>7 DEF G!PrepareRepairs
  <2> QED
    BY <2>6, <2>8
<1> QED
  BY <1>2, <1>3, <1>4 DEF GateRuns

-----------------------------------------------------------------------------
(* The gate as a whole. *)

(* The invariant holds before anything was prepared.                          *)
LEMMA GateStarts == G!Init => G!GateInv
<1> SUFFICES ASSUME G!Init PROVE G!GateInv
  OBVIOUS
<1>1. /\ world \in Worlds /\ disk = [r \in G!ToSet(Revs) |-> G!NoRoot]
      /\ builder = [step |-> "idle", rev |-> 0, file |-> 0]
      /\ scorer = [step |-> "idle", rules |-> "none"] /\ figures = <<>> /\ verdict = "none"
      /\ sound = "no" /\ still = FALSE
  BY DEF G!Init, G!NoBuilder, G!Builder, G!NoScorer, G!Scorer
<1>2. disk \in [G!ToSet(Revs) -> [made : BOOLEAN, marked : BOOLEAN, files : [G!Names -> G!FileStates]]]
  BY <1>1 DEF G!NoRoot, G!FileStates
<1>3. G!Placed
  BY <1>1, <1>2, Members DEF G!Placed, G!BuilderSteps
<1>4. G!Quiet /\ G!Trusting /\ G!Reaching /\ G!VerdictIsExact /\ G!PrepareRepairs
  BY <1>1 DEF G!Quiet, G!Trusting, G!Reaching, G!VerdictIsExact, G!PrepareRepairs
<1>5. G!Progress
  BY <1>1 DEF G!Progress
<1> QED
  BY <1>3, <1>4, <1>5 DEF G!GateInv

(* Every step keeps it.                                                      *)
LEMMA GateKept == G!GateInv /\ [G!Next]_G!gateVars => G!GateInv'
<1> SUFFICES ASSUME G!GateInv, [G!Next]_G!gateVars PROVE G!GateInv'
  OBVIOUS
<1>1. disk \in DiskType /\ BuilderType /\ ScorerTyped /\ world \in Worlds
  BY DEF G!GateInv, G!Placed, DiskType, BuilderType, ScorerTyped
<1>2. disk' \in DiskType /\ BuilderType' /\ ScorerTyped' /\ world' \in Worlds => G!Placed'
  BY DEF G!Placed, DiskType, BuilderType, ScorerTyped
<1>3. CASE GateSteps
  <2>1. ~still'
    BY <1>3, WritersDisturb DEF G!GateInv
  <2>2. scorer' = scorer /\ figures' = figures /\ verdict' = verdict /\ world' = world
    BY <1>3, WritersLeave
  <2>3. ScorerTyped'
    BY <1>1, <2>2 DEF ScorerTyped
  <2>4. disk' \in DiskType /\ BuilderType'
    BY <1>1, <1>3, PlacedDisk, PlacedBuilder DEF G!GateInv
  <2>5. G!Placed'
    BY <1>1, <1>2, <2>2, <2>3, <2>4
  <2>6. G!Progress'
    BY <1>1, <1>3, ProgressKept DEF G!GateInv
  <2>7. G!Quiet' /\ G!Trusting' /\ G!Reaching' /\ G!VerdictIsExact' /\ G!PrepareRepairs'
    BY <2>1 DEF G!Quiet, G!Trusting, G!Reaching, G!VerdictIsExact, G!PrepareRepairs
  <2> QED
    BY <2>5, <2>6, <2>7 DEF G!GateInv
<1>4. CASE GateRuns
  <2>1. /\ disk' = disk /\ builder' = builder /\ world' = world /\ sound' = sound
        /\ still' = still \/ G!StartRun
    BY <1>4, RunReads
  <2>2. ScorerTyped'
    BY <1>1, <1>4, RunTyped
  <2>3. G!Placed'
    BY <1>1, <1>2, <2>1, <2>2 DEF BuilderType
  <2>4. G!Progress'
    <3>1. G!Rev' = G!Rev /\ (\A r : G!Done(r)' <=> G!Done(r)) /\ (G!Exported' <=> G!Exported)
      BY <2>1 DEF G!Rev, G!Done, G!Filled, G!Exported
    <3>2. \A r, n : G!Filled(r, n)' <=> G!Filled(r, n)
      BY <2>1 DEF G!Filled
    <3>3. G!Progress
      BY DEF G!GateInv
    <3>4. disk'[G!Rev].made = disk[G!Rev].made
      BY <2>1
    <3> QED
      BY <2>1, <3>3 DEF G!Progress, G!Rev, G!Done, G!Filled, G!Exported
  <2>5. G!Quiet'
    <3>1. CASE G!StartRun
      BY <2>1, <3>1 DEF G!StartRun, G!Quiet
    <3> QED
      BY <2>1, <3>1 DEF G!Quiet, G!GateInv
  <2>6. G!Trusting' /\ G!Reaching'
    BY <1>1, <1>4, RunTrusts, RunReaches DEF G!GateInv
  <2>7. G!VerdictIsExact' /\ G!PrepareRepairs'
    BY <1>1, <1>4, RunSays DEF G!GateInv
  <2> QED
    BY <2>3, <2>4, <2>5, <2>6, <2>7 DEF G!GateInv
<1>5. CASE UNCHANGED G!gateVars
  <2>1. /\ world' = world /\ disk' = disk /\ builder' = builder /\ scorer' = scorer /\ figures' = figures
        /\ verdict' = verdict /\ sound' = sound /\ still' = still
    BY <1>5 DEF G!gateVars, G!hazards
  <2>2. G!Placed' /\ G!Quiet' /\ G!Reaching' /\ G!PrepareRepairs'
    BY <1>1, <1>2, <2>1 DEF G!GateInv, G!Quiet, G!Reaching, G!PrepareRepairs, BuilderType, ScorerTyped
  <2>3. G!VerdictIsExact'
    BY <2>1 DEF G!GateInv, G!VerdictIsExact, G!TrulyAgrees
  <2>4. G!Trusting'
    BY <2>1 DEF G!GateInv, G!Trusting, G!Measured, G!TrulyAgrees, G!Verified, G!Root, G!Figure, G!Rules
  <2>5. G!Progress'
    BY <2>1 DEF G!GateInv, G!Progress, G!Rev, G!Done, G!Filled, G!Exported
  <2> QED
    BY <2>2, <2>3, <2>4, <2>5 DEF G!GateInv
<1> QED
  BY <1>3, <1>4, <1>5 DEF G!Next, GateSteps, GateRuns

(* The invariant is one of every behaviour.                                  *)
LEMMA GateHolds == G!Spec => []G!GateInv
BY GateStarts, GateKept, PTL DEF G!Spec

(***************************************************************************)
(* When run says PASS, enough figures agree with what was published, each on  *)
(* its own rules and corpus, and when it says FAIL they do not: whatever      *)
(* prepare was killed at and whatever was taken away before, as long as       *)
(* nothing is written while run is at work.                                  *)
(***************************************************************************)
THEOREM Verdicts == G!Spec => []VerdictIsExact
<1>1. G!GateInv => VerdictIsExact
  BY DEF G!GateInv, VerdictIsExact
<1> QED
  BY <1>1, GateHolds, PTL

(***************************************************************************)
(* A prepare that ends well, the export included, leaves no figure            *)
(* unreachable, whatever kills and losses it found on the disk.               *)
(***************************************************************************)
THEOREM Repairs == G!Spec => []PrepareRepairs
<1>1. G!GateInv => PrepareRepairs
  BY DEF G!GateInv, PrepareRepairs
<1> QED
  BY <1>1, GateHolds, PTL
-----------------------------------------------------------------------------
(* The benchmark: counting. *)

(* The instance counts as the library does.                                  *)
LEMMA SameCount ==
  ASSUME NEW S
  PROVE  B!Cardinality(S) = Cardinality(S)
BY DEF B!Cardinality, Cardinality

(* A Counter adds one where it is told to, and nothing elsewhere.             *)
LEMMA AddedTimes ==
  ASSUME NEW counter, NEW S, NEW x
  PROVE  /\ DOMAIN B!Added(counter, S) = DOMAIN counter \cup S
         /\ x \in S => B!Times(B!Added(counter, S), x) = B!Times(counter, x) + 1
         /\ B!Times(counter, x) \in Nat /\ x \notin S =>
              B!Times(B!Added(counter, S), x) = B!Times(counter, x)
BY DEF B!Added, B!Times

(* A Counter of naturals stays one.                                         *)
LEMMA AddedNat ==
  ASSUME NEW counter, NEW S, NEW x, B!Times(counter, x) \in Nat
  PROVE  B!Times(B!Added(counter, S), x) \in Nat
<1>1. CASE x \in S
  <2>1. B!Times(B!Added(counter, S), x) = B!Times(counter, x) + 1
    BY <1>1, AddedTimes
  <2> QED
    BY <2>1
<1>2. CASE x \notin S
  BY <1>2, AddedTimes
<1> QED
  BY <1>1, <1>2

(* Nothing is in the empty one.                                              *)
LEMMA NoTimes ==
  ASSUME NEW x
  PROVE  B!Times(B!NoCounts, x) = 0 /\ DOMAIN B!NoCounts = {}
BY DEF B!Times, B!NoCounts

(* One unit more is one more or none.                                        *)
LEMMA OneUnitMore ==
  ASSUME NEW n \in Nat, NEW S \in SUBSET (1 .. n)
  PROVE  /\ B!Cardinality(S) \in 0 .. n
         /\ B!Cardinality(S \cup {n + 1}) = B!Cardinality(S) + 1
<1>1. IsFiniteSet(1 .. n) /\ Cardinality(1 .. n) = n
  BY FS_Interval
<1>2. IsFiniteSet(S) /\ Cardinality(S) <= n
  BY <1>1, FS_Subset
<1>3. Cardinality(S) \in Nat
  BY <1>2, FS_CardinalityType
<1>4. n + 1 \notin S
  OBVIOUS
<1>5. Cardinality(S \cup {n + 1}) = Cardinality(S) + 1
  BY <1>2, <1>4, FS_AddElement
<1> QED
  BY <1>2, <1>3, <1>5, SameCount

(* The cells a unit belongs to.                                              *)
LEMMA CellsOfUnits ==
  ASSUME NEW c, NEW i \in DOMAIN c.units
  PROVE  /\ B!Keys(c.units[i]) \subseteq B!Cells(c)
         /\ \A cell \in B!Keys(c.units[i]) :
              cell[1] = c.units[i].surface /\ cell = <<cell[1], cell[2]>> /\ cell[2] \in B!Strata(c.units[i])
         /\ <<c.units[i].surface, <<"all">>>> \in B!Cells(c)
<1>1. <<"all">> \in B!Strata(c.units[i])
  BY DEF B!Strata
<1> HIDE DEF B!Strata
<1> QED
  BY <1>1 DEF B!Keys, B!Cells

(* The units taken so far, after one more.                                   *)
LEMMA UnitsGrow ==
  ASSUME NEW c, NEW n \in Nat, NEW cell, NEW R
  PROVE  /\ B!UnitsOf(c, n, cell) \in SUBSET (1 .. n) /\ B!Fired(c, n, cell, R) \in SUBSET (1 .. n)
         /\ cell \notin B!Keys(c.units[n + 1]) =>
              B!UnitsOf(c, n + 1, cell) = B!UnitsOf(c, n, cell) /\ B!Fired(c, n + 1, cell, R) = B!Fired(c, n, cell, R)
         /\ cell \in B!Keys(c.units[n + 1]) =>
              /\ B!UnitsOf(c, n + 1, cell) = B!UnitsOf(c, n, cell) \cup {n + 1}
              /\ B!Fired(c, n + 1, cell, R) =
                   IF \E r \in R : B!Fires(r, c.units[n + 1]) THEN B!Fired(c, n, cell, R) \cup {n + 1}
                   ELSE B!Fired(c, n, cell, R)
<1>1. 1 .. n + 1 = (1 .. n) \cup {n + 1}
  OBVIOUS
<1> QED
  BY <1>1 DEF B!UnitsOf, B!Fired

-----------------------------------------------------------------------------
(* What the rules find in a unit. *)

Apart(rules) == \A i, j \in DOMAIN rules : rules[i].id = rules[j].id => i = j
Running(rules) == { r \in B!ToSet(rules) : r.runnable }
Found(rules, u) == { r.id : r \in { r \in Running(rules) : r.matches \cap B!Texts(u) # {} } }
FoundNative(rules, u) == { r.id : r \in { r \in Running(rules) : r.surface = u.surface } }

(* No two rules of a bundle have one id.                                     *)
LEMMA OneRule ==
  ASSUME NEW rules, Apart(rules), NEW r \in B!ToSet(rules), NEW q \in B!ToSet(rules), r.id = q.id
  PROVE  r = q
BY DEF Apart, B!ToSet

(* A rule's id is found where a hook would see it fire.                       *)
LEMMA FoundFires ==
  ASSUME NEW rules, Apart(rules), NEW u, NEW r \in B!ToSet(rules)
  PROVE  r.runnable => (r.id \in Found(rules, u) <=> B!Fires(r, u))
<1>1. B!Texts(u) = B!Leaves(u)
  BY DEF B!Texts, B!Leaves
<1>2. ASSUME NEW q \in B!ToSet(rules)
      PROVE  B!Fires(q, u) <=> q.runnable /\ q.matches \cap B!Texts(u) # {}
  BY <1>1 DEF B!Fires
<1> QED
  BY <1>2, OneRule DEF Found, Running

(* A native id is found where a rule of that surface fires.                   *)
LEMMA NativeFires ==
  ASSUME NEW rules, Apart(rules), NEW u
  PROVE  Found(rules, u) \cap FoundNative(rules, u) # {} <=> \E r \in B!On(rules, u.surface) : B!Fires(r, u)
<1>1. ASSUME NEW id \in Found(rules, u), id \in FoundNative(rules, u)
      PROVE  \E r \in B!On(rules, u.surface) : B!Fires(r, u)
  <2>1. PICK r \in Running(rules) : r.surface = u.surface /\ r.id = id
    BY <1>1 DEF FoundNative
  <2>2. B!Fires(r, u)
    BY <1>1, <2>1, FoundFires DEF Running
  <2> QED
    BY <2>1, <2>2 DEF Running, B!On
<1>2. ASSUME NEW r \in B!On(rules, u.surface), B!Fires(r, u)
      PROVE  r.id \in Found(rules, u) /\ r.id \in FoundNative(rules, u)
  <2>1. r \in B!ToSet(rules) /\ r.runnable /\ r.surface = u.surface
    BY <1>2 DEF B!On, B!Fires
  <2> QED
    BY <1>2, <2>1, FoundFires DEF FoundNative, Running
<1> QED
  BY <1>1, <1>2
-----------------------------------------------------------------------------
(* The counters. *)

(* The counters after u, from those before.                                  *)
Steps(t, new, rules, u) ==
  LET hits == Found(rules, u)
  IN  /\ new.counts = B!Added(t.counts, B!Keys(u))
      /\ new.bundle = IF hits \cap FoundNative(rules, u) = {} THEN t.bundle ELSE B!Added(t.bundle, B!Keys(u))
      /\ new.rule = B!Added(t.rule, hits \X B!Keys(u))
      /\ new.seen = t.seen \cup {<<u.surface, u.text>>}
      /\ new.duplicates = t.duplicates + IF <<u.surface, u.text>> \in t.seen THEN 1 ELSE 0

(* A counter that was told of unit n + 1 counts it.                           *)
LEMMA ToldOnce ==
  ASSUME NEW n \in Nat, NEW S \in SUBSET (1 .. n), NEW T, NEW counter, NEW told, NEW x,
         B!Times(counter, x) = B!Cardinality(S), T = IF x \in told THEN S \cup {n + 1} ELSE S
  PROVE  B!Times(B!Added(counter, told), x) = B!Cardinality(T)
<1>1. B!Cardinality(S) \in Nat /\ B!Cardinality(S \cup {n + 1}) = B!Cardinality(S) + 1
  BY OneUnitMore
<1>2. CASE x \in told
  <2>1. B!Times(B!Added(counter, told), x) = B!Times(counter, x) + 1
    BY <1>2, AddedTimes
  <2>2. T = S \cup {n + 1}
    BY <1>2
  <2> QED
    BY <1>1, <2>1, <2>2
<1>3. CASE x \notin told
  BY <1>1, <1>3, AddedTimes
<1> QED
  BY <1>2, <1>3

(* One unit more, and the counters are exact for it too: for one cell.        *)
LEMMA CellStep ==
  ASSUME NEW rules, Apart(rules), NEW c, NEW n \in Nat, NEW t, NEW new,
         B!Tallied(t, rules, c, n), Steps(t, new, rules, c.units[n + 1]), NEW cell \in B!Cells(c)
  PROVE  /\ B!Times(new.counts, cell) = B!Cardinality(B!UnitsOf(c, n + 1, cell))
         /\ B!Times(new.bundle, cell) = B!Cardinality(B!Fired(c, n + 1, cell, B!On(rules, cell[1])))
         /\ \A r \in B!ToSet(rules) : r.runnable =>
              B!Times(new.rule, <<r.id, cell>>) = B!Cardinality(B!Fired(c, n + 1, cell, {r}))
<1>1. PICK u : u = c.units[n + 1]
  OBVIOUS
<1>2. /\ new.counts = B!Added(t.counts, B!Keys(u))
      /\ new.bundle = IF Found(rules, u) \cap FoundNative(rules, u) = {} THEN t.bundle ELSE B!Added(t.bundle, B!Keys(u))
      /\ new.rule = B!Added(t.rule, Found(rules, u) \X B!Keys(u))
  BY <1>1 DEF Steps
<1>3. B!Times(new.counts, cell) = B!Cardinality(B!UnitsOf(c, n + 1, cell))
  <2>1. B!Times(t.counts, cell) = B!Cardinality(B!UnitsOf(c, n, cell))
    BY DEF B!Tallied
  <2>2. /\ B!UnitsOf(c, n, cell) \in SUBSET (1 .. n)
        /\ B!UnitsOf(c, n + 1, cell) = IF cell \in B!Keys(u) THEN B!UnitsOf(c, n, cell) \cup {n + 1} ELSE B!UnitsOf(c, n, cell)
    BY <1>1, UnitsGrow
  <2> QED
    BY <1>2, <2>1, <2>2, ToldOnce
<1>4. B!Times(new.bundle, cell) = B!Cardinality(B!Fired(c, n + 1, cell, B!On(rules, cell[1])))
  <2> DEFINE R == B!On(rules, cell[1])
  <2>1. B!Times(t.bundle, cell) = B!Cardinality(B!Fired(c, n, cell, R))
    BY DEF B!Tallied
  <2>2. cell \in B!Keys(u) => cell[1] = u.surface
    BY DEF B!Keys
  <2>3. Found(rules, u) \cap FoundNative(rules, u) # {} <=> \E r \in B!On(rules, u.surface) : B!Fires(r, u)
    BY NativeFires
  <2> HIDE DEF R
  <2>4. /\ B!Fired(c, n, cell, R) \in SUBSET (1 .. n)
        /\ cell \in B!Keys(u) => B!Fired(c, n + 1, cell, R) =
             IF \E r \in R : B!Fires(r, u) THEN B!Fired(c, n, cell, R) \cup {n + 1} ELSE B!Fired(c, n, cell, R)
        /\ cell \notin B!Keys(u) => B!Fired(c, n + 1, cell, R) = B!Fired(c, n, cell, R)
    BY <1>1, UnitsGrow
  <2>5. CASE Found(rules, u) \cap FoundNative(rules, u) = {}
    <3>1. cell \in B!Keys(u) => ~ \E r \in R : B!Fires(r, u)
      BY <2>2, <2>3, <2>5 DEF R
    <3>2. B!Fired(c, n + 1, cell, R) = B!Fired(c, n, cell, R)
      BY <2>4, <3>1
    <3> QED
      BY <1>2, <2>1, <2>5, <3>2 DEF R
  <2>6. CASE Found(rules, u) \cap FoundNative(rules, u) # {}
    <3>1. cell \in B!Keys(u) => \E r \in R : B!Fires(r, u)
      BY <2>2, <2>3, <2>6 DEF R
    <3>2. B!Fired(c, n + 1, cell, R) = IF cell \in B!Keys(u) THEN B!Fired(c, n, cell, R) \cup {n + 1} ELSE B!Fired(c, n, cell, R)
      BY <2>4, <3>1
    <3>3. B!Times(B!Added(t.bundle, B!Keys(u)), cell) = B!Cardinality(B!Fired(c, n + 1, cell, R))
      BY <2>1, <2>4, <3>2, ToldOnce
    <3> QED
      BY <1>2, <2>6, <3>3 DEF R
  <2> QED
    BY <2>5, <2>6
<1>5. ASSUME NEW r \in B!ToSet(rules), r.runnable
      PROVE  B!Times(new.rule, <<r.id, cell>>) = B!Cardinality(B!Fired(c, n + 1, cell, {r}))
  <2>1. B!Times(t.rule, <<r.id, cell>>) = B!Cardinality(B!Fired(c, n, cell, {r}))
    BY <1>5 DEF B!Tallied
  <2>2. (\E q \in {r} : B!Fires(q, u)) <=> r.id \in Found(rules, u)
    BY <1>5, FoundFires
  <2>3. <<r.id, cell>> \in Found(rules, u) \X B!Keys(u) <=> r.id \in Found(rules, u) /\ cell \in B!Keys(u)
    OBVIOUS
  <2>4. /\ B!Fired(c, n, cell, {r}) \in SUBSET (1 .. n)
        /\ B!Fired(c, n + 1, cell, {r}) =
             IF <<r.id, cell>> \in Found(rules, u) \X B!Keys(u) THEN B!Fired(c, n, cell, {r}) \cup {n + 1}
             ELSE B!Fired(c, n, cell, {r})
    <3>1. /\ B!Fired(c, n, cell, {r}) \in SUBSET (1 .. n)
          /\ cell \in B!Keys(u) => B!Fired(c, n + 1, cell, {r}) =
               IF \E q \in {r} : B!Fires(q, u) THEN B!Fired(c, n, cell, {r}) \cup {n + 1} ELSE B!Fired(c, n, cell, {r})
          /\ cell \notin B!Keys(u) => B!Fired(c, n + 1, cell, {r}) = B!Fired(c, n, cell, {r})
      <4>1. PICK R : R = {r}
        OBVIOUS
      <4>2. /\ B!Fired(c, n, cell, R) \in SUBSET (1 .. n)
            /\ cell \in B!Keys(u) => B!Fired(c, n + 1, cell, R) =
                 IF \E q \in R : B!Fires(q, u) THEN B!Fired(c, n, cell, R) \cup {n + 1} ELSE B!Fired(c, n, cell, R)
            /\ cell \notin B!Keys(u) => B!Fired(c, n + 1, cell, R) = B!Fired(c, n, cell, R)
        BY <1>1, UnitsGrow
      <4> QED
        BY <4>1, <4>2
    <3> QED
      BY <2>2, <2>3, <3>1
  <2>5. B!Times(B!Added(t.rule, Found(rules, u) \X B!Keys(u)), <<r.id, cell>>) = B!Cardinality(B!Fired(c, n + 1, cell, {r}))
    <3>1. PICK x, told, S, T : /\ x = <<r.id, cell>> /\ told = Found(rules, u) \X B!Keys(u)
                              /\ S = B!Fired(c, n, cell, {r}) /\ T = B!Fired(c, n + 1, cell, {r})
      OBVIOUS
    <3>2. S \in SUBSET (1 .. n) /\ (T = IF x \in told THEN S \cup {n + 1} ELSE S) /\ B!Times(t.rule, x) = B!Cardinality(S)
      BY <2>1, <2>4, <3>1
    <3>3. B!Times(B!Added(t.rule, told), x) = B!Cardinality(T)
      BY <3>2, ToldOnce
    <3> QED
      BY <3>1, <3>3
  <2> QED
    BY <1>2, <2>5
<1> QED
  BY <1>3, <1>4, <1>5

(* And for all of them, with what was seen twice.                            *)
LEMMA TallyStep ==
  ASSUME NEW rules, Apart(rules), NEW c, NEW n \in Nat, NEW t, NEW new,
         B!Tallied(t, rules, c, n), Steps(t, new, rules, c.units[n + 1])
  PROVE  B!Tallied(new, rules, c, n + 1)
<1> DEFINE u == c.units[n + 1]
           Same(i, j) == c.units[i].surface = c.units[j].surface /\ c.units[i].text = c.units[j].text
<1>1. 1 .. n + 1 = (1 .. n) \cup {n + 1}
  OBVIOUS
<1>2. DOMAIN new.counts = UNION { B!Keys(c.units[i]) : i \in 1 .. n + 1 }
  <2>1. DOMAIN new.counts = DOMAIN t.counts \cup B!Keys(u)
    BY AddedTimes DEF Steps
  <2>2. DOMAIN t.counts = UNION { B!Keys(c.units[i]) : i \in 1 .. n }
    BY DEF B!Tallied
  <2> QED
    BY <1>1, <2>1, <2>2
<1>3. t.seen = { <<c.units[i].surface, c.units[i].text>> : i \in 1 .. n }
  BY DEF B!Tallied
<1>4. new.seen = { <<c.units[i].surface, c.units[i].text>> : i \in 1 .. n + 1 }
  BY <1>1, <1>3 DEF Steps
<1>5. /\ t.duplicates \in Nat
      /\ t.duplicates = 0 => \A i, j \in 1 .. n : Same(i, j) => i = j
      /\ new.duplicates = t.duplicates + IF <<u.surface, u.text>> \in t.seen THEN 1 ELSE 0
  BY DEF B!Tallied, Steps
<1>6. new.duplicates \in Nat /\ (new.duplicates = 0 => t.duplicates = 0 /\ <<u.surface, u.text>> \notin t.seen)
  BY <1>5
<1>7. ASSUME new.duplicates = 0, NEW i \in 1 .. n + 1, NEW j \in 1 .. n + 1, Same(i, j)
      PROVE  i = j
  <2>1. \A k \in 1 .. n : ~Same(k, n + 1) /\ ~Same(n + 1, k)
    BY <1>3, <1>6, <1>7
  <2> QED
    BY <1>1, <1>5, <1>6, <1>7, <2>1
<1>8. \A cell \in B!Cells(c) :
        /\ B!Times(new.counts, cell) = B!Cardinality(B!UnitsOf(c, n + 1, cell))
        /\ B!Times(new.bundle, cell) = B!Cardinality(B!Fired(c, n + 1, cell, B!On(rules, cell[1])))
        /\ \A r \in B!ToSet(rules) : r.runnable =>
             B!Times(new.rule, <<r.id, cell>>) = B!Cardinality(B!Fired(c, n + 1, cell, {r}))
  BY CellStep
<1>9. new.duplicates = 0 => \A i, j \in 1 .. n + 1 : Same(i, j) => i = j
  BY <1>7
<1> QED
  BY <1>2, <1>4, <1>6, <1>8, <1>9 DEF B!Tallied

(* Before the first unit.                                                    *)
LEMMA TallyStarts ==
  ASSUME NEW rules, NEW c
  PROVE  B!Tallied(B!NoTally, rules, c, 0)
<1>1. /\ B!NoTally.counts = B!NoCounts /\ B!NoTally.bundle = B!NoCounts /\ B!NoTally.rule = B!NoCounts
      /\ B!NoTally.seen = {} /\ B!NoTally.duplicates = 0
  BY DEF B!NoTally
<1>2. 1 .. 0 = {} /\ {} = UNION { B!Keys(c.units[i]) : i \in {} }
  OBVIOUS
<1>3. \A cell, R : B!UnitsOf(c, 0, cell) = {} /\ B!Fired(c, 0, cell, R) = {}
  BY <1>2 DEF B!UnitsOf, B!Fired
<1>4. B!Cardinality({}) = 0
  BY SameCount, FS_EmptySet
<1>5. \A cell : /\ B!Times(B!NoTally.counts, cell) = 0 /\ B!Times(B!NoTally.bundle, cell) = 0
                /\ B!Times(B!NoTally.rule, cell) = 0
  BY <1>1, NoTimes
<1>6. DOMAIN B!NoTally.counts = UNION { B!Keys(c.units[i]) : i \in 1 .. 0 }
  BY <1>1, <1>2, NoTimes
<1>7. B!NoTally.seen = { <<c.units[i].surface, c.units[i].text>> : i \in 1 .. 0 }
  BY <1>1, <1>2
<1> HIDE DEF B!NoTally
<1> QED
  BY <1>1, <1>2, <1>3, <1>4, <1>5, <1>6, <1>7 DEF B!Tallied
-----------------------------------------------------------------------------
(* The rows. *)

(* The cells of a corpus are those of its units.                             *)
LEMMA AllCells ==
  ASSUME NEW c, Listed(c.units)
  PROVE  /\ Len(c.units) \in Nat /\ DOMAIN c.units = 1 .. Len(c.units)
         /\ B!Cells(c) = UNION { B!Keys(c.units[i]) : i \in 1 .. Len(c.units) }
BY DEF Listed, B!Cells

(* At the end of a corpus its rows are the true ones.                         *)
LEMMA RowsAreTrue ==
  ASSUME NEW c, c = B!Corpus, Listed(c.units), B!Tallied(tally, input.rules, c, Len(c.units))
  PROVE  B!CorpusRows = B!TrueRows(input.rules, c)
<1> DEFINE rules == input.rules
           n == Len(c.units)
           keys == DOMAIN tally.counts
<1>1. keys = B!Cells(c)
  BY AllCells DEF B!Tallied
<1>2. \A key \in keys : key[1] \in B!Enabled <=> \E r \in B!On(rules, key[1]) : r.runnable
  BY DEF B!Enabled, B!Runnable, B!On
<1>3. ASSUME NEW key \in keys
      PROVE  B!RowOf("bundle", key, B!Times(tally.bundle, key)) = B!TrueRow("bundle", B!On(rules, key[1]), c, key)
  BY <1>1 DEF B!Tallied, B!RowOf, B!TrueRow
<1>4. ASSUME NEW key \in keys, NEW r \in B!Runnable
      PROVE  B!RowOf(r.id, key, B!Times(tally.rule, <<r.id, key>>)) = B!TrueRow(r.id, {r}, c, key)
  BY <1>1 DEF B!Tallied, B!RowOf, B!TrueRow, B!Runnable
<1>5. B!Runnable = { r \in B!ToSet(rules) : r.runnable }
  BY DEF B!Runnable
<1> DEFINE ofBundle == { B!RowOf("bundle", key, B!Times(tally.bundle, key)) : key \in { k \in keys : k[1] \in B!Enabled } }
           ofRule(r)     == { B!RowOf(r.id, key, B!Times(tally.rule, <<r.id, key>>)) : key \in keys }
           trueOfBundle  == { B!TrueRow("bundle", B!On(rules, cell[1]), c, cell) :
                                cell \in { k \in B!Cells(c) : \E r \in B!On(rules, k[1]) : r.runnable } }
           trueOfRule(r) == { B!TrueRow(r.id, {r}, c, cell) : cell \in B!Cells(c) }
<1>6. ofBundle = trueOfBundle
  BY <1>1, <1>2, <1>3
<1>7. ASSUME NEW r \in B!Runnable PROVE ofRule(r) = trueOfRule(r)
  BY <1>1, <1>4
<1>8. B!CorpusRows = ofBundle \cup UNION { ofRule(r) : r \in B!Runnable }
  BY DEF B!CorpusRows
<1>9. B!TrueRows(input.rules, c) = trueOfBundle \cup UNION { trueOfRule(r) : r \in B!Runnable }
  BY <1>5 DEF B!TrueRows
<1> HIDE DEF ofBundle, ofRule, trueOfBundle, trueOfRule
<1>10. { ofRule(r) : r \in B!Runnable } = { trueOfRule(r) : r \in B!Runnable }
  BY <1>7
<1> QED
  BY <1>6, <1>8, <1>9, <1>10

(* A corpus without a fault counts no unit twice and has both kinds of prose   *)
(* wherever it has anything.                                                 *)
LEMMA FaultFree ==
  ASSUME NEW c, c = B!Corpus, Listed(c.units), B!Tallied(tally, input.rules, c, Len(c.units)), B!Faults = {}
  PROVE  B!Representative(c)
<1>1. DOMAIN tally.counts = B!Cells(c) /\ DOMAIN c.units = 1 .. Len(c.units)
  BY AllCells DEF B!Tallied
<1>2. { "missing strata" : u \in { u \in B!ToSet(c.units) : ~({u.surface} \X B!RequiredStrata \subseteq DOMAIN tally.counts) } } = {}
      /\ { "duplicates" : n \in { n \in {tally.duplicates} : n > 0 } } = {}
  BY DEF B!Faults
<1>3. ASSUME NEW u \in B!ToSet(c.units) PROVE {u.surface} \X B!RequiredStrata \subseteq B!Cells(c)
  <2>1. "missing strata" \notin { "missing strata" : v \in { v \in B!ToSet(c.units) : ~({v.surface} \X B!RequiredStrata \subseteq DOMAIN tally.counts) } }
    BY <1>2
  <2> QED
    BY <1>1, <2>1
<1>4. tally.duplicates \in Nat /\ tally.duplicates = 0
  <2>1. "duplicates" \notin { "duplicates" : n \in { n \in {tally.duplicates} : n > 0 } }
    BY <1>2
  <2> QED
    BY <2>1 DEF B!Tallied
<1>5. \A i, j \in DOMAIN c.units :
        c.units[i].surface = c.units[j].surface /\ c.units[i].text = c.units[j].text => i = j
  BY <1>1, <1>4 DEF B!Tallied
<1>6. ASSUME NEW cell \in B!Cells(c), NEW p \in {"ordinary", "security-adjacent"}
      PROVE  <<cell[1], <<"prose", p>>>> \in B!Cells(c)
  <2>1. PICK i \in DOMAIN c.units : cell \in B!Keys(c.units[i])
    BY DEF B!Cells
  <2>2. cell[1] = c.units[i].surface /\ c.units[i] \in B!ToSet(c.units)
    BY <2>1 DEF B!Keys, B!ToSet
  <2>3. <<"prose", p>> \in B!RequiredStrata
    BY DEF B!RequiredStrata
  <2> QED
    BY <1>3, <2>2, <2>3
<1> QED
  BY <1>5, <1>6 DEF B!Representative

(* A true row counts what is there.                                          *)
LEMMA RowCounts ==
  ASSUME NEW c, Listed(c.units), NEW cell \in B!Cells(c), NEW R, NEW id
  PROVE  /\ B!Count(B!TrueRow(id, R, c, cell)) = B!Truth(R, c, cell[1], cell[2])
         /\ B!Truth(R, c, cell[1], cell[2]) \in (0 .. Len(c.units)) \X (0 .. Len(c.units))
<1> DEFINE n == Len(c.units)
<1>1. DOMAIN c.units = 1 .. n /\ n \in Nat
  BY DEF Listed
<1>2. cell = <<cell[1], cell[2]>>
  <2>1. PICK i \in DOMAIN c.units : cell \in B!Keys(c.units[i])
    BY DEF B!Cells
  <2> QED
    BY <2>1, CellsOfUnits
<1>3. ASSUME NEW i \in 1 .. n
      PROVE  cell \in B!Keys(c.units[i]) <=> c.units[i].surface = cell[1] /\ cell[2] \in B!Strata(c.units[i])
  BY <1>2 DEF B!Keys
<1>4. B!UnitsOf(c, n, cell) = B!In(c, cell[1], cell[2])
  BY <1>1, <1>3 DEF B!UnitsOf, B!In
<1>5. B!Fired(c, n, cell, R) = { i \in B!In(c, cell[1], cell[2]) : \E r \in R : B!Fires(r, c.units[i]) }
  BY <1>4 DEF B!Fired
<1>6. B!UnitsOf(c, n, cell) \in SUBSET (1 .. n) /\ B!Fired(c, n, cell, R) \in SUBSET (1 .. n)
  BY <1>1, UnitsGrow
<1>7. B!Cardinality(B!UnitsOf(c, n, cell)) \in 0 .. n /\ B!Cardinality(B!Fired(c, n, cell, R)) \in 0 .. n
  BY <1>1, <1>6, OneUnitMore
<1>8. B!Count(B!TrueRow(id, R, c, cell)) = <<B!Cardinality(B!UnitsOf(c, n, cell)), B!Cardinality(B!Fired(c, n, cell, R))>>
  BY DEF B!Count, B!TrueRow
<1> QED
  BY <1>4, <1>5, <1>7, <1>8 DEF B!Truth

(* Every set of numbers that is not empty has a smallest one.                *)
LEMMA SmallestNat ==
  ASSUME NEW T \in SUBSET Nat, T # {}
  PROVE  \E m \in T : \A k \in T : m <= k
<1> DEFINE R == OpToRel(<, Nat)
<1>1. IsWellFoundedOn(R, Nat)
  BY NatLessThanWellFounded
<1>2. \A x, y \in Nat : <<y, x>> \in R <=> y < x
  BY DEF OpToRel
<1> HIDE DEF R
<1>3. PICK m \in T : \A y \in T : ~ (<<y, m>> \in R)
  BY <1>1, WFMin
<1>4. ASSUME NEW k \in T PROVE m <= k
  <2>1. m \in Nat /\ k \in Nat
    OBVIOUS
  <2>2. ~ (k < m)
    BY <1>2, <1>3, <2>1
  <2> QED
    BY <2>1, <2>2
<1> QED
  BY <1>3, <1>4

(* Of some rows one has the highest bound.                                   *)
LEMMA Highest ==
  ASSUME NEW rows, rows # {}, NEW top \in Int, \A x \in rows : U95[B!Count(x)] \in Int /\ U95[B!Count(x)] <= top
  PROVE  /\ B!Worst(rows) \in rows
         /\ \A y \in rows : U95[B!Count(y)] <= U95[B!Count(B!Worst(rows))]
<1> DEFINE below == { top - U95[B!Count(x)] : x \in rows }
<1>1. below \in SUBSET Nat /\ below # {}
  OBVIOUS
<1>2. PICK m \in below : \A k \in below : m <= k
  BY <1>1, SmallestNat
<1>3. PICK x \in rows : m = top - U95[B!Count(x)]
  BY <1>2
<1>4. ASSUME NEW y \in rows PROVE U95[B!Count(y)] <= U95[B!Count(x)]
  <2>1. top - U95[B!Count(y)] \in below
    OBVIOUS
  <2>2. m <= top - U95[B!Count(y)]
    BY <1>2, <2>1
  <2> QED
    BY <1>3, <2>2
<1> QED
  BY <1>4 DEF B!Worst
-----------------------------------------------------------------------------
(* The report. *)

(* What stands in the rows of a corpus.                                      *)
LEMMA InTrueRows ==
  ASSUME NEW rules, NEW c, NEW x
  PROVE  x \in B!TrueRows(rules, c) <=>
           \/ \E k \in B!Cells(c) : /\ \E r \in B!On(rules, k[1]) : r.runnable
                                    /\ x = B!TrueRow("bundle", B!On(rules, k[1]), c, k)
           \/ \E r \in B!ToSet(rules) : r.runnable /\ \E k \in B!Cells(c) : x = B!TrueRow(r.id, {r}, c, k)
<1>1. x \in { B!TrueRow("bundle", B!On(rules, cell[1]), c, cell) :
                cell \in { k \in B!Cells(c) : \E r \in B!On(rules, k[1]) : r.runnable } } <=>
        \E k \in B!Cells(c) : /\ \E r \in B!On(rules, k[1]) : r.runnable
                              /\ x = B!TrueRow("bundle", B!On(rules, k[1]), c, k)
  OBVIOUS
<1>2. x \in UNION { { B!TrueRow(r.id, {r}, c, cell) : cell \in B!Cells(c) } : r \in { r \in B!ToSet(rules) : r.runnable } } <=>
        \E r \in B!ToSet(rules) : r.runnable /\ \E k \in B!Cells(c) : x = B!TrueRow(r.id, {r}, c, k)
  <2> DEFINE ofRule(r) == { B!TrueRow(r.id, {r}, c, cell) : cell \in B!Cells(c) }
             runs == { r \in B!ToSet(rules) : r.runnable }
  <2>1. x \in UNION { ofRule(r) : r \in runs } <=> \E r \in runs : x \in ofRule(r)
    <3> HIDE DEF ofRule, runs
    <3> QED
      OBVIOUS
  <2>2. ASSUME NEW r PROVE x \in ofRule(r) <=> \E k \in B!Cells(c) : x = B!TrueRow(r.id, {r}, c, k)
    OBVIOUS
  <2> QED
    BY <2>1, <2>2
<1> QED
  BY <1>1, <1>2 DEF B!TrueRows

(* A row is of a cell; it is the bundle's or a rule's.                         *)
RowOfCell(x, c) == \E id, R : \E k \in B!Cells(c) : x = B!TrueRow(id, R, c, k)
RowOfOne(x, rules, c) ==
  \/ \E k \in B!Cells(c) : x = B!TrueRow("bundle", B!On(rules, k[1]), c, k)
  \/ \E r \in B!ToSet(rules) : \E k \in B!Cells(c) : x = B!TrueRow(r.id, {r}, c, k)

(* A row of the truth is the bundle's or a runnable rule's.                 *)
LEMMA TrueRowIs ==
  ASSUME NEW rules, NEW c, NEW x \in B!TrueRows(rules, c)
  PROVE  RowOfOne(x, rules, c)
<1>1. \/ \E k \in B!Cells(c) : /\ \E r \in B!On(rules, k[1]) : r.runnable
                               /\ x = B!TrueRow("bundle", B!On(rules, k[1]), c, k)
      \/ \E r \in B!ToSet(rules) : r.runnable /\ \E k \in B!Cells(c) : x = B!TrueRow(r.id, {r}, c, k)
  BY InTrueRows
<1> QED
  BY <1>1 DEF RowOfOne

(* A row of the truth is about one of the corpus's cells.                   *)
LEMMA RowHasCell ==
  ASSUME NEW rules, NEW c, NEW x \in B!TrueRows(rules, c)
  PROVE  RowOfCell(x, c)
<1>1. \/ \E k \in B!Cells(c) : /\ \E r \in B!On(rules, k[1]) : r.runnable
                               /\ x = B!TrueRow("bundle", B!On(rules, k[1]), c, k)
      \/ \E r \in B!ToSet(rules) : r.runnable /\ \E k \in B!Cells(c) : x = B!TrueRow(r.id, {r}, c, k)
  BY InTrueRows
<1> QED
  BY <1>1 DEF RowOfCell

(* A cell is its surface and its stratum.                                    *)
LEMMA CellIsPair ==
  ASSUME NEW c, NEW cell \in B!Cells(c)
  PROVE  cell = <<cell[1], cell[2]>>
<1>1. PICK i \in DOMAIN c.units : cell \in B!Keys(c.units[i])
  BY DEF B!Cells
<1> QED
  BY <1>1, CellsOfUnits

(* What a report is of.                                                      *)
LEMMA ReportOf ==
  ASSUME NEW said, B!TrueReport(said)
  PROVE  /\ said.rules \in RuleLists /\ said.corpora \in CorpusLists
         /\ Listed(said.rules) /\ Apart(said.rules) /\ \A r \in B!ToSet(said.rules) : r.id # "bundle"
         /\ Listed(said.corpora) /\ \A j \in DOMAIN said.corpora : Listed(said.corpora[j].units)
         /\ \A i, j \in DOMAIN said.corpora : said.corpora[i].identity = said.corpora[j].identity => i = j
         /\ \A x : x \in said.rows <=> \E i \in DOMAIN said.corpora : x \in B!TrueRows(said.rules, said.corpora[i])
<1>1. /\ said.rules \in RuleLists /\ said.corpora \in CorpusLists
      /\ B!Accepted(said.rules, said.corpora)
      /\ said.rows = B!AllRows(said.rules, said.corpora, Len(said.corpora))
  BY DEF B!TrueReport
<1>2. /\ Listed(said.rules) /\ \A i \in DOMAIN said.rules : said.rules[i].id # "bundle"
      /\ Listed(said.corpora) /\ \A j \in DOMAIN said.corpora : Listed(said.corpora[j].units)
  BY <1>1, BenchAssumption DEF BenchAssumption
<1>3. /\ Apart(said.rules)
      /\ \A i, j \in DOMAIN said.corpora : said.corpora[i].identity = said.corpora[j].identity => i = j
  BY <1>1 DEF B!Accepted, Apart
<1>4. \A r \in B!ToSet(said.rules) : r.id # "bundle"
  BY <1>2 DEF B!ToSet
<1>5. DOMAIN said.corpora = 1 .. Len(said.corpora)
  BY <1>2 DEF Listed
<1>6. \A x : x \in said.rows <=> \E i \in DOMAIN said.corpora : x \in B!TrueRows(said.rules, said.corpora[i])
  BY <1>1, <1>5 DEF B!AllRows
<1> QED
  BY <1>1, <1>2, <1>3, <1>4, <1>6

(* The row of a cell is told by its heading.                                  *)
LEMMA OneRow ==
  ASSUME NEW said, B!TrueReport(said), NEW j \in DOMAIN said.corpora, NEW cell \in B!Cells(said.corpora[j]),
         NEW x \in said.rows, x.corpus = said.corpora[j].identity, x.surface = cell[1], x.stratum = cell[2]
  PROVE  /\ x.of = "bundle" => x = B!TrueRow("bundle", B!On(said.rules, cell[1]), said.corpora[j], cell)
         /\ \A r \in B!ToSet(said.rules) : x.of = r.id => x = B!TrueRow(r.id, {r}, said.corpora[j], cell)
<1>1. PICK i \in DOMAIN said.corpora : x \in B!TrueRows(said.rules, said.corpora[i])
  BY ReportOf
<1>2. \A id, R, c, k : LET y == B!TrueRow(id, R, c, k)
                       IN  y.of = id /\ y.corpus = c.identity /\ y.surface = k[1] /\ y.stratum = k[2]
  BY DEF B!TrueRow
<1>3. CASE \E k \in B!Cells(said.corpora[i]) : x = B!TrueRow("bundle", B!On(said.rules, k[1]), said.corpora[i], k)
  <2>1. PICK k \in B!Cells(said.corpora[i]) : x = B!TrueRow("bundle", B!On(said.rules, k[1]), said.corpora[i], k)
    BY <1>3
  <2>2. x.of = "bundle" /\ x.corpus = said.corpora[i].identity /\ x.surface = k[1] /\ x.stratum = k[2]
    BY <1>2, <2>1
  <2>3. i = j /\ k = cell
    <3>1. i = j
      BY <2>2, ReportOf
    <3>2. k = <<k[1], k[2]>> /\ cell = <<cell[1], cell[2]>>
      BY CellIsPair
    <3> QED
      BY <2>2, <3>1, <3>2
  <2> QED
    BY <2>1, <2>2, <2>3, ReportOf
<1>4. CASE \E q \in B!ToSet(said.rules) : \E k \in B!Cells(said.corpora[i]) : x = B!TrueRow(q.id, {q}, said.corpora[i], k)
  <2>1. PICK q \in B!ToSet(said.rules) : \E k \in B!Cells(said.corpora[i]) : x = B!TrueRow(q.id, {q}, said.corpora[i], k)
    BY <1>4
  <2>2. PICK k \in B!Cells(said.corpora[i]) : x = B!TrueRow(q.id, {q}, said.corpora[i], k)
    BY <2>1
  <2>3. x.of = q.id /\ x.corpus = said.corpora[i].identity /\ x.surface = k[1] /\ x.stratum = k[2]
    BY <1>2, <2>2
  <2>4. i = j /\ k = cell /\ q.id # "bundle"
    <3>1. i = j /\ q.id # "bundle"
      BY <2>3, ReportOf
    <3>2. k = <<k[1], k[2]>> /\ cell = <<cell[1], cell[2]>>
      BY CellIsPair
    <3> QED
      BY <2>3, <3>1, <3>2
  <2>5. \A r \in B!ToSet(said.rules) : x.of = r.id => r = q
    BY <2>3, ReportOf, OneRule
  <2> QED
    BY <2>2, <2>3, <2>4, <2>5
<1>5. \/ \E k \in B!Cells(said.corpora[i]) : x = B!TrueRow("bundle", B!On(said.rules, k[1]), said.corpora[i], k)
      \/ \E q \in B!ToSet(said.rules) : \E k \in B!Cells(said.corpora[i]) : x = B!TrueRow(q.id, {q}, said.corpora[i], k)
  <2>1. RowOfOne(x, said.rules, said.corpora[i])
    BY <1>1, TrueRowIs
  <2> QED
    BY <2>1 DEF RowOfOne
<1> QED
  BY <1>3, <1>4, <1>5

(* A true report says of every cell what is there.                            *)
LEMMA ReportIsExact ==
  ASSUME NEW said, B!TrueReport(said), NEW j \in DOMAIN said.corpora, NEW cell \in B!Cells(said.corpora[j]),
         NEW id, NEW R,
         \/ id = "bundle" /\ R = B!On(said.rules, cell[1]) /\ \E r \in R : r.runnable
         \/ \E r \in B!ToSet(said.rules) : r.runnable /\ id = r.id /\ R = {r}
  PROVE  { B!Count(x) : x \in { x \in said.rows :
             x.of = id /\ x.corpus = said.corpora[j].identity /\ x.surface = cell[1] /\ x.stratum = cell[2] } }
           = {B!Truth(R, said.corpora[j], cell[1], cell[2])}
<1> DEFINE c == said.corpora[j]
           row == B!TrueRow(id, R, c, cell)
           rows == { x \in said.rows : x.of = id /\ x.corpus = c.identity /\ x.surface = cell[1] /\ x.stratum = cell[2] }
<1>1. row \in B!TrueRows(said.rules, c)
  BY InTrueRows
<1>2. row.of = id /\ row.corpus = c.identity /\ row.surface = cell[1] /\ row.stratum = cell[2]
  BY DEF B!TrueRow
<1>3. row \in said.rows
  BY <1>1, ReportOf
<1>4. ASSUME NEW x \in rows PROVE x = row
  BY OneRow
<1> HIDE DEF row
<1>5. rows = {row}
  BY <1>2, <1>3, <1>4
<1>6. B!Count(row) = B!Truth(R, c, cell[1], cell[2])
  BY ReportOf, RowCounts DEF row
<1> HIDE DEF rows, c
<1>7. { B!Count(x) : x \in rows } = {B!Truth(R, c, cell[1], cell[2])}
  BY <1>5, <1>6
<1> QED
  BY <1>7 DEF rows, c

(* So the property of the report follows.                                    *)
LEMMA ReportsCount == B!Reported => CountsAreExact
<1> SUFFICES ASSUME B!Reported, results # NoReport,
                    NEW j \in DOMAIN results.corpora, NEW cell \in B!Cells(results.corpora[j])
             PROVE  LET c == results.corpora[j]
                        Of(id) == { x \in results.rows :
                          x.of = id /\ x.corpus = c.identity /\ x.surface = cell[1] /\ x.stratum = cell[2] }
                        Says(id, R) == { B!Count(x) : x \in Of(id) } = {B!Truth(R, c, cell[1], cell[2])}
                    IN  /\ \A r \in B!ToSet(results.rules) : r.runnable => Says(r.id, {r})
                        /\ (\E r \in B!On(results.rules, cell[1]) : r.runnable) => Says("bundle", B!On(results.rules, cell[1]))
  BY DEF CountsAreExact, B!CountsAreExact
<1> DEFINE c == results.corpora[j]
           Of(id) == { x \in results.rows :
             x.of = id /\ x.corpus = c.identity /\ x.surface = cell[1] /\ x.stratum = cell[2] }
<1>1. B!TrueReport(results)
  BY DEF B!Reported
<1>2. ASSUME NEW r \in B!ToSet(results.rules), r.runnable
      PROVE  { B!Count(x) : x \in Of(r.id) } = {B!Truth({r}, c, cell[1], cell[2])}
  <2>1. PICK id, R : id = r.id /\ R = {r}
    OBVIOUS
  <2>2. { B!Count(x) : x \in Of(id) } = {B!Truth(R, c, cell[1], cell[2])}
    BY <1>1, <1>2, <2>1, ReportIsExact
  <2> QED
    BY <2>1, <2>2
<1>3. ASSUME NEW r \in B!On(results.rules, cell[1]), r.runnable
      PROVE  { B!Count(x) : x \in Of("bundle") } = {B!Truth(B!On(results.rules, cell[1]), c, cell[1], cell[2])}
  BY <1>1, <1>3, ReportIsExact
<1> QED
  BY <1>2, <1>3

-----------------------------------------------------------------------------
(* The lanes. *)

(* The bounds of a report's rows are on the scale.                           *)
LEMMA RowsAreBounded ==
  ASSUME NEW said, B!TrueReport(said), NEW x \in said.rows
  PROVE  /\ B!Count(x) \in Possible(said.corpora)
         /\ U95[B!Count(x)] \in Int /\ U95[B!Count(x)] <= U95[<<1, 1>>] /\ U95[<<1, 1>>] \in Int
<1>1. PICK j \in DOMAIN said.corpora : x \in B!TrueRows(said.rules, said.corpora[j])
  BY ReportOf
<1>2. PICK c, rules : c = said.corpora[j] /\ rules = said.rules
  OBVIOUS
<1>3. Listed(c.units)
  BY <1>2, ReportOf
<1>4. x \in B!TrueRows(rules, c)
  BY <1>1, <1>2
<1>5. B!Count(x) \in (0 .. Len(c.units)) \X (0 .. Len(c.units))
  <2>1. \A id, R : \A k \in B!Cells(c) :
          B!Count(B!TrueRow(id, R, c, k)) \in (0 .. Len(c.units)) \X (0 .. Len(c.units))
    BY <1>3, RowCounts
  <2>2. RowOfCell(x, c)
    BY <1>4, RowHasCell
  <2> QED
    BY <2>1, <2>2 DEF RowOfCell
<1>6. B!Count(x) \in Possible(said.corpora)
  BY <1>2, <1>5 DEF Possible
<1> QED
  BY <1>6, BenchAssumption, ReportOf DEF BenchAssumption

(* Where the worst row is resolved to be within a ceiling, every row is.       *)
LEMMA AllWithin ==
  ASSUME NEW said, B!TrueReport(said), NEW rows \in SUBSET said.rows, NEW y \in rows,
         NEW max \in {AdviseMax, DenyMax}, B!Within(B!Worst(rows), max)
  PROVE  Exact[B!Count(y)] <= max
<1>1. \A x \in rows : U95[B!Count(x)] \in Int /\ U95[B!Count(x)] <= U95[<<1, 1>>]
  BY RowsAreBounded
<1>2. U95[<<1, 1>>] \in Int
  BY BenchAssumption DEF BenchAssumption
<1>3. B!Worst(rows) \in rows /\ U95[B!Count(y)] <= U95[B!Count(B!Worst(rows))]
  BY <1>1, <1>2, Highest
<1>4. PICK v, w : v = B!Count(y) /\ w = B!Count(B!Worst(rows))
  OBVIOUS
<1>5. v \in Possible(said.corpora) /\ w \in Possible(said.corpora) /\ said.corpora \in CorpusLists
  BY <1>3, <1>4, RowsAreBounded, ReportOf
<1>6. w \notin Unresolved /\ U95[w] <= max
  BY <1>4 DEF B!Within
<1>7. U95[v] <= U95[w]
  BY <1>3, <1>4
<1>8. Exact[v] <= max
  BY <1>5, <1>6, <1>7, BenchAssumption DEF BenchAssumption
<1> QED
  BY <1>4, <1>8

(* When a rule gets a lane above RECORD from a true report.                   *)
LEMMA WhyAdmitted ==
  ASSUME NEW said, B!TrueReport(said), NEW r \in B!ToSet(said.rules), NEW lane \in {"ADVISE", "DENY"},
         lane = B!AdmitFromReport(r, said), NEW native,
         native = { x \in said.rows : x.of = r.id /\ x.surface = r.surface }
  PROVE  /\ r.runnable /\ said.ok /\ native # {} /\ \E e \in r.examples : e \in r.matches
         /\ B!Within(B!Worst(native), AdviseMax)
         /\ lane = "DENY" => /\ B!Within(B!Worst(native), DenyMax)
                             /\ B!Within(B!Worst(B!BundleRows(said.rows)), DenyMax)
<1> DEFINE shown == said.reach[r.id]
<1>1. shown = B!Reachability(r) /\ said.hits[r.id] \in Nat
  BY DEF B!TrueReport
<1>2. /\ shown \in {"not_runnable", "reachable", "no_examples", "unreachable"}
      /\ shown = "not_runnable" <=> ~r.runnable
      /\ shown = "reachable" => r.runnable /\ r.examples \cap r.matches # {}
  BY <1>1 DEF B!Reachability
<1>3. lane = CASE ~r.runnable \/ (shown = "unreachable" /\ said.hits[r.id] = 0) -> "DO_NOT_SHIP"
               [] r.runnable /\ shown = "unreachable" /\ said.hits[r.id] > 0 -> "RECORD"
               [] shown = "no_examples" \/ (shown = "reachable" /\ (native = {} \/ ~said.ok)) -> "RECORD"
               [] shown = "reachable" /\ native # {} /\ said.ok ->
                    IF B!Admit(B!Worst(native)) = "DENY" /\ ~B!Within(B!Worst(B!BundleRows(said.rows)), DenyMax)
                    THEN "ADVISE" ELSE B!Admit(B!Worst(native))
  BY DEF B!AdmitFromReport
<1> HIDE DEF shown
<1>4. shown = "reachable" /\ native # {} /\ said.ok
  BY <1>1, <1>2, <1>3
<1>5. lane = IF B!Admit(B!Worst(native)) = "DENY" /\ ~B!Within(B!Worst(B!BundleRows(said.rows)), DenyMax)
             THEN "ADVISE" ELSE B!Admit(B!Worst(native))
  BY <1>2, <1>3, <1>4
<1> QED
  BY <1>2, <1>4, <1>5 DEF B!Admit

QuietIn(corpora, R, s, max) ==
  \A j \in DOMAIN corpora : \A cell \in B!Cells(corpora[j]) :
    cell[1] = s => Exact[B!Truth(R, corpora[j], s, cell[2])] <= max

(* Then it is quiet, and so are all rules together.                           *)
LEMMA QuietEverywhere ==
  ASSUME NEW said, B!TrueReport(said), NEW r \in B!ToSet(said.rules), NEW lane \in {"ADVISE", "DENY"},
         lane = B!AdmitFromReport(r, said), NEW max, max = B!CeilingOf(lane)
  PROVE  /\ QuietIn(said.corpora, {r}, r.surface, max)
         /\ \A q \in B!ToSet(said.rules) :
              q.runnable => QuietIn(said.corpora, B!On(said.rules, q.surface), q.surface, max)
<1> DEFINE native == { x \in said.rows : x.of = r.id /\ x.surface = r.surface }
           union  == B!BundleRows(said.rows)
<1>1. /\ r.runnable /\ said.ok /\ B!Within(B!Worst(native), AdviseMax)
      /\ lane = "DENY" => B!Within(B!Worst(native), DenyMax) /\ B!Within(B!Worst(union), DenyMax)
  BY WhyAdmitted
<1>2. B!Within(B!Worst(union), AdviseMax)
  BY <1>1 DEF B!TrueReport
<1>3. max \in {AdviseMax, DenyMax} /\ B!Within(B!Worst(native), max) /\ B!Within(B!Worst(union), max)
  BY <1>1, <1>2 DEF B!CeilingOf
<1>4. native \in SUBSET said.rows /\ union \in SUBSET said.rows
  BY DEF B!BundleRows
<1>5. ASSUME NEW j \in DOMAIN said.corpora, NEW cell \in B!Cells(said.corpora[j]), cell[1] = r.surface
      PROVE  Exact[B!Truth({r}, said.corpora[j], r.surface, cell[2])] <= max
  <2>1. PICK c, R : c = said.corpora[j] /\ R = {r}
    OBVIOUS
  <2>2. PICK x : x = B!TrueRow(r.id, R, c, cell)
    OBVIOUS
  <2>3. x \in said.rows
    BY <1>1, <2>1, <2>2, InTrueRows, ReportOf
  <2>4. x \in native
    BY <1>5, <2>2, <2>3 DEF B!TrueRow
  <2>5. Exact[B!Count(x)] <= max
    BY <1>3, <1>4, <2>4, AllWithin
  <2>6. B!Count(x) = B!Truth(R, c, cell[1], cell[2])
    BY <2>1, <2>2, RowCounts, ReportOf
  <2> QED
    BY <1>5, <2>1, <2>5, <2>6
<1>6. ASSUME NEW q \in B!ToSet(said.rules), q.runnable,
             NEW j \in DOMAIN said.corpora, NEW cell \in B!Cells(said.corpora[j]), cell[1] = q.surface
      PROVE  Exact[B!Truth(B!On(said.rules, q.surface), said.corpora[j], q.surface, cell[2])] <= max
  <2>1. PICK c, R : c = said.corpora[j] /\ R = B!On(said.rules, q.surface)
    OBVIOUS
  <2>2. PICK x : x = B!TrueRow("bundle", R, c, cell)
    OBVIOUS
  <2>3. q \in B!On(said.rules, cell[1])
    BY <1>6 DEF B!On
  <2>4. x \in B!TrueRows(said.rules, c)
    BY <1>6, <2>1, <2>2, <2>3, InTrueRows
  <2>5. x \in union
    BY <2>1, <2>2, <2>4, ReportOf DEF B!BundleRows, B!TrueRow
  <2>6. Exact[B!Count(x)] <= max
    BY <1>3, <1>4, <2>5, AllWithin
  <2>7. B!Count(x) = B!Truth(R, c, cell[1], cell[2])
    BY <2>1, <2>2, RowCounts, ReportOf
  <2> QED
    BY <1>6, <2>1, <2>6, <2>7
<1> QED
  BY <1>5, <1>6 DEF QuietIn

(* A lane that apply_report hands out is earned.                             *)
LEMMA AppliedIsEarned ==
  ASSUME held \in RuleLists, B!Reported, B!Apply
  PROVE  AdmissionIsEarned'
<1> DEFINE rules == held
           said == results
<1>1. /\ results # NoReport /\ B!SameRules(held, results.rules)
      /\ assigned' = [rules |-> held, lanes |-> B!Lanes(held, results), corpora |-> results.corpora]
  BY DEF B!Apply
<1>2. B!TrueReport(said) /\ B!ToSet(rules) = B!ToSet(said.rules) /\ Listed(rules)
  BY <1>1, BenchAssumption DEF B!Reported, B!SameRules, BenchAssumption
<1>3. assigned'.rules = rules /\ assigned'.corpora = said.corpora
  BY <1>1
<1>4. \A i \in DOMAIN rules : assigned'.lanes[i] = B!AdmitFromReport(rules[i], said)
  BY <1>1 DEF B!Lanes
<1> HIDE DEF rules, said
<1> SUFFICES ASSUME NEW i \in DOMAIN rules, assigned'.lanes[i] \in {"ADVISE", "DENY"}
             PROVE  LET r   == rules[i]
                        max == B!CeilingOf(assigned'.lanes[i])
                        surfaces == { x.surface : x \in { x \in B!ToSet(rules) : x.runnable } }
                    IN  /\ r.runnable /\ \E e \in r.examples : e \in r.matches
                        /\ QuietIn(said.corpora, {r}, r.surface, max)
                        /\ \A s \in surfaces :
                             /\ QuietIn(said.corpora, B!On(rules, s), s, max)
                             /\ \E j \in DOMAIN said.corpora : \E cell \in B!Cells(said.corpora[j]) : cell[1] = s
                        /\ \A j \in DOMAIN said.corpora : B!Representative(said.corpora[j])
  BY <1>3 DEF AdmissionIsEarned, B!AdmissionIsEarned, B!QuietOn, QuietIn
<1>5. PICK r, lane, max : r = rules[i] /\ lane = assigned'.lanes[i] /\ max = B!CeilingOf(lane)
  OBVIOUS
<1>6. r \in B!ToSet(said.rules) /\ lane = B!AdmitFromReport(r, said)
  BY <1>2, <1>4, <1>5 DEF B!ToSet
<1>7. r.runnable /\ said.ok /\ \E e \in r.examples : e \in r.matches
  BY <1>2, <1>5, <1>6, WhyAdmitted
<1>8. /\ QuietIn(said.corpora, {r}, r.surface, max)
      /\ \A q \in B!ToSet(said.rules) :
           q.runnable => QuietIn(said.corpora, B!On(said.rules, q.surface), q.surface, max)
  BY <1>2, <1>5, <1>6, QuietEverywhere
<1>9. \A s : B!On(rules, s) = B!On(said.rules, s)
  BY <1>2 DEF B!On
<1>10. /\ \A j \in DOMAIN said.corpora : B!Representative(said.corpora[j])
       /\ \A q \in B!ToSet(said.rules) : q.runnable =>
            \E j \in DOMAIN said.corpora : \E cell \in B!Cells(said.corpora[j]) : cell[1] = q.surface
  BY <1>2, <1>7 DEF B!TrueReport
<1> QED
  BY <1>2, <1>5, <1>7, <1>8, <1>9, <1>10
-----------------------------------------------------------------------------
(* The steps of a benchmark. *)

Way == B!Measuring /\ B!Tried /\ B!Standing /\ B!Summed

(* What is measured are lists.                                               *)
LEMMA InputTyped ==
  ASSUME B!Measuring, stage # "idle"
  PROVE  /\ Listed(input.rules) /\ Apart(input.rules)
         /\ Listed(input.corpora) /\ Len(input.corpora) \in Nat /\ DOMAIN input.corpora = 1 .. Len(input.corpora)
         /\ \A j \in DOMAIN input.corpora :
              /\ Listed(input.corpora[j].units) /\ Len(input.corpora[j].units) \in Nat
              /\ DOMAIN input.corpora[j].units = 1 .. Len(input.corpora[j].units)
<1>1. input.rules \in RuleLists /\ input.corpora \in CorpusLists /\ B!Accepted(input.rules, input.corpora)
  BY DEF B!Measuring
<1>2. Listed(input.rules) /\ Listed(input.corpora) /\ \A j \in DOMAIN input.corpora : Listed(input.corpora[j].units)
  BY <1>1, BenchAssumption DEF BenchAssumption
<1>3. Apart(input.rules)
  BY <1>1 DEF B!Accepted, Apart
<1> QED
  BY <1>2, <1>3 DEF Listed

(* Nothing is under way.                                                     *)
LEMMA IdleHolds ==
  ASSUME B!Idle, held' \in RuleLists
  PROVE  Way'
<1>1. /\ stage' = "idle" /\ reach' = <<>> /\ at' = <<1, 1>> /\ batch' = <<>>
      /\ tally' = B!NoTally /\ sums' = B!NoSums
  BY DEF B!Idle
<1>2. B!Measuring'
  BY <1>1 DEF B!Measuring
<1>3. B!Tried'
  BY <1>1 DEF B!Tried
<1>4. B!Standing'
  BY <1>1 DEF B!Standing
<1>5. B!Summed'
  BY <1>1 DEF B!Summed
<1> QED
  BY <1>2, <1>3, <1>4, <1>5 DEF Way

(* A report is applied, the rules are edited, or nothing happens.              *)
LEMMA WayStays ==
  ASSUME Way, UNCHANGED B!call, held' \in RuleLists
  PROVE  Way'
<1>1. /\ stage' = stage /\ input' = input /\ reach' = reach /\ at' = at
      /\ batch' = batch /\ tally' = tally /\ sums' = sums
  BY DEF B!call
<1>2. B!Measuring'
  BY <1>1 DEF Way, B!Measuring
<1>3. B!Tried'
  BY <1>1 DEF Way, B!Tried
<1>4. B!Corpus' = B!Corpus
  BY <1>1 DEF B!Corpus
<1>5. B!Standing'
  BY <1>1, <1>4 DEF Way, B!Standing, B!Hits, B!Runnable, B!Unit
<1>6. B!Summed'
  BY <1>1, <1>4 DEF Way, B!Summed
<1> QED
  BY <1>2, <1>3, <1>5, <1>6 DEF Way

(* A benchmark begins.                                                       *)
LEMMA BeginHolds ==
  ASSUME Way, B!Begin
  PROVE  Way'
<1>1. PICK cs \in CorpusLists : B!Accepted(held, cs) /\ input' = [rules |-> held, corpora |-> cs]
  BY DEF B!Begin
<1>2. /\ stage = "idle" /\ stage' = "examples" /\ held' = held /\ reach' = reach /\ at' = at
      /\ batch' = batch /\ tally' = tally /\ sums' = sums
  BY DEF B!Begin
<1>3. B!Measuring'
  BY <1>1, <1>2 DEF Way, B!Measuring
<1>4. B!Tried'
  <2>1. held \in RuleLists /\ Listed(held)
    BY BenchAssumption DEF Way, B!Measuring, BenchAssumption
  <2>2. reach = <<>> /\ Len(reach) = 0
    BY <1>2 DEF Way, B!Tried
  <2> QED
    BY <1>1, <1>2, <2>1, <2>2 DEF B!Tried, Listed
<1>5. B!Standing'
  BY <1>2 DEF Way, B!Standing, B!Measuring
<1>6. B!Summed'
  BY <1>2 DEF B!Summed
<1> QED
  BY <1>3, <1>4, <1>5, <1>6 DEF Way

(* A rule is tried on its examples.                                          *)
LEMMA TryHolds ==
  ASSUME Way, B!TryExamples
  PROVE  Way'
<1>1. /\ stage = "examples" /\ Len(reach) < Len(input.rules)
      /\ reach' = Append(reach, B!Reachability(input.rules[Len(reach) + 1]))
      /\ stage' = stage /\ input' = input /\ held' = held /\ at' = at
      /\ batch' = batch /\ tally' = tally /\ sums' = sums
  BY DEF B!TryExamples
<1>2. B!Measuring'
  BY <1>1 DEF Way, B!Measuring
<1>3. B!Tried'
  <2>1. Len(input.rules) \in Nat
    BY <1>1, InputTyped DEF Way, Listed
  <2>2. PICK e \in {"not_runnable", "reachable", "no_examples", "unreachable"} :
          e = B!Reachability(input.rules[Len(reach) + 1])
    BY DEF B!Reachability
  <2>3. reach \in Seq({"not_runnable", "reachable", "no_examples", "unreachable"})
    BY DEF Way, B!Tried
  <2>4. /\ reach' \in Seq({"not_runnable", "reachable", "no_examples", "unreachable"})
        /\ Len(reach) \in Nat /\ Len(reach') = Len(reach) + 1 /\ reach'[Len(reach) + 1] = e
        /\ \A i \in 1 .. Len(reach) : reach'[i] = reach[i]
    BY <1>1, <2>2, <2>3
  <2>5. ASSUME NEW i \in 1 .. Len(reach') PROVE reach'[i] = B!Reachability(input.rules[i])
    <3>1. \A k \in 1 .. Len(reach) : reach[k] = B!Reachability(input.rules[k])
      BY <1>1 DEF Way, B!Tried
    <3> QED
      BY <2>2, <2>4, <3>1
  <2> QED
    BY <1>1, <2>1, <2>4, <2>5 DEF B!Tried
<1>4. B!Standing'
  BY <1>1 DEF Way, B!Standing, B!Measuring
<1>5. B!Summed'
  BY <1>1 DEF B!Summed
<1> QED
  BY <1>2, <1>3, <1>4, <1>5 DEF Way

(* The smaller of two.                                                       *)
LEMMA MinOfTwo ==
  ASSUME NEW a \in Int, NEW b \in Int
  PROVE  B!Min({a, b}) \in Int /\ B!Min({a, b}) <= b /\ (B!Min({a, b}) = a \/ B!Min({a, b}) = b)
<1>1. \E x \in {a, b} : \A y \in {a, b} : x =< y
  OBVIOUS
<1>2. B!Min({a, b}) \in {a, b} /\ \A y \in {a, b} : B!Min({a, b}) =< y
  BY <1>1 DEF B!Min
<1> QED
  BY <1>2

(* The scans of the next units start.                                        *)
LEMMA StartHolds ==
  ASSUME Way, B!StartBatch
  PROVE  Way'
<1>1. /\ batch = <<>> /\ at[1] <= Len(input.corpora) /\ at[2] <= Len(B!Corpus.units) /\ stage' = "units"
      /\ batch' = [i \in at[2] .. B!Min({at[2] + Workers - 1, Len(B!Corpus.units)}) |-> B!Pending]
      /\ (stage = "examples" /\ Len(reach) = Len(input.rules)) \/ stage = "units"
      /\ held' = held /\ input' = input /\ reach' = reach /\ at' = at /\ tally' = tally /\ sums' = sums
  BY DEF B!StartBatch
<1>2. B!Corpus' = B!Corpus
  BY <1>1 DEF B!Corpus
<1>3. B!Measuring'
  BY <1>1 DEF Way, B!Measuring
<1>4. B!Tried'
  BY <1>1 DEF Way, B!Tried
<1>5. at \in Nat \X Nat /\ at[1] > 0 /\ at[2] > 0 /\ at[1] \in Nat /\ at[2] \in Nat
  BY DEF Way, B!Standing
<1>6. Len(B!Corpus.units) \in Nat /\ Len(input.corpora) \in Nat
  BY <1>1, <1>5, InputTyped DEF Way, B!Corpus
<1>7. B!Standing'
  <2>1. PICK n \in Nat, p \in Nat : n = Len(B!Corpus.units) /\ p = at[2] /\ p > 0 /\ p <= n
    BY <1>1, <1>5, <1>6
  <2>2. PICK a \in Int : a = p + Workers - 1 /\ p <= a
    BY BenchAssumption DEF BenchAssumption
  <2>3. PICK last \in Int : last = B!Min({a, n}) /\ last <= n /\ p <= last
    <3>1. B!Min({a, n}) \in Int /\ B!Min({a, n}) <= n /\ (B!Min({a, n}) = a \/ B!Min({a, n}) = n)
      BY MinOfTwo
    <3> QED
      BY <2>1, <2>2, <3>1
  <2>4. batch' = [i \in p .. last |-> B!Pending]
    BY <1>1, <2>1, <2>2, <2>3
  <2>5. p \in DOMAIN batch' /\ DOMAIN batch' \subseteq 1 .. n /\ \A i \in DOMAIN batch' : batch'[i].state # "complete"
    <3>1. B!Pending.state = "pending"
      BY DEF B!Pending, B!Outcome
    <3>2. p \in p .. last
      BY <2>3
    <3>3. ASSUME NEW i \in p .. last PROVE i \in 1 .. n
      BY <2>1, <2>3
    <3> QED
      BY <2>4, <3>1, <3>2, <3>3
  <2>6. at'[2] = p /\ at'[1] <= Len(input'.corpora) /\ Len(B!Corpus'.units) = n
    BY <1>1, <1>2, <2>1
  <2>7. /\ at' \in Nat \X Nat /\ at'[1] > 0 /\ at'[2] > 0
        /\ at'[1] <= Len(input'.corpora) + 1 /\ at'[2] <= Len(B!Corpus'.units) + 1
    BY <1>1, <1>5, <1>6, <2>1, <2>6
  <2> QED
    BY <1>1, <2>5, <2>6, <2>7 DEF B!Standing
<1>8. B!Summed'
  <2>1. CASE stage = "units"
    BY <1>1, <1>2, <2>1 DEF Way, B!Summed
  <2>2. CASE stage = "examples"
    <3>1. at = <<1, 1>> /\ at[1] = 1 /\ at[2] = 1 /\ tally = B!NoTally /\ sums = B!NoSums
      BY <2>2 DEF Way, B!Measuring
    <3>2. /\ sums.rows = {} /\ sums.surfaces = {} /\ sums.findings = B!NoCounts
      BY <3>1 DEF B!NoSums
    <3>3. 1 .. 0 = {}
      OBVIOUS
    <3>4. B!AllRows(input.rules, input.corpora, 0) = {}
      BY <3>3 DEF B!AllRows
    <3>5. B!Tallied(tally, input.rules, B!Corpus, 0)
      BY <3>1, TallyStarts
    <3>6. \A r \in B!ToSet(input.rules) : B!Times(sums.findings, r.id) \in Nat
      BY <3>2, NoTimes
    <3>7. at[1] - 1 = 0 /\ at[2] - 1 = 0
      BY <3>1
    <3> QED
      BY <1>1, <1>2, <3>2, <3>3, <3>4, <3>5, <3>6, <3>7 DEF B!Summed
  <2> QED
    BY <1>1, <2>1, <2>2
<1> QED
  BY <1>3, <1>4, <1>7, <1>8 DEF Way

(* A scan ends, in any order.                                                *)
LEMMA EvaluateHolds ==
  ASSUME Way, NEW i \in DOMAIN batch, B!Evaluate(i)
  PROVE  Way'
<1>1. PICK o \in {B!Outcome("complete", B!Hits(B!Unit(i)))} \cup { B!Outcome("cut", h) : h \in SUBSET B!Hits(B!Unit(i)) } :
        batch' = [batch EXCEPT ![i] = o]
  BY DEF B!Evaluate
<1>2. /\ held' = held /\ stage' = stage /\ input' = input /\ reach' = reach /\ at' = at /\ tally' = tally /\ sums' = sums
  BY DEF B!Evaluate
<1>3. B!Corpus' = B!Corpus
  BY <1>2 DEF B!Corpus
<1>4. stage = "units"
  <2>1. batch # <<>>
    OBVIOUS
  <2> QED
    BY <2>1 DEF Way, B!Standing
<1>5. B!Measuring' /\ B!Tried' /\ B!Summed'
  BY <1>2, <1>3, <1>4 DEF Way, B!Measuring, B!Tried, B!Summed
<1>6. B!Standing'
  <2>1. o.state = "complete" => o.hits = B!Hits(B!Unit(i))
    BY <1>1 DEF B!Outcome
  <2>2. DOMAIN batch' = DOMAIN batch /\ \A k \in DOMAIN batch' : batch'[k] = IF k = i THEN o ELSE batch[k]
    BY <1>1
  <2>3. batch # <<>>
    OBVIOUS
  <2>4. \A k \in DOMAIN batch' : batch'[k].state = "complete" => batch'[k].hits = B!Hits(B!Unit(k))
    BY <2>1, <2>2, <2>3 DEF Way, B!Standing
  <2>5. \A u : B!Hits(u)' = B!Hits(u)
    BY <1>2 DEF B!Hits, B!Runnable
  <2>6. \A k : B!Unit(k)' = B!Unit(k)
    BY <1>3 DEF B!Unit
  <2> QED
    BY <1>2, <1>3, <2>2, <2>3, <2>4 DEF Way, B!Standing, B!Hits, B!Runnable, B!Unit
<1> QED
  BY <1>5, <1>6 DEF Way

(* A scan was cut: nothing is written.                                        *)
LEMMA CutHolds ==
  ASSUME Way, B!ExampleScanCut \/ B!UnitScanCut
  PROVE  Way'
<1>1. B!Idle /\ held' = held
  BY DEF B!ExampleScanCut, B!UnitScanCut
<1> QED
  BY <1>1, IdleHolds DEF Way, B!Measuring

(* An outcome is taken, in the order of the units.                            *)
LEMMA ConsumeHolds ==
  ASSUME Way, B!Consume
  PROVE  Way'
<1>1. /\ at[2] \in DOMAIN batch /\ batch[at[2]].state = "complete"
      /\ tally' = B!Counted(B!Unit(at[2]), batch[at[2]].hits)
      /\ sums' = [sums EXCEPT !.findings = B!Added(@, batch[at[2]].hits), !.surfaces = @ \cup {B!Unit(at[2]).surface}]
      /\ at' = <<at[1], at[2] + 1>>
      /\ batch' = IF at[2] + 1 \in DOMAIN batch THEN batch ELSE <<>>
      /\ held' = held /\ stage' = stage /\ input' = input /\ reach' = reach
  BY DEF B!Consume, B!Usable
<1>2. batch # <<>>
  BY <1>1
<1>3. /\ at \in Nat \X Nat /\ at[1] > 0 /\ at[2] > 0 /\ stage = "units" /\ at[1] <= Len(input.corpora)
      /\ DOMAIN batch \subseteq 1 .. Len(B!Corpus.units)
      /\ \A i \in DOMAIN batch : batch[i].state = "complete" => batch[i].hits = B!Hits(B!Unit(i))
  BY <1>2 DEF Way, B!Standing
<1>4. PICK c, j, p : c = B!Corpus /\ j = at[1] /\ p = at[2]
  OBVIOUS
<1>5. /\ j \in DOMAIN input.corpora /\ c = input.corpora[j] /\ p \in Nat /\ p > 0 /\ p \in DOMAIN c.units /\ p \in 1 .. Len(c.units)
      /\ Len(c.units) \in Nat /\ DOMAIN c.units = 1 .. Len(c.units) /\ Apart(input.rules) /\ j \in Nat /\ Len(input.corpora) \in Nat
  BY <1>1, <1>3, <1>4, InputTyped DEF Way, B!Corpus
<1>6. /\ at' = <<j, p + 1>> /\ B!Corpus' = c
  BY <1>1, <1>4, <1>5 DEF B!Corpus
<1>7. PICK u, hits : u = c.units[p] /\ hits = batch[p].hits
  OBVIOUS
<1>8. B!Unit(at[2]) = u /\ hits = Found(input.rules, u) /\ B!Native(u) = FoundNative(input.rules, u)
  BY <1>1, <1>3, <1>4, <1>7 DEF B!Unit, B!Hits, B!Native, Found, FoundNative, B!Runnable, Running
<1>9. PICK old, new, rules : old = tally /\ new = tally' /\ rules = input.rules
  OBVIOUS
<1>10. new = [ counts |-> B!Added(old.counts, B!Keys(u)),
               bundle |-> IF hits \cap B!Native(u) = {} THEN old.bundle ELSE B!Added(old.bundle, B!Keys(u)),
               rule |-> B!Added(old.rule, hits \X B!Keys(u)),
               seen |-> old.seen \cup {<<u.surface, u.text>>},
               duplicates |-> old.duplicates + IF <<u.surface, u.text>> \in old.seen THEN 1 ELSE 0 ]
  BY <1>1, <1>4, <1>7, <1>8, <1>9 DEF B!Counted
<1>11. Steps(old, new, rules, u)
  BY <1>8, <1>9, <1>10 DEF Steps
<1>12. B!Tallied(new, rules, c, p)
  <2>1. PICK n \in Nat : n = p - 1 /\ n + 1 = p
    BY <1>5
  <2>2. B!Tallied(old, rules, c, n)
    BY <1>3, <1>4, <1>9, <2>1 DEF Way, B!Summed
  <2>3. B!Tallied(new, rules, c, n + 1)
    BY <1>5, <1>7, <1>9, <1>11, <2>1, <2>2, TallyStep
  <2> QED
    BY <2>1, <2>3
<1>13. /\ sums'.rows = sums.rows /\ sums'.faults = sums.faults /\ DOMAIN sums' = DOMAIN B!NoSums
       /\ sums'.findings = B!Added(sums.findings, hits) /\ sums'.surfaces = sums.surfaces \cup {u.surface}
  <2>1. DOMAIN sums = {"rows", "faults", "findings", "surfaces"} /\ DOMAIN B!NoSums = DOMAIN sums
    BY DEF Way, B!Measuring, B!NoSums
  <2> QED
    BY <1>1, <1>4, <1>7, <1>8, <2>1
<1>14. B!Measuring' /\ B!Tried'
  BY <1>1, <1>3, <1>13 DEF Way, B!Measuring, B!Tried
<1>15. B!Standing'
  <2>1. at' \in Nat \X Nat /\ at'[1] > 0 /\ at'[2] > 0 /\ at'[1] = j /\ at'[2] = p + 1
    BY <1>3, <1>4, <1>5, <1>6
  <2>2. at'[1] <= Len(input'.corpora) + 1 /\ at'[2] <= Len(c.units) + 1
    BY <1>1, <1>3, <1>4, <1>5, <2>1
  <2>3. ASSUME batch' # <<>>
        PROVE  /\ at'[2] \in DOMAIN batch' /\ DOMAIN batch' \subseteq 1 .. Len(c.units)
               /\ \A i \in DOMAIN batch' : batch'[i].state = "complete" => batch'[i].hits = B!Hits(B!Unit(i))'
    <3>1. batch' = batch /\ p + 1 \in DOMAIN batch
      BY <1>1, <1>4, <2>3
    <3>2. ASSUME NEW i \in DOMAIN batch PROVE B!Hits(B!Unit(i))' = B!Hits(B!Unit(i))
      BY <1>1, <1>4, <1>6 DEF B!Hits, B!Runnable, B!Unit
    <3> QED
      BY <1>3, <1>4, <2>1, <3>1, <3>2
  <2> QED
    BY <1>1, <1>3, <1>4, <1>6, <2>1, <2>2, <2>3 DEF B!Standing, B!Hits, B!Runnable, B!Unit
<1>16. B!Summed'
  <2>1. at'[1] = j /\ at'[2] - 1 = p
    BY <1>5, <1>6
  <2>2. /\ sums.rows = B!AllRows(input.rules, input.corpora, j - 1)
        /\ sums.faults = {} => \A k \in 1 .. j - 1 : B!Representative(input.corpora[k])
        /\ \A s \in sums.surfaces : \E k \in DOMAIN input.corpora : \E cell \in B!Cells(input.corpora[k]) : cell[1] = s
        /\ \A r \in B!ToSet(input.rules) : B!Times(sums.findings, r.id) \in Nat
    BY <1>3, <1>4 DEF Way, B!Summed
  <2>3. \E cell \in B!Cells(input.corpora[j]) : cell[1] = u.surface
    <3>1. <<u.surface, <<"all">>>> \in B!Cells(c)
      BY <1>5, <1>7, CellsOfUnits
    <3> QED
      BY <1>5, <3>1
  <2>4. \A s \in sums'.surfaces : \E k \in DOMAIN input.corpora : \E cell \in B!Cells(input.corpora[k]) : cell[1] = s
    BY <1>5, <1>13, <2>2, <2>3
  <2>5. ASSUME NEW r \in B!ToSet(input.rules) PROVE B!Times(sums'.findings, r.id) \in Nat
    <3>1. PICK counter, id : counter = sums.findings /\ id = r.id
      OBVIOUS
    <3>2. B!Times(counter, id) \in Nat
      BY <2>2, <3>1
    <3>3. B!Times(B!Added(counter, hits), id) \in Nat
      BY <3>2, AddedNat
    <3> QED
      BY <1>13, <3>1, <3>3
  <2>6. B!Tallied(tally', input.rules, c, p)
    BY <1>9, <1>12
  <2> QED
    BY <1>1, <1>6, <1>13, <2>1, <2>2, <2>4, <2>5, <2>6 DEF B!Summed
<1> QED
  BY <1>14, <1>15, <1>16 DEF Way

(* A corpus is over.                                                         *)
LEMMA FinishHolds ==
  ASSUME Way, B!FinishCorpus
  PROVE  Way'
<1>1. /\ stage = "units" /\ at[1] <= Len(input.corpora) /\ at[2] > Len(B!Corpus.units)
      /\ sums' = [sums EXCEPT !.rows = @ \cup B!CorpusRows, !.faults = @ \cup B!Faults]
      /\ tally' = B!NoTally /\ at' = <<at[1] + 1, 1>>
      /\ held' = held /\ stage' = stage /\ input' = input /\ reach' = reach /\ batch' = batch
  BY DEF B!FinishCorpus
<1>2. at \in Nat \X Nat /\ at[1] > 0 /\ at[2] > 0 /\ at[2] <= Len(B!Corpus.units) + 1
  BY <1>1 DEF Way, B!Standing
<1>3. PICK c, j, p : c = B!Corpus /\ j = at[1] /\ p = at[2]
  OBVIOUS
<1>4. /\ j \in DOMAIN input.corpora /\ c = input.corpora[j] /\ j \in Nat /\ p \in Nat /\ Len(c.units) \in Nat
      /\ Listed(c.units) /\ DOMAIN c.units = 1 .. Len(c.units) /\ Len(input.corpora) \in Nat
      /\ DOMAIN input.corpora = 1 .. Len(input.corpora)
  BY <1>1, <1>2, <1>3, InputTyped DEF Way, B!Corpus
<1>5. p - 1 = Len(c.units) /\ p > Len(c.units)
  BY <1>1, <1>2, <1>3, <1>4
<1>6. B!Tallied(tally, input.rules, c, Len(c.units))
  BY <1>1, <1>3, <1>5 DEF Way, B!Summed
<1>7. batch = <<>>
  <2>1. ASSUME batch # <<>> PROVE p \in 1 .. Len(c.units)
    BY <1>3, <2>1 DEF Way, B!Standing
  <2> QED
    BY <1>4, <1>5, <2>1
<1>8. /\ sums'.rows = sums.rows \cup B!TrueRows(input.rules, c) /\ sums'.faults = sums.faults \cup B!Faults
      /\ sums'.findings = sums.findings /\ sums'.surfaces = sums.surfaces /\ DOMAIN sums' = DOMAIN B!NoSums
  <2>1. DOMAIN sums = {"rows", "faults", "findings", "surfaces"} /\ DOMAIN B!NoSums = DOMAIN sums
    BY DEF Way, B!Measuring, B!NoSums
  <2>2. B!CorpusRows = B!TrueRows(input.rules, c)
    BY <1>3, <1>4, <1>6, RowsAreTrue
  <2> QED
    BY <1>1, <2>1, <2>2
<1>9. at' = <<j + 1, 1>>
  BY <1>1, <1>3
<1>10. B!Measuring' /\ B!Tried'
  BY <1>1, <1>8 DEF Way, B!Measuring, B!Tried
<1>11. Len(B!Corpus'.units) \in Nat \/ j + 1 > Len(input.corpora)
  <2>1. B!Corpus' = input.corpora[j + 1]
    BY <1>1, <1>4, <1>9 DEF B!Corpus
  <2>2. j + 1 <= Len(input.corpora) => j + 1 \in DOMAIN input.corpora
    BY <1>4
  <2> QED
    BY <1>1, <1>4, <2>1, <2>2, InputTyped DEF Way
<1>12. B!Standing'
  <2>1. at' \in Nat \X Nat /\ at'[1] = j + 1 /\ at'[2] = 1 /\ j + 1 <= Len(input.corpora) + 1
    BY <1>1, <1>3, <1>4, <1>9
  <2> QED
    BY <1>1, <1>4, <1>7, <1>11, <2>1 DEF B!Standing
<1>13. B!Summed'
  <2>1. at'[1] = j + 1 /\ at'[1] - 1 = j /\ at'[2] - 1 = 0
    BY <1>4, <1>9
  <2>2. /\ sums.rows = B!AllRows(input.rules, input.corpora, j - 1)
        /\ sums.faults = {} => \A k \in 1 .. j - 1 : B!Representative(input.corpora[k])
        /\ \A s \in sums.surfaces : \E k \in DOMAIN input.corpora : \E cell \in B!Cells(input.corpora[k]) : cell[1] = s
        /\ \A r \in B!ToSet(input.rules) : B!Times(sums.findings, r.id) \in Nat
    BY <1>1, <1>3 DEF Way, B!Summed
  <2>3. 1 .. j = (1 .. j - 1) \cup {j}
    BY <1>4
  <2>4. sums'.rows = B!AllRows(input.rules, input.corpora, j)
    <3>1. B!AllRows(input.rules, input.corpora, j) = B!AllRows(input.rules, input.corpora, j - 1) \cup B!TrueRows(input.rules, input.corpora[j])
      BY <2>3 DEF B!AllRows
    <3> QED
      BY <1>4, <1>8, <2>2, <3>1
  <2>5. ASSUME sums'.faults = {}, NEW k \in 1 .. j PROVE B!Representative(input.corpora[k])
    <3>1. sums.faults = {} /\ B!Faults = {}
      BY <1>8, <2>5
    <3>2. B!Representative(c)
      BY <1>3, <1>4, <1>6, <3>1, FaultFree
    <3> QED
      BY <1>4, <2>2, <2>3, <3>1, <3>2
  <2>6. B!Tallied(tally', input.rules, B!Corpus', 0)
    BY <1>1, TallyStarts
  <2> QED
    BY <1>1, <1>8, <2>1, <2>2, <2>4, <2>5, <2>6 DEF B!Summed
<1> QED
  BY <1>10, <1>12, <1>13 DEF Way

(* The report is written.                                                    *)
LEMMA ConcludeReports ==
  ASSUME Way, B!Conclude
  PROVE  Way' /\ B!Reported'
<1> DEFINE Index(id) == CHOOSE i \in DOMAIN input.rules : input.rules[i].id = id
           ids == { r.id : r \in B!ToSet(input.rules) }
<1>1. /\ stage = "units" /\ at[1] > Len(input.corpora) /\ B!Idle /\ held' = held
      /\ results' = [ rules |-> input.rules, corpora |-> input.corpora, rows |-> sums.rows, ok |-> B!BundleOK,
                      reach |-> [id \in ids |-> reach[Index(id)]],
                      hits  |-> [id \in ids |-> B!Times(sums.findings, id)] ]
  BY DEF B!Conclude
<1>2. Way'
  BY <1>1, IdleHolds DEF Way, B!Measuring
<1>3. PICK said : said = results'
  OBVIOUS
<1>4. /\ said.rules = input.rules /\ said.corpora = input.corpora /\ said.rows = sums.rows /\ said.ok = B!BundleOK
      /\ \A id \in ids : said.reach[id] = reach[Index(id)] /\ said.hits[id] = B!Times(sums.findings, id)
  BY <1>1, <1>3
<1>5. /\ input.rules \in RuleLists /\ input.corpora \in CorpusLists /\ B!Accepted(input.rules, input.corpora)
      /\ Apart(input.rules) /\ DOMAIN input.rules = 1 .. Len(input.rules)
      /\ DOMAIN input.corpora = 1 .. Len(input.corpora) /\ Len(input.corpora) \in Nat
  BY <1>1, InputTyped DEF Way, B!Measuring, Listed
<1>6. at[1] \in Nat /\ at[1] - 1 = Len(input.corpora)
  BY <1>1, <1>5 DEF Way, B!Standing
<1>7. /\ sums.rows = B!AllRows(input.rules, input.corpora, Len(input.corpora))
      /\ sums.faults = {} => \A k \in 1 .. Len(input.corpora) : B!Representative(input.corpora[k])
      /\ \A s \in sums.surfaces : \E k \in DOMAIN input.corpora : \E cell \in B!Cells(input.corpora[k]) : cell[1] = s
      /\ \A r \in B!ToSet(input.rules) : B!Times(sums.findings, r.id) \in Nat
  BY <1>1, <1>6 DEF Way, B!Summed
<1>8. ASSUME NEW r \in B!ToSet(input.rules)
      PROVE  said.reach[r.id] = B!Reachability(r) /\ said.hits[r.id] \in Nat
  <2>1. r.id \in ids
    OBVIOUS
  <2>2. PICK i \in DOMAIN input.rules : r = input.rules[i]
    BY DEF B!ToSet
  <2>3. Index(r.id) = i
    BY <1>5, <2>2 DEF Apart
  <2>4. reach[i] = B!Reachability(r)
    BY <1>1, <1>5, <2>2 DEF Way, B!Tried
  <2> QED
    BY <1>4, <1>7, <2>1, <2>3, <2>4
<1>9. ASSUME said.ok
      PROVE  /\ \A k \in DOMAIN input.corpora : B!Representative(input.corpora[k])
             /\ \A q \in B!ToSet(input.rules) : q.runnable =>
                  \E k \in DOMAIN input.corpora : \E cell \in B!Cells(input.corpora[k]) : cell[1] = q.surface
             /\ B!BundleRows(sums.rows) # {} /\ B!Within(B!Worst(B!BundleRows(sums.rows)), AdviseMax)
  <2>1. B!BundleOK
    BY <1>4, <1>9
  <2>2. \A q \in B!ToSet(input.rules) : q.runnable => q.surface \in sums.surfaces
    BY <2>1 DEF B!BundleOK, B!Enabled, B!Runnable
  <2> QED
    BY <1>5, <1>7, <2>1, <2>2 DEF B!BundleOK
<1>10. B!TrueReport(said)
  BY <1>4, <1>5, <1>7, <1>8, <1>9 DEF B!TrueReport
<1> QED
  BY <1>2, <1>3, <1>10 DEF B!Reported

(* The invariant holds at first and is kept.                                  *)
LEMMA BenchStarts == B!Init => B!BenchInv
<1> SUFFICES ASSUME B!Init PROVE B!BenchInv
  OBVIOUS
<1> USE DEF B!Init
<1>1. B!Measuring
  BY DEF B!Measuring
<1>2. B!Tried
  BY DEF B!Tried
<1>3. B!Standing /\ B!Summed
  BY DEF B!Standing, B!Summed
<1>4. B!Reported
  BY DEF B!Reported
<1>5. AdmissionIsEarned
  BY DEF AdmissionIsEarned, B!AdmissionIsEarned, B!Nobody
<1> QED
  BY <1>1, <1>2, <1>3, <1>4, <1>5 DEF B!BenchInv, AdmissionIsEarned

(* Every step of a benchmark keeps what BenchInv says of the report so far. *)
LEMMA BenchKept == B!BenchInv /\ [B!Next]_B!benchVars => B!BenchInv'
<1> SUFFICES ASSUME B!BenchInv, [B!Next]_B!benchVars PROVE B!BenchInv'
  OBVIOUS
<1>1. Way /\ B!Reported /\ AdmissionIsEarned /\ held \in RuleLists
  BY DEF B!BenchInv, Way, AdmissionIsEarned, B!Measuring
<1>2. ASSUME assigned' = assigned PROVE AdmissionIsEarned'
  BY <1>1, <1>2 DEF AdmissionIsEarned, B!AdmissionIsEarned, B!QuietOn
<1>3. ASSUME results' = results PROVE B!Reported'
  BY <1>1, <1>3 DEF B!Reported
<1>4. CASE \/ B!Begin \/ B!TryExamples \/ B!ExampleScanCut \/ B!StartBatch \/ (\E i \in DOMAIN batch : B!Evaluate(i))
           \/ B!Consume \/ B!UnitScanCut \/ B!FinishCorpus
  <2>1. results' = results /\ assigned' = assigned
    BY <1>4 DEF B!Begin, B!TryExamples, B!ExampleScanCut, B!StartBatch, B!Evaluate, B!Consume, B!UnitScanCut, B!FinishCorpus
  <2>2. Way'
    BY <1>1, <1>4, BeginHolds, TryHolds, CutHolds, StartHolds, EvaluateHolds, ConsumeHolds, FinishHolds
  <2> QED
    BY <1>2, <1>3, <2>1, <2>2 DEF B!BenchInv, Way, AdmissionIsEarned
<1>5. CASE B!Conclude
  <2>1. assigned' = assigned
    BY <1>5 DEF B!Conclude
  <2>2. Way' /\ B!Reported'
    BY <1>1, <1>5, ConcludeReports
  <2> QED
    BY <1>2, <2>1, <2>2 DEF B!BenchInv, Way, AdmissionIsEarned
<1>6. CASE B!Apply
  <2>1. UNCHANGED B!call /\ held' = held /\ results' = results
    BY <1>6 DEF B!Apply
  <2>2. Way' /\ AdmissionIsEarned'
    BY <1>1, <1>6, <2>1, WayStays, AppliedIsEarned
  <2> QED
    BY <1>3, <2>1, <2>2 DEF B!BenchInv, Way, AdmissionIsEarned
<1>7. CASE B!EditRules \/ UNCHANGED B!benchVars
  <2>1. UNCHANGED B!call /\ held' \in RuleLists /\ results' = results /\ assigned' = assigned
    BY <1>1, <1>7 DEF B!EditRules, B!benchVars
  <2>2. Way'
    BY <1>1, <2>1, WayStays
  <2> QED
    BY <1>2, <1>3, <2>1, <2>2 DEF B!BenchInv, Way, AdmissionIsEarned
<1> QED
  BY <1>4, <1>5, <1>6, <1>7 DEF B!Next

(* BenchInv holds throughout, as it does at the start.                      *)
LEMMA BenchHolds == B!Spec => []B!BenchInv
BY BenchStarts, BenchKept, PTL DEF B!Spec

(***************************************************************************)
(* A report counts, for every corpus, surface and stratum, exactly the units   *)
(* and exactly those a hook would have fired on, whatever order the scans of   *)
(* a batch end in and whatever benchmark was cut before.                       *)
(***************************************************************************)
THEOREM Counted == B!Spec => []CountsAreExact
<1>1. B!BenchInv => CountsAreExact
  BY ReportsCount DEF B!BenchInv
<1> QED
  BY <1>1, BenchHolds, PTL

(***************************************************************************)
(* Whoever gets ADVISE or DENY from a report has earned it: the rule itself    *)
(* and all rules together stay below the ceiling on every stratum of every    *)
(* corpus, and the corpora say enough.                                        *)
(***************************************************************************)
THEOREM Admitted == B!Spec => []AdmissionIsEarned
<1>1. B!BenchInv => AdmissionIsEarned
  BY DEF B!BenchInv, AdmissionIsEarned
<1> QED
  BY <1>1, BenchHolds, PTL
-----------------------------------------------------------------------------
(* Numbers, all of them. *)

(* A set with zero, and with the successor of every number in it, has every  *)
(* number.                                                                   *)
LEMMA SetInduction ==
  ASSUME NEW S, 0 \in S, \A n \in Nat : n \in S => n + 1 \in S
  PROVE  Nat \subseteq S
<1> SUFFICES ASSUME Nat \ S # {} PROVE FALSE
  OBVIOUS
<1>1. PICK m \in Nat \ S : \A k \in Nat \ S : m <= k
  BY SmallestNat
<1> QED
  BY <1>1

-----------------------------------------------------------------------------
(* Recursion over the numbers up to a length, once and for all. *)

(* f goes on from b by Go.                                                    *)
Follows(f, n, b, Go) ==
  f[0] = b /\ \A i \in 1 .. n : f[i] = Go[i][<<f[i - 1], IF i > 1 THEN f[i - 2] ELSE b>>]

(* Where f and g agree on the two numbers before one, they agree on it.       *)
Alike(f, g, n) ==
  f[0] = g[0] /\ \A i \in 1 .. n : f[i - 1] = g[i - 1] /\ (i > 1 => f[i - 2] = g[i - 2]) => f[i] = g[i]

(* A function on the numbers up to n whose values are determined by the two    *)
(* values before exists.                                                    *)
LEMMA Recursion ==
  ASSUME NEW V, NEW b \in V, NEW n \in Nat, NEW Go \in [1 .. n -> [V \X V -> V]]
  PROVE  \E f \in [0 .. n -> V] : Follows(f, n, b, Go)
<1> DEFINE Chain(g, m) ==
             g[0] = b /\ \A i \in 1 .. m : g[i] = Go[i][<<g[i - 1], IF i > 1 THEN g[i - 2] ELSE b>>]
           Good == { m \in Nat : m <= n => \E g \in [0 .. m -> V] : Chain(g, m) }
<1>1. 0 \in Good
  <2> DEFINE g == [i \in 0 .. 0 |-> b]
  <2>1. g \in [0 .. 0 -> V] /\ g[0] = b /\ 1 .. 0 = {}
    OBVIOUS
  <2> HIDE DEF g
  <2> QED
    BY <2>1
<1>2. ASSUME NEW m \in Nat, m \in Good PROVE m + 1 \in Good
  <2> SUFFICES ASSUME m + 1 <= n PROVE \E g \in [0 .. m + 1 -> V] : Chain(g, m + 1)
    OBVIOUS
  <2>1. PICK g \in [0 .. m -> V] : Chain(g, m)
    BY <1>2
  <2> DEFINE e == Go[m + 1][<<g[m], IF m + 1 > 1 THEN g[m - 1] ELSE b>>]
             h == [i \in 0 .. m + 1 |-> IF i = m + 1 THEN e ELSE g[i]]
  <2>2. e \in V
    <3>0. m + 1 \in 1 .. n
      OBVIOUS
    <3>1. Go[m + 1] \in [V \X V -> V]
      BY <3>0
    <3>2. g[m] \in V /\ (m + 1 > 1 => g[m - 1] \in V)
      BY <2>1
    <3> QED
      BY <3>1, <3>2
  <2> HIDE DEF e
  <2>3. h \in [0 .. m + 1 -> V]
    BY <2>1, <2>2
  <2>4. h[0] = b
    BY <2>1
  <2>5. ASSUME NEW i \in 1 .. m + 1
        PROVE  h[i] = Go[i][<<h[i - 1], IF i > 1 THEN h[i - 2] ELSE b>>]
    <3>1. CASE i = m + 1
      <4>1. h[i] = e /\ h[i - 1] = g[m] /\ (i > 1 => h[i - 2] = g[m - 1])
        BY <3>1
      <4> HIDE DEF h
      <4> QED
        BY <3>1, <4>1 DEF e
    <3>2. CASE i # m + 1
      <4>1. i \in 1 .. m /\ h[i] = g[i] /\ h[i - 1] = g[i - 1] /\ (i > 1 => h[i - 2] = g[i - 2])
        BY <3>2
      <4> HIDE DEF h
      <4> QED
        BY <2>1, <4>1
    <3> QED
      BY <3>1, <3>2
  <2> HIDE DEF h
  <2> QED
    BY <2>3, <2>4, <2>5
<1>3. n \in Good
  <2> HIDE DEF Good
  <2> QED
    BY <1>1, <1>2, SetInduction
<1> QED
  BY <1>3 DEF Follows

(* Two functions that start alike and go on alike are alike.                  *)
LEMMA SameSteps ==
  ASSUME NEW n \in Nat, NEW f, NEW g, Alike(f, g, n)
  PROVE  \A i \in 0 .. n : f[i] = g[i]
<1> DEFINE Good == { m \in Nat : \A i \in 0 .. m : i <= n => f[i] = g[i] }
<1>1. 0 \in Good
  BY DEF Alike
<1>2. ASSUME NEW m \in Nat, m \in Good PROVE m + 1 \in Good
  <2>1. m + 1 <= n => f[m + 1] = g[m + 1]
    <3> SUFFICES ASSUME m + 1 <= n PROVE f[m + 1] = g[m + 1]
      OBVIOUS
    <3>1. m + 1 \in 1 .. n /\ f[(m + 1) - 1] = g[(m + 1) - 1] /\ (m + 1 > 1 => f[(m + 1) - 2] = g[(m + 1) - 2])
      BY <1>2
    <3> QED
      BY <3>1 DEF Alike
  <2> QED
    BY <1>2, <2>1
<1>3. n \in Good
  <2> HIDE DEF Good
  <2> QED
    BY <1>1, <1>2, SetInduction
<1> QED
  BY <1>3

-----------------------------------------------------------------------------
(* Pairs of surrogates are numbers with two digits. *)

(* Digits say what they are of.                                              *)
LEMMA DigitsAre ==
  ASSUME NEW n \in Nat \ {0}, NEW a \in Nat, NEW b \in 0 .. n - 1
  PROVE  (a * n + b) \div n = a /\ (a * n + b) % n = b
OBVIOUS

(* Every number has its digits.                                              *)
LEMMA Digits ==
  ASSUME NEW k \in Nat, NEW n \in Nat \ {0}
  PROVE  \E a \in Nat, b \in 0 .. n - 1 : k = a * n + b /\ k \div n = a /\ k % n = b
<1>1. k \div n \in Nat /\ n * (k \div n) <= k /\ k < n * (k \div n) + n
  OBVIOUS
<1>2. PICK a \in Nat : a = k \div n
  BY <1>1
<1>3. PICK m \in Nat : m = a * n
  OBVIOUS
<1>4. n * a = a * n
  OBVIOUS
<1>5. m <= k /\ k < m + n
  BY <1>1, <1>2, <1>3, <1>4
<1>6. k = a * n + (k - m) /\ k - m \in 0 .. n - 1
  BY <1>3, <1>5
<1>7. k % n = k - m
  BY <1>6, DigitsAre
<1> QED
  BY <1>2, <1>6, <1>7

(* A product grows with its factor, by the other factor at least.             *)
LEMMA Products ==
  ASSUME NEW n \in Nat, NEW a \in Nat, NEW b \in Nat, a < b
  PROVE  a * n + n <= b * n
OBVIOUS
-----------------------------------------------------------------------------
(* Matching, token by token. *)

(* Where a match may be after each token.                                    *)
Runs(tokens, s, p, r) ==
  /\ r[0] = {p}
  /\ \A i \in 1 .. Len(tokens) :
       r[i] = IF tokens[i].kind = "star" THEN Repeatedly(tokens[i - 1], s, r[i - 2])
              ELSE Once(tokens[i], s, r[i - 1])

(* No condition begins with a star.                                          *)
Headed(tokens) == \A i \in 1 .. Len(tokens) : tokens[i].kind = "star" => i > 1

(* There is such a run, and it ends where Ends says.                          *)
LEMMA EndsRun ==
  ASSUME NEW T, NEW tokens \in Seq(T), Headed(tokens), NEW s, Len(s) \in Nat, NEW p \in Nat
  PROVE  \E r \in [0 .. Len(tokens) -> SUBSET Nat] :
           Runs(tokens, s, p, r) /\ Ends(tokens, s, p) = r[Len(tokens)]
<1> DEFINE n == Len(tokens)
           V == SUBSET Nat
           Next1(i, x) == IF tokens[i].kind = "star" THEN Repeatedly(tokens[i - 1], s, x[2])
                          ELSE Once(tokens[i], s, x[1])
           Go == [i \in 1 .. n |-> [x \in V \X V |-> Next1(i, x)]]
           F(f) == f = [i \in 0 .. n |->
                         IF i = 0 THEN {p}
                         ELSE IF tokens[i].kind = "star" THEN Repeatedly(tokens[i - 1], s, f[i - 2])
                         ELSE Once(tokens[i], s, f[i - 1])]
           first == CHOOSE f : F(f)
<1>1. n \in Nat /\ {p} \in V
  OBVIOUS
<1>2. ASSUME NEW i \in 1 .. n, NEW x \in V \X V PROVE Next1(i, x) \in V
  <2>1. \A token : Repeatedly(token, s, x[2]) \subseteq Nat
    BY DEF Repeatedly
  <2>2. \A token : Once(token, s, x[1]) \subseteq Nat
    BY DEF Once
  <2> QED
    BY <2>1, <2>2
<1>3. Go \in [1 .. n -> [V \X V -> V]]
  BY <1>2
<1>4. PICK f \in [0 .. n -> V] : Follows(f, n, {p}, Go)
  <2> HIDE DEF V, Go, n
  <2> QED
    BY <1>1, <1>3, Recursion
<1>5. ASSUME NEW i \in 1 .. n
      PROVE  f[i] = IF tokens[i].kind = "star" THEN Repeatedly(tokens[i - 1], s, f[i - 2])
                    ELSE Once(tokens[i], s, f[i - 1])
  <2>1. f[i - 1] \in V /\ (i > 1 => f[i - 2] \in V)
    <3>1. i - 1 \in 0 .. n /\ (i > 1 => i - 2 \in 0 .. n)
      BY <1>1
    <3> HIDE DEF V, Go, n
    <3> QED
      BY <1>4, <3>1
  <2> DEFINE x == <<f[i - 1], IF i > 1 THEN f[i - 2] ELSE {p}>>
  <2>2. x \in V \X V /\ x[1] = f[i - 1] /\ (i > 1 => x[2] = f[i - 2])
    BY <1>1, <2>1
  <2>3. f[i] = Go[i][x]
    <3> HIDE DEF Go, V
    <3> QED
      BY <1>4 DEF Follows
  <2>4. Go[i][x] = Next1(i, x)
    <3> HIDE DEF x, Next1, V
    <3> QED
      BY <2>2
  <2> HIDE DEF x, Go
  <2>5. tokens[i].kind = "star" => i > 1
    BY DEF Headed
  <2> QED
    BY <2>2, <2>3, <2>4, <2>5
<1>6. F(f)
  <2> HIDE DEF Go
  <2>1. f = [i \in 0 .. n |-> f[i]]
    BY <1>4
  <2>2. ASSUME NEW i \in 0 .. n
        PROVE  f[i] = IF i = 0 THEN {p}
                      ELSE IF tokens[i].kind = "star" THEN Repeatedly(tokens[i - 1], s, f[i - 2])
                      ELSE Once(tokens[i], s, f[i - 1])
    <3>1. CASE i = 0
      BY <1>4, <3>1 DEF Follows
    <3>2. CASE i # 0
      BY <1>5, <3>2
    <3> QED
      BY <3>1, <3>2
  <2> QED
    BY <2>1, <2>2
<1>7. F(first)
  BY <1>6
<1>8. \A i \in 0 .. n : first[i] = f[i]
  <2> HIDE DEF first, Go
  <2>1. first[0] = f[0]
    BY <1>1, <1>4, <1>7 DEF Follows
  <2>2. ASSUME NEW i \in 1 .. n, first[i - 1] = f[i - 1] /\ (i > 1 => first[i - 2] = f[i - 2])
        PROVE  first[i] = f[i]
    <3>0. i \in 0 .. n /\ i # 0
      OBVIOUS
    <3>1. first[i] = IF tokens[i].kind = "star" THEN Repeatedly(tokens[i - 1], s, first[i - 2])
                     ELSE Once(tokens[i], s, first[i - 1])
      BY <1>7, <3>0
    <3>2. tokens[i].kind = "star" => i > 1
      BY DEF Headed
    <3> QED
      BY <1>5, <2>2, <3>1, <3>2
  <2>3. Alike(first, f, n)
    BY <2>1, <2>2 DEF Alike
  <2> HIDE DEF n, F
  <2> QED
    BY <1>1, <2>3, SameSteps
<1>9. Ends(tokens, s, p) = first[n]
  BY DEF Ends
<1>10. Runs(tokens, s, p, f)
  <2> HIDE DEF Go
  <2> QED
    BY <1>4, <1>5 DEF Runs, Follows
<1> QED
  <2> HIDE DEF first, Go
  <2> QED
    BY <1>1, <1>4, <1>8, <1>9, <1>10

(* Every run ends there.                                                     *)
LEMMA EndsOfRun ==
  ASSUME NEW T, NEW tokens \in Seq(T), Headed(tokens), NEW s, Len(s) \in Nat, NEW p \in Nat,
         NEW g, Runs(tokens, s, p, g)
  PROVE  Ends(tokens, s, p) = g[Len(tokens)]
<1> DEFINE n == Len(tokens)
<1>0. n \in Nat
  OBVIOUS
<1>1. PICK r \in [0 .. n -> SUBSET Nat] : Runs(tokens, s, p, r) /\ Ends(tokens, s, p) = r[n]
  BY EndsRun
<1>2. ASSUME NEW i \in 1 .. n, r[i - 1] = g[i - 1] /\ (i > 1 => r[i - 2] = g[i - 2])
      PROVE  r[i] = g[i]
  <2>1. /\ r[i] = IF tokens[i].kind = "star" THEN Repeatedly(tokens[i - 1], s, r[i - 2])
                  ELSE Once(tokens[i], s, r[i - 1])
        /\ g[i] = IF tokens[i].kind = "star" THEN Repeatedly(tokens[i - 1], s, g[i - 2])
                  ELSE Once(tokens[i], s, g[i - 1])
    BY <1>1 DEF Runs
  <2>2. tokens[i].kind = "star" => i > 1
    BY DEF Headed
  <2> QED
    BY <1>2, <2>1, <2>2
<1>3. r[0] = g[0]
  BY <1>1 DEF Runs
<1>4. \A i \in 0 .. n : r[i] = g[i]
  <2>1. Alike(r, g, n)
    BY <1>2, <1>3 DEF Alike
  <2> HIDE DEF n
  <2> QED
    BY <1>0, <2>1, SameSteps
<1> QED
  BY <1>0, <1>1, <1>4

(* Nothing matches where it begins.                                          *)
LEMMA EndsEmpty ==
  ASSUME NEW s, Len(s) \in Nat, NEW p \in Nat
  PROVE  Ends(<<>>, s, p) = {p}
<1>1. <<>> \in Seq({}) /\ Len(<<>>) = 0
  OBVIOUS
<1>2. Headed(<<>>)
  BY <1>1 DEF Headed
<1>3. PICK r \in [0 .. 0 -> SUBSET Nat] : Runs(<<>>, s, p, r) /\ Ends(<<>>, s, p) = r[0]
  BY <1>1, <1>2, EndsRun
<1> QED
  BY <1>3 DEF Runs

(* A run over a condition is one over all but its last token, up to there.    *)
LEMMA RunPrefix ==
  ASSUME NEW T, NEW tokens \in Seq(T), NEW token \in T, Headed(Append(tokens, token)),
         NEW s, NEW p, NEW r, Runs(Append(tokens, token), s, p, r)
  PROVE  Headed(tokens) /\ Runs(tokens, s, p, r)
<1> DEFINE more == Append(tokens, token)
<1>1. Len(tokens) \in Nat /\ Len(more) = Len(tokens) + 1 /\ \A i \in 1 .. Len(tokens) : more[i] = tokens[i]
  OBVIOUS
<1> HIDE DEF more
<1>2. Headed(tokens)
  <2> SUFFICES ASSUME NEW i \in 1 .. Len(tokens), tokens[i].kind = "star" PROVE i > 1
    BY DEF Headed
  <2>1. i \in 1 .. Len(more) /\ more[i].kind = "star"
    BY <1>1
  <2> QED
    BY <2>1 DEF Headed, more
<1>3. Runs(tokens, s, p, r)
  <2>1. r[0] = {p}
    BY DEF Runs
  <2>2. ASSUME NEW i \in 1 .. Len(tokens)
        PROVE  r[i] = IF tokens[i].kind = "star" THEN Repeatedly(tokens[i - 1], s, r[i - 2])
                      ELSE Once(tokens[i], s, r[i - 1])
    <3>1. i \in 1 .. Len(more) /\ more[i] = tokens[i] /\ (i > 1 => more[i - 1] = tokens[i - 1])
      BY <1>1
    <3>2. more[i].kind = "star" => i > 1
      BY <3>1 DEF Headed, more
    <3>3. r[i] = IF more[i].kind = "star" THEN Repeatedly(more[i - 1], s, r[i - 2])
                 ELSE Once(more[i], s, r[i - 1])
      BY <3>1 DEF Runs, more
    <3> QED
      BY <3>1, <3>2, <3>3
  <2> QED
    BY <2>1, <2>2 DEF Runs
<1> QED
  BY <1>2, <1>3

(* One token more is taken once.                                             *)
LEMMA EndsOnce ==
  ASSUME NEW T, NEW tokens \in Seq(T), NEW token \in T, token.kind # "star", Headed(tokens),
         NEW s, Len(s) \in Nat, NEW p \in Nat
  PROVE  Headed(Append(tokens, token)) /\ Ends(Append(tokens, token), s, p) = Once(token, s, Ends(tokens, s, p))
<1> DEFINE more == Append(tokens, token)
<1>1. /\ more \in Seq(T) /\ Len(tokens) \in Nat /\ Len(more) = Len(tokens) + 1 /\ more[Len(tokens) + 1] = token
      /\ \A i \in 1 .. Len(tokens) : more[i] = tokens[i]
  OBVIOUS
<1>2. Headed(more)
  <2> HIDE DEF more
  <2> SUFFICES ASSUME NEW i \in 1 .. Len(more), more[i].kind = "star" PROVE i > 1
    BY DEF Headed
  <2>1. i \in 1 .. Len(tokens) /\ tokens[i].kind = "star"
    BY <1>1
  <2> QED
    BY <2>1 DEF Headed
<1>3. PICK r \in [0 .. Len(more) -> SUBSET Nat] : Runs(more, s, p, r) /\ Ends(more, s, p) = r[Len(more)]
  BY <1>1, <1>2, EndsRun
<1>4. Runs(tokens, s, p, r)
  BY <1>2, <1>3, RunPrefix
<1>5. Ends(tokens, s, p) = r[Len(tokens)]
  BY <1>4, EndsOfRun
<1>6. r[Len(tokens) + 1] = Once(token, s, r[Len(tokens)])
  <2> HIDE DEF more
  <2>1. Len(tokens) + 1 \in 1 .. Len(more) /\ (Len(tokens) + 1) - 1 = Len(tokens)
    BY <1>1
  <2> QED
    BY <1>1, <1>3, <2>1 DEF Runs
<1> HIDE DEF more
<1>7. Ends(more, s, p) = Once(token, s, Ends(tokens, s, p))
  BY <1>1, <1>3, <1>5, <1>6
<1> QED
  BY <1>2, <1>7 DEF more

(* One token and a star are that token taken repeatedly.                      *)
LEMMA EndsRepeatedly ==
  ASSUME NEW T, NEW tokens \in Seq(T), NEW token \in T, NEW star \in T,
         token.kind # "star", star.kind = "star", Headed(tokens), NEW s, Len(s) \in Nat, NEW p \in Nat
  PROVE  /\ Headed(Append(Append(tokens, token), star))
         /\ Ends(Append(Append(tokens, token), star), s, p) = Repeatedly(token, s, Ends(tokens, s, p))
<1> DEFINE mid == Append(tokens, token)
           more == Append(mid, star)
<1>1. /\ mid \in Seq(T) /\ Len(tokens) \in Nat /\ Len(mid) = Len(tokens) + 1
      /\ mid[Len(tokens) + 1] = token
  OBVIOUS
<1>2. Headed(mid)
  BY EndsOnce
<1>3. /\ more \in Seq(T) /\ Len(more) = Len(mid) + 1 /\ more[Len(mid) + 1] = star
      /\ \A i \in 1 .. Len(mid) : more[i] = mid[i]
  <2> HIDE DEF mid
  <2> QED
    BY <1>1
<1>4. Headed(more)
  <2> HIDE DEF more, mid
  <2> SUFFICES ASSUME NEW i \in 1 .. Len(more), more[i].kind = "star" PROVE i > 1
    BY DEF Headed
  <2>1. CASE i = Len(mid) + 1
    BY <1>1, <2>1
  <2>2. CASE i # Len(mid) + 1
    <3>1. i \in 1 .. Len(mid) /\ mid[i].kind = "star"
      BY <1>1, <1>3, <2>2
    <3> QED
      BY <1>2, <3>1 DEF Headed
  <2> QED
    BY <2>1, <2>2
<1>5. PICK r \in [0 .. Len(more) -> SUBSET Nat] : Runs(more, s, p, r) /\ Ends(more, s, p) = r[Len(more)]
  BY <1>3, <1>4, EndsRun
<1>6. Runs(mid, s, p, r)
  <2> HIDE DEF mid
  <2> QED
    BY <1>1, <1>4, <1>5, RunPrefix
<1>7. Runs(tokens, s, p, r)
  BY <1>2, <1>6, RunPrefix
<1>8. Ends(tokens, s, p) = r[Len(tokens)]
  BY <1>7, EndsOfRun
<1>9. r[Len(mid) + 1] = Repeatedly(token, s, r[Len(tokens)])
  <2> HIDE DEF more, mid
  <2>1. /\ Len(mid) + 1 \in 1 .. Len(more) /\ (Len(mid) + 1) - 1 = Len(mid) /\ (Len(mid) + 1) - 2 = Len(tokens)
        /\ Len(mid) \in 1 .. Len(mid) /\ more[Len(mid)] = token
    BY <1>1, <1>3
  <2> QED
    BY <1>3, <1>5, <2>1 DEF Runs
<1> HIDE DEF more
<1>10. Ends(more, s, p) = Repeatedly(token, s, Ends(tokens, s, p))
  <2> HIDE DEF mid
  <2> QED
    BY <1>3, <1>5, <1>8, <1>9
<1> QED
  BY <1>4, <1>10 DEF more
-----------------------------------------------------------------------------
(* Joining sequences, one after the other. *)

(* The sequences joined so far, and the whole.                               *)
Joins(f, seqs) == f[0] = <<>> /\ \A i \in 1 .. Len(seqs) : f[i] = f[i - 1] \o seqs[i]

(* Flattening is joining one sequence after the other.                      *)
LEMMA FlattenSteps ==
  ASSUME NEW S, NEW seqs \in Seq(Seq(S))
  PROVE  \E f \in [0 .. Len(seqs) -> Seq(S)] : Joins(f, seqs) /\ FlattenSeq(seqs) = f[Len(seqs)]
<1> DEFINE n == Len(seqs)
           V == Seq(S)
           Go == [i \in 1 .. n |-> [x \in V \X V |-> x[1] \o seqs[i]]]
           F(g) == g = [i \in 1 .. n |-> IF i = 1 THEN seqs[i] ELSE g[i - 1] \o seqs[i]]
           first == CHOOSE g : F(g)
<1>1. n \in Nat /\ <<>> \in V /\ \A i \in 1 .. n : seqs[i] \in V
  OBVIOUS
<1>2. Go \in [1 .. n -> [V \X V -> V]]
  BY <1>1
<1>3. PICK f \in [0 .. n -> V] : Follows(f, n, <<>>, Go)
  <2> HIDE DEF V, Go, n
  <2> QED
    BY <1>1, <1>2, Recursion
<1>4. ASSUME NEW i \in 1 .. n PROVE f[i] = f[i - 1] \o seqs[i]
  <2>1. i - 1 \in 0 .. n /\ (i > 1 => i - 2 \in 0 .. n)
    BY <1>1
  <2>2. f[i - 1] \in V /\ (i > 1 => f[i - 2] \in V)
    <3> HIDE DEF V, Go, n
    <3> QED
      BY <1>3, <2>1
  <2> DEFINE x == <<f[i - 1], IF i > 1 THEN f[i - 2] ELSE <<>> >>
  <2>3. x \in V \X V /\ x[1] = f[i - 1]
    <3> HIDE DEF V
    <3> QED
      BY <1>1, <2>2
  <2>4. f[i] = Go[i][x]
    <3> HIDE DEF Go, V
    <3> QED
      BY <1>3 DEF Follows
  <2>5. Go[i][x] = x[1] \o seqs[i]
    <3> HIDE DEF x, V
    <3> QED
      BY <2>3
  <2> HIDE DEF Go, x
  <2> QED
    BY <2>3, <2>4, <2>5
<1>5. Joins(f, seqs)
  BY <1>3, <1>4 DEF Joins, Follows
<1>7. n # 0 => f[1] = seqs[1]
  <2> SUFFICES ASSUME n # 0 PROVE f[1] = seqs[1]
    OBVIOUS
  <2>1. 1 \in 1 .. n /\ 1 - 1 = 0
    BY <1>1
  <2>2. f[1] = f[1 - 1] \o seqs[1]
    BY <1>4, <2>1
  <2>3. f[0] = <<>>
    BY <1>5 DEF Joins
  <2>4. PICK a \in Seq(S) : a = seqs[1]
    BY <1>1, <2>1
  <2>5. <<>> \o a = a
    OBVIOUS
  <2> QED
    BY <2>1, <2>2, <2>3, <2>4, <2>5
<1>6. FlattenSeq(seqs) = f[n]
  <2>1. CASE n = 0
    <3>1. FlattenSeq(seqs) = seqs /\ seqs = <<>>
      BY <2>1 DEF FlattenSeq
    <3> QED
      BY <1>5, <2>1, <3>1 DEF Joins
  <2>2. CASE n # 0
    <3> DEFINE h == [i \in 1 .. n |-> f[i]]
    <3>1. F(h)
      <4>1. ASSUME NEW i \in 1 .. n PROVE h[i] = IF i = 1 THEN seqs[i] ELSE h[i - 1] \o seqs[i]
        <5>1. CASE i = 1
          BY <1>7, <5>1
        <5>2. CASE i # 1
          <6>1. i - 1 \in 1 .. n
            BY <5>2
          <6> QED
            BY <1>4, <5>2, <6>1
        <5> QED
          BY <5>1, <5>2
      <4> QED
        BY <4>1
    <3>2. F(first)
      <4> HIDE DEF h
      <4> QED
        BY <3>1
    <3> DEFINE g == [i \in 0 .. n |-> IF i = 0 THEN <<>> ELSE first[i]]
    <3>3. Alike(g, f, n)
      <4> HIDE DEF first
      <4>1. ASSUME NEW i \in 1 .. n, g[i - 1] = f[i - 1] PROVE g[i] = f[i]
        <5>1. first[i] = IF i = 1 THEN seqs[i] ELSE first[i - 1] \o seqs[i]
          BY <3>2
        <5>2. CASE i = 1
          BY <1>7, <5>1, <5>2
        <5>3. CASE i # 1
          <6>1. g[i - 1] = first[i - 1] /\ g[i] = first[i]
            BY <5>3
          <6> HIDE DEF g
          <6> QED
            BY <1>4, <4>1, <5>1, <5>3, <6>1
        <5> QED
          BY <5>2, <5>3
      <4>2. g[0] = f[0]
        BY <1>1, <1>5 DEF Joins
      <4> HIDE DEF g
      <4> QED
        BY <4>1, <4>2 DEF Alike
    <3>4. g[n] = f[n]
      <4> HIDE DEF g, n
      <4> QED
        BY <1>1, <3>3, SameSteps
    <3>5. g[n] = first[n]
      BY <1>1, <2>2
    <3>6. FlattenSeq(seqs) = first[n]
      BY <2>2 DEF FlattenSeq
    <3> HIDE DEF first, g
    <3> QED
      BY <3>4, <3>5, <3>6
  <2> QED
    BY <2>1, <2>2
<1> HIDE DEF Go, V
<1> QED
  BY <1>3, <1>5, <1>6 DEF V

(* What was joined by step k is as it was at step j.                         *)
Stay(f, k, j) == Len(f[k]) <= Len(f[j]) /\ \A m \in 1 .. Len(f[k]) : f[j][m] = f[k][m]

(* What was joined first stays in its place.                                 *)
LEMMA JoinsStay ==
  ASSUME NEW S, NEW seqs \in Seq(Seq(S)), NEW f \in [0 .. Len(seqs) -> Seq(S)], Joins(f, seqs),
         NEW k \in 0 .. Len(seqs)
  PROVE  \A j \in k .. Len(seqs) : Stay(f, k, j)
<1> DEFINE n == Len(seqs)
           Stays(j) == Len(f[k]) <= Len(f[j]) /\ \A m \in 1 .. Len(f[k]) : f[j][m] = f[k][m]
           Good == { d \in Nat : k + d <= n => Stays(k + d) }
<1>1. n \in Nat /\ \A i \in 0 .. n : f[i] \in Seq(S) /\ Len(f[i]) \in Nat
  OBVIOUS
<1>2. 0 \in Good
  BY <1>1
<1>3. ASSUME NEW d \in Nat, d \in Good PROVE d + 1 \in Good
  <2> SUFFICES ASSUME k + (d + 1) <= n PROVE Stays(k + (d + 1))
    OBVIOUS
  <2>1. PICK j \in 1 .. n : j = k + (d + 1) /\ j - 1 = k + d /\ j - 1 \in 0 .. n
    BY <1>1
  <2>2. Stays(j - 1)
    BY <1>3, <2>1
  <2>3. f[j] = f[j - 1] \o seqs[j]
    BY <2>1 DEF Joins
  <2>4. PICK a \in Seq(S) : a = f[j - 1]
    BY <1>1, <2>1
  <2>5. PICK b \in Seq(S) : b = seqs[j]
    BY <2>1
  <2>6. Len(a) \in Nat /\ Len(b) \in Nat /\ Len(a \o b) = Len(a) + Len(b) /\ \A m \in 1 .. Len(a) : (a \o b)[m] = a[m]
    OBVIOUS
  <2>7. Stays(j)
    <3>1. Len(f[k]) \in Nat /\ Len(f[k]) <= Len(a)
      BY <1>1, <2>2, <2>4
    <3>2. \A m \in 1 .. Len(f[k]) : m \in 1 .. Len(a) /\ a[m] = f[k][m]
      BY <2>2, <2>4, <2>6, <3>1
    <3>3. f[j] = a \o b
      BY <2>3, <2>4, <2>5
    <3>4. Len(f[k]) <= Len(f[j])
      BY <2>6, <3>1, <3>3
    <3>5. ASSUME NEW m \in 1 .. Len(f[k]) PROVE f[j][m] = f[k][m]
      BY <2>6, <3>2, <3>3
    <3> QED
      BY <3>4, <3>5
  <2> QED
    BY <2>1, <2>7
<1>4. Nat \subseteq Good
  <2> HIDE DEF Good
  <2> QED
    BY <1>2, <1>3, SetInduction
<1>5. ASSUME NEW j \in k .. n PROVE Stays(j)
  <2>1. j - k \in Nat /\ k + (j - k) = j
    BY <1>1
  <2>2. j - k \in Good
    BY <1>4, <2>1
  <2> QED
    BY <2>1, <2>2
<1> QED
  BY <1>5 DEF Stay
-----------------------------------------------------------------------------
(* A text and its code units. *)

(* The surrogates of a point beyond them.                                    *)
High(c) == HighFirst + (c - Astral) \div LowCount
Low(c) == LowFirst + ((c - Astral) % LowCount)

(* The blocks are numbers, and they lie below the points they encode.         *)
LEMMA Blocks ==
  /\ HighFirst \in Nat /\ HighLast \in Nat /\ LowFirst \in Nat /\ LowLast \in Nat /\ Astral \in Nat
  /\ MaxPortedRanges \in Nat
  /\ HighFirst <= HighLast /\ HighLast < LowFirst /\ LowFirst <= LowLast /\ LowLast < Astral
  /\ LowCount \in Nat \ {0} /\ LowCount = LowLast - LowFirst + 1
<1>1. /\ HighFirst \in Nat /\ HighLast \in Nat /\ LowFirst \in Nat /\ LowLast \in Nat /\ Astral \in Nat
      /\ MaxPortedRanges \in Nat
  BY BlocksAssumption
<1> QED
  BY <1>1, BlocksAssumption DEF LowCount

(* A pair of surrogates and the point it encodes determine each other.        *)
LEMMA PairOf ==
  ASSUME NEW h \in HighFirst .. HighLast, NEW l \in LowFirst .. LowLast
  PROVE  /\ CodePoint(h, l) \in Nat /\ CodePoint(h, l) >= Astral
         /\ High(CodePoint(h, l)) = h /\ Low(CodePoint(h, l)) = l
<1> DEFINE a == h - HighFirst
           b == l - LowFirst
<1>1. a \in Nat /\ b \in 0 .. LowCount - 1 /\ LowCount \in Nat \ {0} /\ Astral \in Nat
  BY Blocks
<1>2. CodePoint(h, l) = Astral + a * LowCount + b
  BY DEF CodePoint
<1> HIDE DEF a, b
<1>3. (a * LowCount + b) \div LowCount = a /\ (a * LowCount + b) % LowCount = b
  BY <1>1, DigitsAre
<1>4. PICK m \in Nat : m = a * LowCount
  BY <1>1
<1>5. CodePoint(h, l) = Astral + (m + b) /\ CodePoint(h, l) - Astral = m + b /\ m + b \in Nat
  BY <1>1, <1>2, <1>4
<1>6. (CodePoint(h, l) - Astral) \div LowCount = a /\ (CodePoint(h, l) - Astral) % LowCount = b
  BY <1>3, <1>4, <1>5
<1>7. HighFirst + a = h /\ LowFirst + b = l
  BY Blocks DEF a, b
<1> QED
  BY <1>1, <1>5, <1>6, <1>7 DEF High, Low

(* Every point beyond the surrogates has a pair.                             *)
LEMMA SurrogatesOf ==
  ASSUME NEW c \in Scalars, c >= Astral
  PROVE  High(c) \in HighFirst .. HighLast /\ Low(c) \in LowFirst .. LowLast /\ c = CodePoint(High(c), Low(c))
<1> DEFINE k == c - Astral
           top == HighLast - HighFirst
<1>1. c \in Nat /\ c <= CodePoint(HighLast, LowLast) /\ k \in Nat /\ top \in Nat
  <2>1. CodePoint(HighLast, LowLast) \in Nat
    BY Blocks, PairOf
  <2> QED
    BY <2>1, Blocks DEF Scalars
<1>2. PICK a \in Nat, b \in 0 .. LowCount - 1 : k = a * LowCount + b /\ k \div LowCount = a /\ k % LowCount = b
  <2> HIDE DEF k
  <2> QED
    BY <1>1, Blocks, Digits
<1>3. PICK m \in Nat : m = a * LowCount
  BY Blocks
<1>4. PICK t \in Nat : t = top * LowCount
  BY <1>1, Blocks
<1>5. CodePoint(HighLast, LowLast) = Astral + t + (LowCount - 1)
  BY <1>4, Blocks DEF CodePoint
<1>6. m <= t + (LowCount - 1)
  BY <1>1, <1>2, <1>3, <1>5, Blocks
<1>7. a <= top
  <2> SUFFICES ASSUME top < a PROVE FALSE
    BY <1>1
  <2>1. top * LowCount + LowCount <= a * LowCount
    <3> HIDE DEF top
    <3> QED
      BY <1>1, Blocks, Products
  <2> QED
    BY <1>3, <1>4, <1>6, <2>1, Blocks
<1>8. High(c) = HighFirst + a /\ Low(c) = LowFirst + b
  BY <1>2 DEF High, Low
<1>9. CodePoint(High(c), Low(c)) = Astral + m + b
  BY <1>3, <1>8, Blocks DEF CodePoint
<1> QED
  BY <1>1, <1>2, <1>3, <1>7, <1>8, <1>9, Blocks

(* off[k] units encode the first k points of the text.                       *)
Encodes(off, s, U) ==
  /\ off \in [0 .. Len(s) -> Nat] /\ off[0] = 0 /\ off[Len(s)] = Len(U)
  /\ \A k \in 1 .. Len(s) :
       IF s[k] < Astral THEN off[k] = off[k - 1] + 1 /\ U[off[k - 1] + 1] = s[k]
       ELSE off[k] = off[k - 1] + 2 /\ U[off[k - 1] + 1] = High(s[k]) /\ U[off[k - 1] + 2] = Low(s[k])

(* The units of a text encode its points one by one.                        *)
LEMMA UnitsEncode ==
  ASSUME NEW s \in Seq(Scalars)
  PROVE  Units(s) \in Seq(Nat) /\ \E off : Encodes(off, s, Units(s))
<1> DEFINE n == Len(s)
           seqs == [i \in DOMAIN s |-> UnitsOf(s[i])]
<1>1. n \in Nat /\ DOMAIN s = 1 .. n /\ \A i \in 1 .. n : s[i] \in Scalars /\ s[i] \in Nat
  <2>1. Scalars \subseteq Nat
    BY Blocks, PairOf DEF Scalars
  <2>2. n \in Nat /\ DOMAIN s = 1 .. n /\ \A i \in 1 .. n : s[i] \in Scalars
    OBVIOUS
  <2> HIDE DEF n
  <2> QED
    BY <2>1, <2>2
<1>2. ASSUME NEW i \in 1 .. n
      PROVE  /\ UnitsOf(s[i]) \in Seq(Nat)
             /\ s[i] < Astral => UnitsOf(s[i]) = <<s[i]>>
             /\ ~(s[i] < Astral) => UnitsOf(s[i]) = <<High(s[i]), Low(s[i])>> /\ High(s[i]) \in Nat /\ Low(s[i]) \in Nat
  <2>1. CASE s[i] < Astral
    BY <1>1, <2>1 DEF UnitsOf
  <2>2. CASE ~(s[i] < Astral)
    <3>1. High(s[i]) \in Nat /\ Low(s[i]) \in Nat
      BY <1>1, <2>2, SurrogatesOf, Blocks
    <3>2. UnitsOf(s[i]) = <<High(s[i]), Low(s[i])>>
      BY <2>2 DEF UnitsOf, High, Low
    <3> QED
      BY <2>2, <3>1, <3>2
  <2> QED
    BY <2>1, <2>2
<1>3. seqs \in Seq(Seq(Nat)) /\ Len(seqs) = n /\ \A i \in 1 .. n : seqs[i] = UnitsOf(s[i])
  BY <1>1, <1>2
<1>4. Units(s) = FlattenSeq(seqs)
  BY DEF Units
<1> HIDE DEF seqs
<1>5. PICK f \in [0 .. n -> Seq(Nat)] : Joins(f, seqs) /\ FlattenSeq(seqs) = f[n]
  BY <1>3, FlattenSteps
<1> DEFINE off == [k \in 0 .. n |-> Len(f[k])]
           U == f[n]
<1>6. \A k \in 0 .. n : f[k] \in Seq(Nat) /\ Len(f[k]) \in Nat /\ off[k] = Len(f[k])
  BY <1>5
<1>7. ASSUME NEW k \in 1 .. n
      PROVE  IF s[k] < Astral THEN off[k] = off[k - 1] + 1 /\ U[off[k - 1] + 1] = s[k]
             ELSE off[k] = off[k - 1] + 2 /\ U[off[k - 1] + 1] = High(s[k]) /\ U[off[k - 1] + 2] = Low(s[k])
  <2>0. k - 1 \in 0 .. n /\ k \in 0 .. n /\ n \in k .. n
    BY <1>1
  <2>1. PICK a \in Seq(Nat) : a = f[k - 1] /\ Len(a) \in Nat /\ off[k - 1] = Len(a)
    BY <1>6, <2>0
  <2>2. PICK b \in Seq(Nat) : b = UnitsOf(s[k])
    BY <1>2
  <2>3. f[k] = a \o b
    BY <1>3, <1>5, <2>1, <2>2 DEF Joins
  <2>4. /\ Len(b) \in Nat /\ Len(a \o b) = Len(a) + Len(b)
        /\ \A m \in 1 .. Len(b) : (a \o b)[Len(a) + m] = b[m]
    OBVIOUS
  <2>5. off[k] = Len(a) + Len(b)
    BY <1>6, <2>0, <2>3, <2>4
  <2>6. \A m \in 1 .. Len(f[k]) : U[m] = f[k][m]
    <3>1. /\ f \in [0 .. Len(seqs) -> Seq(Nat)] /\ Joins(f, seqs) /\ seqs \in Seq(Seq(Nat))
          /\ k \in 0 .. Len(seqs) /\ n \in k .. Len(seqs)
      BY <1>3, <1>5, <2>0
    <3> HIDE DEF n, U, off
    <3>2. \A j \in k .. Len(seqs) : Stay(f, k, j)
      BY <3>1, JoinsStay
    <3> QED
      BY <3>1, <3>2 DEF Stay, U
  <2>7. \A m \in 1 .. Len(b) : U[Len(a) + m] = b[m]
    <3> HIDE DEF U, off
    <3> SUFFICES ASSUME NEW m \in 1 .. Len(b) PROVE U[Len(a) + m] = b[m]
      OBVIOUS
    <3>1. Len(a) + m \in 1 .. Len(f[k])
      BY <2>1, <2>3, <2>4
    <3> QED
      BY <2>3, <2>4, <2>6, <3>1
  <2> HIDE DEF U, off
  <2>8. CASE s[k] < Astral
    <3>1. Len(b) = 1 /\ b[1] = s[k]
      BY <1>2, <2>2, <2>8
    <3> QED
      BY <2>1, <2>5, <2>7, <2>8, <3>1
  <2>9. CASE ~(s[k] < Astral)
    <3>1. Len(b) = 2 /\ b[1] = High(s[k]) /\ b[2] = Low(s[k])
      BY <1>2, <2>2, <2>9
    <3> QED
      BY <2>1, <2>5, <2>7, <2>9, <3>1
  <2> QED
    BY <2>8, <2>9
<1>8. off \in [0 .. n -> Nat] /\ off[0] = 0 /\ off[n] = Len(U)
  <2>1. f[0] = <<>>
    BY <1>5 DEF Joins
  <2> QED
    BY <1>1, <1>6, <2>1
<1>9. Units(s) = U /\ U \in Seq(Nat)
  BY <1>1, <1>4, <1>5
<1> HIDE DEF off, U
<1>10. Encodes(off, s, U)
  BY <1>7, <1>8 DEF Encodes
<1> QED
  BY <1>9, <1>10

(* Later points are encoded later.                                           *)
LEMMA OffsetsGrow ==
  ASSUME NEW s \in Seq(Scalars), NEW U, NEW off, Encodes(off, s, U)
  PROVE  \A j, k \in 0 .. Len(s) : j < k => off[j] < off[k]
<1>1. Len(s) \in Nat
  OBVIOUS
<1> DEFINE Good == { k \in Nat : k <= Len(s) => \A j \in 0 .. k : j < k => off[j] < off[k] }
<1>2. 0 \in Good
  OBVIOUS
<1>3. ASSUME NEW k \in Nat, k \in Good PROVE k + 1 \in Good
  <2> SUFFICES ASSUME k + 1 <= Len(s), NEW j \in 0 .. k + 1, j < k + 1 PROVE off[j] < off[k + 1]
    OBVIOUS
  <2>1. k + 1 \in 1 .. Len(s) /\ (k + 1) - 1 = k /\ k \in 0 .. Len(s) /\ j \in 0 .. Len(s)
    BY <1>1
  <2>2. off[k] \in Nat /\ off[k + 1] \in Nat /\ off[j] \in Nat
    BY <2>1, <1>1 DEF Encodes
  <2>4. off[k + 1] = off[k] + 1 \/ off[k + 1] = off[k] + 2
    BY <2>1 DEF Encodes
  <2>3. j = k \/ (j \in 0 .. k /\ j < k)
    OBVIOUS
  <2> QED
    BY <1>1, <1>3, <2>1, <2>2, <2>3, <2>4
<1>4. Nat \subseteq Good
  <2> HIDE DEF Good
  <2> QED
    BY <1>2, <1>3, SetInduction
<1> QED
  BY <1>4

(* A position among the units is before or after a point, or inside one.      *)
LEMMA OffsetsCover ==
  ASSUME NEW s \in Seq(Scalars), NEW U, NEW off, Encodes(off, s, U)
  PROVE  \A m \in 0 .. Len(U) :
           \/ \E k \in 0 .. Len(s) : m = off[k]
           \/ \E k \in 1 .. Len(s) : ~(s[k] < Astral) /\ m = off[k - 1] + 1 /\ off[k] = m + 1
<1>1. Len(s) \in Nat
  OBVIOUS
<1> DEFINE At(m) == \/ \E k \in 0 .. Len(s) : m = off[k]
                    \/ \E k \in 1 .. Len(s) : ~(s[k] < Astral) /\ m = off[k - 1] + 1 /\ off[k] = m + 1
           Good == { k \in Nat : k <= Len(s) => \A m \in 0 .. off[k] : At(m) }
<1>2. 0 \in Good
  <2>1. off[0] = 0 /\ 0 \in 0 .. Len(s)
    BY <1>1 DEF Encodes
  <2> QED
    BY <2>1
<1>3. ASSUME NEW k \in Nat, k \in Good PROVE k + 1 \in Good
  <2> SUFFICES ASSUME k + 1 <= Len(s), NEW m \in 0 .. off[k + 1] PROVE At(m)
    OBVIOUS
  <2>1. k + 1 \in 1 .. Len(s) /\ (k + 1) - 1 = k /\ k \in 0 .. Len(s) /\ k + 1 \in 0 .. Len(s)
    BY <1>1
  <2>2. off[k] \in Nat /\ off[k + 1] \in Nat
    BY <2>1 DEF Encodes
  <2>3. CASE s[k + 1] < Astral
    <3>1. off[k + 1] = off[k] + 1
      BY <2>1, <2>3 DEF Encodes
    <3>2. m \in 0 .. off[k] \/ m = off[k + 1]
      BY <2>2, <3>1
    <3> QED
      BY <1>3, <2>1, <3>2
  <2>4. CASE ~(s[k + 1] < Astral)
    <3>1. off[k + 1] = off[k] + 2
      BY <2>1, <2>4 DEF Encodes
    <3>2. m \in 0 .. off[k] \/ m = off[k + 1] \/ (m = off[k] + 1 /\ off[k + 1] = m + 1)
      BY <2>2, <3>1
    <3> QED
      BY <1>3, <2>1, <2>4, <3>2
  <2> QED
    BY <2>3, <2>4
<1>4. Nat \subseteq Good
  <2> HIDE DEF Good
  <2> QED
    BY <1>2, <1>3, SetInduction
<1>5. off[Len(s)] = Len(U)
  BY DEF Encodes
<1>6. Len(s) \in Good
  BY <1>1, <1>4
<1> QED
  BY <1>1, <1>5, <1>6
-----------------------------------------------------------------------------
(* What the pair of a high and a low class stands for. *)

(* A point is in one of the ranges.                                          *)
Covers(ranges, x) == \E j \in 1 .. Len(ranges) : ranges[j][1] <= x /\ x <= ranges[j][2]

(* Points are ordered as their pairs are, high surrogate first.               *)
LEMMA PairsOrdered ==
  ASSUME NEW h \in HighFirst .. HighLast, NEW l \in LowFirst .. LowLast,
         NEW k \in HighFirst .. HighLast, NEW m \in LowFirst .. LowLast
  PROVE  CodePoint(h, l) <= CodePoint(k, m) <=> h < k \/ (h = k /\ l <= m)
<1> DEFINE a == h - HighFirst
           b == k - HighFirst
<1>1. a \in Nat /\ b \in Nat /\ LowCount \in Nat /\ Astral \in Nat /\ h \in Nat /\ k \in Nat /\ l \in Nat /\ m \in Nat
  BY Blocks
<1>2. PICK p \in Nat : p = a * LowCount
  BY <1>1
<1>3. PICK q \in Nat : q = b * LowCount
  BY <1>1
<1>4. CodePoint(h, l) = Astral + p + (l - LowFirst) /\ CodePoint(k, m) = Astral + q + (m - LowFirst)
  BY <1>2, <1>3 DEF CodePoint
<1>5. a < b => p + LowCount <= q
  <2> HIDE DEF a, b
  <2> QED
    BY <1>1, <1>2, <1>3, Products
<1>6. b < a => q + LowCount <= p
  <2> HIDE DEF a, b
  <2> QED
    BY <1>1, <1>2, <1>3, Products
<1>7. a = b => p = q
  BY <1>2, <1>3
<1> QED
  BY <1>1, <1>4, <1>5, <1>6, <1>7, Blocks

(* A whole block of lows is every point of the highs; one high with some lows  *)
(* is the points of that high with those lows.                               *)
LEMMA RangesOfPairs ==
  ASSUME NEW c \in Scalars, c >= Astral, NEW h \in HighFirst .. HighLast, NEW k \in HighFirst .. HighLast,
         NEW l \in LowFirst .. LowLast, NEW m \in LowFirst .. LowLast
  PROVE  /\ CodePoint(h, LowFirst) <= c /\ c <= CodePoint(k, LowLast) <=> h <= High(c) /\ High(c) <= k
         /\ CodePoint(h, l) <= c /\ c <= CodePoint(h, m) <=> High(c) = h /\ l <= Low(c) /\ Low(c) <= m
<1>1. PICK x \in HighFirst .. HighLast, y \in LowFirst .. LowLast : x = High(c) /\ y = Low(c) /\ c = CodePoint(x, y)
  BY SurrogatesOf
<1>2. LowFirst \in LowFirst .. LowLast /\ LowLast \in LowFirst .. LowLast
  BY Blocks
<1>3. CodePoint(h, LowFirst) <= CodePoint(x, y) <=> h <= x
  BY <1>2, PairsOrdered, Blocks
<1>4. CodePoint(x, y) <= CodePoint(k, LowLast) <=> x <= k
  BY <1>2, PairsOrdered, Blocks
<1>5. CodePoint(h, l) <= CodePoint(x, y) <=> h < x \/ (h = x /\ l <= y)
  BY PairsOrdered
<1>6. CodePoint(x, y) <= CodePoint(h, m) <=> x < h \/ (x = h /\ y <= m)
  BY PairsOrdered
<1> QED
  BY <1>1, <1>3, <1>4, <1>5, <1>6, Blocks

(* Ranges of points that have a pair.                                        *)
Encoded(ranges) == ranges \in Seq(Nat \X Nat) /\ \A m \in 1 .. Len(ranges) : Astral <= ranges[m][1]

(* The two surrogates of a point are in h and in l.                           *)
PairIn(c, h, l) == h[1] <= High(c) /\ High(c) <= h[2] /\ l[1] <= Low(c) /\ Low(c) <= l[2]

HighRange(h) == h \in Nat \X Nat /\ HighFirst <= h[1] /\ h[1] <= h[2] /\ h[2] <= HighLast
LowRange(l) == l \in Nat \X Nat /\ LowFirst <= l[1] /\ l[1] <= l[2] /\ l[2] <= LowLast

(* Joined ranges cover what either covers.                                   *)
LEMMA CoversBoth ==
  ASSUME NEW r, NEW q, Encoded(r), Encoded(q)
  PROVE  Encoded(r \o q) /\ \A x : Covers(r \o q, x) <=> Covers(r, x) \/ Covers(q, x)
<1> DEFINE t == r \o q
<1>1. /\ r \in Seq(Nat \X Nat) /\ q \in Seq(Nat \X Nat) /\ t \in Seq(Nat \X Nat)
      /\ Len(r) \in Nat /\ Len(q) \in Nat /\ Len(t) = Len(r) + Len(q)
      /\ \A m \in 1 .. Len(r) : t[m] = r[m]
      /\ \A m \in 1 .. Len(q) : t[Len(r) + m] = q[m]
  BY DEF Encoded
<1> HIDE DEF t
<1>7. PICK a \in Nat : a = Len(r)
  BY <1>1
<1>8. PICK b \in Nat : b = Len(q)
  BY <1>1
<1>9. Len(t) = a + b
  BY <1>1, <1>7, <1>8
<1>2. ASSUME NEW m \in 1 .. Len(t)
      PROVE  (m \in 1 .. Len(r) /\ t[m] = r[m]) \/ (m - Len(r) \in 1 .. Len(q) /\ t[m] = q[m - Len(r)])
  <2>1. CASE m <= Len(r)
    <3>1. m \in 1 .. Len(r)
      BY <1>7, <1>9, <2>1
    <3> QED
      BY <1>1, <3>1
  <2>2. CASE ~(m <= Len(r))
    <3>1. m - Len(r) \in 1 .. Len(q) /\ Len(r) + (m - Len(r)) = m
      BY <1>7, <1>8, <1>9, <2>2
    <3> QED
      BY <1>1, <3>1
  <2> QED
    BY <2>1, <2>2
<1>3. Encoded(t)
  BY <1>1, <1>2 DEF Encoded
<1>4. ASSUME NEW x, Covers(t, x) PROVE Covers(r, x) \/ Covers(q, x)
  <2>1. PICK m \in 1 .. Len(t) : t[m][1] <= x /\ x <= t[m][2]
    BY <1>4 DEF Covers
  <2> QED
    BY <1>2, <2>1 DEF Covers
<1>5. ASSUME NEW x, Covers(r, x) PROVE Covers(t, x)
  <2>1. PICK m \in 1 .. Len(r) : r[m][1] <= x /\ x <= r[m][2]
    BY <1>5 DEF Covers
  <2>2. m \in 1 .. Len(t)
    BY <1>7, <1>9
  <2> QED
    BY <1>1, <2>1, <2>2 DEF Covers
<1>6. ASSUME NEW x, Covers(q, x) PROVE Covers(t, x)
  <2>1. PICK m \in 1 .. Len(q) : q[m][1] <= x /\ x <= q[m][2]
    BY <1>6 DEF Covers
  <2>2. Len(r) + m \in 1 .. Len(t)
    BY <1>7, <1>8, <1>9
  <2> QED
    BY <1>1, <2>1, <2>2 DEF Covers
<1> QED
  BY <1>3, <1>4, <1>5, <1>6 DEF t

(* One more pair of ranges.                                                  *)
LEMMA PairAdded ==
  ASSUME NEW ranges, Encoded(ranges), NEW h, HighRange(h), NEW l, LowRange(l),
         AddPair(ranges, h, l) # Exploded
  PROVE  /\ Encoded(AddPair(ranges, h, l))
         /\ \A c \in Scalars : c >= Astral =>
              (Covers(AddPair(ranges, h, l), c) <=> Covers(ranges, c) \/ PairIn(c, h, l))
<1>1. /\ h[1] \in HighFirst .. HighLast /\ h[2] \in HighFirst .. HighLast /\ h[1] <= h[2]
      /\ l[1] \in LowFirst .. LowLast /\ l[2] \in LowFirst .. LowLast
      /\ LowFirst \in LowFirst .. LowLast /\ LowLast \in LowFirst .. LowLast
  BY Blocks DEF HighRange, LowRange
<1>2. ranges # Exploded
  BY DEF AddPair
<1>3. ranges \in Seq(Nat \X Nat)
  BY DEF Encoded
<1>4. CASE l = <<LowFirst, LowLast>>
  <2> DEFINE x == <<CodePoint(h[1], LowFirst), CodePoint(h[2], LowLast)>>
  <2>1. x \in Nat \X Nat /\ Astral <= x[1] /\ x[1] = CodePoint(h[1], LowFirst) /\ x[2] = CodePoint(h[2], LowLast)
    BY <1>1, PairOf
  <2>2. AddPair(ranges, h, l) = Append(ranges, x)
    BY <1>2, <1>4 DEF AddPair
  <2> HIDE DEF x
  <2>3. Append(ranges, x) = ranges \o <<x>>
    BY <1>3, <2>1
  <2>4. Len(<<x>>) = 1 /\ <<x>>[1] = x
    OBVIOUS
  <2>5. Encoded(<<x>>) /\ \A c : Covers(<<x>>, c) <=> x[1] <= c /\ c <= x[2]
    BY <2>1, <2>4 DEF Encoded, Covers
  <2>6. ASSUME NEW c \in Scalars, c >= Astral PROVE Covers(<<x>>, c) <=> PairIn(c, h, l)
    <3>1. x[1] <= c /\ c <= x[2] <=> h[1] <= High(c) /\ High(c) <= h[2]
      BY <1>1, <2>1, <2>6, RangesOfPairs
    <3>2. l[1] <= Low(c) /\ Low(c) <= l[2]
      BY <1>4, <2>6, SurrogatesOf, Blocks
    <3> QED
      BY <2>5, <3>1, <3>2 DEF PairIn
  <2> QED
    BY <2>2, <2>3, <2>5, <2>6, CoversBoth
<1>5. CASE l # <<LowFirst, LowLast>>
  <2> DEFINE q == [i \in 1 .. (h[2] - h[1] + 1) |-> <<CodePoint(h[1] + i - 1, l[1]), CodePoint(h[1] + i - 1, l[2])>>]
  <2>1. AddPair(ranges, h, l) = ranges \o q
    BY <1>2, <1>5 DEF AddPair
  <2>2. PICK n \in Nat : n = h[2] - h[1] + 1
    BY <1>1, Blocks
  <2>3. ASSUME NEW i \in 1 .. n
        PROVE  /\ h[1] + i - 1 \in HighFirst .. HighLast
               /\ q[i] = <<CodePoint(h[1] + i - 1, l[1]), CodePoint(h[1] + i - 1, l[2])>>
               /\ q[i] \in Nat \X Nat /\ Astral <= q[i][1]
    <3>1. h[1] + i - 1 \in HighFirst .. HighLast
      BY <1>1, <2>2, Blocks
    <3>2. q[i] = <<CodePoint(h[1] + i - 1, l[1]), CodePoint(h[1] + i - 1, l[2])>>
      BY <2>2
    <3> HIDE DEF q
    <3>3. CodePoint(h[1] + i - 1, l[1]) \in Nat /\ Astral <= CodePoint(h[1] + i - 1, l[1])
      BY <1>1, <3>1, PairOf
    <3>4. CodePoint(h[1] + i - 1, l[2]) \in Nat
      BY <1>1, <3>1, PairOf
    <3> QED
      BY <3>1, <3>2, <3>3, <3>4
  <2>4. q \in Seq(Nat \X Nat) /\ Len(q) = n
    <3>1. q = [i \in 1 .. n |-> q[i]]
      BY <2>2
    <3> HIDE DEF q
    <3> QED
      BY <2>3, <3>1
  <2> HIDE DEF q
  <2>5. Encoded(q)
    BY <2>3, <2>4 DEF Encoded
  <2>6. ASSUME NEW c \in Scalars, c >= Astral PROVE Covers(q, c) <=> PairIn(c, h, l)
    <3>1. ASSUME NEW i \in 1 .. n
          PROVE  q[i][1] <= c /\ c <= q[i][2] <=> High(c) = h[1] + i - 1 /\ l[1] <= Low(c) /\ Low(c) <= l[2]
      <4>1. PICK g \in HighFirst .. HighLast : g = h[1] + i - 1 /\ q[i] = <<CodePoint(g, l[1]), CodePoint(g, l[2])>>
        BY <2>3
      <4>2. CodePoint(g, l[1]) <= c /\ c <= CodePoint(g, l[2]) <=> High(c) = g /\ l[1] <= Low(c) /\ Low(c) <= l[2]
        BY <1>1, <2>6, RangesOfPairs
      <4> QED
        BY <4>1, <4>2
    <3>2. High(c) \in HighFirst .. HighLast /\ High(c) \in Nat
      BY <2>6, SurrogatesOf, Blocks
    <3>3. ASSUME h[1] <= High(c), High(c) <= h[2]
          PROVE  \E i \in 1 .. n : High(c) = h[1] + i - 1
      <4>1. High(c) - h[1] + 1 \in 1 .. n /\ High(c) = h[1] + (High(c) - h[1] + 1) - 1
        BY <1>1, <2>2, <3>2, <3>3, Blocks
      <4> QED
        BY <4>1
    <3>4. \A i \in 1 .. n : h[1] <= h[1] + i - 1 /\ h[1] + i - 1 <= h[2]
      BY <1>1, <2>2, Blocks
    <3> QED
      BY <2>4, <3>1, <3>3, <3>4 DEF Covers, PairIn
  <2> QED
    BY <2>1, <2>5, <2>6, CoversBoth
<1> QED
  BY <1>4, <1>5
(* What the port has of ranges on the way: ranges of points, or none.          *)
Made == { r \in Seq(Nat \X Nat) : Encoded(r) } \cup {Exploded}

(* More ranges keep to that, and none stays none.                            *)
LEMMA PairMade ==
  ASSUME NEW ranges \in Made, NEW h, HighRange(h), NEW l, LowRange(l)
  PROVE  AddPair(ranges, h, l) \in Made /\ (AddPair(ranges, h, l) # Exploded => ranges # Exploded)
<1>1. CASE AddPair(ranges, h, l) = Exploded
  BY <1>1 DEF Made
<1>2. CASE AddPair(ranges, h, l) # Exploded
  <2>1. ranges # Exploded
    BY <1>2 DEF AddPair
  <2>2. Encoded(ranges)
    BY <2>1 DEF Made
  <2>3. Encoded(AddPair(ranges, h, l))
    BY <1>2, <2>2, PairAdded
  <2> QED
    BY <2>1, <2>3 DEF Made, Encoded
<1> QED
  BY <1>1, <1>2

(* A high range with the first lows, one after the other.                    *)
LowSteps(f, ranges, h, lows) ==
  f[0] = ranges /\ \A j \in 1 .. Len(lows) : f[j] = AddPair(f[j - 1], h, lows[j])

(* AddLows takes the low ranges one after the other.                        *)
LEMMA AddLowsSteps ==
  ASSUME NEW ranges \in Made, NEW h, HighRange(h), NEW lows \in Seq(Nat \X Nat), \A b \in 1 .. Len(lows) : LowRange(lows[b])
  PROVE  \E f \in [0 .. Len(lows) -> Made] : LowSteps(f, ranges, h, lows) /\ AddLows(ranges, h, lows) = f[Len(lows)]
<1> DEFINE n == Len(lows)
           Go == [i \in 1 .. n |-> [x \in Made \X Made |-> AddPair(x[1], h, lows[i])]]
           F(g) == g = [i \in 0 .. n |-> IF i = 0 THEN ranges ELSE AddPair(g[i - 1], h, lows[i])]
           first == CHOOSE g : F(g)
<1>1. n \in Nat
  OBVIOUS
<1>2. Go \in [1 .. n -> [Made \X Made -> Made]]
  <2>1. ASSUME NEW i \in 1 .. n, NEW x \in Made \X Made PROVE AddPair(x[1], h, lows[i]) \in Made
    BY PairMade
  <2> QED
    BY <2>1
<1>3. PICK f \in [0 .. n -> Made] : Follows(f, n, ranges, Go)
  <2> HIDE DEF Go, n
  <2> QED
    BY <1>1, <1>2, Recursion
<1>4. ASSUME NEW i \in 1 .. n PROVE f[i] = AddPair(f[i - 1], h, lows[i])
  <2>1. i - 1 \in 0 .. n /\ (i > 1 => i - 2 \in 0 .. n)
    BY <1>1
  <2> HIDE DEF n
  <2>2. f[i - 1] \in Made /\ (i > 1 => f[i - 2] \in Made)
    BY <1>3, <2>1
  <2> DEFINE x == <<f[i - 1], IF i > 1 THEN f[i - 2] ELSE ranges>>
  <2>3. x \in Made \X Made /\ x[1] = f[i - 1]
    BY <2>2
  <2>4. f[i] = Go[i][x]
    <3> HIDE DEF Go
    <3> QED
      BY <1>3 DEF Follows
  <2>5. Go[i][x] = AddPair(x[1], h, lows[i])
    <3> HIDE DEF x
    <3> QED
      BY <2>3
  <2> HIDE DEF Go, x
  <2> QED
    BY <2>3, <2>4, <2>5
<1> HIDE DEF Go
<1>5. LowSteps(f, ranges, h, lows)
  BY <1>3, <1>4 DEF LowSteps, Follows
<1>6. F(f)
  <2>1. ASSUME NEW i \in 0 .. n PROVE f[i] = IF i = 0 THEN ranges ELSE AddPair(f[i - 1], h, lows[i])
    <3>1. CASE i = 0
      BY <1>3, <3>1 DEF Follows
    <3>2. CASE i # 0
      BY <1>4, <3>2
    <3> QED
      BY <3>1, <3>2
  <2>2. f = [i \in 0 .. n |-> f[i]]
    BY <1>3
  <2> QED
    BY <2>1, <2>2
<1>7. F(first)
  BY <1>6
<1> HIDE DEF first
<1>8. first[n] = f[n]
  <2>1. ASSUME NEW i \in 1 .. n, first[i - 1] = f[i - 1] PROVE first[i] = f[i]
    <3>1. i \in 0 .. n /\ i # 0
      OBVIOUS
    <3>2. first[i] = AddPair(first[i - 1], h, lows[i])
      BY <1>7, <3>1
    <3> QED
      BY <1>4, <2>1, <3>2
  <2>2. first[0] = f[0]
    BY <1>1, <1>3, <1>7 DEF Follows
  <2>3. Alike(first, f, n)
    BY <2>1, <2>2 DEF Alike
  <2> HIDE DEF F, n
  <2> QED
    BY <1>1, <2>3, SameSteps
<1>9. AddLows(ranges, h, lows) = first[n]
  BY DEF AddLows, first
<1> QED
  BY <1>5, <1>8, <1>9

(* They are the pairs of the high range with every low one.                   *)
LEMMA LowsAdded ==
  ASSUME NEW ranges \in Made, NEW h, HighRange(h), NEW lows \in Seq(Nat \X Nat), \A b \in 1 .. Len(lows) : LowRange(lows[b])
  PROVE  /\ AddLows(ranges, h, lows) \in Made
         /\ AddLows(ranges, h, lows) # Exploded =>
              /\ ranges # Exploded
              /\ \A c \in Scalars : c >= Astral =>
                   (Covers(AddLows(ranges, h, lows), c) <=>
                      Covers(ranges, c) \/ \E b \in 1 .. Len(lows) : PairIn(c, h, lows[b]))
<1> DEFINE n == Len(lows)
<1>1. n \in Nat
  OBVIOUS
<1>2. PICK f \in [0 .. n -> Made] : LowSteps(f, ranges, h, lows) /\ AddLows(ranges, h, lows) = f[n]
  BY AddLowsSteps
<1> DEFINE Done(j) ==
      f[j] # Exploded =>
        /\ ranges # Exploded
        /\ \A c \in Scalars : c >= Astral =>
             (Covers(f[j], c) <=> Covers(ranges, c) \/ \E b \in 1 .. j : PairIn(c, h, lows[b]))
      Good == { j \in Nat : j <= n => Done(j) }
<1>3. 0 \in Good
  BY <1>2 DEF LowSteps
<1>4. ASSUME NEW j \in Nat, j \in Good PROVE j + 1 \in Good
  <2> SUFFICES ASSUME j + 1 <= n PROVE Done(j + 1)
    OBVIOUS
  <2> SUFFICES ASSUME f[j + 1] # Exploded
               PROVE  /\ ranges # Exploded
                      /\ \A c \in Scalars : c >= Astral =>
                           (Covers(f[j + 1], c) <=>
                              Covers(ranges, c) \/ \E b \in 1 .. j + 1 : PairIn(c, h, lows[b]))
    OBVIOUS
  <2>1. j + 1 \in 1 .. n /\ (j + 1) - 1 = j /\ j \in 0 .. n
    BY <1>1
  <2>2. f[j + 1] = AddPair(f[j], h, lows[j + 1])
    BY <1>2, <2>1 DEF LowSteps
  <2>3. f[j] \in Made /\ LowRange(lows[j + 1])
    BY <1>2, <2>1
  <2>4. f[j] # Exploded
    BY <2>2, <2>3, PairMade
  <2>5. Encoded(f[j])
    BY <2>3, <2>4 DEF Made
  <2>6. Done(j)
    BY <1>4, <2>1
  <2>7. \A c \in Scalars : c >= Astral => (Covers(f[j + 1], c) <=> Covers(f[j], c) \/ PairIn(c, h, lows[j + 1]))
    BY <2>2, <2>3, <2>5, PairAdded
  <2>8. \A c : (\E b \in 1 .. j + 1 : PairIn(c, h, lows[b])) <=> (\E b \in 1 .. j : PairIn(c, h, lows[b])) \/ PairIn(c, h, lows[j + 1])
    <3>1. \A b : b \in 1 .. j + 1 <=> b \in 1 .. j \/ b = j + 1
      OBVIOUS
    <3> QED
      BY <3>1
  <2> QED
    BY <2>4, <2>6, <2>7, <2>8
<1>5. n \in Good
  <2> HIDE DEF Good, n
  <2>1. Nat \subseteq Good
    BY <1>3, <1>4, SetInduction
  <2> QED
    BY <1>1, <2>1
<1>6. f[n] \in Made
  BY <1>1, <1>2
<1> QED
  BY <1>1, <1>2, <1>5, <1>6

(* The first highs with all lows, one after the other.                        *)
HighSteps(f, highs, lows) ==
  f[0] = <<>> /\ \A i \in 1 .. Len(highs) : f[i] = AddLows(f[i - 1], highs[i], lows)

(* Combine takes the high ranges one after the other, if there is room.     *)
LEMMA CombineSteps ==
  ASSUME NEW highs \in Seq(Nat \X Nat), \A a \in 1 .. Len(highs) : HighRange(highs[a]),
         NEW lows \in Seq(Nat \X Nat), \A b \in 1 .. Len(lows) : LowRange(lows[b])
  PROVE  \E f \in [0 .. Len(highs) -> Made] :
           /\ HighSteps(f, highs, lows)
           /\ Combine(highs, lows) # Exploded => Combine(highs, lows) = f[Len(highs)]
<1> DEFINE n == Len(highs)
           Go == [i \in 1 .. n |-> [x \in Made \X Made |-> AddLows(x[1], highs[i], lows)]]
           F(g) == g = [i \in 0 .. n |-> IF i = 0 THEN <<>> ELSE AddLows(g[i - 1], highs[i], lows)]
           first == CHOOSE g : F(g)
<1>1. n \in Nat /\ <<>> \in Made
  <2>1. <<>> \in Seq(Nat \X Nat) /\ Len(<<>>) = 0
    OBVIOUS
  <2> QED
    BY <2>1 DEF Made, Encoded
<1>2. Go \in [1 .. n -> [Made \X Made -> Made]]
  <2>1. ASSUME NEW i \in 1 .. n, NEW x \in Made \X Made PROVE AddLows(x[1], highs[i], lows) \in Made
    BY LowsAdded
  <2> QED
    BY <2>1
<1>3. PICK f \in [0 .. n -> Made] : Follows(f, n, <<>>, Go)
  <2> HIDE DEF Go, n
  <2> QED
    BY <1>1, <1>2, Recursion
<1>4. ASSUME NEW i \in 1 .. n PROVE f[i] = AddLows(f[i - 1], highs[i], lows)
  <2>1. i - 1 \in 0 .. n /\ (i > 1 => i - 2 \in 0 .. n)
    BY <1>1
  <2> HIDE DEF n
  <2>2. f[i - 1] \in Made /\ (i > 1 => f[i - 2] \in Made)
    BY <1>3, <2>1
  <2> DEFINE x == <<f[i - 1], IF i > 1 THEN f[i - 2] ELSE <<>> >>
  <2>3. x \in Made \X Made /\ x[1] = f[i - 1]
    BY <1>1, <2>2
  <2>4. f[i] = Go[i][x]
    <3> HIDE DEF Go
    <3> QED
      BY <1>3 DEF Follows
  <2>5. Go[i][x] = AddLows(x[1], highs[i], lows)
    <3> HIDE DEF x
    <3> QED
      BY <2>3
  <2> HIDE DEF Go, x
  <2> QED
    BY <2>3, <2>4, <2>5
<1> HIDE DEF Go
<1>5. HighSteps(f, highs, lows)
  BY <1>3, <1>4 DEF HighSteps, Follows
<1>6. F(f)
  <2>1. ASSUME NEW i \in 0 .. n PROVE f[i] = IF i = 0 THEN <<>> ELSE AddLows(f[i - 1], highs[i], lows)
    <3>1. CASE i = 0
      BY <1>3, <3>1 DEF Follows
    <3>2. CASE i # 0
      BY <1>4, <3>2
    <3> QED
      BY <3>1, <3>2
  <2>2. f = [i \in 0 .. n |-> f[i]]
    BY <1>3
  <2> QED
    BY <2>1, <2>2
<1>7. F(first)
  BY <1>6
<1> HIDE DEF first
<1>8. first[n] = f[n]
  <2>1. ASSUME NEW i \in 1 .. n, first[i - 1] = f[i - 1] PROVE first[i] = f[i]
    <3>1. i \in 0 .. n /\ i # 0
      OBVIOUS
    <3>2. first[i] = AddLows(first[i - 1], highs[i], lows)
      BY <1>7, <3>1
    <3> QED
      BY <1>4, <2>1, <3>2
  <2>2. first[0] = f[0]
    BY <1>1, <1>3, <1>7 DEF Follows
  <2>3. Alike(first, f, n)
    BY <2>1, <2>2 DEF Alike
  <2> HIDE DEF F, n
  <2> QED
    BY <1>1, <2>3, SameSteps
<1>9. Combine(highs, lows) = IF first[n] # Exploded /\ Len(first[n]) > MaxPortedRanges THEN Exploded ELSE first[n]
  BY DEF Combine, Fitting, first
<1> QED
  BY <1>5, <1>8, <1>9

(* They are the pairs of every high range with every low one.                 *)
LEMMA CombineIs ==
  ASSUME NEW highs \in Seq(Nat \X Nat), \A a \in 1 .. Len(highs) : HighRange(highs[a]),
         NEW lows \in Seq(Nat \X Nat), \A b \in 1 .. Len(lows) : LowRange(lows[b]),
         Combine(highs, lows) # Exploded
  PROVE  /\ Encoded(Combine(highs, lows))
         /\ \A c \in Scalars : c >= Astral =>
              (Covers(Combine(highs, lows), c) <=>
                 \E a \in 1 .. Len(highs) : \E b \in 1 .. Len(lows) : PairIn(c, highs[a], lows[b]))
<1> DEFINE n == Len(highs)
           Some(c, a) == \E b \in 1 .. Len(lows) : PairIn(c, highs[a], lows[b])
<1>1. n \in Nat
  OBVIOUS
<1>2. PICK f \in [0 .. n -> Made] : HighSteps(f, highs, lows) /\ Combine(highs, lows) = f[n]
  BY CombineSteps
<1> DEFINE Done(i) ==
      f[i] # Exploded =>
        \A c \in Scalars : c >= Astral => (Covers(f[i], c) <=> \E a \in 1 .. i : Some(c, a))
      Good == { i \in Nat : i <= n => Done(i) }
<1>3. 0 \in Good
  <2>1. f[0] = <<>>
    BY <1>2 DEF HighSteps
  <2>2. \A c : ~Covers(<<>>, c)
    <3>1. Len(<<>>) = 0 /\ 1 .. 0 = {}
      OBVIOUS
    <3> QED
      BY <3>1 DEF Covers
  <2>3. 1 .. 0 = {}
    OBVIOUS
  <2> QED
    BY <2>1, <2>2, <2>3
<1>4. ASSUME NEW i \in Nat, i \in Good PROVE i + 1 \in Good
  <2> SUFFICES ASSUME i + 1 <= n, f[i + 1] # Exploded, NEW c \in Scalars, c >= Astral
               PROVE  Covers(f[i + 1], c) <=> \E a \in 1 .. i + 1 : Some(c, a)
    OBVIOUS
  <2>1. i + 1 \in 1 .. n /\ (i + 1) - 1 = i /\ i \in 0 .. n
    BY <1>1
  <2>2. f[i + 1] = AddLows(f[i], highs[i + 1], lows)
    BY <1>2, <2>1 DEF HighSteps
  <2>3. f[i] \in Made /\ HighRange(highs[i + 1])
    BY <1>2, <2>1
  <2>4. f[i] # Exploded /\ (Covers(f[i + 1], c) <=> Covers(f[i], c) \/ Some(c, i + 1))
    BY <2>2, <2>3, LowsAdded
  <2>5. Done(i)
    BY <1>4, <2>1
  <2>6. (\E a \in 1 .. i + 1 : Some(c, a)) <=> (\E a \in 1 .. i : Some(c, a)) \/ Some(c, i + 1)
    <3>1. \A a : a \in 1 .. i + 1 <=> a \in 1 .. i \/ a = i + 1
      OBVIOUS
    <3> HIDE DEF Some
    <3> QED
      BY <3>1
  <2> HIDE DEF Some
  <2> QED
    BY <2>4, <2>5, <2>6
<1>5. n \in Good
  <2> HIDE DEF Good, n
  <2>1. Nat \subseteq Good
    BY <1>3, <1>4, SetInduction
  <2> QED
    BY <1>1, <2>1
<1>6. f[n] \in Made
  BY <1>1, <1>2
<1>7. Encoded(f[n])
  BY <1>2, <1>6 DEF Made
<1> QED
  BY <1>1, <1>2, <1>5, <1>7
-----------------------------------------------------------------------------
(* One token over a text and over its units. *)

(* A token that overlaps neither the surrogates nor the points beyond them.    *)
Plain(token) ==
  /\ token.items \in Seq(CodeUnits \X CodeUnits)
  /\ ~\E j \in DOMAIN token.items : token.items[j][1] <= LowLast /\ token.items[j][2] >= HighFirst

(* It takes no surrogate and no point beyond them.                           *)
LEMMA PlainTakes ==
  ASSUME NEW token, Plain(token), NEW x \in Nat, x \in HighFirst .. LowLast \/ x >= Astral
  PROVE  ~Takes(token, x)
<1> SUFFICES ASSUME Takes(token, x) PROVE FALSE
  OBVIOUS
<1>1. PICK j \in DOMAIN token.items : token.items[j][1] <= x /\ x <= token.items[j][2]
  BY DEF Takes
<1>2. token.items[j] \in CodeUnits \X CodeUnits
  BY <1>1 DEF Plain
<1>3. PICK a \in Nat, b \in Nat : a = token.items[j][1] /\ b = token.items[j][2] /\ b < Astral
  BY <1>2, Blocks DEF CodeUnits
<1>4. ~(a <= LowLast /\ b >= HighFirst)
  BY <1>3 DEF Plain
<1> QED
  BY <1>1, <1>3, <1>4, Blocks

(* It takes a point when it takes the first unit of that point.               *)
LEMMA PlainPoint ==
  ASSUME NEW token, Plain(token), NEW s \in Seq(Scalars), NEW U \in Seq(Nat), NEW off, Encodes(off, s, U),
         NEW k \in 1 .. Len(s)
  PROVE  /\ Takes(token, U[off[k - 1] + 1]) <=> Takes(token, s[k])
         /\ Takes(token, s[k]) => s[k] < Astral
         /\ ~(s[k] < Astral) => ~Takes(token, U[off[k - 1] + 1]) /\ ~Takes(token, U[off[k - 1] + 2])
<1>1. s[k] \in Scalars /\ s[k] \in Nat
  <2>1. s[k] \in Scalars
    OBVIOUS
  <2> QED
    BY <2>1, Blocks, PairOf DEF Scalars
<1>2. CASE s[k] < Astral
  BY <1>2 DEF Encodes
<1>3. CASE ~(s[k] < Astral)
  <2>1. U[off[k - 1] + 1] = High(s[k]) /\ U[off[k - 1] + 2] = Low(s[k])
    BY <1>3 DEF Encodes
  <2>2. High(s[k]) \in HighFirst .. HighLast /\ Low(s[k]) \in LowFirst .. LowLast
    BY <1>1, <1>3, SurrogatesOf, Blocks
  <2>3. High(s[k]) \in Nat /\ High(s[k]) \in HighFirst .. LowLast /\ Low(s[k]) \in Nat /\ Low(s[k]) \in HighFirst .. LowLast
    BY <2>2, Blocks
  <2>4. ~Takes(token, High(s[k])) /\ ~Takes(token, Low(s[k]))
    BY <2>3, PlainTakes
  <2>5. ~Takes(token, s[k])
    BY <1>1, <1>3, PlainTakes, Blocks
  <2> QED
    BY <1>3, <2>1, <2>4, <2>5
<1> QED
  BY <1>2, <1>3

Image(off, Q) == { off[q] : q \in Q }

(* Taken once over the units, from where points begin.                       *)
LEMMA OncePlain ==
  ASSUME NEW token, Plain(token), NEW s \in Seq(Scalars), NEW U \in Seq(Nat), NEW off, Encodes(off, s, U),
         NEW Q \in SUBSET (0 .. Len(s))
  PROVE  Once(token, s, Q) \subseteq 0 .. Len(s) /\ Once(token, U, Image(off, Q)) = Image(off, Once(token, s, Q))
<1>1. Len(s) \in Nat /\ Len(U) \in Nat
  OBVIOUS
<1>2. Once(token, s, Q) \subseteq 0 .. Len(s)
  BY <1>1 DEF Once
<1>3. ASSUME NEW q \in 0 .. Len(s)
      PROVE  /\ off[q] \in Nat /\ (off[q] < Len(U) <=> q < Len(s))
             /\ q < Len(s) /\ Takes(token, s[q + 1]) => off[q + 1] = off[q] + 1
             /\ q < Len(s) => (Takes(token, U[off[q] + 1]) <=> Takes(token, s[q + 1]))
  <2>1. off[q] \in Nat /\ off[Len(s)] = Len(U)
    BY <1>1 DEF Encodes
  <2>2. CASE q < Len(s)
    <3>1. q + 1 \in 1 .. Len(s) /\ (q + 1) - 1 = q /\ Len(s) \in 0 .. Len(s)
      BY <1>1, <2>2
    <3>2. off[q] < off[Len(s)]
      BY <2>2, <3>1, OffsetsGrow
    <3>3. /\ Takes(token, U[off[q] + 1]) <=> Takes(token, s[q + 1])
          /\ Takes(token, s[q + 1]) => s[q + 1] < Astral
      BY <3>1, PlainPoint
    <3>4. s[q + 1] < Astral => off[q + 1] = off[q] + 1
      BY <3>1 DEF Encodes
    <3> QED
      BY <2>1, <2>2, <3>2, <3>3, <3>4
  <2>3. CASE ~(q < Len(s))
    BY <1>1, <2>1, <2>3
  <2> QED
    BY <2>2, <2>3
<1>4. ASSUME NEW y \in Once(token, U, Image(off, Q)) PROVE y \in Image(off, Once(token, s, Q))
  <2>1. PICK o \in Image(off, Q) : y = o + 1 /\ o < Len(U) /\ Takes(token, U[o + 1])
    BY DEF Once
  <2>2. PICK q \in Q : o = off[q]
    BY DEF Image
  <2>3. q \in 0 .. Len(s) /\ q < Len(s) /\ Takes(token, s[q + 1]) /\ y = off[q + 1]
    BY <1>3, <2>1, <2>2
  <2>4. q + 1 \in Once(token, s, Q)
    BY <2>2, <2>3 DEF Once
  <2> QED
    BY <2>3, <2>4 DEF Image
<1>5. ASSUME NEW y \in Image(off, Once(token, s, Q)) PROVE y \in Once(token, U, Image(off, Q))
  <2>1. PICK q \in Q : y = off[q + 1] /\ q < Len(s) /\ Takes(token, s[q + 1])
    BY DEF Image, Once
  <2>2. off[q] \in Image(off, Q)
    BY DEF Image
  <2>3. q \in 0 .. Len(s)
    OBVIOUS
  <2>4. y = off[q] + 1 /\ off[q] < Len(U) /\ Takes(token, U[off[q] + 1])
    BY <1>3, <2>1, <2>3
  <2> QED
    BY <2>2, <2>4 DEF Once
<1> QED
  BY <1>2, <1>4, <1>5

(* Taken repeatedly.                                                         *)
LEMMA RepeatedlyPlain ==
  ASSUME NEW token, Plain(token), NEW s \in Seq(Scalars), NEW U \in Seq(Nat), NEW off, Encodes(off, s, U),
         NEW Q \in SUBSET (0 .. Len(s))
  PROVE  /\ Repeatedly(token, s, Q) \subseteq 0 .. Len(s)
         /\ Repeatedly(token, U, Image(off, Q)) = Image(off, Repeatedly(token, s, Q))
<1>0. off \in [0 .. Len(s) -> Nat]
  BY DEF Encodes
<1>1. Len(s) \in Nat /\ Len(U) \in Nat /\ \A q \in 0 .. Len(s) : off[q] \in Nat
  BY <1>0
<1>2. Repeatedly(token, s, Q) \subseteq 0 .. Len(s)
  BY DEF Repeatedly
<1>3. \A i, j \in 0 .. Len(s) : (i < j => off[i] < off[j]) /\ (i <= j => off[i] <= off[j]) /\ (off[i] <= off[j] => i <= j)
  <2>1. \A i, j \in 0 .. Len(s) : i < j => off[i] < off[j]
    BY OffsetsGrow
  <2> SUFFICES ASSUME NEW i \in 0 .. Len(s), NEW j \in 0 .. Len(s)
               PROVE  (i <= j => off[i] <= off[j]) /\ (off[i] <= off[j] => i <= j)
    BY <2>1
  <2>2. i < j \/ i = j \/ j < i
    BY <1>1
  <2> QED
    BY <1>1, <2>1, <2>2
<1>4. \A q \in 0 .. Len(s) : off[q] <= Len(U)
  <2>1. off[Len(s)] = Len(U) /\ Len(s) \in 0 .. Len(s)
    BY <1>1 DEF Encodes
  <2> QED
    BY <1>1, <1>3, <2>1
<1>5. ASSUME NEW y \in Repeatedly(token, U, Image(off, Q)) PROVE y \in Image(off, Repeatedly(token, s, Q))
  <2>1. y \in 0 .. Len(U) /\ y \in Nat
    BY DEF Repeatedly
  <2>2. PICK o \in Image(off, Q) : o <= y /\ \A m \in (o + 1) .. y : Takes(token, U[m])
    BY DEF Repeatedly
  <2>3. PICK q \in Q : o = off[q] /\ q \in 0 .. Len(s)
    BY DEF Image
  <2>4. ASSUME NEW k \in 1 .. Len(s), ~(s[k] < Astral), y = off[k - 1] + 1 PROVE FALSE
    <3>1. k - 1 \in 0 .. Len(s) /\ off[k - 1] \in Nat /\ off[q] \in Nat /\ k \in 0 .. Len(s) /\ off[k] \in Nat
      BY <1>1, <2>3
    <3>2. ~Takes(token, U[y])
      BY <2>4, PlainPoint
    <3>3. ~(y \in (o + 1) .. y)
      BY <2>2, <3>2
    <3>4. o = y
      BY <2>1, <2>2, <2>3, <3>1, <3>3
    <3>5. off[k] = off[k - 1] + 2
      BY <2>4 DEF Encodes
    <3>6. off[k - 1] < off[q] /\ off[q] < off[k]
      BY <2>3, <2>4, <3>1, <3>4, <3>5
    <3>7. ~(q <= k - 1) /\ ~(k <= q)
      BY <1>1, <1>3, <2>3, <3>1, <3>6
    <3> QED
      BY <1>1, <2>3, <3>7
  <2>5. PICK e \in 0 .. Len(s) : y = off[e]
    <3>1. \/ \E k \in 0 .. Len(s) : y = off[k]
          \/ \E k \in 1 .. Len(s) : ~(s[k] < Astral) /\ y = off[k - 1] + 1 /\ off[k] = y + 1
      BY <2>1, OffsetsCover
    <3> QED
      BY <2>4, <3>1
  <2>6. q <= e
    BY <1>3, <2>2, <2>3, <2>5
  <2>7. ASSUME NEW m \in (q + 1) .. e PROVE Takes(token, s[m])
    <3>1. m \in 1 .. Len(s) /\ m - 1 \in 0 .. Len(s) /\ q <= m - 1 /\ m - 1 < e
      BY <1>1, <2>3, <2>5
    <3>2. off[q] <= off[m - 1] /\ off[m - 1] < off[e] /\ off[q] \in Nat /\ off[m - 1] \in Nat
      BY <1>1, <1>3, <2>3, <2>5, <3>1
    <3>3. off[m - 1] + 1 \in (o + 1) .. y
      BY <2>1, <2>3, <2>5, <3>2
    <3> QED
      BY <2>2, <3>1, <3>3, PlainPoint
  <2>8. e \in Repeatedly(token, s, Q)
    BY <2>3, <2>5, <2>6, <2>7 DEF Repeatedly
  <2> QED
    BY <2>5, <2>8 DEF Image
<1>6. ASSUME NEW y \in Image(off, Repeatedly(token, s, Q)) PROVE y \in Repeatedly(token, U, Image(off, Q))
  <2>1. PICK e \in Repeatedly(token, s, Q) : y = off[e]
    BY DEF Image
  <2>2. e \in 0 .. Len(s) /\ y \in 0 .. Len(U)
    BY <1>1, <1>2, <1>4, <2>1
  <2>3. PICK q \in Q : q <= e /\ \A m \in (q + 1) .. e : Takes(token, s[m])
    BY DEF Repeatedly
  <2>4. q \in 0 .. Len(s) /\ off[q] \in Image(off, Q) /\ off[q] <= y /\ off[q] \in Nat
    BY <1>1, <1>3, <2>1, <2>2, <2>3 DEF Image
  <2>5. ASSUME NEW m \in (off[q] + 1) .. y PROVE Takes(token, U[m])
    <3>1. m \in 0 .. Len(U) /\ m \in Nat /\ off[q] < m /\ m <= off[e]
      BY <2>1, <2>2, <2>4
    <3>2. ASSUME NEW k \in 1 .. Len(s), off[k - 1] < m, m <= off[k] PROVE Takes(token, U[m])
      <4>1. k \in 0 .. Len(s) /\ k - 1 \in 0 .. Len(s)
        OBVIOUS
      <4>2. off[k - 1] \in Nat /\ off[k] \in Nat /\ off[e] \in Nat
        BY <1>1, <2>2, <4>1
      <4>3. off[q] < off[k] /\ off[k - 1] < off[e]
        BY <2>4, <3>1, <3>2, <4>2
      <4>10. ~(k <= q)
        <5>1. k <= q => off[k] <= off[q]
          BY <1>3, <2>4, <4>1
        <5> QED
          BY <2>4, <4>2, <4>3, <5>1
      <4>11. ~(e <= k - 1)
        <5>1. e <= k - 1 => off[e] <= off[k - 1]
          BY <1>3, <2>2, <4>1
        <5> QED
          BY <4>2, <4>3, <5>1
      <4>4. ~(k <= q) /\ ~(e <= k - 1)
        BY <4>10, <4>11
      <4>5. k \in (q + 1) .. e
        BY <1>1, <2>2, <2>4, <4>4
      <4>6. Takes(token, s[k])
        BY <2>3, <4>5
      <4>7. s[k] < Astral /\ Takes(token, U[off[k - 1] + 1])
        BY <4>6, PlainPoint
      <4>8. off[k] = off[k - 1] + 1
        BY <4>7 DEF Encodes
      <4>9. m = off[k - 1] + 1
        BY <3>1, <3>2, <4>2, <4>8
      <4> QED
        BY <4>7, <4>9
    <3>3. CASE \E k \in 0 .. Len(s) : m = off[k]
      <4>1. PICK k \in 0 .. Len(s) : m = off[k]
        BY <3>3
      <4>2. ~(k <= q)
        BY <1>1, <1>3, <2>4, <3>1, <4>1
      <4>3. k \in 1 .. Len(s) /\ k - 1 \in 0 .. Len(s) /\ k - 1 < k
        BY <1>1, <2>4, <4>2
      <4>4. off[k - 1] < m
        BY <1>3, <4>1, <4>3
      <4> QED
        BY <3>1, <3>2, <4>1, <4>3, <4>4
    <3>4. CASE \E k \in 1 .. Len(s) : ~(s[k] < Astral) /\ m = off[k - 1] + 1 /\ off[k] = m + 1
      <4>1. PICK k \in 1 .. Len(s) : m = off[k - 1] + 1 /\ off[k] = m + 1
        BY <3>4
      <4>2. off[k - 1] \in Nat
        BY <1>1
      <4> QED
        BY <3>1, <3>2, <4>1, <4>2
    <3> QED
      BY <3>1, <3>3, <3>4, OffsetsCover
  <2> QED
    BY <2>2, <2>4, <2>5 DEF Repeatedly
<1> QED
  BY <1>2, <1>5, <1>6
(* A high and a low class that the port puts together.                        *)
Paired(high, low) ==
  /\ high.items \in Seq(Nat \X Nat) /\ \A a \in 1 .. Len(high.items) : HighRange(high.items[a])
  /\ low.items \in Seq(Nat \X Nat) /\ \A b \in 1 .. Len(low.items) : LowRange(low.items[b])
  /\ Combine(high.items, low.items) # Exploded

(* The classes take the units of a point that the ported token takes.          *)
LEMMA PairPoint ==
  ASSUME NEW high, NEW low, Paired(high, low), NEW c \in Scalars
  PROVE  LET points == Points(Combine(high.items, low.items))
         IN  /\ c < Astral => ~Takes(high, c) /\ ~Takes(points, c)
             /\ ~(c < Astral) =>
                  /\ Takes(points, c) <=> Takes(high, High(c)) /\ Takes(low, Low(c))
                  /\ ~Takes(high, Low(c))
<1> DEFINE ranges == Combine(high.items, low.items)
           points == Points(ranges)
<1>1. /\ Encoded(ranges)
      /\ \A d \in Scalars : d >= Astral =>
           (Covers(ranges, d) <=>
              \E a \in 1 .. Len(high.items) : \E b \in 1 .. Len(low.items) : PairIn(d, high.items[a], low.items[b]))
  BY CombineIs DEF Paired
<1>2. points.items = ranges
  BY DEF Points
<1>3. \A x : Takes(points, x) <=> Covers(ranges, x)
  BY <1>1, <1>2 DEF Takes, Covers, Encoded
<1>4. \A x : Takes(high, x) <=> \E a \in 1 .. Len(high.items) : high.items[a][1] <= x /\ x <= high.items[a][2]
  <2>1. DOMAIN high.items = 1 .. Len(high.items)
    BY DEF Paired
  <2> QED
    BY <2>1 DEF Takes
<1>5. \A x : Takes(low, x) <=> \E b \in 1 .. Len(low.items) : low.items[b][1] <= x /\ x <= low.items[b][2]
  <2>1. DOMAIN low.items = 1 .. Len(low.items)
    BY DEF Paired
  <2> QED
    BY <2>1 DEF Takes
<1>6. c \in Nat /\ ~(c \in HighFirst .. LowLast)
  BY Blocks, PairOf DEF Scalars
<1> HIDE DEF ranges, points
<1>7. \A a \in 1 .. Len(high.items) :
        /\ high.items[a][1] \in Nat /\ high.items[a][2] \in Nat
        /\ HighFirst <= high.items[a][1] /\ high.items[a][2] <= HighLast
  BY DEF Paired, HighRange
<1>8. ASSUME NEW x \in Nat, Takes(high, x) PROVE x \in HighFirst .. HighLast
  <2>1. PICK a \in 1 .. Len(high.items) : high.items[a][1] <= x /\ x <= high.items[a][2]
    BY <1>4, <1>8
  <2> QED
    BY <1>7, <2>1, Blocks
<1>9. ASSUME c < Astral PROVE ~Takes(high, c) /\ ~Takes(points, c)
  <2>1. ~Takes(high, c)
    BY <1>6, <1>8, Blocks
  <2>2. ASSUME NEW j \in 1 .. Len(ranges) PROVE ~(ranges[j][1] <= c)
    <3>1. ranges[j] \in Nat \X Nat /\ Astral <= ranges[j][1]
      BY <1>1 DEF Encoded
    <3> QED
      BY <1>6, <1>9, <3>1, Blocks
  <2> QED
    BY <1>3, <2>1, <2>2 DEF Covers
<1>10. ASSUME ~(c < Astral)
       PROVE  (Takes(points, c) <=> Takes(high, High(c)) /\ Takes(low, Low(c))) /\ ~Takes(high, Low(c))
  <2>1. High(c) \in HighFirst .. HighLast /\ Low(c) \in LowFirst .. LowLast /\ c >= Astral
    BY <1>6, <1>10, SurrogatesOf, Blocks
  <2>2. ~Takes(high, Low(c))
    BY <1>8, <2>1, Blocks
  <2>3. Covers(ranges, c) <=>
          \E a \in 1 .. Len(high.items) : \E b \in 1 .. Len(low.items) : PairIn(c, high.items[a], low.items[b])
    BY <1>1, <2>1
  <2>4. Covers(ranges, c) <=> Takes(high, High(c)) /\ Takes(low, Low(c))
    BY <1>4, <1>5, <2>3 DEF PairIn
  <2> QED
    BY <1>3, <2>2, <2>4
<1> QED
  BY <1>9, <1>10 DEF points, ranges

(* The same points of the text, by the two units and by the port's point.       *)
PairAlike(high, low, s, U, off, Q) ==
  /\ Once(Points(Combine(high.items, low.items)), s, Q) \subseteq 0 .. Len(s)
  /\ Once(low, U, Once(high, U, Image(off, Q))) = Image(off, Once(Points(Combine(high.items, low.items)), s, Q))

(* Two units for a pair, one point for what the port makes of it.              *)
LEMMA OncePair ==
  ASSUME NEW high, NEW low, Paired(high, low), NEW s \in Seq(Scalars), NEW U \in Seq(Nat), NEW off, Encodes(off, s, U),
         NEW Q \in SUBSET (0 .. Len(s))
  PROVE  PairAlike(high, low, s, U, off, Q)
<1> DEFINE points == Points(Combine(high.items, low.items))
<1>0. off \in [0 .. Len(s) -> Nat]
  BY DEF Encodes
<1>1. Len(s) \in Nat /\ Len(U) \in Nat /\ \A q \in 0 .. Len(s) : off[q] \in Nat
  BY <1>0
<1>2. Once(points, s, Q) \subseteq 0 .. Len(s)
  <2> HIDE DEF points
  <2> QED
    BY <1>1 DEF Once
<1>3. ASSUME NEW q \in 0 .. Len(s), q < Len(s)
      PROVE  /\ Takes(points, s[q + 1]) =>
                  off[q + 1] = off[q] + 2 /\ Takes(high, U[off[q] + 1]) /\ Takes(low, U[off[q] + 2])
             /\ Takes(high, U[off[q] + 1]) /\ Takes(low, U[off[q] + 2]) =>
                  Takes(points, s[q + 1]) /\ off[q + 1] = off[q] + 2
  <2>1. q + 1 \in 1 .. Len(s) /\ (q + 1) - 1 = q
    BY <1>1, <1>3
  <2>2. s[q + 1] \in Scalars
    BY <2>1
  <2>3. CASE s[q + 1] < Astral
    <3>1. U[off[q] + 1] = s[q + 1]
      BY <2>1, <2>3 DEF Encodes
    <3> QED
      BY <2>2, <2>3, <3>1, PairPoint
  <2>4. CASE ~(s[q + 1] < Astral)
    <3>1. off[q + 1] = off[q] + 2 /\ U[off[q] + 1] = High(s[q + 1]) /\ U[off[q] + 2] = Low(s[q + 1])
      BY <2>1, <2>4 DEF Encodes
    <3>2. Takes(points, s[q + 1]) <=> Takes(high, High(s[q + 1])) /\ Takes(low, Low(s[q + 1]))
      BY <2>2, <2>4, PairPoint
    <3> HIDE DEF points
    <3> QED
      BY <3>1, <3>2
  <2> QED
    BY <2>3, <2>4
<1> HIDE DEF points
<1>4. ASSUME NEW q \in 0 .. Len(s) PROVE (off[q] < Len(U) => q < Len(s)) /\ (q < Len(s) => off[q + 1] <= Len(U))
  <2>1. off[Len(s)] = Len(U) /\ Len(s) \in 0 .. Len(s)
    BY <1>1 DEF Encodes
  <2>2. ASSUME q < Len(s) PROVE off[q + 1] <= Len(U)
    <3>1. q + 1 \in 0 .. Len(s) /\ (q + 1 = Len(s) \/ q + 1 < Len(s))
      BY <1>1, <2>2
    <3>2. q + 1 < Len(s) => off[q + 1] < off[Len(s)]
      BY <2>1, <3>1, OffsetsGrow
    <3> QED
      BY <1>1, <2>1, <3>1, <3>2
  <2>3. ~(q < Len(s)) => q = Len(s)
    BY <1>1
  <2> QED
    BY <1>1, <2>1, <2>2, <2>3
<1>5. ASSUME NEW y \in Once(low, U, Once(high, U, Image(off, Q))) PROVE y \in Image(off, Once(points, s, Q))
  <2>1. PICK z \in Once(high, U, Image(off, Q)) : y = z + 1 /\ z < Len(U) /\ Takes(low, U[z + 1])
    BY DEF Once
  <2>2. PICK o \in Image(off, Q) : z = o + 1 /\ o < Len(U) /\ Takes(high, U[o + 1])
    BY DEF Once
  <2>3. PICK q \in Q : o = off[q]
    BY DEF Image
  <2>4. q \in 0 .. Len(s) /\ off[q] \in Nat /\ q < Len(s)
    BY <1>1, <1>4, <2>2, <2>3
  <2>5. z + 1 = off[q] + 2 /\ y = off[q] + 2
    BY <2>1, <2>2, <2>3, <2>4
  <2>6. Takes(points, s[q + 1]) /\ y = off[q + 1]
    BY <1>3, <2>1, <2>2, <2>3, <2>4, <2>5
  <2>7. q + 1 \in Once(points, s, Q)
    BY <2>3, <2>4, <2>6 DEF Once
  <2> QED
    BY <2>6, <2>7 DEF Image
<1>6. ASSUME NEW y \in Image(off, Once(points, s, Q)) PROVE y \in Once(low, U, Once(high, U, Image(off, Q)))
  <2>1. PICK q \in Q : y = off[q + 1] /\ q < Len(s) /\ Takes(points, s[q + 1])
    BY DEF Image, Once
  <2>2. q \in 0 .. Len(s) /\ off[q] \in Nat /\ off[q] \in Image(off, Q)
    BY <1>1 DEF Image
  <2>3. y = off[q] + 2 /\ Takes(high, U[off[q] + 1]) /\ Takes(low, U[off[q] + 2]) /\ off[q] + 2 <= Len(U)
    BY <1>3, <1>4, <2>1, <2>2
  <2>4. off[q] + 1 \in Once(high, U, Image(off, Q))
    <3>1. off[q] < Len(U)
      BY <1>1, <2>2, <2>3
    <3> QED
      BY <2>2, <2>3, <3>1 DEF Once
  <2>5. off[q] + 1 < Len(U) /\ (off[q] + 1) + 1 = off[q] + 2
    BY <1>1, <2>2, <2>3
  <2> QED
    BY <2>3, <2>4, <2>5 DEF Once
<1> QED
  BY <1>2, <1>5, <1>6 DEF points, PairAlike

(* Nothing is taken from there.                                              *)
Stuck(U, R) ==
  /\ \A token : Plain(token) => Once(token, U, R) = {} /\ Repeatedly(token, U, R) \subseteq R
  /\ \A high, low : Paired(high, low) => Once(high, U, R) = {}

(* From the middle of a pair nothing is taken.                               *)
LEMMA InsidePair ==
  ASSUME NEW s \in Seq(Scalars), NEW U \in Seq(Nat), NEW off, Encodes(off, s, U),
         NEW k \in 1 .. Len(s), ~(s[k] < Astral), NEW p, p = off[k - 1] + 1, NEW R \in SUBSET {p}
  PROVE  Stuck(U, R)
<1>0. off \in [0 .. Len(s) -> Nat]
  BY DEF Encodes
<1>1. off[k - 1] \in Nat /\ p \in Nat /\ Len(U) \in Nat /\ s[k] \in Scalars
  <2>1. k - 1 \in 0 .. Len(s)
    OBVIOUS
  <2> QED
    BY <1>0, <2>1
<1>2. U[p + 1] = Low(s[k])
  <2>1. p + 1 = off[k - 1] + 2
    BY <1>1
  <2> QED
    BY <2>1 DEF Encodes
<1>3. ASSUME NEW token, Plain(token) PROVE ~Takes(token, U[p + 1])
  <2>1. ~Takes(token, U[off[k - 1] + 2])
    BY <1>3, PlainPoint
  <2>2. p + 1 = off[k - 1] + 2
    BY <1>1
  <2> QED
    BY <2>1, <2>2
<1>4. ASSUME NEW high, NEW low, Paired(high, low) PROVE ~Takes(high, U[p + 1])
  BY <1>1, <1>2, <1>4, PairPoint
<1>5. \A token : ~Takes(token, U[p + 1]) => Once(token, U, R) = {}
  BY DEF Once
<1>6. ASSUME NEW token, Plain(token), NEW y \in Repeatedly(token, U, R) PROVE y \in R
  <2>1. y \in Nat /\ p \in R /\ p <= y /\ \A m \in (p + 1) .. y : Takes(token, U[m])
    BY <1>1 DEF Repeatedly
  <2>2. ~(p + 1 \in (p + 1) .. y)
    BY <1>3, <1>6, <2>1
  <2> QED
    BY <1>1, <2>1, <2>2
<1> QED
  BY <1>3, <1>4, <1>5, <1>6 DEF Stuck
-----------------------------------------------------------------------------
(* The port, token by token. *)

(* A token of a condition, ported or not.                                    *)
Token == [kind : {"raw", "class", "star", "points"}, items : Seq(Nat \X Nat)]

(* The tokens of a condition are tokens.                                     *)
LEMMA WrittenTokens ==
  ASSUME NEW tokens, Written(tokens)
  PROVE  /\ Len(tokens) \in Nat /\ DOMAIN tokens = 1 .. Len(tokens) /\ tokens \in Seq(Token)
         /\ \A k \in 1 .. Len(tokens) :
              /\ tokens[k] \in Token /\ tokens[k].kind # "points" /\ tokens[k].items \in Seq(CodeUnits \X CodeUnits)
              /\ tokens[k].items \in Seq(Nat \X Nat) /\ DOMAIN tokens[k].items = 1 .. Len(tokens[k].items)
<1> DEFINE S == CodeUnits \X CodeUnits
           R == [kind : {"raw", "class", "star"}, items : Seq(S)]
<1>1. tokens \in Seq(R)
  BY DEF Written
<1> HIDE DEF R
<1>2. Len(tokens) \in Nat /\ DOMAIN tokens = 1 .. Len(tokens) /\ \A k \in 1 .. Len(tokens) : tokens[k] \in R
  BY <1>1
<1>3. S \subseteq Nat \X Nat
  BY Blocks DEF CodeUnits
<1> HIDE DEF S
<1>4. \A q \in Seq(S) : q \in Seq(Nat \X Nat) /\ DOMAIN q = 1 .. Len(q)
  <2> SUFFICES ASSUME NEW q \in Seq(S) PROVE q \in Seq(Nat \X Nat) /\ DOMAIN q = 1 .. Len(q)
    OBVIOUS
  <2>1. q \in [1 .. Len(q) -> S] /\ Len(q) \in Nat
    OBVIOUS
  <2>2. q \in [1 .. Len(q) -> Nat \X Nat]
    BY <1>3, <2>1
  <2> QED
    BY <2>1, <2>2
<1>5. ASSUME NEW k \in 1 .. Len(tokens)
      PROVE  /\ tokens[k] \in Token /\ tokens[k].kind # "points" /\ tokens[k].items \in Seq(S)
             /\ tokens[k].items \in Seq(Nat \X Nat) /\ DOMAIN tokens[k].items = 1 .. Len(tokens[k].items)
  <2>1. tokens[k] \in R
    BY <1>2
  <2>2. tokens[k].items \in Seq(S) /\ tokens[k].kind # "points"
    BY <2>1 DEF R
  <2>3. tokens[k] \in Token
    BY <1>4, <2>1, <2>2 DEF R, Token
  <2> QED
    BY <1>4, <2>2, <2>3
<1>6. tokens \in Seq(Token)
  <2>1. tokens \in [1 .. Len(tokens) -> Token]
    BY <1>1, <1>2, <1>5
  <2> HIDE DEF Token
  <2> QED
    BY <1>2, <2>1
<1> QED
  BY <1>2, <1>5, <1>6 DEF S

(* Two classes that are a pair are one the port can put together, and neither  *)
(* of them is in another pair.                                               *)
LEMMA PairFacts ==
  ASSUME NEW tokens, Written(tokens), NEW i \in 1 .. Len(tokens), PairAt(tokens, i)
  PROVE  /\ i + 1 \in 1 .. Len(tokens) /\ Paired(tokens[i], tokens[i + 1])
         /\ Points(Combine(tokens[i].items, tokens[i + 1].items)) \in Token
         /\ tokens[i].kind = "class" /\ tokens[i + 1].kind = "class"
         /\ ~PairAt(tokens, i + 1) /\ (i > 1 => ~PairAt(tokens, i - 1))
         /\ i + 2 \in 1 .. Len(tokens) => tokens[i + 2].kind # "star"
<1> DEFINE n == Len(tokens)
<1>1. n \in Nat /\ i + 1 \in 1 .. n /\ i \in 1 .. n
  BY WrittenTokens DEF PairAt
<1>2. \A k \in 1 .. n : \A a \in DOMAIN tokens[k].items : tokens[k].items[a][1] <= tokens[k].items[a][2]
  BY WrittenTokens DEF Written
<1>3. \A k \in 1 .. n : tokens[k].items \in Seq(Nat \X Nat) /\ DOMAIN tokens[k].items = 1 .. Len(tokens[k].items)
  BY WrittenTokens
<1>4. ASSUME NEW k \in 1 .. n, Within(tokens[k], HighFirst, HighLast)
      PROVE  \A a \in 1 .. Len(tokens[k].items) : HighRange(tokens[k].items[a])
  <2> SUFFICES ASSUME NEW a \in 1 .. Len(tokens[k].items) PROVE HighRange(tokens[k].items[a])
    OBVIOUS
  <2>1. tokens[k].items[a] \in Nat \X Nat /\ a \in DOMAIN tokens[k].items
    BY <1>3
  <2>2. tokens[k].items[a][1] <= tokens[k].items[a][2]
    BY <1>2, <2>1
  <2> QED
    BY <1>4, <2>1, <2>2 DEF Within, HighRange
<1>5. ASSUME NEW k \in 1 .. n, Within(tokens[k], LowFirst, LowLast)
      PROVE  \A a \in 1 .. Len(tokens[k].items) : LowRange(tokens[k].items[a])
  <2> SUFFICES ASSUME NEW a \in 1 .. Len(tokens[k].items) PROVE LowRange(tokens[k].items[a])
    OBVIOUS
  <2>1. tokens[k].items[a] \in Nat \X Nat /\ a \in DOMAIN tokens[k].items
    BY <1>3
  <2>2. tokens[k].items[a][1] <= tokens[k].items[a][2]
    BY <1>2, <2>1
  <2> QED
    BY <1>5, <2>1, <2>2 DEF Within, LowRange
<1>6. Within(tokens[i], HighFirst, HighLast) /\ Within(tokens[i + 1], LowFirst, LowLast)
  BY DEF PairAt
<1>7. Paired(tokens[i], tokens[i + 1])
  BY <1>1, <1>3, <1>4, <1>5, <1>6 DEF Paired, PairAt
<1>8. Points(Combine(tokens[i].items, tokens[i + 1].items)) \in Token
  <2>1. Encoded(Combine(tokens[i].items, tokens[i + 1].items))
    BY <1>7, CombineIs DEF Paired
  <2> QED
    BY <2>1 DEF Encoded, Points, Token
<1>9. ASSUME NEW k \in 1 .. n, Within(tokens[k], HighFirst, HighLast), Within(tokens[k], LowFirst, LowLast)
      PROVE  FALSE
  <2>1. 1 \in 1 .. Len(tokens[k].items)
    BY <1>3, <1>9 DEF Within
  <2>2. HighRange(tokens[k].items[1]) /\ LowRange(tokens[k].items[1])
    BY <1>4, <1>5, <1>9, <2>1
  <2> QED
    BY <2>2, Blocks DEF HighRange, LowRange
<1>10. ~PairAt(tokens, i + 1)
  BY <1>1, <1>6, <1>9 DEF PairAt
<1>11. i > 1 => ~PairAt(tokens, i - 1)
  <2>1. (i - 1) + 1 = i
    OBVIOUS
  <2> QED
    BY <1>6, <1>9, <2>1 DEF PairAt
<1>12. i + 2 \in 1 .. n => tokens[i + 2].kind # "star"
  BY <1>1 DEF PairAt
<1> QED
  BY <1>1, <1>6, <1>7, <1>8, <1>10, <1>11, <1>12 DEF Within

(* What the port has made of the first tokens, one after the other.           *)
Ports(u, tokens) ==
  /\ u[0] = <<>>
  /\ \A i \in 1 .. Len(tokens) :
       u[i] = IF i > 1 /\ PairAt(tokens, i - 1)
              THEN Append(u[i - 2], Points(Combine(tokens[i - 1].items, tokens[i].items)))
              ELSE Append(u[i - 1], tokens[i])

(* The port takes these steps.                                               *)
LEMMA PortSteps ==
  ASSUME NEW tokens, Written(tokens)
  PROVE  \E u \in [0 .. Len(tokens) -> Seq(Token)] : Ports(u, tokens) /\ Port(tokens) = u[Len(tokens)]
<1> DEFINE n == Len(tokens)
           V == Seq(Token)
           made(i) == Points(Combine(tokens[i - 1].items, tokens[i].items))
           Step(i, x) == IF i > 1 /\ PairAt(tokens, i - 1) THEN Append(x[2], made(i)) ELSE Append(x[1], tokens[i])
           Go == [i \in 1 .. n |-> [x \in V \X V |-> Step(i, x)]]
           F(g) == g = [i \in 0 .. n |->
                         IF i = 0 THEN <<>>
                         ELSE IF i > 1 /\ PairAt(tokens, i - 1) THEN Append(g[i - 2], made(i))
                         ELSE Append(g[i - 1], tokens[i])]
           first == CHOOSE g : F(g)
<1>1. n \in Nat /\ <<>> \in V
  BY WrittenTokens
<1>2. ASSUME NEW i \in 1 .. n, NEW x \in V \X V PROVE Step(i, x) \in V
  <2>1. tokens[i] \in Token
    BY WrittenTokens
  <2>2. i > 1 /\ PairAt(tokens, i - 1) => made(i) \in Token
    <3> SUFFICES ASSUME i > 1, PairAt(tokens, i - 1) PROVE made(i) \in Token
      OBVIOUS
    <3>1. i - 1 \in 1 .. n /\ (i - 1) + 1 = i
      BY <1>1
    <3> QED
      BY <3>1, PairFacts
  <2> HIDE DEF made
  <2> QED
    BY <2>1, <2>2
<1>3. Go \in [1 .. n -> [V \X V -> V]]
  BY <1>2
<1>4. PICK u \in [0 .. n -> V] : Follows(u, n, <<>>, Go)
  <2> HIDE DEF Go, n, V
  <2> QED
    BY <1>1, <1>3, Recursion
<1> HIDE DEF made
<1>5. ASSUME NEW i \in 1 .. n
      PROVE  u[i] = IF i > 1 /\ PairAt(tokens, i - 1) THEN Append(u[i - 2], made(i)) ELSE Append(u[i - 1], tokens[i])
  <2>1. i - 1 \in 0 .. n /\ (i > 1 => i - 2 \in 0 .. n)
    BY <1>1
  <2> HIDE DEF n, V
  <2>2. u[i - 1] \in V /\ (i > 1 => u[i - 2] \in V)
    BY <1>4, <2>1
  <2> DEFINE x == <<u[i - 1], IF i > 1 THEN u[i - 2] ELSE <<>> >>
  <2>3. x \in V \X V /\ x[1] = u[i - 1] /\ (i > 1 => x[2] = u[i - 2])
    BY <1>1, <2>2
  <2>4. u[i] = Go[i][x]
    <3> HIDE DEF Go
    <3> QED
      BY <1>4 DEF Follows
  <2>5. Go[i][x] = Step(i, x)
    <3> HIDE DEF x, Step
    <3> QED
      BY <2>3
  <2> HIDE DEF Go, x
  <2> QED
    BY <2>3, <2>4, <2>5
<1> HIDE DEF Go, V, Step
<1>6. Ports(u, tokens)
  BY <1>4, <1>5 DEF Ports, Follows, made
<1>7. F(u)
  <2>1. ASSUME NEW i \in 0 .. n
        PROVE  u[i] = IF i = 0 THEN <<>>
                      ELSE IF i > 1 /\ PairAt(tokens, i - 1) THEN Append(u[i - 2], made(i))
                      ELSE Append(u[i - 1], tokens[i])
    <3>1. CASE i = 0
      BY <1>4, <3>1 DEF Follows
    <3>2. CASE i # 0
      <4>1. i \in 1 .. n
        BY <1>1, <3>2
      <4> HIDE DEF n
      <4> QED
        BY <1>5, <3>2, <4>1
    <3> QED
      BY <3>1, <3>2
  <2>2. u = [i \in 0 .. n |-> u[i]]
    BY <1>4
  <2> QED
    BY <2>1, <2>2
<1>8. F(first)
  BY <1>7
<1>9. Port(tokens) = first[n]
  BY DEF Port, made
<1> HIDE DEF first
<1>10. first[n] = u[n]
  <2>1. ASSUME NEW i \in 1 .. n, first[i - 1] = u[i - 1] /\ (i > 1 => first[i - 2] = u[i - 2])
        PROVE  first[i] = u[i]
    <3>1. i \in 0 .. n /\ i # 0
      OBVIOUS
    <3>2. first[i] = IF i > 1 /\ PairAt(tokens, i - 1) THEN Append(first[i - 2], made(i))
                     ELSE Append(first[i - 1], tokens[i])
      BY <1>8, <3>1
    <3> QED
      BY <1>5, <2>1, <3>2
  <2>2. first[0] = u[0]
    BY <1>1, <1>4, <1>8 DEF Follows
  <2>3. Alike(first, u, n)
    BY <2>1, <2>2 DEF Alike
  <2> HIDE DEF F, n
  <2> QED
    BY <1>1, <2>3, SameSteps
<1> QED
  <2> HIDE DEF first
  <2> QED
    BY <1>4, <1>6, <1>9, <1>10 DEF V
(* What the port is left with after a token overlaps no surrogate only if what  *)
(* it was left with before does not, and that token does not.                 *)
LEMMA CleanPrefix ==
  ASSUME NEW t \in Seq(Token), NEW token \in Token, ~HasSurrogate(Append(t, token))
  PROVE  /\ ~HasSurrogate(t)
         /\ ~\E j \in DOMAIN token.items : token.items[j][1] <= LowLast /\ token.items[j][2] >= HighFirst
<1> HIDE DEF Token
<1>1. /\ DOMAIN t = 1 .. Len(t) /\ DOMAIN Append(t, token) = 1 .. Len(t) + 1 /\ Len(t) \in Nat
      /\ Append(t, token)[Len(t) + 1] = token /\ \A k \in 1 .. Len(t) : Append(t, token)[k] = t[k]
  OBVIOUS
<1>2. ~HasSurrogate(t)
  BY <1>1 DEF HasSurrogate
<1>3. Len(t) + 1 \in DOMAIN Append(t, token)
  BY <1>1
<1> QED
  BY <1>1, <1>2, <1>3 DEF HasSurrogate

(* The port is between two tokens that are no pair, and clean so far.          *)
CleanAt(tokens, u, i) == (i = 0 \/ ~PairAt(tokens, i)) /\ ~HasSurrogate(u[i])

(* It comes there by a pair, by a plain token or by one with a star.           *)
PairStep(tokens, u, i) ==
  /\ i > 1 /\ Paired(tokens[i - 1], tokens[i]) /\ tokens[i - 1].kind # "star" /\ tokens[i].kind # "star"
  /\ Points(Combine(tokens[i - 1].items, tokens[i].items)) \in Token
  /\ u[i] = Append(u[i - 2], Points(Combine(tokens[i - 1].items, tokens[i].items)))
PlainStep(tokens, u, i) ==
  Plain(tokens[i]) /\ tokens[i].kind # "star" /\ u[i] = Append(u[i - 1], tokens[i])
StarStep(tokens, u, i) ==
  /\ i > 1 /\ Plain(tokens[i - 1]) /\ tokens[i - 1].kind # "star" /\ tokens[i].kind = "star"
  /\ u[i] = Append(Append(u[i - 2], tokens[i - 1]), tokens[i])

(* There is no other way.                                                    *)
LEMMA CleanStep ==
  ASSUME NEW tokens, Written(tokens), NEW u \in [0 .. Len(tokens) -> Seq(Token)], Ports(u, tokens),
         NEW i \in 1 .. Len(tokens), CleanAt(tokens, u, i)
  PROVE  \/ PairStep(tokens, u, i) /\ CleanAt(tokens, u, i - 2)
         \/ PlainStep(tokens, u, i) /\ CleanAt(tokens, u, i - 1)
         \/ StarStep(tokens, u, i) /\ CleanAt(tokens, u, i - 2)
<1> DEFINE n == Len(tokens)
<1>1. n \in Nat /\ \A k \in 1 .. n : tokens[k] \in Token /\ tokens[k].items \in Seq(CodeUnits \X CodeUnits)
  BY WrittenTokens
<1>2. i - 1 \in 0 .. n /\ (i > 1 => i - 2 \in 0 .. n /\ i - 1 \in 1 .. n) /\ (i - 1) + 1 = i /\ (i - 2) + 2 = i
      /\ (i - 2) + 1 = i - 1
  BY <1>1
<1>3. u[i - 1] \in Seq(Token) /\ (i > 1 => u[i - 2] \in Seq(Token))
  BY <1>2
<1>4. u[i] = IF i > 1 /\ PairAt(tokens, i - 1)
             THEN Append(u[i - 2], Points(Combine(tokens[i - 1].items, tokens[i].items)))
             ELSE Append(u[i - 1], tokens[i])
  BY DEF Ports
<1>5. CASE i > 1 /\ PairAt(tokens, i - 1)
  <2>1. /\ Paired(tokens[i - 1], tokens[i]) /\ tokens[i - 1].kind # "star" /\ tokens[i].kind # "star"
        /\ Points(Combine(tokens[i - 1].items, tokens[i].items)) \in Token
        /\ (i - 1 > 1 => ~PairAt(tokens, (i - 1) - 1))
    BY <1>2, <1>5, PairFacts
  <2>2. PairStep(tokens, u, i)
    BY <1>4, <1>5, <2>1 DEF PairStep
  <2>3. ~HasSurrogate(u[i - 2])
    BY <1>3, <1>4, <1>5, <2>1, CleanPrefix DEF CleanAt
  <2>4. i - 2 = 0 \/ ~PairAt(tokens, i - 2)
    <3>1. CASE i - 1 > 1
      <4>1. (i - 1) - 1 = i - 2
        BY <1>2
      <4> QED
        BY <2>1, <3>1, <4>1
    <3>2. CASE ~(i - 1 > 1)
      BY <1>1, <1>5, <3>2
    <3> QED
      BY <3>1, <3>2
  <2> QED
    BY <2>2, <2>3, <2>4 DEF CleanAt
<1>6. CASE ~(i > 1 /\ PairAt(tokens, i - 1))
  <2>1. u[i] = Append(u[i - 1], tokens[i])
    BY <1>4, <1>6
  <2>2. ~HasSurrogate(u[i - 1]) /\ Plain(tokens[i])
    BY <1>1, <1>3, <2>1, CleanPrefix DEF CleanAt, Plain
  <2>3. i - 1 = 0 \/ ~PairAt(tokens, i - 1)
    BY <1>1, <1>6
  <2>4. CASE tokens[i].kind # "star"
    BY <2>1, <2>2, <2>3, <2>4 DEF PlainStep, CleanAt
  <2>5. CASE tokens[i].kind = "star"
    <3>1. i > 1 /\ tokens[i - 1].kind # "star"
      BY <2>5, WrittenTokens DEF Written
    <3>2. i - 1 > 1 => ~PairAt(tokens, i - 2)
      <4> SUFFICES ASSUME i - 1 > 1, PairAt(tokens, i - 2) PROVE FALSE
        OBVIOUS
      <4>1. i - 2 \in 1 .. n
        BY <1>2, <3>1
      <4>2. (i - 2) + 2 \in 1 .. n => tokens[(i - 2) + 2].kind # "star"
        BY <4>1, PairFacts
      <4> QED
        BY <1>2, <2>5, <4>2
    <3>3. u[i - 1] = Append(u[i - 2], tokens[i - 1])
      <4>1. i - 1 \in 1 .. n
        BY <1>2, <3>1
      <4>2. u[i - 1] = IF i - 1 > 1 /\ PairAt(tokens, (i - 1) - 1)
                       THEN Append(u[(i - 1) - 2], Points(Combine(tokens[(i - 1) - 1].items, tokens[i - 1].items)))
                       ELSE Append(u[(i - 1) - 1], tokens[i - 1])
        BY <4>1 DEF Ports
      <4>3. (i - 1) - 1 = i - 2
        BY <1>2
      <4> QED
        BY <3>2, <4>2, <4>3
    <3>4. tokens[i - 1] \in Token /\ tokens[i - 1].items \in Seq(CodeUnits \X CodeUnits)
      BY <1>1, <1>2, <3>1
    <3>5. ~HasSurrogate(u[i - 2]) /\ Plain(tokens[i - 1])
      BY <1>3, <2>2, <3>1, <3>3, <3>4, CleanPrefix DEF Plain
    <3>6. StarStep(tokens, u, i)
      BY <2>1, <2>5, <3>1, <3>3, <3>5 DEF StarStep
    <3>7. i - 2 = 0 \/ ~PairAt(tokens, i - 2)
      BY <1>1, <3>1, <3>2
    <3> QED
      BY <3>5, <3>6, <3>7 DEF CleanAt
  <2> QED
    BY <2>4, <2>5
<1> QED
  BY <1>5, <1>6

(* What those steps carry on holds wherever the port is clean.                 *)
LEMMA CleanInduction ==
  ASSUME NEW tokens, Written(tokens), NEW u \in [0 .. Len(tokens) -> Seq(Token)], Ports(u, tokens),
         NEW Q, 0 \in Q,
         \A i \in 1 .. Len(tokens) : PairStep(tokens, u, i) /\ i - 2 \in Q => i \in Q,
         \A i \in 1 .. Len(tokens) : PlainStep(tokens, u, i) /\ i - 1 \in Q => i \in Q,
         \A i \in 1 .. Len(tokens) : StarStep(tokens, u, i) /\ i - 2 \in Q => i \in Q
  PROVE  \A i \in 0 .. Len(tokens) : CleanAt(tokens, u, i) => i \in Q
<1> DEFINE n == Len(tokens)
           Good == { m \in Nat : \A i \in 0 .. m : i <= n /\ CleanAt(tokens, u, i) => i \in Q }
<1>1. n \in Nat
  BY WrittenTokens
<1>2. 0 \in Good
  OBVIOUS
<1>3. ASSUME NEW m \in Nat, m \in Good PROVE m + 1 \in Good
  <2>1. ASSUME m + 1 <= n, CleanAt(tokens, u, m + 1) PROVE m + 1 \in Q
    <3> DEFINE i == m + 1
    <3>1. i \in 1 .. n /\ i - 1 \in 0 .. m /\ i - 1 <= n /\ (i > 1 => i - 2 \in 0 .. m /\ i - 2 <= n)
      BY <1>1, <2>1
    <3>2. \A k \in 0 .. m : k <= n /\ CleanAt(tokens, u, k) => k \in Q
      BY <1>3
    <3> HIDE DEF i, Good
    <3>3. \/ PairStep(tokens, u, i) /\ CleanAt(tokens, u, i - 2)
          \/ PlainStep(tokens, u, i) /\ CleanAt(tokens, u, i - 1)
          \/ StarStep(tokens, u, i) /\ CleanAt(tokens, u, i - 2)
      <4>1. CleanAt(tokens, u, i)
        BY <2>1 DEF i
      <4> QED
        BY <3>1, <4>1, CleanStep
    <3>4. PairStep(tokens, u, i) \/ StarStep(tokens, u, i) => i > 1
      BY DEF PairStep, StarStep
    <3>5. i \in Q
      BY <3>1, <3>2, <3>3, <3>4
    <3> QED
      BY <3>5 DEF i
  <2>2. \A i \in 0 .. m + 1 : i \in 0 .. m \/ i = m + 1
    OBVIOUS
  <2> QED
    BY <1>3, <2>1, <2>2
<1>4. n \in Good
  <2> HIDE DEF Good, n
  <2>1. Nat \subseteq Good
    BY <1>2, <1>3, SetInduction
  <2> QED
    BY <1>1, <2>1
<1> QED
  BY <1>1, <1>4
-----------------------------------------------------------------------------
(* A match over the units and a match of the port over the text. *)

(* After i tokens both matches are at the same points.                        *)
Agrees(u, i, s, p, off, r) ==
  Headed(u[i]) /\ Ends(u[i], s, p) \subseteq 0 .. Len(s) /\ r[i] = Image(off, Ends(u[i], s, p))

(* They are if the match over the units begins where a point does.             *)
LEMMA MatchOutside ==
  ASSUME NEW tokens, Written(tokens), NEW u \in [0 .. Len(tokens) -> Seq(Token)], Ports(u, tokens),
         NEW s \in Seq(Scalars), NEW U \in Seq(Nat), NEW off, Encodes(off, s, U),
         NEW p \in 0 .. Len(s), NEW r, Runs(tokens, U, off[p], r)
  PROVE  \A i \in 0 .. Len(tokens) : CleanAt(tokens, u, i) => Agrees(u, i, s, p, off, r)
<1> DEFINE n == Len(tokens)
           Q == { i \in 0 .. n : Agrees(u, i, s, p, off, r) }
<1>1. n \in Nat /\ Len(s) \in Nat /\ p \in Nat /\ \A k \in 1 .. n : tokens[k] \in Token
  BY WrittenTokens
<1>2. \A i \in 1 .. n : i - 1 \in 0 .. n /\ (i > 1 => i - 2 \in 0 .. n /\ i - 1 \in 1 .. n) /\ (i - 1) - 1 = i - 2 /\ i \in 0 .. n
  BY <1>1
<1>3. \A i \in 1 .. n : r[i] = IF tokens[i].kind = "star" THEN Repeatedly(tokens[i - 1], U, r[i - 2])
                               ELSE Once(tokens[i], U, r[i - 1])
  BY DEF Runs
<1>4. 0 \in Q
  <2>1. u[0] = <<>>
    BY DEF Ports
  <2>2. Headed(<<>>)
    <3>1. Len(<<>>) = 0
      OBVIOUS
    <3> QED
      BY <3>1 DEF Headed
  <2>3. Ends(<<>>, s, p) = {p}
    BY <1>1, EndsEmpty
  <2>4. r[0] = {off[p]} /\ Image(off, {p}) = {off[p]}
    BY DEF Runs, Image
  <2>5. Agrees(u, 0, s, p, off, r)
    BY <2>1, <2>2, <2>3, <2>4 DEF Agrees
  <2> QED
    BY <1>1, <2>5
<1>5. ASSUME NEW i \in 1 .. n, PairStep(tokens, u, i), i - 2 \in Q PROVE i \in Q
  <2> DEFINE points == Points(Combine(tokens[i - 1].items, tokens[i].items))
             E == Ends(u[i - 2], s, p)
  <2>1. /\ i > 1 /\ Paired(tokens[i - 1], tokens[i]) /\ tokens[i - 1].kind # "star" /\ tokens[i].kind # "star"
        /\ points \in Token /\ u[i] = Append(u[i - 2], points)
    BY <1>5 DEF PairStep
  <2>2. Headed(u[i - 2]) /\ E \in SUBSET (0 .. Len(s)) /\ r[i - 2] = Image(off, E)
    BY <1>5 DEF Agrees
  <2>3. u[i - 2] \in Seq(Token)
    BY <1>2, <2>1
  <2>4. r[i] = Once(tokens[i], U, Once(tokens[i - 1], U, Image(off, E)))
    <3>1. r[i] = Once(tokens[i], U, r[i - 1])
      BY <1>3, <2>1
    <3>2. r[i - 1] = Once(tokens[i - 1], U, r[(i - 1) - 1])
      BY <1>2, <1>3, <2>1
    <3> QED
      BY <1>2, <2>2, <3>1, <3>2
  <2> HIDE DEF E
  <2>5. Once(points, s, E) \subseteq 0 .. Len(s) /\ r[i] = Image(off, Once(points, s, E))
    <3> DEFINE high == tokens[i - 1]
               low == tokens[i]
    <3>1. Paired(high, low) /\ E \in SUBSET (0 .. Len(s))
      BY <2>1, <2>2
    <3>2. points = Points(Combine(high.items, low.items))
      OBVIOUS
    <3> HIDE DEF high, low, points
    <3>3. PairAlike(high, low, s, U, off, E)
      BY <3>1, OncePair
    <3> QED
      BY <2>4, <3>2, <3>3 DEF PairAlike, high, low
  <2>6. points.kind # "star"
    BY DEF Points
  <2> HIDE DEF points
  <2>7. Headed(u[i]) /\ Ends(u[i], s, p) = Once(points, s, E)
    BY <1>1, <2>1, <2>2, <2>3, <2>6, EndsOnce DEF E
  <2>8. Agrees(u, i, s, p, off, r)
    BY <2>5, <2>7 DEF Agrees
  <2> QED
    BY <1>2, <2>8
<1>6. ASSUME NEW i \in 1 .. n, PlainStep(tokens, u, i), i - 1 \in Q PROVE i \in Q
  <2> DEFINE E == Ends(u[i - 1], s, p)
  <2>1. Plain(tokens[i]) /\ tokens[i].kind # "star" /\ u[i] = Append(u[i - 1], tokens[i])
    BY <1>6 DEF PlainStep
  <2>2. Headed(u[i - 1]) /\ E \in SUBSET (0 .. Len(s)) /\ r[i - 1] = Image(off, E)
    BY <1>6 DEF Agrees
  <2>3. u[i - 1] \in Seq(Token)
    BY <1>2
  <2>4. r[i] = Once(tokens[i], U, Image(off, E))
    BY <1>3, <2>1, <2>2
  <2> HIDE DEF E
  <2>5. Once(tokens[i], s, E) \subseteq 0 .. Len(s) /\ r[i] = Image(off, Once(tokens[i], s, E))
    BY <2>1, <2>2, <2>4, OncePlain
  <2>7. Headed(u[i]) /\ Ends(u[i], s, p) = Once(tokens[i], s, E)
    BY <1>1, <2>1, <2>2, <2>3, EndsOnce DEF E
  <2>8. Agrees(u, i, s, p, off, r)
    BY <2>5, <2>7 DEF Agrees
  <2> QED
    BY <1>2, <2>8
<1>7. ASSUME NEW i \in 1 .. n, StarStep(tokens, u, i), i - 2 \in Q PROVE i \in Q
  <2> DEFINE E == Ends(u[i - 2], s, p)
  <2>1. /\ i > 1 /\ Plain(tokens[i - 1]) /\ tokens[i - 1].kind # "star" /\ tokens[i].kind = "star"
        /\ u[i] = Append(Append(u[i - 2], tokens[i - 1]), tokens[i])
    BY <1>7 DEF StarStep
  <2>2. Headed(u[i - 2]) /\ E \in SUBSET (0 .. Len(s)) /\ r[i - 2] = Image(off, E)
    BY <1>7 DEF Agrees
  <2>3. u[i - 2] \in Seq(Token) /\ tokens[i - 1] \in Token /\ tokens[i] \in Token
    BY <1>1, <1>2, <2>1
  <2>4. r[i] = Repeatedly(tokens[i - 1], U, Image(off, E))
    BY <1>3, <2>1, <2>2
  <2> HIDE DEF E
  <2>5. Repeatedly(tokens[i - 1], s, E) \subseteq 0 .. Len(s) /\ r[i] = Image(off, Repeatedly(tokens[i - 1], s, E))
    BY <2>1, <2>2, <2>4, RepeatedlyPlain
  <2>7. Headed(u[i]) /\ Ends(u[i], s, p) = Repeatedly(tokens[i - 1], s, E)
    BY <1>1, <2>1, <2>2, <2>3, EndsRepeatedly DEF E
  <2>8. Agrees(u, i, s, p, off, r)
    BY <2>5, <2>7 DEF Agrees
  <2> QED
    BY <1>2, <2>8
<1> HIDE DEF Q
<1>8. \A i \in 0 .. n : CleanAt(tokens, u, i) => i \in Q
  BY <1>4, <1>5, <1>6, <1>7, CleanInduction
<1> QED
  BY <1>8 DEF Q

(* A match over the units that begins inside a point can only be empty, and if  *)
(* it is, the port matches the empty text at every point.                    *)
Idle(u, i, s, q, r) ==
  Headed(u[i]) /\ r[i] \subseteq {q} /\ (r[i] # {} => \A p \in 0 .. Len(s) : p \in Ends(u[i], s, p))

(* That is so wherever the port is clean.                                    *)
LEMMA MatchInside ==
  ASSUME NEW tokens, Written(tokens), NEW u \in [0 .. Len(tokens) -> Seq(Token)], Ports(u, tokens),
         NEW s \in Seq(Scalars), NEW U \in Seq(Nat), NEW off, Encodes(off, s, U),
         NEW k \in 1 .. Len(s), ~(s[k] < Astral), NEW q, q = off[k - 1] + 1, NEW r, Runs(tokens, U, q, r)
  PROVE  \A i \in 0 .. Len(tokens) : CleanAt(tokens, u, i) => Idle(u, i, s, q, r)
<1> DEFINE n == Len(tokens)
           Q == { i \in 0 .. n : Idle(u, i, s, q, r) }
<1>1. n \in Nat /\ Len(s) \in Nat /\ \A j \in 1 .. n : tokens[j] \in Token
  BY WrittenTokens
<1>2. \A i \in 1 .. n : i - 1 \in 0 .. n /\ (i > 1 => i - 2 \in 0 .. n /\ i - 1 \in 1 .. n) /\ (i - 1) - 1 = i - 2 /\ i \in 0 .. n
  BY <1>1
<1>3. \A i \in 1 .. n : r[i] = IF tokens[i].kind = "star" THEN Repeatedly(tokens[i - 1], U, r[i - 2])
                               ELSE Once(tokens[i], U, r[i - 1])
  BY DEF Runs
<1>9. ASSUME NEW R \in SUBSET {q} PROVE Stuck(U, R)
  BY InsidePair
<1>4. 0 \in Q
  <2>1. u[0] = <<>>
    BY DEF Ports
  <2>2. Headed(<<>>)
    <3>1. Len(<<>>) = 0
      OBVIOUS
    <3> QED
      BY <3>1 DEF Headed
  <2>3. \A p \in 0 .. Len(s) : Ends(<<>>, s, p) = {p}
    BY <1>1, EndsEmpty
  <2>4. r[0] = {q}
    BY DEF Runs
  <2>5. Idle(u, 0, s, q, r)
    BY <2>1, <2>2, <2>3, <2>4 DEF Idle
  <2> QED
    BY <1>1, <2>5
<1>5. ASSUME NEW i \in 1 .. n, PairStep(tokens, u, i), i - 2 \in Q PROVE i \in Q
  <2> DEFINE points == Points(Combine(tokens[i - 1].items, tokens[i].items))
  <2>1. /\ i > 1 /\ Paired(tokens[i - 1], tokens[i]) /\ tokens[i - 1].kind # "star" /\ tokens[i].kind # "star"
        /\ points \in Token /\ u[i] = Append(u[i - 2], points)
    BY <1>5 DEF PairStep
  <2>2. Headed(u[i - 2]) /\ r[i - 2] \in SUBSET {q}
    BY <1>5 DEF Idle
  <2>3. u[i - 2] \in Seq(Token)
    BY <1>2, <2>1
  <2>4. r[i] = {}
    <3>1. r[i] = Once(tokens[i], U, r[i - 1])
      BY <1>3, <2>1
    <3>2. r[i - 1] = Once(tokens[i - 1], U, r[i - 2])
      BY <1>2, <1>3, <2>1
    <3>3. r[i - 1] = {}
      BY <1>9, <2>1, <2>2, <3>2 DEF Stuck
    <3> QED
      BY <3>1, <3>3 DEF Once
  <2>6. points.kind # "star"
    BY DEF Points
  <2> HIDE DEF points
  <2>7. Headed(u[i])
    BY <1>1, <2>1, <2>2, <2>3, <2>6, EndsOnce
  <2>8. Idle(u, i, s, q, r)
    BY <2>4, <2>7 DEF Idle
  <2> QED
    BY <1>2, <2>8
<1>6. ASSUME NEW i \in 1 .. n, PlainStep(tokens, u, i), i - 1 \in Q PROVE i \in Q
  <2>1. Plain(tokens[i]) /\ tokens[i].kind # "star" /\ u[i] = Append(u[i - 1], tokens[i])
    BY <1>6 DEF PlainStep
  <2>2. Headed(u[i - 1]) /\ r[i - 1] \in SUBSET {q}
    BY <1>6 DEF Idle
  <2>3. u[i - 1] \in Seq(Token)
    BY <1>2
  <2>4. r[i] = {}
    <3>1. r[i] = Once(tokens[i], U, r[i - 1])
      BY <1>3, <2>1
    <3> QED
      BY <1>9, <2>1, <2>2, <3>1 DEF Stuck
  <2>7. Headed(u[i])
    BY <1>1, <2>1, <2>2, <2>3, EndsOnce
  <2>8. Idle(u, i, s, q, r)
    BY <2>4, <2>7 DEF Idle
  <2> QED
    BY <1>2, <2>8
<1>7. ASSUME NEW i \in 1 .. n, StarStep(tokens, u, i), i - 2 \in Q PROVE i \in Q
  <2>1. /\ i > 1 /\ Plain(tokens[i - 1]) /\ tokens[i - 1].kind # "star" /\ tokens[i].kind = "star"
        /\ u[i] = Append(Append(u[i - 2], tokens[i - 1]), tokens[i])
    BY <1>7 DEF StarStep
  <2>2. /\ Headed(u[i - 2]) /\ r[i - 2] \in SUBSET {q}
        /\ r[i - 2] # {} => \A p \in 0 .. Len(s) : p \in Ends(u[i - 2], s, p)
    BY <1>7 DEF Idle
  <2>3. u[i - 2] \in Seq(Token) /\ tokens[i - 1] \in Token /\ tokens[i] \in Token
    BY <1>1, <1>2, <2>1
  <2>4. r[i] = Repeatedly(tokens[i - 1], U, r[i - 2])
    BY <1>3, <2>1
  <2>5. r[i] \subseteq r[i - 2]
    BY <1>9, <2>1, <2>2, <2>4 DEF Stuck
  <2>6. ASSUME NEW p \in 0 .. Len(s)
        PROVE  Headed(u[i]) /\ Ends(u[i], s, p) = Repeatedly(tokens[i - 1], s, Ends(u[i - 2], s, p))
    <3>1. p \in Nat
      BY <1>1
    <3> QED
      BY <1>1, <2>1, <2>2, <2>3, <3>1, EndsRepeatedly
  <2>7. \A p \in 0 .. Len(s) : p \in Ends(u[i - 2], s, p) => p \in Ends(u[i], s, p)
    <3> SUFFICES ASSUME NEW p \in 0 .. Len(s), p \in Ends(u[i - 2], s, p)
                 PROVE  p \in Repeatedly(tokens[i - 1], s, Ends(u[i - 2], s, p))
      BY <2>6
    <3>1. (p + 1) .. p = {} /\ p <= p
      BY <1>1
    <3> QED
      BY <3>1 DEF Repeatedly
  <2>8. 0 \in 0 .. Len(s)
    BY <1>1
  <2>9. Idle(u, i, s, q, r)
    BY <2>2, <2>5, <2>6, <2>7, <2>8 DEF Idle
  <2> QED
    BY <1>2, <2>9
<1> HIDE DEF Q
<1>8. \A i \in 0 .. n : CleanAt(tokens, u, i) => i \in Q
  BY <1>4, <1>5, <1>6, <1>7, CleanInduction
<1> QED
  BY <1>8 DEF Q

(* The port of a condition matches a text where the condition matches its      *)
(* units, unless a surrogate is left over.                                   *)
LEMMA PortMatches ==
  ASSUME NEW atom, Written(atom), ~HasSurrogate(Port(atom)), NEW s \in Seq(Scalars)
  PROVE  (\E p \in 0 .. Len(s) : Ends(Port(atom), s, p) # {})
           <=> \E q \in 0 .. Len(Units(s)) : Ends(atom, Units(s), q) # {}
<1> DEFINE n == Len(atom)
           U == Units(s)
<1>1. U \in Seq(Nat) /\ \E off : Encodes(off, s, U)
  BY UnitsEncode
<1> HIDE DEF U
<1>2. PICK off : Encodes(off, s, U)
  BY <1>1
<1>3. PICK u \in [0 .. n -> Seq(Token)] : Ports(u, atom) /\ Port(atom) = u[n]
  BY PortSteps
<1>4. n \in Nat /\ Len(s) \in Nat /\ Len(U) \in Nat /\ atom \in Seq(Token)
  BY <1>1, WrittenTokens
<1>5. Headed(atom)
  BY <1>4, WrittenTokens DEF Headed, Written
<1>6. CleanAt(atom, u, n)
  BY <1>3, <1>4 DEF CleanAt, PairAt
<1>7. off \in [0 .. Len(s) -> Nat]
  BY <1>2 DEF Encodes
<1>8. ASSUME NEW p \in 0 .. Len(s)
      PROVE  off[p] \in 0 .. Len(U) /\ Ends(atom, U, off[p]) = Image(off, Ends(Port(atom), s, p))
  <2>1. off[p] \in Nat
    BY <1>7
  <2>2. PICK r \in [0 .. n -> SUBSET Nat] : Runs(atom, U, off[p], r) /\ Ends(atom, U, off[p]) = r[n]
    BY <1>4, <1>5, <2>1, EndsRun
  <2>3. Agrees(u, n, s, p, off, r)
    <3>1. \A i \in 0 .. n : CleanAt(atom, u, i) => Agrees(u, i, s, p, off, r)
      BY <1>1, <1>2, <1>3, <2>2, MatchOutside
    <3>2. n \in 0 .. n
      BY <1>4
    <3> QED
      BY <1>6, <3>1, <3>2
  <2>4. off[p] <= Len(U)
    <3>1. off[Len(s)] = Len(U) /\ Len(s) \in 0 .. Len(s) /\ (p = Len(s) \/ p < Len(s))
      BY <1>2, <1>4 DEF Encodes
    <3>2. p < Len(s) => off[p] < off[Len(s)]
      BY <1>2, <3>1, OffsetsGrow
    <3> QED
      BY <1>4, <2>1, <3>1, <3>2
  <2> QED
    BY <1>3, <1>4, <2>1, <2>2, <2>3, <2>4 DEF Agrees
<1>9. ASSUME NEW p \in 0 .. Len(s), Ends(Port(atom), s, p) # {}
      PROVE  \E q \in 0 .. Len(U) : Ends(atom, U, q) # {}
  <2>1. Image(off, Ends(Port(atom), s, p)) # {}
    BY <1>9 DEF Image
  <2> QED
    BY <1>8, <2>1
<1>10. ASSUME NEW q \in 0 .. Len(U), Ends(atom, U, q) # {}
       PROVE  \E p \in 0 .. Len(s) : Ends(Port(atom), s, p) # {}
  <2>1. CASE \E k \in 0 .. Len(s) : q = off[k]
    <3>1. PICK p \in 0 .. Len(s) : q = off[p]
      BY <2>1
    <3>2. Image(off, Ends(Port(atom), s, p)) # {}
      BY <1>8, <1>10, <3>1
    <3> QED
      BY <3>2 DEF Image
  <2>2. CASE \E k \in 1 .. Len(s) : ~(s[k] < Astral) /\ q = off[k - 1] + 1 /\ off[k] = q + 1
    <3>1. PICK k \in 1 .. Len(s) : ~(s[k] < Astral) /\ q = off[k - 1] + 1
      BY <2>2
    <3>2. q \in Nat
      BY <1>4
    <3>3. PICK r \in [0 .. n -> SUBSET Nat] : Runs(atom, U, q, r) /\ Ends(atom, U, q) = r[n]
      BY <1>4, <1>5, <3>2, EndsRun
    <3>4. Idle(u, n, s, q, r)
      <4>1. \A i \in 0 .. n : CleanAt(atom, u, i) => Idle(u, i, s, q, r)
        BY <1>1, <1>2, <1>3, <3>1, <3>3, MatchInside
      <4>2. n \in 0 .. n
        BY <1>4
      <4> QED
        BY <1>6, <4>1, <4>2
    <3>5. 0 \in 0 .. Len(s)
      BY <1>4
    <3> QED
      BY <1>3, <1>10, <3>3, <3>4, <3>5 DEF Idle
  <2> QED
    BY <1>2, <2>1, <2>2, OffsetsCover
<1> QED
  BY <1>9, <1>10 DEF U
-----------------------------------------------------------------------------
(* What a search finds. *)

(* Min is the smallest number of a set.                                      *)
LEMMA MinIs ==
  ASSUME NEW T \in SUBSET Nat, T # {}
  PROVE  Min(T) \in T /\ \A k \in T : Min(T) <= k
<1>1. \E m \in T : \A k \in T : m <= k
  BY SmallestNat
<1> QED
  BY <1>1 DEF Min

(* A condition is found where some match of it ends, and what is found begins  *)
(* somewhere.                                                               *)
LEMMA AtomHit ==
  ASSUME NEW tokens, NEW s, Len(s) \in Nat
  PROVE  /\ SearchAtom(tokens, s) # NoHit <=> \E p \in 0 .. Len(s) : Ends(tokens, s, p) # {}
         /\ SearchAtom(tokens, s) # NoHit => SearchAtom(tokens, s)[1] \in Nat
<1> DEFINE starts == { p \in 0 .. Len(s) : Ends(tokens, s, p) # {} }
<1>1. starts \in SUBSET Nat
  OBVIOUS
<1>2. SearchAtom(tokens, s) = IF starts = {} THEN NoHit ELSE <<Min(starts), Max(Ends(tokens, s, Min(starts)))>>
  BY DEF SearchAtom
<1>3. starts # {} => Min(starts) \in Nat
  BY <1>1, MinIs
<1>4. \A a, b : <<a, b>> # NoHit /\ <<a, b>>[1] = a
  BY DEF NoHit
<1>5. starts # {} <=> \E p \in 0 .. Len(s) : Ends(tokens, s, p) # {}
  OBVIOUS
<1> HIDE DEF starts
<1> QED
  BY <1>2, <1>3, <1>4, <1>5

(* Of the first n branches, the one that is found furthest left, and of those  *)
(* that are found there the first.                                           *)
Leftmost(hits, n, i) ==
  /\ i \in 1 .. n /\ hits[i] # NoHit
  /\ \A k \in 1 .. n : hits[k] # NoHit =>
       /\ hits[i][1] <= hits[k][1]
       /\ k < i => hits[i][1] < hits[k][1]

Hits(hits, n) == \A k \in 1 .. n : hits[k] # NoHit => hits[k][1] \in Nat

(* There is but one.                                                         *)
LEMMA OneLeftmost ==
  ASSUME NEW n \in Nat, NEW hits, Hits(hits, n), NEW i, NEW j, Leftmost(hits, n, i), Leftmost(hits, n, j)
  PROVE  i = j
<1>1. i \in 1 .. n /\ j \in 1 .. n /\ hits[i][1] \in Nat /\ hits[j][1] \in Nat
  BY DEF Leftmost, Hits
<1>2. hits[i][1] <= hits[j][1] /\ hits[j][1] <= hits[i][1]
  BY DEF Leftmost
<1>3. ~(i < j) /\ ~(j < i)
  BY <1>1, <1>2 DEF Leftmost
<1> QED
  BY <1>1, <1>3

(* What is found is that branch, or nothing.                                 *)
Best(hit, hits, n) ==
  \/ hit = NoHit /\ \A k \in 1 .. n : hits[k] = NoHit
  \/ \E i : Leftmost(hits, n, i) /\ hit = hits[i]

(* So it is one thing.                                                       *)
LEMMA OneBest ==
  ASSUME NEW n \in Nat, NEW hits, Hits(hits, n), NEW h, NEW g, Best(h, hits, n), Best(g, hits, n)
  PROVE  h = g
<1>1. ASSUME NEW i, Leftmost(hits, n, i) PROVE ~\A k \in 1 .. n : hits[k] = NoHit
  BY <1>1 DEF Leftmost
<1>2. ASSUME NEW i, NEW j, Leftmost(hits, n, i), Leftmost(hits, n, j) PROVE i = j
  BY <1>2, OneLeftmost
<1> QED
  BY <1>1, <1>2 DEF Best

(* What each condition of a text finds.                                      *)
AtomHits(hits, text, n, s) == DOMAIN text = 1 .. n /\ \A i \in 1 .. n : hits[i] = SearchAtom(text[i], s)

(* A text finds that branch, or nothing.                                     *)
LEMMA TextHit ==
  ASSUME NEW text, NEW n \in Nat, NEW s, Len(s) \in Nat, NEW hits, AtomHits(hits, text, n, s)
  PROVE  Hits(hits, n) /\ Best(SearchText(text, s), hits, n)
<1> DEFINE h == [i \in DOMAIN text |-> SearchAtom(text[i], s)]
           found == { i \in DOMAIN text : h[i] # NoHit }
           places == { h[i][1] : i \in found }
           first == Min(places)
           those == { i \in found : h[i][1] = first }
<1>0. DOMAIN text = 1 .. n /\ \A i \in 1 .. n : hits[i] = SearchAtom(text[i], s)
  BY DEF AtomHits
<1>1. \A i \in 1 .. n : h[i] = hits[i]
  BY <1>0
<1>2. Hits(hits, n)
  BY <1>0, AtomHit DEF Hits
<1>3. SearchText(text, s) = IF found = {} THEN NoHit ELSE h[Min(those)]
  BY DEF SearchText
<1> HIDE DEF h
<1>4. CASE found = {}
  BY <1>0, <1>1, <1>2, <1>3, <1>4 DEF Best
<1>5. CASE found # {}
  <2>1. places \in SUBSET Nat /\ places # {}
    BY <1>0, <1>1, <1>2, <1>5 DEF Hits
  <2> HIDE DEF places
  <2>2. first \in places /\ \A x \in places : first <= x
    BY <2>1, MinIs
  <2> HIDE DEF first
  <2>3. those \in SUBSET Nat /\ those # {}
    BY <1>0, <2>2 DEF places
  <2> HIDE DEF those
  <2>4. Min(those) \in those /\ \A k \in those : Min(those) <= k
    BY <2>3, MinIs
  <2> DEFINE i == Min(those)
  <2> HIDE DEF i
  <2>5. i \in found /\ h[i][1] = first /\ \A k \in those : i <= k
    BY <2>4 DEF i, those
  <2>6. i \in 1 .. n /\ hits[i] # NoHit /\ hits[i][1] = first /\ first \in Nat
    BY <1>0, <1>1, <2>1, <2>2, <2>5
  <2>7. ASSUME NEW k \in 1 .. n, hits[k] # NoHit PROVE first <= hits[k][1] /\ (k < i => first < hits[k][1])
    <3>1. k \in found /\ hits[k][1] \in places
      BY <1>0, <1>1, <2>7 DEF places
    <3>2. first <= hits[k][1] /\ hits[k][1] \in Nat
      BY <2>1, <2>2, <3>1
    <3>3. hits[k][1] = first => i <= k
      BY <1>1, <2>5, <3>1 DEF those
    <3> QED
      BY <2>6, <3>2, <3>3
  <2>8. Leftmost(hits, n, i)
    BY <2>6, <2>7 DEF Leftmost
  <2>9. SearchText(text, s) = hits[i]
    BY <1>1, <1>3, <1>5, <2>6 DEF i
  <2> QED
    BY <1>2, <2>6, <2>8, <2>9 DEF Best
<1> QED
  BY <1>4, <1>5

(* So it finds something where one of its conditions does.                    *)
LEMMA TextFinds ==
  ASSUME NEW text, NEW n \in Nat, DOMAIN text = 1 .. n, NEW s, Len(s) \in Nat
  PROVE  SearchText(text, s) # NoHit <=> \E i \in 1 .. n : SearchAtom(text[i], s) # NoHit
<1> DEFINE hits == [i \in 1 .. n |-> SearchAtom(text[i], s)]
<1>1. \A i \in 1 .. n : hits[i] = SearchAtom(text[i], s)
  OBVIOUS
<1> HIDE DEF hits
<1>2. Best(SearchText(text, s), hits, n)
  <2>1. AtomHits(hits, text, n, s)
    BY <1>1 DEF AtomHits
  <2> QED
    BY <2>1, TextHit
<1> QED
  BY <1>1, <1>2 DEF Best, Leftmost
(* A condition that the loader ported and the screen accepted is found in a     *)
(* text where upstream finds it in the units.                                *)
LEMMA PortedFinds ==
  ASSUME NEW atom, Written(atom), ~HasSurrogate(Port(atom)), NEW s \in Seq(Scalars)
  PROVE  /\ DOMAIN Ported(Text(atom)) = 1 .. 1 /\ Ported(Text(atom))[1] = Port(atom)
         /\ SearchText(Ported(Text(atom)), s) # NoHit <=> SearchAtom(atom, Units(s)) # NoHit
         /\ SearchAtom(Port(atom), s) # NoHit <=> SearchAtom(atom, Units(s)) # NoHit
<1>1. DOMAIN Ported(Text(atom)) = 1 .. 1 /\ Ported(Text(atom))[1] = Port(atom)
  <2>1. DOMAIN <<atom>> = 1 .. 1 /\ <<atom>>[1] = atom
    OBVIOUS
  <2> QED
    BY <2>1 DEF Ported, Text
<1>2. Len(s) \in Nat /\ 1 \in Nat /\ Len(Units(s)) \in Nat
  BY UnitsEncode
<1>3. SearchAtom(Port(atom), s) # NoHit <=> SearchAtom(atom, Units(s)) # NoHit
  BY <1>2, AtomHit, PortMatches
<1>4. SearchText(Ported(Text(atom)), s) # NoHit <=> \E i \in 1 .. 1 : SearchAtom(Ported(Text(atom))[i], s) # NoHit
  BY <1>1, <1>2, TextFinds
<1>5. \A i : i \in 1 .. 1 <=> i = 1
  OBVIOUS
<1> QED
  BY <1>1, <1>3, <1>4, <1>5
-----------------------------------------------------------------------------
(* Lists with a condition. *)

(* What of the first elements is kept, one after the other.                   *)
KeepsRun(f, s, T) ==
  f[0] = <<>> /\ \A i \in 1 .. Len(s) : f[i] = IF s[i] \in T THEN Append(f[i - 1], s[i]) ELSE f[i - 1]

(* Only takes these steps.                                                   *)
LEMMA OnlySteps ==
  ASSUME NEW S, NEW s, Len(s) \in Nat, \A i \in 1 .. Len(s) : s[i] \in S, NEW T
  PROVE  \E f \in [0 .. Len(s) -> Seq(S \cap T)] : KeepsRun(f, s, T) /\ Only(s, T) = f[Len(s)]
<1> DEFINE n == Len(s)
           V == Seq(S \cap T)
           Go == [i \in 1 .. n |-> [x \in V \X V |-> IF s[i] \in T THEN Append(x[1], s[i]) ELSE x[1]]]
           F(g) == g = [i \in 0 .. n |-> IF i = 0 THEN <<>>
                                         ELSE IF s[i] \in T THEN Append(g[i - 1], s[i]) ELSE g[i - 1]]
           first == CHOOSE g : F(g)
<1>1. n \in Nat /\ <<>> \in V
  OBVIOUS
<1>2. Go \in [1 .. n -> [V \X V -> V]]
  <2>1. ASSUME NEW i \in 1 .. n, NEW x \in V \X V PROVE (IF s[i] \in T THEN Append(x[1], s[i]) ELSE x[1]) \in V
    OBVIOUS
  <2> HIDE DEF V
  <2> QED
    BY <2>1
<1>3. PICK f \in [0 .. n -> V] : Follows(f, n, <<>>, Go)
  <2> HIDE DEF Go, n, V
  <2> QED
    BY <1>1, <1>2, Recursion
<1>4. ASSUME NEW i \in 1 .. n PROVE f[i] = IF s[i] \in T THEN Append(f[i - 1], s[i]) ELSE f[i - 1]
  <2>1. i - 1 \in 0 .. n /\ (i > 1 => i - 2 \in 0 .. n)
    BY <1>1
  <2> HIDE DEF n, V
  <2>2. f[i - 1] \in V /\ (i > 1 => f[i - 2] \in V)
    BY <1>3, <2>1
  <2> DEFINE x == <<f[i - 1], IF i > 1 THEN f[i - 2] ELSE <<>> >>
  <2>3. x \in V \X V /\ x[1] = f[i - 1]
    BY <1>1, <2>2
  <2>4. f[i] = Go[i][x]
    <3> HIDE DEF Go
    <3> QED
      BY <1>3 DEF Follows
  <2>5. Go[i][x] = IF s[i] \in T THEN Append(x[1], s[i]) ELSE x[1]
    <3> HIDE DEF x
    <3> QED
      BY <2>3
  <2> HIDE DEF Go, x
  <2> QED
    BY <2>3, <2>4, <2>5
<1> HIDE DEF Go, V
<1>5. KeepsRun(f, s, T)
  BY <1>3, <1>4 DEF KeepsRun, Follows
<1>6. F(f)
  <2>1. ASSUME NEW i \in 0 .. n
        PROVE  f[i] = IF i = 0 THEN <<>> ELSE IF s[i] \in T THEN Append(f[i - 1], s[i]) ELSE f[i - 1]
    <3>1. CASE i = 0
      BY <1>3, <3>1 DEF Follows
    <3>2. CASE i # 0
      <4>1. i \in 1 .. n
        BY <1>1, <3>2
      <4> HIDE DEF n
      <4> QED
        BY <1>4, <3>2, <4>1
    <3> QED
      BY <3>1, <3>2
  <2>2. f = [i \in 0 .. n |-> f[i]]
    BY <1>3
  <2> QED
    BY <2>1, <2>2
<1>7. F(first)
  BY <1>6
<1>9. Only(s, T) = first[n]
  BY DEF Only
<1> HIDE DEF first
<1>8. first[n] = f[n]
  <2>1. ASSUME NEW i \in 1 .. n, first[i - 1] = f[i - 1] PROVE first[i] = f[i]
    <3>1. i \in 0 .. n /\ i # 0
      OBVIOUS
    <3>2. first[i] = IF s[i] \in T THEN Append(first[i - 1], s[i]) ELSE first[i - 1]
      BY <1>7, <3>1
    <3> QED
      BY <1>4, <2>1, <3>2
  <2>2. first[0] = f[0]
    BY <1>1, <1>3, <1>7 DEF Follows
  <2>3. Alike(first, f, n)
    BY <2>1, <2>2 DEF Alike
  <2> HIDE DEF F, n
  <2> QED
    BY <1>1, <2>3, SameSteps
<1> QED
  BY <1>3, <1>5, <1>8, <1>9 DEF V

(* What is kept was there and meets the condition; nothing was dropped if the  *)
(* length is still the same.                                                *)
ListOf(s, S) == Len(s) \in Nat /\ \A i \in 1 .. Len(s) : s[i] \in S
Selected(s, S, T) ==
  /\ Only(s, T) \in Seq(S \cap T)
  /\ Len(Only(s, T)) = Len(s) => \A i \in 1 .. Len(s) : s[i] \in T /\ Only(s, T)[i] = s[i]

(* So it is of every list.                                                   *)
LEMMA OnlyKeeps ==
  ASSUME NEW S, NEW s, ListOf(s, S), NEW T
  PROVE  Selected(s, S, T)
<1> DEFINE n == Len(s)
<1>0. Len(s) \in Nat /\ \A i \in 1 .. Len(s) : s[i] \in S
  BY DEF ListOf
<1>1. n \in Nat
  BY <1>0
<1>2. PICK f \in [0 .. n -> Seq(S \cap T)] : KeepsRun(f, s, T) /\ Only(s, T) = f[n]
  BY <1>0, OnlySteps
<1> DEFINE Done(i) == Len(f[i]) <= i /\ (Len(f[i]) = i => \A k \in 1 .. i : s[k] \in T /\ f[i][k] = s[k])
           Good == { i \in Nat : i <= n => Done(i) }
<1>3. 0 \in Good
  <2>1. f[0] = <<>> /\ Len(<<>>) = 0
    BY <1>2 DEF KeepsRun
  <2> QED
    BY <2>1
<1>4. ASSUME NEW i \in Nat, i \in Good PROVE i + 1 \in Good
  <2> SUFFICES ASSUME i + 1 <= n PROVE Done(i + 1)
    OBVIOUS
  <2>1. i + 1 \in 1 .. n /\ (i + 1) - 1 = i /\ i \in 0 .. n /\ i + 1 \in 0 .. n
    BY <1>1
  <2>2. f[i + 1] = IF s[i + 1] \in T THEN Append(f[i], s[i + 1]) ELSE f[i]
    BY <1>2, <2>1 DEF KeepsRun
  <2>3. f[i] \in Seq(S \cap T) /\ s[i + 1] \in S
    BY <1>0, <1>2, <2>1
  <2>4. Done(i)
    BY <1>4, <2>1
  <2>5. CASE s[i + 1] \in T
    <3>1. /\ f[i + 1] = Append(f[i], s[i + 1]) /\ Len(f[i]) \in Nat
          /\ Len(Append(f[i], s[i + 1])) = Len(f[i]) + 1 /\ Append(f[i], s[i + 1])[Len(f[i]) + 1] = s[i + 1]
          /\ \A k \in 1 .. Len(f[i]) : Append(f[i], s[i + 1])[k] = f[i][k]
      BY <2>2, <2>3, <2>5
    <3>2. ASSUME Len(f[i + 1]) = i + 1, NEW k \in 1 .. i + 1 PROVE s[k] \in T /\ f[i + 1][k] = s[k]
      <4>1. Len(f[i]) = i
        BY <3>1, <3>2
      <4>2. CASE k = i + 1
        BY <2>5, <3>1, <4>1, <4>2
      <4>3. CASE k # i + 1
        <5>1. k \in 1 .. i
          BY <4>3
        <5> QED
          BY <2>4, <3>1, <4>1, <5>1
      <4> QED
        BY <4>2, <4>3
    <3> QED
      BY <2>4, <3>1, <3>2
  <2>6. CASE s[i + 1] \notin T
    <3>1. f[i + 1] = f[i] /\ Len(f[i]) \in Nat
      BY <2>2, <2>3, <2>6
    <3> QED
      BY <2>4, <3>1
  <2> QED
    BY <2>5, <2>6
<1>5. n \in Good
  <2> HIDE DEF Good, n
  <2>1. Nat \subseteq Good
    BY <1>3, <1>4, SetInduction
  <2> QED
    BY <1>1, <2>1
<1>6. n \in 0 .. n
  BY <1>1
<1> QED
  BY <1>1, <1>2, <1>5, <1>6 DEF Selected
-----------------------------------------------------------------------------
(* Loading a checkout. *)

(* What is loaded of the first files, one after the other.                    *)
Loads(f, t, fs) ==
  /\ f[0] = [rules |-> <<>>, errors |-> 0]
  /\ \A i \in 1 .. Len(fs) : f[i] = AddFile(t, f[i - 1], fs[i])

(* Rules of these files, and a number of errors.                             *)
RulesOf(t, fs) == [rules : Seq({ Rule(t, fs[i]) : i \in 1 .. Len(fs) }), errors : Nat]

(* Loading takes these steps.                                                *)
LEMMA LoadSteps ==
  ASSUME NEW t, NEW fs, Len(fs) \in Nat
  PROVE  \E f \in [0 .. Len(fs) -> RulesOf(t, fs)] : Loads(f, t, fs) /\ Load(t, fs) = f[Len(fs)]
<1> DEFINE n == Len(fs)
           V == RulesOf(t, fs)
           b == [rules |-> <<>>, errors |-> 0]
           Go == [i \in 1 .. n |-> [x \in V \X V |-> AddFile(t, x[1], fs[i])]]
           F(g) == g = [i \in 0 .. n |-> IF i = 0 THEN [rules |-> <<>>, errors |-> 0] ELSE AddFile(t, g[i - 1], fs[i])]
           first == CHOOSE g : F(g)
<1>1. n \in Nat /\ b \in V
  <2> DEFINE R == { Rule(t, fs[i]) : i \in 1 .. Len(fs) }
  <2> HIDE DEF R
  <2>1. <<>> \in Seq(R)
    OBVIOUS
  <2> QED
    BY <2>1 DEF RulesOf, R
<1>2. ASSUME NEW i \in 1 .. n, NEW l \in V PROVE AddFile(t, l, fs[i]) \in V
  <2> DEFINE R == { Rule(t, fs[j]) : j \in 1 .. Len(fs) }
  <2>1. Rule(t, fs[i]) \in R
    OBVIOUS
  <2> HIDE DEF R
  <2>2. V = [rules : Seq(R), errors : Nat]
    BY DEF RulesOf, R
  <2>3. l.rules \in Seq(R) /\ l.errors \in Nat
    BY <2>2
  <2>4. Append(l.rules, Rule(t, fs[i])) \in Seq(R) /\ l.errors + 1 \in Nat
    BY <2>1, <2>3
  <2> HIDE DEF V
  <2>5. AddFile(t, l, fs[i]) \in [rules : Seq(R), errors : Nat]
    BY <2>2, <2>4 DEF AddFile
  <2> QED
    BY <2>2, <2>5
<1>3. Go \in [1 .. n -> [V \X V -> V]]
  <2> HIDE DEF V
  <2> QED
    BY <1>2
<1>4. PICK f \in [0 .. n -> V] : Follows(f, n, b, Go)
  <2> HIDE DEF Go, n, V, b
  <2> QED
    BY <1>1, <1>3, Recursion
<1> HIDE DEF V, b
<1>5. ASSUME NEW i \in 1 .. n PROVE f[i] = AddFile(t, f[i - 1], fs[i])
  <2>1. i - 1 \in 0 .. n /\ (i > 1 => i - 2 \in 0 .. n)
    BY <1>1
  <2> HIDE DEF n
  <2>2. f[i - 1] \in V /\ (i > 1 => f[i - 2] \in V)
    BY <1>4, <2>1
  <2> DEFINE x == <<f[i - 1], IF i > 1 THEN f[i - 2] ELSE b>>
  <2>3. x \in V \X V /\ x[1] = f[i - 1]
    BY <1>1, <2>2
  <2>4. f[i] = Go[i][x]
    <3> HIDE DEF Go
    <3> QED
      BY <1>4 DEF Follows
  <2>5. Go[i][x] = AddFile(t, x[1], fs[i])
    <3> HIDE DEF x
    <3> QED
      BY <2>3
  <2> HIDE DEF Go, x
  <2> QED
    BY <2>3, <2>4, <2>5
<1> HIDE DEF Go
<1>6. Loads(f, t, fs)
  BY <1>4, <1>5 DEF Loads, Follows, b
<1>7. F(f)
  <2>1. ASSUME NEW i \in 0 .. n
        PROVE  f[i] = IF i = 0 THEN [rules |-> <<>>, errors |-> 0] ELSE AddFile(t, f[i - 1], fs[i])
    <3>1. CASE i = 0
      BY <1>6, <3>1 DEF Loads
    <3>2. CASE i # 0
      <4>1. i \in 1 .. n
        BY <1>1, <3>2
      <4> HIDE DEF n
      <4> QED
        BY <1>5, <3>2, <4>1
    <3> QED
      BY <3>1, <3>2
  <2>2. f = [i \in 0 .. n |-> f[i]]
    BY <1>4
  <2> QED
    BY <2>1, <2>2
<1>8. F(first)
  BY <1>7
<1>9. Load(t, fs) = first[n]
  BY DEF Load
<1> HIDE DEF first
<1>10. first[n] = f[n]
  <2>1. ASSUME NEW i \in 1 .. n, first[i - 1] = f[i - 1] PROVE first[i] = f[i]
    <3>1. i \in 0 .. n /\ i # 0
      OBVIOUS
    <3>2. first[i] = AddFile(t, first[i - 1], fs[i])
      BY <1>8, <3>1
    <3> QED
      BY <1>5, <2>1, <3>2
  <2>2. first[0] = f[0]
    BY <1>1, <1>6, <1>8 DEF Loads
  <2>3. Alike(first, f, n)
    BY <2>1, <2>2 DEF Alike
  <2> HIDE DEF F, n
  <2> QED
    BY <1>1, <2>3, SameSteps
<1> QED
  BY <1>4, <1>6, <1>9, <1>10 DEF V
(* A file that is the first readable one of its id.                           *)
First(fs, j) == fs[j].readable /\ \A k \in 1 .. j - 1 : fs[k].readable => fs[k].id # fs[j].id

(* Every rule is that of such a file, and every readable file has its rule.     *)
Comes(rules, t, fs, i) ==
  /\ \A k \in 1 .. Len(rules) : \E j \in 1 .. i : First(fs, j) /\ rules[k] = Rule(t, fs[j])
  /\ \A j \in 1 .. i : fs[j].readable => \E k \in 1 .. Len(rules) : rules[k].id = fs[j].id

(* So it is when everything is loaded.                                       *)
LEMMA LoadComes ==
  ASSUME NEW t, NEW fs, Len(fs) \in Nat
  PROVE  /\ Load(t, fs).rules \in Seq({ Rule(t, fs[i]) : i \in 1 .. Len(fs) })
         /\ Comes(Load(t, fs).rules, t, fs, Len(fs))
<1> DEFINE n == Len(fs)
           R == { Rule(t, fs[i]) : i \in 1 .. Len(fs) }
<1>1. n \in Nat
  OBVIOUS
<1>2. PICK f \in [0 .. n -> RulesOf(t, fs)] : Loads(f, t, fs) /\ Load(t, fs) = f[n]
  BY LoadSteps
<1> HIDE DEF R
<1>3. \A i \in 0 .. n : f[i].rules \in Seq(R) /\ f[i].errors \in Nat
  <2>1. RulesOf(t, fs) = [rules : Seq(R), errors : Nat]
    BY DEF RulesOf, R
  <2> HIDE DEF n
  <2> QED
    BY <1>2, <2>1
<1> DEFINE Done(i) == Comes(f[i].rules, t, fs, i)
           Good == { i \in Nat : i <= n => Done(i) }
<1>4. 0 \in Good
  <2>1. f[0].rules = <<>> /\ Len(<<>>) = 0
    BY <1>2 DEF Loads
  <2> QED
    BY <2>1 DEF Comes
<1>5. ASSUME NEW i \in Nat, i \in Good PROVE i + 1 \in Good
  <2> SUFFICES ASSUME i + 1 <= n PROVE Done(i + 1)
    OBVIOUS
  <2> DEFINE raw == fs[i + 1]
             was == f[i].rules
             now == f[i + 1].rules
             seen == \E k \in DOMAIN was : was[k].id = raw.id
  <2>1. i + 1 \in 1 .. n /\ (i + 1) - 1 = i /\ i \in 0 .. n /\ i + 1 \in 0 .. n
    BY <1>1
  <2>2. f[i + 1] = AddFile(t, f[i], raw)
    BY <1>2, <2>1 DEF Loads
  <2>3. was \in Seq(R) /\ DOMAIN was = 1 .. Len(was) /\ Len(was) \in Nat
    BY <1>3, <2>1
  <2>4. Comes(was, t, fs, i)
    BY <1>5, <2>1
  <2>5. /\ ~raw.readable \/ seen => now = was
        /\ raw.readable /\ ~seen => now = Append(was, Rule(t, raw))
    <3>1. \A l \in [rules : Seq(R), errors : Nat] :
            /\ [l EXCEPT !.errors = @ + 1].rules = l.rules
            /\ [l EXCEPT !.rules = Append(@, Rule(t, raw))].rules = Append(l.rules, Rule(t, raw))
      OBVIOUS
    <3>2. f[i] \in [rules : Seq(R), errors : Nat]
      BY <1>2, <2>1 DEF RulesOf, R
    <3> QED
      BY <2>2, <3>1, <3>2 DEF AddFile
  <2> HIDE DEF was, now
  <2>6. CASE ~raw.readable \/ seen
    <3>1. now = was
      BY <2>5, <2>6
    <3>2. \A j \in 1 .. i + 1 : j \in 1 .. i \/ j = i + 1
      OBVIOUS
    <3>3. \A k \in 1 .. Len(was) : \E j \in 1 .. i + 1 : First(fs, j) /\ was[k] = Rule(t, fs[j])
      BY <2>4 DEF Comes
    <3>4. ASSUME NEW j \in 1 .. i + 1, fs[j].readable PROVE \E k \in 1 .. Len(was) : was[k].id = fs[j].id
      <4>1. CASE j \in 1 .. i
        BY <2>4, <3>4, <4>1 DEF Comes
      <4>2. CASE j = i + 1
        BY <2>3, <2>6, <3>4, <4>2
      <4> QED
        BY <3>2, <4>1, <4>2
    <3> QED
      BY <3>1, <3>3, <3>4 DEF Comes, now
  <2>7. CASE raw.readable /\ ~seen
    <3> DEFINE r == Rule(t, raw)
    <3>1. /\ now = Append(was, r) /\ Len(now) = Len(was) + 1 /\ now[Len(was) + 1] = r
          /\ \A k \in 1 .. Len(was) : now[k] = was[k]
      <4>1. now = Append(was, r)
        BY <2>5, <2>7
      <4> HIDE DEF r, now
      <4> QED
        BY <2>3, <4>1
    <3>2. r.id = raw.id
      BY DEF Rule
    <3> HIDE DEF r, seen
    <3>3. First(fs, i + 1)
      <4> SUFFICES ASSUME NEW k \in 1 .. i, fs[k].readable, fs[k].id = raw.id PROVE FALSE
        BY <2>7 DEF First
      <4>1. \E m \in 1 .. Len(was) : was[m].id = raw.id
        BY <2>4 DEF Comes
      <4> QED
        BY <2>3, <2>7, <4>1 DEF seen
    <3>4. ASSUME NEW k \in 1 .. Len(now) PROVE \E j \in 1 .. i + 1 : First(fs, j) /\ now[k] = Rule(t, fs[j])
      <4>1. CASE k \in 1 .. Len(was)
        <5>1. \E j \in 1 .. i : First(fs, j) /\ was[k] = Rule(t, fs[j])
          BY <2>4, <4>1 DEF Comes
        <5> QED
          BY <3>1, <4>1, <5>1
      <4>2. CASE k = Len(was) + 1
        <5>1. i + 1 \in 1 .. i + 1
          OBVIOUS
        <5> QED
          BY <3>1, <3>3, <4>2, <5>1 DEF r
      <4>3. k \in 1 .. Len(was) \/ k = Len(was) + 1
        BY <2>3, <3>1
      <4> QED
        BY <4>1, <4>2, <4>3
    <3>5. ASSUME NEW j \in 1 .. i + 1, fs[j].readable PROVE \E k \in 1 .. Len(now) : now[k].id = fs[j].id
      <4>1. CASE j \in 1 .. i
        <5>1. PICK k \in 1 .. Len(was) : was[k].id = fs[j].id
          BY <2>4, <3>5, <4>1 DEF Comes
        <5>2. k \in 1 .. Len(now) /\ now[k] = was[k]
          BY <2>3, <3>1
        <5> QED
          BY <5>1, <5>2
      <4>2. CASE j = i + 1
        <5>1. Len(was) + 1 \in 1 .. Len(now)
          BY <2>3, <3>1
        <5> QED
          BY <3>1, <3>2, <4>2, <5>1
      <4>3. j \in 1 .. i \/ j = i + 1
        OBVIOUS
      <4> QED
        BY <4>1, <4>2, <4>3
    <3> QED
      BY <3>4, <3>5 DEF Comes, now
  <2> QED
    BY <2>6, <2>7
<1>6. n \in Good
  <2> HIDE DEF Good, n
  <2>1. Nat \subseteq Good
    BY <1>4, <1>5, SetInduction
  <2> QED
    BY <1>1, <2>1
<1>7. n \in 0 .. n /\ Comes(f[n].rules, t, fs, n)
  BY <1>1, <1>6
<1> QED
  BY <1>2, <1>3, <1>7 DEF R

(* Every rule that was loaded is that of the first readable file of its id.     *)
LEMMA LoadedFirst ==
  ASSUME NEW t, NEW fs, Len(fs) \in Nat, DOMAIN fs = 1 .. Len(fs), NEW rule \in Range(Load(t, fs).rules)
  PROVE  \E j \in 1 .. Len(fs) : rule = Rule(t, fs[j]) /\ FirstOf(fs, rule.id) = fs[j]
<1> DEFINE rules == Load(t, fs).rules
<1>1. rules \in Seq({ Rule(t, fs[i]) : i \in 1 .. Len(fs) }) /\ Comes(rules, t, fs, Len(fs))
  BY LoadComes
<1>2. DOMAIN rules = 1 .. Len(rules)
  BY <1>1
<1>3. PICK k \in 1 .. Len(rules) : rule = rules[k]
  BY <1>2 DEF Range
<1>4. PICK j \in 1 .. Len(fs) : First(fs, j) /\ rule = Rule(t, fs[j])
  BY <1>1, <1>3 DEF Comes
<1>5. rule.id = fs[j].id
  BY <1>4 DEF Rule
<1> DEFINE T == { i \in DOMAIN fs : fs[i].id = rule.id /\ fs[i].readable }
<1>6. T \in SUBSET Nat /\ j \in T
  BY <1>4, <1>5 DEF First
<1>7. ASSUME NEW i \in T PROVE ~(i < j)
  <2>1. i \in 1 .. Len(fs) /\ fs[i].id = fs[j].id /\ fs[i].readable
    BY <1>5
  <2>2. ~(i \in 1 .. j - 1)
    BY <1>4, <2>1 DEF First
  <2> QED
    BY <2>1, <2>2
<1>8. FirstOf(fs, rule.id) = fs[Min(T)]
  BY DEF FirstOf
<1> HIDE DEF T
<1>9. Min(T) = j
  <2>1. Min(T) \in T /\ Min(T) <= j
    BY <1>6, MinIs
  <2>2. Min(T) \in Nat /\ j \in Nat /\ ~(Min(T) < j)
    BY <1>6, <1>7, <2>1
  <2> QED
    BY <2>1, <2>2
<1> QED
  BY <1>4, <1>8, <1>9
-----------------------------------------------------------------------------
(* The dispatch of the configuration channel. *)

(* A text that was screened has no surrogate left.                            *)
LEMMA ScreenedClean ==
  ASSUME NEW t, NEW text, NEW supplied, NEW strict, Screened(t, text, supplied, strict)
  PROVE  \A i \in DOMAIN text : ~HasSurrogate(text[i])
BY DEF Screened

(* The conditions of a file of a checkout, and its examples.                   *)
WellWritten(raw) ==
  /\ Len(raw.conds) \in Nat /\ DOMAIN raw.conds = 1 .. Len(raw.conds)
  /\ \A j \in 1 .. Len(raw.conds) : raw.conds[j].kind = "regex" => Written(raw.conds[j].atom)
  /\ raw.examples \subseteq Seq(Scalars)

(* Every file of a checkout is one of those.                                  *)
LEMMA Checked ==
  ASSUME NEW fs \in Checkouts
  PROVE  Len(fs) \in Nat /\ DOMAIN fs = 1 .. Len(fs) /\ \A j \in 1 .. Len(fs) : WellWritten(fs[j])
<1>1. Len(fs) \in Nat /\ DOMAIN fs = 1 .. Len(fs)
  BY CheckoutAssumption
<1>2. ASSUME NEW j \in 1 .. Len(fs) PROVE WellWritten(fs[j])
  <2>1. j \in DOMAIN fs
    BY <1>1
  <2> QED
    BY <2>1, TextsAssumption DEF WellWritten
<1> QED
  BY <1>1, <1>2

(* What the dispatch of one rule finds, upstream finds.                       *)
LEMMA BindingFaithful ==
  ASSUME NEW t, NEW raw, WellWritten(raw), CfgBinding(t, raw) # NoBinding,
         NEW s \in Seq(Scalars), BindingFires(CfgBinding(t, raw), s)
  PROVE  UpstreamFires(raw, s)
<1> DEFINE conds == raw.conds
           n == Len(conds)
           T == { c \in Range(conds) : c.kind = "regex" /\ Screened(t, Ported(Text(c.atom)), "none", TRUE) }
           kept == Only(conds, T)
           usable == UsableTexts(t, raw)
<1>1. n \in Nat /\ DOMAIN conds = 1 .. n /\ \A j \in 1 .. n : conds[j] \in Range(conds)
  BY DEF WellWritten, Range
<1>2. /\ kept \in Seq(Range(conds) \cap T)
      /\ Len(kept) = n => \A i \in 1 .. n : conds[i] \in T /\ kept[i] = conds[i]
  <2>1. ListOf(conds, Range(conds))
    BY <1>1 DEF ListOf
  <2>2. Selected(conds, Range(conds), T)
    BY <2>1, OnlyKeeps
  <2> HIDE DEF T
  <2> QED
    BY <2>2 DEF Selected
<1>3. /\ usable = [i \in DOMAIN kept |-> Ported(Text(kept[i].atom))]
      /\ CfgBinding(t, raw) = Binding(raw.logic, usable)
      /\ raw.logic = "all" => Len(usable) = n
  BY DEF UsableTexts, CfgBinding
<1>4. ASSUME NEW c \in T, Written(c.atom)
      PROVE  SearchText(Ported(Text(c.atom)), s) # NoHit <=> UpstreamHit(c, s)
  <2>1. DOMAIN Ported(Text(c.atom)) = 1 .. 1 /\ Ported(Text(c.atom))[1] = Port(c.atom)
    <3>1. DOMAIN <<c.atom>> = 1 .. 1 /\ <<c.atom>>[1] = c.atom
      OBVIOUS
    <3> QED
      BY <3>1 DEF Ported, Text
  <2>2. Screened(t, Ported(Text(c.atom)), "none", TRUE)
    OBVIOUS
  <2>3. ~HasSurrogate(Port(c.atom))
    <3>1. 1 \in 1 .. 1
      OBVIOUS
    <3> QED
      BY <2>1, <2>2, <3>1, ScreenedClean
  <2> QED
    BY <1>4, <2>3, PortedFinds DEF UpstreamHit
<1>5. \A c \in T : c \in Range(conds) /\ c.kind = "regex"
  OBVIOUS
<1>6. ASSUME NEW c \in T PROVE Written(c.atom) /\ \E j \in 1 .. n : c = conds[j]
  <2>1. PICK j \in 1 .. n : c = conds[j]
    BY <1>1, <1>5 DEF Range
  <2> QED
    BY <1>5, <2>1 DEF WellWritten
<1> HIDE DEF T, kept
<1>7. /\ DOMAIN kept = 1 .. Len(kept) /\ DOMAIN usable = DOMAIN kept /\ Len(kept) \in Nat /\ Len(usable) = Len(kept)
      /\ \A i \in 1 .. Len(kept) : kept[i] \in T /\ usable[i] = Ported(Text(kept[i].atom))
  <2>1. DOMAIN kept = 1 .. Len(kept) /\ Len(kept) \in Nat /\ \A i \in 1 .. Len(kept) : kept[i] \in T
    BY <1>2
  <2>2. DOMAIN usable = DOMAIN kept /\ \A i \in DOMAIN kept : usable[i] = Ported(Text(kept[i].atom))
    BY <1>3
  <2>3. Len(usable) = Len(kept)
    BY <1>3, <2>1
  <2> QED
    BY <2>1, <2>2, <2>3
<1> HIDE DEF usable
<1>8. \A i \in 1 .. Len(kept) : SearchText(usable[i], s) # NoHit <=> UpstreamHit(kept[i], s)
  BY <1>4, <1>6, <1>7
<1>9. CASE raw.logic = "all"
  <2>1. \A i \in 1 .. Len(kept) : SearchText(usable[i], s) # NoHit
    BY <1>3, <1>7, <1>9 DEF BindingFires, Binding
  <2>2. Len(kept) = n
    BY <1>3, <1>7, <1>9
  <2>3. \A i \in 1 .. n : UpstreamHit(conds[i], s)
    BY <1>2, <1>8, <2>1, <2>2
  <2> QED
    BY <1>1, <1>9, <2>3 DEF UpstreamFires
<1>10. CASE raw.logic # "all"
  <2>1. PICK i \in 1 .. Len(kept) : SearchText(usable[i], s) # NoHit
    BY <1>3, <1>7, <1>10 DEF BindingFires, Binding
  <2>2. UpstreamHit(kept[i], s)
    BY <1>8, <2>1
  <2>3. PICK j \in 1 .. n : kept[i] = conds[j]
    BY <1>6, <1>7
  <2> QED
    BY <1>1, <1>10, <2>2, <2>3 DEF UpstreamFires
<1> QED
  BY <1>9, <1>10

(* So it is for every rule of the checkout.                                  *)
LEMMA LoadedBinding == files \in Checkouts => BindingOnlyLoses
<1> SUFFICES ASSUME files \in Checkouts, NEW rule \in Loaded, rule.binding # NoBinding, NEW s \in Payloads,
                    BindingFires(rule.binding, s)
             PROVE  UpstreamFires(FirstOf(files, rule.id), s)
  BY DEF BindingOnlyLoses
<1>1. Len(files) \in Nat /\ DOMAIN files = 1 .. Len(files) /\ \A j \in 1 .. Len(files) : WellWritten(files[j])
  BY Checked
<1>2. PICK j \in 1 .. Len(files) : rule = Rule(table, files[j]) /\ FirstOf(files, rule.id) = files[j]
  BY <1>1, LoadedFirst DEF Loaded
<1>3. rule.binding = CfgBinding(table, files[j])
  BY <1>2 DEF Rule
<1>4. s \in Seq(Scalars)
  BY TextsAssumption
<1> QED
  BY <1>1, <1>2, <1>3, <1>4, BindingFaithful
-----------------------------------------------------------------------------
(* Several texts. *)

(* Joined, texts of one condition each are the conditions in their order.      *)
LEMMA JoinedSingles ==
  ASSUME NEW S, NEW texts \in Seq(Seq(S)), \A i \in 1 .. Len(texts) : Len(texts[i]) = 1
  PROVE  /\ DOMAIN Joined(texts) = 1 .. Len(texts)
         /\ \A i \in 1 .. Len(texts) : Joined(texts)[i] = texts[i][1]
<1> DEFINE n == Len(texts)
<1>1. n \in Nat /\ \A i \in 1 .. n : texts[i] \in Seq(S)
  OBVIOUS
<1>2. PICK f \in [0 .. n -> Seq(S)] : Joins(f, texts) /\ FlattenSeq(texts) = f[n]
  BY FlattenSteps
<1> DEFINE Done(m) == Len(f[m]) = m /\ \A k \in 1 .. m : f[m][k] = texts[k][1]
           Good == { m \in Nat : m <= n => Done(m) }
<1>3. 0 \in Good
  <2>1. f[0] = <<>> /\ Len(<<>>) = 0
    BY <1>2 DEF Joins
  <2> QED
    BY <2>1
<1>4. ASSUME NEW m \in Nat, m \in Good PROVE m + 1 \in Good
  <2> SUFFICES ASSUME m + 1 <= n PROVE Done(m + 1)
    OBVIOUS
  <2>1. m + 1 \in 1 .. n /\ (m + 1) - 1 = m /\ m \in 0 .. n
    BY <1>1
  <2>2. f[m + 1] = f[m] \o texts[m + 1]
    BY <1>2, <2>1 DEF Joins
  <2>3. f[m] \in Seq(S) /\ texts[m + 1] \in Seq(S) /\ Len(texts[m + 1]) = 1
    BY <1>1, <1>2, <2>1
  <2>4. Done(m)
    BY <1>4, <2>1
  <2>5. /\ Len(f[m] \o texts[m + 1]) = m + 1 /\ (f[m] \o texts[m + 1])[m + 1] = texts[m + 1][1]
        /\ \A k \in 1 .. m : (f[m] \o texts[m + 1])[k] = f[m][k]
    <3>1. ASSUME NEW a \in Seq(S), NEW b \in Seq(S), Len(a) = m, Len(b) = 1
          PROVE  /\ Len(a \o b) = m + 1 /\ (a \o b)[m + 1] = b[1]
                 /\ \A k \in 1 .. m : (a \o b)[k] = a[k]
      <4>1. /\ Len(a \o b) = Len(a) + Len(b)
            /\ \A k \in 1 .. Len(a) + Len(b) : (a \o b)[k] = IF k <= Len(a) THEN a[k] ELSE b[k - Len(a)]
        OBVIOUS
      <4>2. m + 1 \in 1 .. Len(a) + Len(b) /\ ~(m + 1 <= Len(a)) /\ (m + 1) - Len(a) = 1
        BY <3>1
      <4>3. \A k \in 1 .. m : k \in 1 .. Len(a) + Len(b) /\ k <= Len(a)
        BY <3>1
      <4> QED
        BY <3>1, <4>1, <4>2, <4>3
    <3> QED
      BY <2>3, <2>4, <3>1
  <2>6. \A k \in 1 .. m + 1 : k \in 1 .. m \/ k = m + 1
    OBVIOUS
  <2> QED
    BY <2>2, <2>4, <2>5, <2>6
<1>5. n \in Good
  <2> HIDE DEF Good, n
  <2>1. Nat \subseteq Good
    BY <1>3, <1>4, SetInduction
  <2> QED
    BY <1>1, <2>1
<1>6. f[n] \in Seq(S) /\ Joined(texts) = f[n]
  BY <1>1, <1>2 DEF Joined
<1> QED
  BY <1>1, <1>5, <1>6

(* The best branch so far, branch after branch.                              *)
Bests(f, hits, n) ==
  f[0] = NoHit /\ \A i \in 1 .. n : f[i] = IF Further(f[i - 1], hits[i]) THEN hits[i] ELSE f[i - 1]

(* What each text finds.                                                     *)
TextHits(hits, texts, s) == \A i \in 1 .. Len(texts) : hits[i] = SearchText(texts[i], s)

(* The search of several branches takes these steps.                          *)
LEMMA AnySteps ==
  ASSUME NEW texts, NEW s, Len(texts) \in Nat, NEW hits, TextHits(hits, texts, s)
  PROVE  \E f : Bests(f, hits, Len(texts)) /\ SearchAny(texts, s) = f[Len(texts)]
<1> DEFINE n == Len(texts)
           V == { hits[i] : i \in 1 .. n } \cup {NoHit}
           Go == [i \in 1 .. n |-> [x \in V \X V |-> IF Further(x[1], hits[i]) THEN hits[i] ELSE x[1]]]
           F(g) == g = [i \in 0 .. n |->
                         IF i = 0 THEN NoHit
                         ELSE IF Further(g[i - 1], SearchText(texts[i], s)) THEN SearchText(texts[i], s)
                         ELSE g[i - 1]]
           first == CHOOSE g : F(g)
<1>1. n \in Nat /\ NoHit \in V
  OBVIOUS
<1>2. Go \in [1 .. n -> [V \X V -> V]]
  <2>1. ASSUME NEW i \in 1 .. n, NEW x \in V \X V PROVE (IF Further(x[1], hits[i]) THEN hits[i] ELSE x[1]) \in V
    <3>1. hits[i] \in V /\ x[1] \in V
      OBVIOUS
    <3> HIDE DEF V
    <3> QED
      BY <3>1
  <2> HIDE DEF V
  <2> QED
    BY <2>1
<1>3. PICK f \in [0 .. n -> V] : Follows(f, n, NoHit, Go)
  <2> HIDE DEF Go, n, V
  <2> QED
    BY <1>1, <1>2, Recursion
<1>4. ASSUME NEW i \in 1 .. n PROVE f[i] = IF Further(f[i - 1], hits[i]) THEN hits[i] ELSE f[i - 1]
  <2>1. i - 1 \in 0 .. n /\ (i > 1 => i - 2 \in 0 .. n)
    BY <1>1
  <2> HIDE DEF n, V
  <2>2. f[i - 1] \in V /\ (i > 1 => f[i - 2] \in V)
    BY <1>3, <2>1
  <2> DEFINE x == <<f[i - 1], IF i > 1 THEN f[i - 2] ELSE NoHit>>
  <2>3. x \in V \X V /\ x[1] = f[i - 1]
    BY <1>1, <2>2
  <2>4. f[i] = Go[i][x]
    <3> HIDE DEF Go
    <3> QED
      BY <1>3 DEF Follows
  <2>5. Go[i][x] = IF Further(x[1], hits[i]) THEN hits[i] ELSE x[1]
    <3> HIDE DEF x
    <3> QED
      BY <2>3
  <2> HIDE DEF Go, x
  <2> QED
    BY <2>3, <2>4, <2>5
<1> HIDE DEF Go, V
<1>5. Bests(f, hits, n)
  BY <1>3, <1>4 DEF Bests, Follows
<1>6. F(f)
  <2>1. ASSUME NEW i \in 0 .. n
        PROVE  f[i] = IF i = 0 THEN NoHit
                      ELSE IF Further(f[i - 1], SearchText(texts[i], s)) THEN SearchText(texts[i], s)
                      ELSE f[i - 1]
    <3>1. CASE i = 0
      BY <1>3, <3>1 DEF Follows
    <3>2. CASE i # 0
      <4>1. i \in 1 .. n
        BY <1>1, <3>2
      <4>2. hits[i] = SearchText(texts[i], s)
        BY <4>1 DEF TextHits
      <4> HIDE DEF n
      <4> QED
        BY <1>4, <3>2, <4>1, <4>2
    <3> QED
      BY <3>1, <3>2
  <2>2. f = [i \in 0 .. n |-> f[i]]
    BY <1>3
  <2> QED
    BY <2>1, <2>2
<1>7. F(first)
  BY <1>6
<1>9. SearchAny(texts, s) = first[n]
  BY DEF SearchAny
<1> HIDE DEF first
<1>8. first[n] = f[n]
  <2>1. ASSUME NEW i \in 1 .. n, first[i - 1] = f[i - 1] PROVE first[i] = f[i]
    <3>1. i \in 0 .. n /\ i # 0 /\ hits[i] = SearchText(texts[i], s)
      BY DEF TextHits
    <3>2. first[i] = IF Further(first[i - 1], SearchText(texts[i], s)) THEN SearchText(texts[i], s) ELSE first[i - 1]
      BY <1>7, <3>1
    <3> QED
      BY <1>4, <2>1, <3>1, <3>2
  <2>2. first[0] = f[0]
    BY <1>1, <1>3, <1>7 DEF Follows
  <2>3. Alike(first, f, n)
    BY <2>1, <2>2 DEF Alike
  <2> HIDE DEF F, n
  <2> QED
    BY <1>1, <2>3, SameSteps
<1> QED
  BY <1>5, <1>8, <1>9

(* It finds the branch that is furthest left, the first of those, or nothing.   *)
LEMMA AnyHit ==
  ASSUME NEW texts, NEW s, Len(texts) \in Nat, NEW hits, TextHits(hits, texts, s), Hits(hits, Len(texts))
  PROVE  Best(SearchAny(texts, s), hits, Len(texts))
<1> DEFINE n == Len(texts)
<1>1. n \in Nat
  OBVIOUS
<1>2. PICK f : Bests(f, hits, n) /\ SearchAny(texts, s) = f[n]
  BY AnySteps
<1> DEFINE Done(m) ==
             \/ f[m] = NoHit /\ \A k \in 1 .. m : hits[k] = NoHit
             \/ \E i : Leftmost(hits, m, i) /\ f[m] = hits[i]
           Good == { m \in Nat : m <= n => Done(m) }
<1>3. 0 \in Good
  BY <1>2 DEF Bests
<1>4. ASSUME NEW m \in Nat, m \in Good PROVE m + 1 \in Good
  <2> SUFFICES ASSUME m + 1 <= n PROVE Done(m + 1)
    OBVIOUS
  <2> DEFINE hit == hits[m + 1]
  <2>1. m + 1 \in 1 .. n /\ (m + 1) - 1 = m /\ (\A k \in 1 .. m + 1 : k \in 1 .. m \/ k = m + 1)
        /\ (\A k \in 1 .. m : k \in 1 .. m + 1 /\ k \in 1 .. n /\ k < m + 1 /\ ~(m + 1 < k)) /\ ~(m + 1 < m + 1)
        /\ m + 1 \in 1 .. m + 1
    BY <1>1
  <2>2. f[m + 1] = IF Further(f[m], hit) THEN hit ELSE f[m]
    BY <1>2, <2>1 DEF Bests
  <2>3. Done(m)
    BY <1>4, <2>1
  <2>4. hit # NoHit => hit[1] \in Nat
    BY <2>1 DEF Hits
  <2>5. CASE f[m] = NoHit /\ \A k \in 1 .. m : hits[k] = NoHit
    <3>1. CASE hit = NoHit
      BY <2>1, <2>2, <2>5, <3>1 DEF Further
    <3>2. CASE hit # NoHit
      <4>1. f[m + 1] = hit
        BY <2>2, <2>5, <3>2 DEF Further
      <4>2. Leftmost(hits, m + 1, m + 1)
        BY <2>1, <2>4, <2>5, <3>2 DEF Leftmost
      <4> QED
        BY <4>1, <4>2
    <3> QED
      BY <3>1, <3>2
  <2>6. ASSUME NEW i, Leftmost(hits, m, i), f[m] = hits[i] PROVE Done(m + 1)
    <3>1. /\ i \in 1 .. m /\ hits[i] # NoHit
          /\ \A k \in 1 .. m : hits[k] # NoHit => hits[i][1] <= hits[k][1] /\ (k < i => hits[i][1] < hits[k][1])
      BY <2>6 DEF Leftmost
    <3>2. \A k \in 1 .. m : hits[k] # NoHit => hits[k][1] \in Nat
      BY <2>1 DEF Hits
    <3>3. CASE hit # NoHit /\ hit[1] < hits[i][1]
      <4>1. f[m + 1] = hit
        BY <2>2, <2>6, <3>3 DEF Further
      <4>2. \A k \in 1 .. m : hits[k] # NoHit => hit[1] < hits[k][1]
        BY <2>4, <3>1, <3>2, <3>3
      <4>3. Leftmost(hits, m + 1, m + 1)
        BY <2>1, <2>4, <3>2, <3>3, <4>2 DEF Leftmost
      <4> QED
        BY <4>1, <4>3
    <3>4. CASE ~(hit # NoHit /\ hit[1] < hits[i][1])
      <4>1. f[m + 1] = hits[i]
        BY <2>2, <2>6, <3>1, <3>4 DEF Further
      <4>2. hit # NoHit => hits[i][1] <= hit[1]
        BY <2>4, <3>1, <3>2, <3>4
      <4>3. ~(m + 1 < i)
        BY <3>1
      <4>4. ASSUME NEW k \in 1 .. m + 1, hits[k] # NoHit
            PROVE  hits[i][1] <= hits[k][1] /\ (k < i => hits[i][1] < hits[k][1])
        BY <2>1, <3>1, <4>2, <4>3, <4>4
      <4>5. Leftmost(hits, m + 1, i)
        BY <2>1, <3>1, <4>4 DEF Leftmost
      <4> QED
        BY <4>1, <4>5
    <3> QED
      BY <3>3, <3>4
  <2> QED
    BY <2>3, <2>5, <2>6
<1>5. n \in Good
  <2> HIDE DEF Good, n
  <2>1. Nat \subseteq Good
    BY <1>3, <1>4, SetInduction
  <2> QED
    BY <1>1, <2>1
<1> QED
  BY <1>1, <1>2, <1>5 DEF Best
-----------------------------------------------------------------------------
(* The flat predicate of one rule. *)

(* One ported condition per text: joined, they are the conditions.             *)
Singles(texts, n, atoms) ==
  /\ Len(texts) = n /\ DOMAIN texts = 1 .. n
  /\ \A i \in 1 .. n : DOMAIN texts[i] = 1 .. 1 /\ texts[i][1] = Port(atoms[i])
  /\ DOMAIN Joined(texts) = 1 .. n /\ \A i \in 1 .. n : Joined(texts)[i] = Port(atoms[i])

(* So are the texts of a rule's conditions.                                   *)
LEMMA PortedTexts ==
  ASSUME NEW atoms, NEW n \in Nat, NEW texts, texts = [i \in 1 .. n |-> Ported(Text(atoms[i]))]
  PROVE  Singles(texts, n, atoms)
<1> DEFINE S == { Port(atoms[i]) : i \in 1 .. n }
<1>1. ASSUME NEW i \in 1 .. n
      PROVE  DOMAIN texts[i] = 1 .. 1 /\ texts[i][1] = Port(atoms[i]) /\ texts[i] \in Seq(S) /\ Len(texts[i]) = 1
  <2> DEFINE text == Ported(Text(atoms[i]))
  <2>1. texts[i] = text
    OBVIOUS
  <2>2. DOMAIN text = 1 .. 1 /\ text[1] = Port(atoms[i])
    <3>1. DOMAIN <<atoms[i]>> = 1 .. 1 /\ <<atoms[i]>>[1] = atoms[i]
      OBVIOUS
    <3> QED
      BY <3>1 DEF Ported, Text
  <2>3. Port(atoms[i]) \in S /\ Port(atoms[i]) = text[1]
    BY <2>2
  <2>4. text = [k \in 1 .. 1 |-> text[1]]
    <3>1. text = [k \in DOMAIN Text(atoms[i]) |-> Port(Text(atoms[i])[k])]
      BY DEF Ported
    <3>2. text = [k \in DOMAIN text |-> text[k]] /\ \A k \in 1 .. 1 : k = 1
      BY <3>1
    <3> HIDE DEF text
    <3> QED
      BY <2>2, <3>2
  <2> HIDE DEF text, S
  <2>5. text \in Seq(S) /\ Len(text) = 1
    <3>1. \A x \in S : [k \in 1 .. 1 |-> x] \in Seq(S) /\ Len([k \in 1 .. 1 |-> x]) = 1
      OBVIOUS
    <3>2. text[1] \in S
      BY <2>3
    <3> QED
      BY <2>4, <3>1, <3>2
  <2> QED
    BY <2>1, <2>2, <2>5
<1>2. texts \in Seq(Seq(S)) /\ Len(texts) = n /\ DOMAIN texts = 1 .. n
  <2> HIDE DEF S
  <2>1. texts \in [1 .. n -> Seq(S)]
    BY <1>1
  <2> QED
    BY <2>1
<1>3. DOMAIN Joined(texts) = 1 .. n /\ \A i \in 1 .. n : Joined(texts)[i] = Port(atoms[i])
  <2> HIDE DEF S
  <2>1. \A i \in 1 .. Len(texts) : Len(texts[i]) = 1
    BY <1>1, <1>2
  <2>2. DOMAIN Joined(texts) = 1 .. Len(texts) /\ \A i \in 1 .. Len(texts) : Joined(texts)[i] = texts[i][1]
    BY <1>2, <2>1, JoinedSingles
  <2> QED
    BY <1>1, <1>2, <2>2
<1> QED
  BY <1>1, <1>2, <1>3 DEF Singles

(* Each is found where upstream finds it, and branch by branch they are what    *)
(* the alternation of all of them is.                                        *)
LEMMA OneEach ==
  ASSUME NEW atoms, NEW n \in Nat, DOMAIN atoms = 1 .. n, \A i \in 1 .. n : Written(atoms[i]) /\ ~HasSurrogate(Port(atoms[i])),
         NEW texts, texts = [i \in 1 .. n |-> Ported(Text(atoms[i]))], NEW s \in Seq(Scalars)
  PROVE  /\ \A i \in 1 .. n : SearchText(texts[i], s) # NoHit <=> SearchAtom(atoms[i], Units(s)) # NoHit
         /\ SearchText(Joined(texts), s) # NoHit <=> \E i \in 1 .. n : SearchAtom(atoms[i], Units(s)) # NoHit
         /\ SearchAny(texts, s) = SearchText(Joined(texts), s)
<1> DEFINE hits == [i \in 1 .. n |-> SearchAtom(Port(atoms[i]), s)]
<1>1. Len(s) \in Nat
  OBVIOUS
<1>2. ASSUME NEW i \in 1 .. n
      PROVE  /\ SearchText(texts[i], s) # NoHit <=> SearchAtom(atoms[i], Units(s)) # NoHit
             /\ SearchAtom(Port(atoms[i]), s) # NoHit <=> SearchAtom(atoms[i], Units(s)) # NoHit
  BY PortedFinds
<1>0. Singles(texts, n, atoms)
  BY PortedTexts
<1>3. Len(texts) = n /\ \A i \in 1 .. n : DOMAIN texts[i] = 1 .. 1 /\ texts[i][1] = Port(atoms[i])
  BY <1>0 DEF Singles
<1>4. DOMAIN Joined(texts) = 1 .. n /\ \A i \in 1 .. n : Joined(texts)[i] = Port(atoms[i])
  BY <1>0 DEF Singles
<1>5. /\ \A i \in 1 .. n : hits[i] = SearchAtom(Joined(texts)[i], s)
      /\ \A i \in 1 .. n : hits[i] # NoHit <=> SearchAtom(atoms[i], Units(s)) # NoHit
  BY <1>2, <1>4
<1> HIDE DEF hits
<1>6. Hits(hits, n) /\ Best(SearchText(Joined(texts), s), hits, n)
  <2>1. AtomHits(hits, Joined(texts), n, s)
    BY <1>4, <1>5 DEF AtomHits
  <2> QED
    BY <1>1, <2>1, TextHit
<1>7. ASSUME NEW i \in 1 .. n PROVE hits[i] = SearchText(texts[i], s)
  <2> DEFINE one == [k \in 1 .. 1 |-> hits[i]]
             text == texts[i]
  <2>1. AtomHits(one, text, 1, s) /\ one[1] = hits[i] /\ 1 \in Nat
    <3>1. hits[i] = SearchAtom(text[1], s) /\ DOMAIN text = 1 .. 1
      BY <1>3, <1>4, <1>5
    <3>2. \A k \in 1 .. 1 : k = 1
      OBVIOUS
    <3> QED
      BY <3>1, <3>2 DEF AtomHits
  <2> HIDE DEF one, text
  <2>2. Best(SearchText(text, s), one, 1)
    BY <1>1, <2>1, TextHit
  <2>3. \A k : k \in 1 .. 1 <=> k = 1
    OBVIOUS
  <2>4. SearchText(text, s) = one[1]
    BY <2>2, <2>3 DEF Leftmost, Best
  <2> QED
    BY <2>1, <2>4 DEF text
<1>8. SearchAny(texts, s) = SearchText(Joined(texts), s)
  <2>1. Best(SearchAny(texts, s), hits, n)
    <3>1. TextHits(hits, texts, s)
      BY <1>3, <1>7 DEF TextHits
    <3> QED
      BY <1>3, <1>6, <3>1, AnyHit
  <2> QED
    BY <1>6, <2>1, OneBest
<1>9. SearchText(Joined(texts), s) # NoHit <=> \E i \in 1 .. n : SearchAtom(atoms[i], Units(s)) # NoHit
  BY <1>5, <1>6 DEF Best, Leftmost
<1> QED
  BY <1>2, <1>8, <1>9

(* The flat predicate of a rule, if it runs, fires where upstream fires.        *)
LEMMA FlatFaithful ==
  ASSUME NEW t, NEW raw, WellWritten(raw), NEW pred, pred = FlatPredicate(t, raw), pred.kind # "none",
         Compiles(t, pred, TRUE), NEW s \in Seq(Scalars)
  PROVE  /\ SearchPredicate(pred, s) # NoHit <=> UpstreamFires(raw, s)
         /\ pred.kind = "regex_any" => SearchAny(pred.texts, s) = SearchText(Joined(pred.texts), s)
<1> DEFINE conds == raw.conds
           n == Len(conds)
           atoms == [i \in 1 .. n |-> conds[i].atom]
           texts == [i \in 1 .. n |-> Ported(Text(atoms[i]))]
<1>1. n \in Nat /\ DOMAIN conds = 1 .. n
  BY DEF WellWritten
<1>2. /\ Expressible(raw)
      /\ pred = Composed(t, raw, [i \in DOMAIN raw.conds |-> Ported(Text(raw.conds[i].atom))])
  BY DEF FlatPredicate, NoPredicate, Predicate
<1>3. /\ n # 0 /\ raw.logic \in {"any", "all"}
      /\ \A i \in 1 .. n : conds[i].kind = "regex" /\ Written(atoms[i]) /\ atoms[i] = conds[i].atom
  <2>1. n # 0
    <3>1. Cardinality(FieldsOf(raw)) = 1
      BY <1>2 DEF Expressible
    <3>2. n = 0 => FieldsOf(raw) = {}
      BY <1>1 DEF FieldsOf
    <3>3. Cardinality({}) = 0
      BY FS_EmptySet
    <3>4. FieldsOf(raw) = {} => Cardinality(FieldsOf(raw)) = Cardinality({})
      OBVIOUS
    <3>5. 1 # 0
      OBVIOUS
    <3> HIDE DEF n
    <3> QED
      BY <3>1, <3>2, <3>3, <3>4, <3>5
  <2> QED
    BY <1>1, <1>2, <2>1 DEF Expressible, WellWritten
<1>4. [i \in DOMAIN raw.conds |-> Ported(Text(raw.conds[i].atom))] = texts
  BY <1>1
<1>5. DOMAIN atoms = 1 .. n /\ texts = [i \in 1 .. n |-> Ported(Text(atoms[i]))]
  OBVIOUS
<1>6. pred = Composed(t, raw, texts)
  BY <1>2, <1>4
<1> HIDE DEF atoms, texts
<1>7. /\ Len(texts) = n /\ DOMAIN texts = 1 .. n
      /\ \A i \in 1 .. n : DOMAIN texts[i] = 1 .. 1 /\ texts[i][1] = Port(atoms[i])
      /\ DOMAIN Joined(texts) = 1 .. n /\ \A i \in 1 .. n : Joined(texts)[i] = Port(atoms[i])
  <2>1. Singles(texts, n, atoms)
    BY <1>1, <1>5, PortedTexts
  <2> QED
    BY <2>1 DEF Singles
<1>8. \A i \in DOMAIN pred.texts : \A k \in DOMAIN pred.texts[i] : ~HasSurrogate(pred.texts[i][k])
  BY ScreenedClean DEF Compiles
<1>9. UpstreamFires(raw, s) <=>
        IF raw.logic = "all" THEN \A i \in 1 .. n : SearchAtom(atoms[i], Units(s)) # NoHit
        ELSE \E i \in 1 .. n : SearchAtom(atoms[i], Units(s)) # NoHit
  BY <1>1, <1>3 DEF UpstreamFires, UpstreamHit
<1>10. ASSUME \A i \in 1 .. n : ~HasSurrogate(Port(atoms[i]))
       PROVE  /\ \A i \in 1 .. n : SearchText(texts[i], s) # NoHit <=> SearchAtom(atoms[i], Units(s)) # NoHit
              /\ SearchText(Joined(texts), s) # NoHit <=> \E i \in 1 .. n : SearchAtom(atoms[i], Units(s)) # NoHit
              /\ SearchAny(texts, s) = SearchText(Joined(texts), s)
  <2>1. \A i \in 1 .. n : Written(atoms[i]) /\ ~HasSurrogate(Port(atoms[i]))
    BY <1>3, <1>10
  <2> QED
    BY <1>1, <1>5, <2>1, OneEach
<1>11. ASSUME pred.texts = texts PROVE \A i \in 1 .. n : ~HasSurrogate(Port(atoms[i]))
  <2>1. 1 \in 1 .. 1
    OBVIOUS
  <2> QED
    BY <1>7, <1>8, <1>11, <2>1
<1>12. \/ n = 1 /\ pred.kind = "regex" /\ pred.texts = texts
       \/ raw.logic = "all" /\ pred.kind = "regex_all" /\ pred.texts = texts
       \/ raw.logic # "all" /\ pred.kind = "regex" /\ pred.texts = <<Joined(texts)>>
       \/ raw.logic # "all" /\ pred.kind = "regex_any" /\ pred.texts = texts
  <2>1. CASE n = 1
    BY <1>6, <1>7, <2>1 DEF Composed, Predicate
  <2>2. CASE n # 1 /\ raw.logic = "all"
    BY <1>6, <1>7, <2>2 DEF Composed, Predicate
  <2>3. CASE n # 1 /\ raw.logic # "all"
    <3>1. pred = Alternative(t, raw, texts)
      BY <1>6, <1>7, <2>3 DEF Composed
    <3>2. \/ pred = Predicate("regex", <<Joined(texts)>>)
          \/ pred = NoPredicate
          \/ pred = Predicate("regex_any", texts)
      BY <3>1 DEF Alternative
    <3>3. \A kind, x : Predicate(kind, x).kind = kind /\ Predicate(kind, x).texts = x
      BY DEF Predicate
    <3>4. pred # NoPredicate
      BY <3>3 DEF NoPredicate
    <3> QED
      BY <2>3, <3>2, <3>3, <3>4
  <2> QED
    BY <2>1, <2>2, <2>3
<1>13. CASE n = 1 /\ pred.kind = "regex" /\ pred.texts = texts
  <2>1. SearchPredicate(pred, s) = SearchText(texts[1], s)
    BY <1>13 DEF SearchPredicate
  <2>2. \A i : i \in 1 .. n <=> i = 1
    BY <1>13
  <2> QED
    BY <1>9, <1>10, <1>11, <1>13, <2>1, <2>2
<1>14. CASE raw.logic = "all" /\ pred.kind = "regex_all" /\ pred.texts = texts
  <2>1. SearchPredicate(pred, s) = SearchAll(texts, s)
    BY <1>14 DEF SearchPredicate
  <2>2. 1 \in 1 .. n
    BY <1>1, <1>3
  <2>3. SearchAll(texts, s) # NoHit <=> \A i \in 1 .. n : SearchText(texts[i], s) # NoHit
    BY <1>7, <2>2 DEF SearchAll
  <2> QED
    BY <1>9, <1>10, <1>11, <1>14, <2>1, <2>3
<1>15. CASE raw.logic # "all" /\ pred.kind = "regex" /\ pred.texts = <<Joined(texts)>>
  <2>1. DOMAIN pred.texts = 1 .. 1 /\ pred.texts[1] = Joined(texts) /\ 1 \in 1 .. 1
    BY <1>15
  <2>2. SearchPredicate(pred, s) = SearchText(Joined(texts), s)
    BY <1>15, <2>1 DEF SearchPredicate
  <2>3. \A i \in 1 .. n : ~HasSurrogate(Port(atoms[i]))
    BY <1>7, <1>8, <2>1
  <2> QED
    BY <1>9, <1>10, <1>15, <2>2, <2>3
<1>16. CASE raw.logic # "all" /\ pred.kind = "regex_any" /\ pred.texts = texts
  <2>1. SearchPredicate(pred, s) = SearchAny(texts, s)
    BY <1>16 DEF SearchPredicate
  <2> QED
    BY <1>9, <1>10, <1>11, <1>16, <2>1
<1> QED
  BY <1>12, <1>13, <1>14, <1>15, <1>16

(* What is known of a rule that was built is true of it.                       *)
LEMMA BuiltFaithful ==
  ASSUME NEW fs \in Checkouts, NEW t, NEW rule, Builds(fs, t, rule)
  PROVE  /\ \A s \in Payloads :
              /\ SearchPredicate(rule.pred, s) # NoHit <=> UpstreamFires(FirstOf(fs, rule.id), s)
              /\ rule.pred.kind = "regex_any" => SearchAny(rule.pred.texts, s) = SearchText(Joined(rule.pred.texts), s)
         /\ rule.reach = "reachable" <=> \E s \in FirstOf(fs, rule.id).examples : UpstreamFires(FirstOf(fs, rule.id), s)
<1>1. PICK source \in Range(Load(t, fs).rules) :
        source.pred.kind # "none" /\ Accepted(t, source) /\ rule = Trimmed(t, source)
  BY DEF Builds
<1>2. Len(fs) \in Nat /\ DOMAIN fs = 1 .. Len(fs) /\ \A j \in 1 .. Len(fs) : WellWritten(fs[j])
  BY Checked
<1>3. PICK j \in 1 .. Len(fs) : source = Rule(t, fs[j]) /\ FirstOf(fs, source.id) = fs[j]
  BY <1>2, LoadedFirst
<1> DEFINE raw == fs[j]
           pred == FlatPredicate(t, raw)
<1>4. /\ source.pred = pred /\ source.examples = raw.examples /\ rule.id = source.id /\ rule.pred = pred
      /\ rule.reach = Reachability(t, source)
  BY <1>1, <1>3 DEF Rule, Trimmed
<1>5. WellWritten(raw) /\ FirstOf(fs, rule.id) = raw /\ raw.examples \subseteq Seq(Scalars)
  BY <1>2, <1>3, <1>4 DEF WellWritten
<1>6. pred.kind # "none" /\ Compiles(t, pred, TRUE)
  BY <1>1, <1>4 DEF Accepted
<1> HIDE DEF pred, raw
<1>7. ASSUME NEW s \in Seq(Scalars)
      PROVE  /\ SearchPredicate(pred, s) # NoHit <=> UpstreamFires(raw, s)
             /\ pred.kind = "regex_any" => SearchAny(pred.texts, s) = SearchText(Joined(pred.texts), s)
  BY <1>5, <1>6, FlatFaithful DEF pred
<1>8. rule.reach = "reachable" <=> \E s \in raw.examples : UpstreamFires(raw, s)
  <2>1. rule.reach = "reachable" <=> \E s \in raw.examples : TrustedScan(t, pred, TRUE, s).hit # NoHit
    BY <1>4 DEF Reachability
  <2>2. \A s : TrustedScan(t, pred, TRUE, s).hit = SearchPredicate(pred, s)
    BY <1>6 DEF TrustedScan
  <2> QED
    BY <1>5, <1>7, <2>1, <2>2
<1>9. Payloads \subseteq Seq(Scalars)
  BY TextsAssumption
<1> QED
  BY <1>4, <1>5, <1>7, <1>8, <1>9

(* What ships is faithful to the checkout it was built from.                   *)
LEMMA ShippedFaithful == BundleIsTrue => FlatIsFaithful
<1> SUFFICES ASSUME BundleIsTrue, NEW rule \in Shipped
             PROVE  /\ \A s \in Payloads :
                         /\ SearchPredicate(rule.pred, s) # NoHit <=> UpstreamFires(RawOf(rule.id), s)
                         /\ rule.pred.kind = "regex_any" => SearchAny(rule.pred.texts, s) = SearchText(Joined(rule.pred.texts), s)
                    /\ rule.reach = "reachable" <=> \E s \in RawOf(rule.id).examples : UpstreamFires(RawOf(rule.id), s)
  BY DEF FlatIsFaithful
<1>1. origin.files \in Checkouts /\ Builds(origin.files, origin.table, rule)
  BY DEF BundleIsTrue, Shipped
<1>2. RawOf(rule.id) = FirstOf(origin.files, rule.id)
  BY DEF RawOf
<1> QED
  BY <1>1, <1>2, BuiltFaithful

-----------------------------------------------------------------------------
(* The release of the rules: the table, row by row. *)

(* The corrections are applied one after the other.                          *)
LEMMA CorrectedSteps ==
  ASSUME NEW t, NEW S, NEW sources \in Seq(S)
  PROVE  /\ Corrected(t, sources)[0] = t
         /\ \A i \in 1 .. Len(sources) :
              Corrected(t, sources)[i] = ApplySource(Corrected(t, sources)[i - 1], sources[i])
<1> DEFINE n == Len(sources)
           Chain(g, m) == g[0] = t /\ \A i \in 1 .. m : g[i] = ApplySource(g[i - 1], sources[i])
           Good == { m \in Nat : \E g : Chain(g, m) }
           F(f) == f = [i \in 0 .. n |-> IF i = 0 THEN t ELSE ApplySource(f[i - 1], sources[i])]
           first == CHOOSE f : F(f)
<1>1. 0 \in Good
  <2>1. Chain([i \in {0} |-> t], 0)
    OBVIOUS
  <2> QED
    BY <2>1
<1>2. ASSUME NEW m \in Nat, m \in Good PROVE m + 1 \in Good
  <2>1. PICK g : Chain(g, m)
    BY <1>2
  <2>0. m + 1 \in Nat
    OBVIOUS
  <2> DEFINE h == [i \in 0 .. m + 1 |-> IF i = m + 1 THEN ApplySource(g[m], sources[i]) ELSE g[i]]
  <2>2. Chain(h, m + 1)
    <3>1. h[0] = t
      BY <2>1
    <3>2. ASSUME NEW i \in 1 .. m + 1 PROVE h[i] = ApplySource(h[i - 1], sources[i])
      <4>1. CASE i = m + 1
        <5>1. h[i] = ApplySource(g[m], sources[i]) /\ i - 1 = m /\ h[m] = g[m]
          BY <4>1
        <5> QED
          BY <5>1
      <4>2. CASE i # m + 1
        <5>1. i \in 1 .. m /\ h[i] = g[i] /\ h[i - 1] = g[i - 1]
          BY <4>2
        <5> QED
          BY <2>1, <5>1
      <4> QED
        BY <4>1, <4>2
    <3> QED
      BY <3>1, <3>2
  <2>3. \E f : Chain(f, m + 1)
    <3> HIDE DEF Chain
    <3> QED
      BY <2>2
  <2> QED
    BY <2>0, <2>3
<1>3. n \in Nat /\ n \in Good
  <2>1. n \in Nat
    OBVIOUS
  <2> HIDE DEF Good
  <2> QED
    BY <1>1, <1>2, <2>1, SetInduction
<1>4. PICK g : Chain(g, n)
  BY <1>3
<1> DEFINE h == [i \in 0 .. n |-> g[i]]
<1>5. F(h)
  <2>1. ASSUME NEW i \in 0 .. n PROVE h[i] = IF i = 0 THEN t ELSE ApplySource(h[i - 1], sources[i])
    <3>1. CASE i = 0
      BY <1>4, <3>1
    <3>2. CASE i # 0
      <4>1. i \in 1 .. n /\ h[i] = g[i] /\ h[i - 1] = g[i - 1]
        BY <1>3, <3>2
      <4> QED
        BY <1>4, <3>2, <4>1
    <3> QED
      BY <3>1, <3>2
  <2> QED
    BY <2>1
<1>6. F(first)
  <2> HIDE DEF h
  <2> QED
    BY <1>5
<1>7. Corrected(t, sources) = first
  BY DEF Corrected
<1>8. /\ first[0] = t
      /\ \A i \in 1 .. n : first[i] = ApplySource(first[i - 1], sources[i])
  <2> HIDE DEF first
  <2> QED
    BY <1>3, <1>6
<1> QED
  BY <1>7, <1>8

(* What is slow after some of them is slow after all, and a fast row is one   *)
(* of the table or of a correction.                                          *)
SlowText(t, x)  == x \in DOMAIN t.patterns /\ t.patterns[x] = "slow"
SlowRule(t, id) == id \in DOMAIN t.rules /\ t.rules[id].row = "slow"

(* Of two rows for one key the later is kept.                                *)
LEMMA OverlayRow ==
  ASSUME NEW rows, NEW more, NEW k
  PROVE  /\ k \in DOMAIN Overlay(rows, more) <=> (k \in DOMAIN rows \/ k \in DOMAIN more)
         /\ k \in DOMAIN more => Overlay(rows, more)[k] = more[k]
         /\ k \in DOMAIN rows /\ k \notin DOMAIN more => Overlay(rows, more)[k] = rows[k]
BY DEF Overlay

(* What one correction does to the slow rows and to the fast ones.            *)
LEMMA OneCorrection ==
  ASSUME NEW t, NEW source
  PROVE  /\ \A x : SlowText(ApplySource(t, source), x) <=>
                     \/ SlowText(source, x)
                     \/ SlowText(t, x) /\ x \notin DOMAIN source.patterns
         /\ \A id : SlowRule(ApplySource(t, source), id) <=>
                      \/ SlowRule(source, id)
                      \/ SlowRule(t, id) /\ id \notin DOMAIN source.rules
         /\ Fast(ApplySource(t, source)) \subseteq Fast(t) \cup Fast(source)
<1>a. PICK p : p = Overlay(t.patterns, source.patterns)
  OBVIOUS
<1>b. PICK q : q = Overlay(t.rules, source.rules)
  OBVIOUS
<1>c. PICK new : new = ApplySource(t, source)
  OBVIOUS
<1>d. new.patterns = p /\ new.rules = q
  BY <1>a, <1>b, <1>c DEF ApplySource
<1>1. new = ApplySource(t, source) /\ p = Overlay(t.patterns, source.patterns)
      /\ q = Overlay(t.rules, source.rules) /\ new.patterns = p /\ new.rules = q
  BY <1>a, <1>b, <1>c, <1>d
<1>2. ASSUME NEW x
      PROVE  SlowText(new, x) <=> SlowText(source, x) \/ (SlowText(t, x) /\ x \notin DOMAIN source.patterns)
  <2>1. /\ x \in DOMAIN p <=> x \in DOMAIN t.patterns \/ x \in DOMAIN source.patterns
        /\ x \in DOMAIN source.patterns => p[x] = source.patterns[x]
        /\ x \in DOMAIN t.patterns /\ x \notin DOMAIN source.patterns => p[x] = t.patterns[x]
    BY <1>1, OverlayRow
  <2> QED
    BY <1>1, <2>1 DEF SlowText
<1>3. ASSUME NEW id
      PROVE  SlowRule(new, id) <=> SlowRule(source, id) \/ (SlowRule(t, id) /\ id \notin DOMAIN source.rules)
  <2>1. /\ id \in DOMAIN q <=> id \in DOMAIN t.rules \/ id \in DOMAIN source.rules
        /\ id \in DOMAIN source.rules => q[id] = source.rules[id]
        /\ id \in DOMAIN t.rules /\ id \notin DOMAIN source.rules => q[id] = t.rules[id]
    BY <1>1, OverlayRow
  <2> QED
    BY <1>1, <2>1 DEF SlowRule
<1>4. ASSUME NEW x \in Fast(new) PROVE x \in Fast(t) \cup Fast(source)
  <2>1. /\ x \in DOMAIN p <=> x \in DOMAIN t.patterns \/ x \in DOMAIN source.patterns
        /\ x \in DOMAIN source.patterns => p[x] = source.patterns[x]
        /\ x \in DOMAIN t.patterns /\ x \notin DOMAIN source.patterns => p[x] = t.patterns[x]
    BY <1>1, OverlayRow
  <2>2. x \in DOMAIN p /\ p[x] = "fast"
    BY <1>1 DEF Fast
  <2> QED
    BY <2>1, <2>2 DEF Fast
<1> QED
  BY <1>1, <1>2, <1>3, <1>4

(* A slow row of a correction is there at the end, unless the build stops.     *)
LEMMA SlowStays ==
  ASSUME NEW t, NEW S, NEW sources \in Seq(S), ~ Downgrades(t, sources), NEW i \in 1 .. Len(sources)
  PROVE  /\ \A x : SlowText(sources[i], x) => SlowText(WithCorrections(t, sources), x)
         /\ \A id : SlowRule(sources[i], id) => SlowRule(WithCorrections(t, sources), id)
<1> DEFINE n == Len(sources)
           after == Corrected(t, sources)
           Keeps(k) == /\ \A x : SlowText(sources[i], x) => SlowText(after[k], x)
                       /\ \A id : SlowRule(sources[i], id) => SlowRule(after[k], id)
           Good == { m \in Nat : i + m <= n => Keeps(i + m) }
<1>1. n \in Nat /\ i \in Nat /\ i > 0 /\ i <= n /\ DOMAIN sources = 1 .. n
  OBVIOUS
<1>2. \A k \in 1 .. n : after[k] = ApplySource(after[k - 1], sources[k])
  BY CorrectedSteps
<1>3. ASSUME NEW k \in 1 .. n
      PROVE  /\ \A x : SlowText(after[k - 1], x) => SlowText(after[k], x)
             /\ \A id : SlowRule(after[k - 1], id) => SlowRule(after[k], id)
  <2>1. /\ \A x \in DOMAIN after[k - 1].patterns \cap DOMAIN sources[k].patterns :
             ~ (after[k - 1].patterns[x] = "slow" /\ sources[k].patterns[x] # "slow")
        /\ \A id \in DOMAIN after[k - 1].rules \cap DOMAIN sources[k].rules :
             ~ (after[k - 1].rules[id].row = "slow" /\ sources[k].rules[id].row # "slow")
    BY <1>1 DEF Downgrades
  <2> HIDE DEF after
  <2>2. PICK t0, source : t0 = after[k - 1] /\ source = sources[k] /\ after[k] = ApplySource(t0, source)
    BY <1>2
  <2> QED
    BY <2>1, <2>2, OneCorrection DEF SlowText, SlowRule
<1> HIDE DEF after
<1>4. 0 \in Good
  <2>1. after[i] = ApplySource(after[i - 1], sources[i])
    BY <1>2
  <2>2. Keeps(i)
    BY <2>1, OneCorrection
  <2> QED
    BY <1>1, <2>2
<1>5. ASSUME NEW m \in Nat, m \in Good PROVE m + 1 \in Good
  <2> SUFFICES ASSUME i + (m + 1) <= n PROVE Keeps(i + (m + 1))
    OBVIOUS
  <2>1. Keeps(i + m)
    BY <1>1, <1>5
  <2>2. PICK k \in 1 .. n : k = i + (m + 1) /\ k - 1 = i + m
    BY <1>1
  <2> QED
    BY <1>3, <2>1, <2>2
<1>6. Nat \subseteq Good
  <2> HIDE DEF Good
  <2> QED
    BY <1>4, <1>5, SetInduction
<1>7. n - i \in Nat /\ i + (n - i) = n
  <2> HIDE DEF Good, Keeps
  <2> QED
    BY <1>1
<1>8. Keeps(n)
  <2>1. n - i \in Good
    <3> HIDE DEF Good
    <3> QED
      BY <1>6, <1>7
  <2>2. i + (n - i) <= n => Keeps(i + (n - i))
    <3> HIDE DEF Keeps
    <3> QED
      BY <2>1
  <2> HIDE DEF Keeps, Good
  <2> QED
    BY <1>1, <1>7, <2>2
<1> QED
  BY <1>8 DEF WithCorrections, after

(* A fast row at the end is one of the table or of a correction.              *)
LEMMA FastComes ==
  ASSUME NEW t, NEW S, NEW sources \in Seq(S), NEW T, Fast(t) \subseteq T,
         \A i \in 1 .. Len(sources) : Fast(sources[i]) \subseteq T
  PROVE  Fast(WithCorrections(t, sources)) \subseteq T
<1> DEFINE n == Len(sources)
           after == Corrected(t, sources)
           Good == { m \in Nat : m <= n => Fast(after[m]) \subseteq T }
<1>1. n \in Nat /\ after[0] = t /\ \A k \in 1 .. n : after[k] = ApplySource(after[k - 1], sources[k])
  BY CorrectedSteps
<1> HIDE DEF after
<1>2. 0 \in Good
  BY <1>1
<1>3. ASSUME NEW m \in Nat, m \in Good PROVE m + 1 \in Good
  <2> SUFFICES ASSUME m + 1 <= n PROVE Fast(after[m + 1]) \subseteq T
    OBVIOUS
  <2>1. m + 1 \in 1 .. n /\ (m + 1) - 1 = m /\ Fast(after[m]) \subseteq T
    BY <1>1, <1>3
  <2>2. after[m + 1] = ApplySource(after[m], sources[m + 1])
    BY <1>1, <2>1
  <2>3. Fast(sources[m + 1]) \subseteq T
    BY <2>1
  <2> QED
    BY <2>1, <2>2, <2>3, OneCorrection
<1>4. Nat \subseteq Good
  <2> HIDE DEF Good
  <2> QED
    BY <1>2, <1>3, SetInduction
<1> QED
  BY <1>1, <1>4 DEF WithCorrections, after
(* A rule's rows: its texts are fast only if it did not cross.                *)
LEMMA OneRuleMore ==
  ASSUME NEW acc, NEW raw, NEW row, NEW T, Fast(acc) \subseteq T,
         row.reps = {} => Distinct(ConditionTexts(raw)) \subseteq T
  PROVE  Fast(AddRule(acc, raw, row)) \subseteq T
<1>1. PICK texts : texts = ConditionTexts(raw)
  OBVIOUS
<1>2. PICK p : p = acc.patterns
  OBVIOUS
<1>3. CASE row.reps # {}
  <2>1. PICK more : more = [t \in row.reps |-> "slow"]
    OBVIOUS
  <2>2. AddRule(acc, raw, row).patterns = Overlay(p, more)
    BY <1>2, <1>3, <2>1 DEF AddRule
  <2>3. ASSUME NEW x \in DOMAIN Overlay(p, more), Overlay(p, more)[x] = "fast" PROVE x \in T
    <3>1. x \notin DOMAIN more
      BY <2>1, <2>3, OverlayRow
    <3>2. x \in DOMAIN p /\ p[x] = "fast"
      BY <2>3, <3>1, OverlayRow
    <3> QED
      BY <1>2, <3>2 DEF Fast
  <2> QED
    BY <2>2, <2>3 DEF Fast
<1>4. CASE row.reps = {}
  <2>1. PICK own : own = FastRows(p, texts)
    OBVIOUS
  <2>2. AddRule(acc, raw, row).patterns = JoinedRow(own, raw, texts)
    BY <1>1, <1>2, <1>4, <2>1 DEF AddRule
  <2>3. ASSUME NEW x \in DOMAIN own, own[x] = "fast" PROVE x \in T
    <3>1. CASE x \in Distinct(texts)
      BY <1>1, <1>4, <3>1
    <3>2. CASE x \notin Distinct(texts)
      <4>1. x \in DOMAIN p /\ p[x] = "fast"
        BY <2>1, <2>3, <3>2 DEF FastRows
      <4> QED
        BY <1>2, <4>1 DEF Fast
    <3> QED
      BY <3>1, <3>2
  <2>4. PICK key : key = Joined([i \in DOMAIN texts |-> Ported(texts[i])])
    OBVIOUS
  <2>5. PICK more : more = [k \in {key} |-> "inferred-fast"]
    OBVIOUS
  <2>6. JoinedRow(own, raw, texts) \in {own, Overlay(own, more)}
    BY <2>4, <2>5 DEF JoinedRow, Default
  <2>7. ASSUME NEW x \in DOMAIN Overlay(own, more), Overlay(own, more)[x] = "fast" PROVE x \in T
    <3>1. x \notin DOMAIN more
      BY <2>5, <2>7, OverlayRow
    <3>2. x \in DOMAIN own /\ own[x] = "fast"
      BY <2>7, <3>1, OverlayRow
    <3> QED
      BY <2>3, <3>2
  <2> QED
    BY <2>2, <2>3, <2>6, <2>7 DEF Fast
<1> QED
  BY <1>3, <1>4

(* The last id is a number, as every id is.                                  *)
LEMMA IdsEnd ==
  ASSUME NEW fs \in Checkouts
  PROVE  LastId(fs) \in Nat
<1> DEFINE n == Len(fs)
           S == Ids(fs) \cup {0}
           Good == { m \in Nat : m <= n => \E b \in Nat : \A i \in 1 .. m : fs[i].id <= b }
<1>1. n \in Nat /\ DOMAIN fs = 1 .. n /\ \A i \in 1 .. n : fs[i].id \in Nat
  BY CheckoutAssumption DEF CheckoutAssumption
<1>2. 0 \in Good
  OBVIOUS
<1>3. ASSUME NEW m \in Nat, m \in Good PROVE m + 1 \in Good
  <2> SUFFICES ASSUME m + 1 <= n PROVE \E b \in Nat : \A i \in 1 .. m + 1 : fs[i].id <= b
    OBVIOUS
  <2>1. PICK b \in Nat : \A i \in 1 .. m : fs[i].id <= b
    BY <1>1, <1>3
  <2>2. PICK c \in Nat : c = fs[m + 1].id
    BY <1>1
  <2>3. ASSUME NEW i \in 1 .. m + 1 PROVE fs[i].id <= b + c
    <3>1. fs[i].id \in Nat
      BY <1>1
    <3>2. i \in 1 .. m \/ i = m + 1
      OBVIOUS
    <3> QED
      BY <2>1, <2>2, <3>1, <3>2
  <2>4. b + c \in Nat
    OBVIOUS
  <2> QED
    BY <2>3, <2>4
<1>4. n \in Good
  <2> HIDE DEF Good
  <2> QED
    BY <1>1, <1>2, <1>3, SetInduction
<1>5. PICK b \in Nat : \A i \in 1 .. n : fs[i].id <= b
  BY <1>1, <1>4
<1>6. S \subseteq Nat /\ \A x \in S : x <= b
  BY <1>1, <1>5 DEF Ids
<1> DEFINE below == { b - x : x \in S }
<1>7. below \in SUBSET Nat /\ below # {}
  <2> HIDE DEF S
  <2>1. 0 \in S
    BY DEF S
  <2> QED
    BY <1>6, <2>1
<1>8. PICK k \in below : \A y \in below : k <= y
  BY <1>7, SmallestNat
<1>9. PICK top \in S : k = b - top
  BY <1>8
<1>10. ASSUME NEW y \in S PROVE top >= y
  <2>1. b - y \in below
    OBVIOUS
  <2>2. k <= b - y
    BY <1>8, <2>1
  <2>3. top \in Nat /\ y \in Nat
    <3> HIDE DEF S, below
    <3> QED
      BY <1>6, <1>9
  <2> HIDE DEF S, below
  <2> QED
    BY <1>9, <2>2, <2>3
<1>11. Max(S) \in S
  <2> HIDE DEF S
  <2> QED
    BY <1>10 DEF Max
<1> QED
  BY <1>6, <1>11 DEF LastId

(* The rules are taken one after the other.                                  *)
LEMMA BuiltSteps ==
  ASSUME NEW fs \in Checkouts, NEW rep
  PROVE  \E upTo : /\ Built(fs, rep) = upTo[LastId(fs)] /\ upTo[0] = EmptyTable
                   /\ \A id \in 1 .. LastId(fs) :
                        upTo[id] = IF id \in MeasuredIn(rep, fs)
                                   THEN AddRule(upTo[id - 1], LastOf(fs, id), rep[id]) ELSE upTo[id - 1]
<1> DEFINE n == LastId(fs)
           Next1(e, id) == IF id \in MeasuredIn(rep, fs) THEN AddRule(e, LastOf(fs, id), rep[id]) ELSE e
           Chain(g, m) == g[0] = EmptyTable /\ \A id \in 1 .. m : g[id] = Next1(g[id - 1], id)
           Good == { m \in Nat : \E g : Chain(g, m) }
           F(f) == f = [id \in 0 .. n |->
                          IF id = 0 THEN EmptyTable
                          ELSE IF id \in MeasuredIn(rep, fs) THEN AddRule(f[id - 1], LastOf(fs, id), rep[id])
                          ELSE f[id - 1]]
           first == CHOOSE f : F(f)
<1>1. 0 \in Good
  <2>1. Chain([i \in {0} |-> EmptyTable], 0)
    OBVIOUS
  <2> QED
    BY <2>1
<1>2. ASSUME NEW m \in Nat, m \in Good PROVE m + 1 \in Good
  <2>0. m + 1 \in Nat
    OBVIOUS
  <2>1. PICK g : Chain(g, m)
    BY <1>2
  <2> DEFINE h == [id \in 0 .. m + 1 |-> IF id = m + 1 THEN Next1(g[m], id) ELSE g[id]]
  <2>2. Chain(h, m + 1)
    <3> HIDE DEF Next1
    <3>1. h[0] = EmptyTable
      BY <2>1
    <3>2. ASSUME NEW id \in 1 .. m + 1 PROVE h[id] = Next1(h[id - 1], id)
      <4>1. CASE id = m + 1
        <5>1. h[id] = Next1(g[m], id) /\ id - 1 = m /\ h[m] = g[m]
          BY <4>1
        <5> QED
          BY <5>1
      <4>2. CASE id # m + 1
        <5>1. id \in 1 .. m /\ h[id] = g[id] /\ h[id - 1] = g[id - 1]
          BY <4>2
        <5> QED
          BY <2>1, <5>1
      <4> QED
        BY <4>1, <4>2
    <3> QED
      BY <3>1, <3>2
  <2>3. \E f : Chain(f, m + 1)
    <3> HIDE DEF Chain
    <3> QED
      BY <2>2
  <2> QED
    BY <2>0, <2>3
<1>3. n \in Nat /\ n \in Good
  <2>1. n \in Nat
    BY IdsEnd
  <2> HIDE DEF Good
  <2> QED
    BY <1>1, <1>2, <2>1, SetInduction
<1>4. PICK g : Chain(g, n)
  BY <1>3
<1> DEFINE h == [i \in 0 .. n |-> g[i]]
<1>5. F(h)
  <2>1. ASSUME NEW id \in 0 .. n PROVE h[id] = IF id = 0 THEN EmptyTable ELSE Next1(h[id - 1], id)
    <3> HIDE DEF Next1
    <3>1. CASE id = 0
      BY <1>4, <3>1
    <3>2. CASE id # 0
      <4>1. id \in 1 .. n /\ h[id] = g[id] /\ h[id - 1] = g[id - 1]
        BY <1>3, <3>2
      <4> QED
        BY <1>4, <3>2, <4>1
    <3> QED
      BY <3>1, <3>2
  <2> QED
    BY <2>1
<1>6. F(first)
  <2> HIDE DEF h
  <2> QED
    BY <1>5
<1>7. Built(fs, rep) = first[n]
  BY DEF Built
<1>8. first[0] = EmptyTable /\ \A id \in 1 .. n : first[id] = Next1(first[id - 1], id)
  <2> HIDE DEF first
  <2> QED
    BY <1>3, <1>6
<1> HIDE DEF first
<1> QED
  BY <1>7, <1>8

(* A fast row of the table is of a rule that did not cross.                   *)
LEMMA FastIsBuilt ==
  ASSUME NEW fs \in Checkouts, NEW rep, NEW T,
         \A id \in MeasuredIn(rep, fs) : rep[id].reps = {} => Distinct(TextsOf(fs)[id]) \subseteq T
  PROVE  Fast(Built(fs, rep)) \subseteq T
<1>1. PICK upTo : /\ Built(fs, rep) = upTo[LastId(fs)] /\ upTo[0] = EmptyTable
                  /\ \A id \in 1 .. LastId(fs) :
                       upTo[id] = IF id \in MeasuredIn(rep, fs)
                                  THEN AddRule(upTo[id - 1], LastOf(fs, id), rep[id]) ELSE upTo[id - 1]
  BY BuiltSteps
<1> DEFINE n == LastId(fs)
           Good == { m \in Nat : m <= n => Fast(upTo[m]) \subseteq T }
<1>2. n \in Nat
  BY IdsEnd
<1>3. 0 \in Good
  <2>1. Fast(EmptyTable) = {}
    BY DEF Fast, EmptyTable
  <2> QED
    BY <1>1, <2>1
<1>4. ASSUME NEW m \in Nat, m \in Good PROVE m + 1 \in Good
  <2> SUFFICES ASSUME m + 1 <= n PROVE Fast(upTo[m + 1]) \subseteq T
    OBVIOUS
  <2>1. PICK id \in 1 .. n : id = m + 1 /\ id - 1 = m
    BY <1>2
  <2>2. Fast(upTo[m]) \subseteq T
    BY <1>2, <1>4
  <2>3. CASE id \in MeasuredIn(rep, fs)
    <3>1. upTo[id] = AddRule(upTo[m], LastOf(fs, id), rep[id])
      BY <1>1, <2>1, <2>3
    <3>2. TextsOf(fs)[id] = ConditionTexts(LastOf(fs, id))
      BY <2>3 DEF TextsOf, MeasuredIn
    <3>3. rep[id].reps = {} => Distinct(ConditionTexts(LastOf(fs, id))) \subseteq T
      BY <2>3, <3>2
    <3>4. Fast(AddRule(upTo[m], LastOf(fs, id), rep[id])) \subseteq T
      BY <2>2, <3>3, OneRuleMore
    <3> QED
      BY <2>1, <3>1, <3>4
  <2>4. CASE id \notin MeasuredIn(rep, fs)
    <3>1. upTo[id] = upTo[m]
      BY <1>1, <2>1, <2>4
    <3> QED
      BY <2>1, <2>2, <3>1
  <2> QED
    BY <2>3, <2>4
<1>5. Nat \subseteq Good
  <2> HIDE DEF Good
  <2> QED
    BY <1>3, <1>4, SetInduction
<1> QED
  BY <1>1, <1>2, <1>5
-----------------------------------------------------------------------------
(* The release of the rules: the steps. *)

(* A list with one more element is a list.                                   *)
LEMMA OneMoreListed ==
  ASSUME NEW s, s \in Seq(Range(s)), NEW x
  PROVE  /\ Append(s, x) \in Seq(Range(Append(s, x)))
         /\ DOMAIN s = 1 .. Len(s) /\ DOMAIN Append(s, x) = 1 .. Len(s) + 1 /\ Len(s) \in Nat
         /\ Append(s, x)[Len(s) + 1] = x /\ \A i \in DOMAIN s : Append(s, x)[i] = s[i]
<1> DEFINE S == Range(s) \cup {x}
           t == Append(s, x)
<1>1. s \in Seq(S)
  OBVIOUS
<1> HIDE DEF S
<1>2. /\ t \in Seq(S) /\ Len(t) = Len(s) + 1 /\ Len(s) \in Nat /\ t[Len(s) + 1] = x
      /\ DOMAIN s = 1 .. Len(s) /\ DOMAIN t = 1 .. Len(s) + 1 /\ \A i \in 1 .. Len(s) : t[i] = s[i]
  BY <1>1 DEF S
<1> HIDE DEF t
<1>3. \A i \in 1 .. Len(t) : t[i] \in Range(t)
  BY <1>2 DEF Range
<1>4. t \in Seq(Range(t))
  BY <1>2, <1>3
<1> QED
  BY <1>2, <1>4 DEF t

(* What ships stays true as long as it is what ships.                         *)
LEMMA BundleKept ==
  ASSUME BundleIsTrue, bundle' = bundle, origin' = origin
  PROVE  BundleIsTrue'
<1>1. Shipped' = Shipped
  BY DEF Shipped
<1> QED
  BY <1>1 DEF BundleIsTrue

(* What neither sweeps, corrects nor builds a table disturbs only what ships.  *)
LEMMA OthersKeep ==
  ASSUME ReleaseInv, UNCHANGED <<evidence, merge, table, basis>>, files' \in Checkouts, BundleIsTrue'
  PROVE  ReleaseInv'
<1>1. /\ report' = report /\ swept' = swept /\ timed' = timed /\ slow' = slow
      /\ merge' = merge /\ table' = table /\ basis' = basis
  BY DEF evidence
<1>2. SweepIsTrue'
  BY <1>1 DEF ReleaseInv, SweepIsTrue
<1>3. MergeIsTrue'
  BY <1>1 DEF ReleaseInv, MergeIsTrue
<1>4. TableIsTrue'
  BY <1>1 DEF ReleaseInv, TableIsTrue
<1>5. CorrectionsSurvive'
  BY <1>1 DEF ReleaseInv, CorrectionsSurvive
<1> QED
  BY <1>2, <1>3, <1>4, <1>5 DEF ReleaseInv

(* A sweep reports what it timed, and names no pattern only of a rule of which *)
(* none crossed.                                                            *)
LEMMA SweepKeeps ==
  ASSUME ReleaseInv, Sweep
  PROVE  ReleaseInv'
<1> DEFINE texts == TextsOf(files)
<1>1. PICK fully \in SUBSET Ids(files), choice \in [Ids(files) -> SUBSET SweepSlow] :
        /\ \A id \in Ids(files) : choice[id] \in Reps(texts[id])
        /\ report' = [id \in Ids(files) |-> Row(id \in fully, texts[id], choice[id])]
        /\ timed' = timed \cup UNION { Distinct(texts[id]) : id \in fully }
        /\ slow' = slow \cup UNION { Crossing(texts[id]) : id \in fully }
  BY DEF Sweep
<1>2. /\ swept' = texts /\ files' = files /\ merge' = merge /\ table' = table /\ basis' = basis
      /\ bundle' = bundle /\ origin' = origin
  BY DEF Sweep, checkout
<1>3. DOMAIN texts = Ids(files)
  BY DEF TextsOf
<1> HIDE DEF texts
<1>4. SweepIsTrue'
  <2>1. DOMAIN swept' = Ids(files) /\ DOMAIN report' = Ids(files)
    BY <1>1, <1>2, <1>3
  <2>2. ASSUME NEW id \in Ids(files), report'[id].fully
        PROVE  /\ Distinct(swept'[id]) \subseteq timed'
               /\ report'[id].reps = {} => Distinct(swept'[id]) \cap SweepSlow = {}
    <3>1. id \in fully /\ report'[id].reps = choice[id]
      BY <1>1, <2>2 DEF Row
    <3>2. Distinct(texts[id]) \subseteq timed'
      BY <1>1, <3>1
    <3>3. choice[id] \in Reps(texts[id])
      BY <1>1
    <3>4. choice[id] = {} => Crossing(texts[id]) = {}
      BY <3>3 DEF Reps
    <3> QED
      BY <1>2, <3>1, <3>2, <3>4 DEF Crossing
  <2> QED
    BY <2>1, <2>2 DEF SweepIsTrue
<1>5. MergeIsTrue'
  <2>1. timed \subseteq timed' /\ slow' \ SweepSlow \subseteq slow
    BY <1>1 DEF Crossing
  <2> QED
    BY <1>2, <2>1 DEF ReleaseInv, MergeIsTrue
<1>6. TableIsTrue' /\ CorrectionsSurvive'
  BY <1>2 DEF ReleaseInv, TableIsTrue, CorrectionsSurvive
<1>7. BundleIsTrue'
  BY <1>2, BundleKept DEF ReleaseInv
<1> QED
  BY <1>2, <1>4, <1>5, <1>6, <1>7 DEF ReleaseInv

(* A correction is of a text just timed, fast only if no sweep finds it slow.  *)
LEMMA CorrectKeeps ==
  ASSUME ReleaseInv, NEW text, NEW found, Correct(text, found), text \notin found => text \notin SweepSlow
  PROVE  ReleaseInv'
<1> DEFINE result == IF text \in found THEN "slow" ELSE "fast"
<1>1. PICK source : source = Source(text, result)
  OBVIOUS
<1>2. source.patterns = [t \in {text} |-> result]
  BY <1>1 DEF Source
<1>3. /\ merge' = Append(merge, source) /\ timed' = timed \cup {text}
      /\ slow' = IF text \in found THEN slow \cup {text} ELSE slow
      /\ files' = files /\ report' = report /\ swept' = swept /\ table' = table /\ basis' = basis
      /\ bundle' = bundle /\ origin' = origin
  BY <1>1 DEF Correct, checkout
<1>4. /\ merge' \in Seq(Range(merge')) /\ Len(merge) \in Nat
      /\ DOMAIN merge = 1 .. Len(merge) /\ DOMAIN merge' = 1 .. Len(merge) + 1
      /\ merge'[Len(merge) + 1] = source /\ \A i \in DOMAIN merge : merge'[i] = merge[i]
  BY <1>3, OneMoreListed DEF ReleaseInv, MergeIsTrue
<1>5. ASSUME NEW i \in DOMAIN merge', NEW t \in DOMAIN merge'[i].patterns, Corrects(merge'[i], t, "fast")
      PROVE  t \in timed' \ SweepSlow
  <2>1. CASE i \in DOMAIN merge
    BY <1>3, <1>4, <1>5, <2>1 DEF ReleaseInv, MergeIsTrue
  <2>2. CASE i = Len(merge) + 1
    <3>1. Corrects(source, t, "fast")
      BY <1>4, <1>5, <2>2
    <3>2. t = text /\ text \notin found
      BY <1>2, <3>1 DEF Corrects
    <3> QED
      BY <1>3, <3>2
  <2> QED
    BY <1>4, <2>1, <2>2
<1>6. ASSUME NEW t \in slow' \ SweepSlow PROVE \E i \in DOMAIN merge' : Corrects(merge'[i], t, "slow")
  <2>1. CASE t \in slow
    <3>1. PICK i \in DOMAIN merge : Corrects(merge[i], t, "slow")
      BY <1>6, <2>1 DEF ReleaseInv, MergeIsTrue
    <3>2. i \in DOMAIN merge' /\ merge'[i] = merge[i]
      BY <1>4
    <3> QED
      BY <3>1, <3>2
  <2>2. CASE t \notin slow
    <3>1. t = text /\ text \in found
      BY <1>3, <1>6, <2>2
    <3>2. Corrects(source, t, "slow")
      BY <1>2, <3>1 DEF Corrects
    <3>3. Len(merge) + 1 \in DOMAIN merge'
      BY <1>4
    <3> QED
      BY <1>4, <3>2, <3>3
  <2> QED
    BY <2>1, <2>2
<1>7. MergeIsTrue'
  BY <1>4, <1>5, <1>6 DEF MergeIsTrue
<1>8. SweepIsTrue'
  BY <1>3 DEF ReleaseInv, SweepIsTrue
<1>9. TableIsTrue' /\ CorrectionsSurvive'
  BY <1>3 DEF ReleaseInv, TableIsTrue, CorrectionsSurvive
<1>10. BundleIsTrue'
  BY <1>3, BundleKept DEF ReleaseInv
<1> QED
  BY <1>3, <1>7, <1>8, <1>9, <1>10 DEF ReleaseInv

(* What is built says nothing is fast that was not timed or was found slow.    *)
LEMMA BuildKeeps ==
  ASSUME ReleaseInv, BuildHazards
  PROVE  ReleaseInv'
<1> DEFINE built == Built(files, report)
           T == timed \ SweepSlow
<1>1. /\ table' = WithCorrections(built, merge) /\ ~ Downgrades(built, merge)
      /\ report # Nothing /\ Identified(files, report, manifest)
      /\ files' = files /\ report' = report /\ swept' = swept /\ timed' = timed /\ slow' = slow /\ merge' = merge
      /\ bundle' = bundle /\ origin' = origin
  BY DEF BuildHazards, checkout, evidence
<1>2. basis' = [ timed |-> timed, slow |-> slow, merge |-> merge,
                 together |-> \A id \in MeasuredIn(report, files) : manifest[id] = swept[id] ]
  BY DEF BuildHazards
<1>3. /\ basis'.timed = timed /\ basis'.slow = slow /\ basis'.merge = merge
      /\ basis'.together <=> \A id \in MeasuredIn(report, files) : manifest[id] = swept[id]
  BY <1>2
<1>4. files \in Checkouts /\ merge \in Seq(Range(merge)) /\ DOMAIN merge = 1 .. Len(merge)
  BY DEF ReleaseInv, MergeIsTrue
<1> HIDE DEF built
<1>5. ASSUME NEW i \in DOMAIN merge
      PROVE  /\ \A t : SlowText(merge[i], t) => SlowText(table', t)
             /\ \A id : SlowRule(merge[i], id) => SlowRule(table', id)
  BY <1>1, <1>4, SlowStays
<1>6. CorrectionsSurvive'
  BY <1>3, <1>5 DEF CorrectionsSurvive, SlowText, SlowRule
<1>7. ASSUME basis'.together PROVE Fast(table') \subseteq timed \ slow
  <2>1. ASSUME NEW id \in MeasuredIn(report, files), report[id].reps = {}
        PROVE  Distinct(TextsOf(files)[id]) \subseteq T
    <3>1. id \in DOMAIN report /\ report[id].fully
      BY <2>1 DEF MeasuredIn
    <3>2. TextsOf(files)[id] = swept[id]
      BY <1>1, <1>3, <1>7, <2>1 DEF Identified
    <3> QED
      BY <1>1, <2>1, <3>1, <3>2 DEF ReleaseInv, SweepIsTrue
  <2>2. Fast(built) \subseteq T
    BY <1>4, <2>1, FastIsBuilt DEF built
  <2>3. ASSUME NEW i \in 1 .. Len(merge) PROVE Fast(merge[i]) \subseteq T
    BY <1>4, <2>3 DEF ReleaseInv, MergeIsTrue, Corrects, Fast
  <2>4. Fast(table') \subseteq T
    BY <1>1, <1>4, <2>2, <2>3, FastComes
  <2>5. ASSUME NEW t \in Fast(table') PROVE t \notin slow
    <3>1. SUFFICES ASSUME t \in slow PROVE FALSE
      OBVIOUS
    <3>2. PICK i \in DOMAIN merge : Corrects(merge[i], t, "slow")
      BY <2>4, <2>5, <3>1 DEF ReleaseInv, MergeIsTrue
    <3>3. SlowText(table', t)
      BY <1>5, <3>2 DEF Corrects, SlowText
    <3> QED
      BY <2>5, <3>3 DEF SlowText, Fast
  <2> QED
    BY <2>4, <2>5
<1>8. TableIsTrue'
  BY <1>3, <1>7 DEF TableIsTrue
<1>9. SweepIsTrue'
  BY <1>1 DEF ReleaseInv, SweepIsTrue
<1>10. MergeIsTrue'
  BY <1>1 DEF ReleaseInv, MergeIsTrue
<1>11. BundleIsTrue'
  BY <1>1, BundleKept DEF ReleaseInv
<1> QED
  BY <1>1, <1>4, <1>6, <1>8, <1>9, <1>10, <1>11 DEF ReleaseInv

(* What ships was loaded from the checkout, accepted and trimmed.              *)
LEMMA ShipKeeps ==
  ASSUME ReleaseInv, BuildBundle
  PROVE  ReleaseInv'
<1> DEFINE loaded == Load(table, files).rules
           T(surfaces) == { rule \in Range(loaded) : Travels(table, rule, surfaces) }
           keep(surfaces) == Only(loaded, T(surfaces))
<1>1. PICK surfaces \in SurfaceSets :
        /\ bundle' = [i \in DOMAIN keep(surfaces) |-> Trimmed(table, keep(surfaces)[i])]
        /\ origin' = [files |-> files, table |-> table]
        /\ UNCHANGED <<checkout, evidence, manifest, merge, table, basis>>
  BY DEF BuildBundle
<1>2. files \in Checkouts /\ files' = files
  BY <1>1 DEF ReleaseInv, checkout
<1>3. Len(files) \in Nat
  BY <1>2, CheckoutAssumption
<1>4. ListOf(loaded, Range(loaded))
  <2>1. loaded \in Seq({ Rule(table, files[i]) : i \in 1 .. Len(files) })
    BY <1>3, LoadComes
  <2> HIDE DEF loaded
  <2>2. Len(loaded) \in Nat /\ DOMAIN loaded = 1 .. Len(loaded)
    BY <2>1
  <2> QED
    BY <2>2 DEF ListOf, Range
<1> DEFINE kept == keep(surfaces)
<1>5. kept \in Seq(Range(loaded) \cap T(surfaces))
  <2>1. Selected(loaded, Range(loaded), T(surfaces))
    <3> HIDE DEF loaded, T
    <3> QED
      BY <1>4, OnlyKeeps
  <2> QED
    BY <2>1 DEF Selected
<1>6. /\ bundle' = [i \in DOMAIN kept |-> Trimmed(table, kept[i])]
      /\ origin'.files = files /\ origin'.table = table
  BY <1>1
<1>7. \A source \in T(surfaces) : source \in Range(loaded) /\ source.pred.kind # "none" /\ Accepted(table, source)
  BY DEF Travels
<1> HIDE DEF kept, keep, T
<1>8. ASSUME NEW rule \in Range(bundle') PROVE Builds(files, table, rule)
  <2>1. PICK i \in DOMAIN kept : rule = Trimmed(table, kept[i])
    BY <1>6 DEF Range
  <2>2. kept[i] \in T(surfaces)
    BY <1>5
  <2> QED
    BY <1>7, <2>1, <2>2 DEF Builds
<1> HIDE DEF loaded
<1>9. BundleIsTrue'
  BY <1>2, <1>6, <1>8 DEF BundleIsTrue, Shipped
<1> QED
  BY <1>1, <1>2, <1>9, OthersKeep

(* ReleaseInv holds at first.                                                *)
LEMMA ReleaseStarts == Init => ReleaseInv
<1> SUFFICES ASSUME Init PROVE ReleaseInv
  OBVIOUS
<1>1. files \in Checkouts /\ report = Nothing /\ merge = <<>> /\ basis = Nothing /\ slow = {} /\ bundle = Nothing
  BY DEF Init
<1>2. MergeIsTrue
  <2>1. merge \in Seq(Range(merge)) /\ DOMAIN merge = {}
    BY <1>1
  <2> QED
    BY <1>1, <2>1 DEF MergeIsTrue
<1> QED
  BY <1>1, <1>2 DEF ReleaseInv, SweepIsTrue, TableIsTrue, CorrectionsSurvive, BundleIsTrue

(* Every step keeps it.                                                     *)
LEMMA ReleaseKept == ReleaseInv /\ [Next]_vars => ReleaseInv'
<1> SUFFICES ASSUME ReleaseInv, [Next]_vars PROVE ReleaseInv'
  OBVIOUS
<1>0. files \in Checkouts /\ BundleIsTrue
  BY DEF ReleaseInv
<1>1. CASE Edit
  BY <1>0, <1>1, BundleKept, OthersKeep DEF Edit
<1>2. CASE Sweep
  BY <1>2, SweepKeeps
<1>3. CASE EmitManifest
  BY <1>0, <1>3, BundleKept, OthersKeep DEF EmitManifest, checkout
<1>4. CASE TimeExactly
  BY <1>4, CorrectKeeps DEF TimeExactly
<1>5. CASE Replay
  BY <1>5, CorrectKeeps DEF Replay
<1>6. CASE BuildHazards
  BY <1>6, BuildKeeps
<1>7. CASE BuildBundle
  BY <1>7, ShipKeeps
<1>8. CASE UNCHANGED vars
  BY <1>0, <1>8, BundleKept, OthersKeep DEF vars, checkout
<1> QED
  BY <1>1, <1>2, <1>3, <1>4, <1>5, <1>6, <1>7, <1>8 DEF Next

(* ReleaseInv is an invariant.                                               *)
LEMMA ReleaseHolds == Spec => []ReleaseInv
<1>1. Init => ReleaseInv
  BY ReleaseStarts
<1>2. ReleaseInv /\ [Next]_vars => ReleaseInv'
  BY ReleaseKept
<1> QED
  BY <1>1, <1>2, PTL DEF Spec

(* A pattern the strict screen lets through has a fast row of its own.         *)
LEMMA RunningIsFast == RunningTexts \subseteq Fast(table)
<1>1. ASSUME NEW t, NEW supplied, Screened(table, t, supplied, TRUE) PROVE t \in Fast(table)
  <2>1. MeasurementForPattern(table, t) \notin {"slow", "none"}
    BY <1>1 DEF Screened
  <2>2. t \in DOMAIN table.patterns /\ table.patterns[t] \in {"slow", "fast"} /\ table.patterns[t] # "slow"
    BY <2>1 DEF MeasurementForPattern, MeasurementFromRow
  <2> QED
    BY <2>2 DEF Fast
<1>2. ASSUME NEW rule, Accepted(table, rule), NEW t \in Range(rule.pred.texts) PROVE t \in Fast(table)
  <2>1. PICK i \in DOMAIN rule.pred.texts : t = rule.pred.texts[i]
    BY DEF Range
  <2>2. Screened(table, rule.pred.texts[i], "none", TRUE)
    BY <1>2 DEF Accepted, Compiles
  <2> QED
    BY <1>1, <2>1, <2>2
<1>3. ASSUME NEW rules PROVE FlatTexts(rules) \subseteq Fast(table)
  BY <1>2 DEF FlatTexts
<1>4. ASSUME NEW rules PROVE BoundTexts(rules) \subseteq Fast(table)
  BY <1>1 DEF BoundTexts
<1> QED
  BY <1>3, <1>4 DEF RunningTexts

(***************************************************************************)
(* A slow verdict of the merge file is in the table of every later build, for *)
(* any checkouts and any number of corrections, edits and sweeps             *)
(* (build_hazards: the merge, and its refusal to downgrade).                 *)
(***************************************************************************)
THEOREM SlowRemains == Spec => []CorrectionsSurvive
<1>1. ReleaseInv => CorrectionsSurvive
  BY DEF ReleaseInv
<1> QED
  BY <1>1, ReleaseHolds, PTL

(***************************************************************************)
(* Every pattern that may run was timed as that very text and never found     *)
(* slow, whatever checkouts, sweeps and corrections came in which order, if    *)
(* the manifest of the build is of the texts that were swept (screen_pattern, *)
(* build_hazards).                                                          *)
(***************************************************************************)
THEOREM OnlyTimedRuns == Spec => []NoUntimedPatternRuns
<1>1. ReleaseInv => NoUntimedPatternRuns
  BY RunningIsFast DEF ReleaseInv, TableIsTrue, NoUntimedPatternRuns
<1> QED
  BY <1>1, ReleaseHolds, PTL

(***************************************************************************)
(* The dispatch of the configuration channel finds nothing that upstream's    *)
(* rule does not find, in any well-formed text and for any rules: a condition *)
(* is dropped only where that loses matches, and the port of the others to     *)
(* code points matches where they match the code units (_cfg_binding,        *)
(* port_utf16_surrogates, screen_pattern).                                   *)
(***************************************************************************)
THEOREM BindingLoses == Spec => []BindingOnlyLoses
<1>1. ReleaseInv => BindingOnlyLoses
  BY LoadedBinding DEF ReleaseInv
<1> QED
  BY <1>1, ReleaseHolds, PTL

(***************************************************************************)
(* A rule that ships fires on a well-formed text exactly when upstream's rule *)
(* does, branches report what their alternation would, and a rule is called    *)
(* reachable exactly when upstream's fires on one of its examples (_predicate, *)
(* build_bundle, Evaluator.scan_trusted).                                    *)
(***************************************************************************)
THEOREM ShippedIsFaithful == Spec => []FlatIsFaithful
<1>1. ReleaseInv => FlatIsFaithful
  BY ShippedFaithful DEF ReleaseInv
<1> QED
  BY <1>1, ReleaseHolds, PTL
=============================================================================
