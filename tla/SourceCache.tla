----------------------------- MODULE SourceCache -----------------------------
(***************************************************************************)
(* The cache of pinned source archives (sources.py): fetch and verify, run  *)
(* by processes that share nothing but the directory, and are killed, or    *)
(* failed by the network or by a read or a write of the disk, at any step,  *)
(* while a person or another program may change what is on disk.            *)
(*                                                                          *)
(* A path is the sequence of its names below the repository root, after     *)
(* _portable_path.  The content of a file is the path of the archived file  *)
(* its bytes come from.                                                     *)
(***************************************************************************)
EXTENDS Integers, Sequences, FiniteSets, SequencesExt

CONSTANTS
  Procs,
  Lock,          \* names of the locked sources, in the order of the lock
  Path,          \* paths considered
  Fold,          \* casefold, name by name
  NeverExtract,  \* NEVER_EXTRACT
  Declared,      \* DECLARED_INPUTS of the sources that have them
  License,       \* license_path of each source
  Archives,      \* what the pinned archives may hold: functions on names
  MaxCalls, MaxTouches   \* bounds of the model

Names == Range(Lock)
Member == [path : Path, kind : {"file", "dir", "link", "odd"}, target : Path]

ASSUME LockAssumption == Lock \in Seq(Names) /\ Lock # <<>>
ASSUME PathAssumption ==
  /\ Path \subseteq Seq(DOMAIN Fold) \ {<<>>}
  /\ NeverExtract \subseteq Path /\ License \in [Names -> Path]
ASSUME ArchivesAssumption == Archives \subseteq [Names -> SUBSET Member]
ASSUME DeclaredAssumption ==
  /\ DOMAIN Declared \subseteq Names
  /\ \A n \in DOMAIN Declared : Declared[n].under \subseteq Path /\ Declared[n].exact \subseteq Path

VARIABLES
  archive,       \* what each pinned archive holds
  disk,          \* the entry of each source in the cache
  stage,         \* the staged entry of each process
  leftover,      \* staged entries of processes that were killed
  pc, call, at,  \* what each process does, and the source it is at
  outcome,       \* of its last fetch
  report,        \* of its last verify
  calls,         \* calls begun
  trouble,       \* pairs <<process, source>>: the network or the disk failed its call there
  touched,       \* sources an outsider changed since its call began
  damaged        \* sources an outsider ever changed

procVars == <<stage, pc, call, at, outcome, report, trouble>>
outsideVars == <<touched, damaged>>
vars == <<archive, disk, leftover, calls, procVars, outsideVars>>

-----------------------------------------------------------------------------
(* _layout: what an archive holds, links resolved to the file they name.     *)

Folded(p) == [i \in DOMAIN p |-> Fold[p[i]]]
Ancestors(p) == {SubSeq(p, 1, i) : i \in 1 .. Len(p) - 1}

FileMembers(A) == {m \in A : m.kind \in {"file", "link"}}
Files(A) == {m.path : m \in FileMembers(A)}
Dirs(A) == {m.path : m \in A \ FileMembers(A)} \cup UNION {Ancestors(m.path) : m \in A}
SourceIn(A, p) ==
  LET m == CHOOSE m \in FileMembers(A) : m.path = p
  IN  IF m.kind = "link" THEN m.target ELSE p

Apart(S) == \A p, q \in S : Folded(p) = Folded(q) => p = q
ValidFiles(A) ==
  /\ \A m, n \in A : Folded(m.path) = Folded(n.path) => m = n
  /\ \A m \in A : m.kind # "odd"
  /\ \A m \in A : m.kind = "link" => \E f \in A : f.kind = "file" /\ f.path = m.target
  /\ Files(A) # {}
Valid(A) ==
  /\ ValidFiles(A)
  /\ {Folded(p) : p \in Files(A)} \cap {Folded(d) : d \in Dirs(A)} = {}
  /\ Apart(Files(A) \cup Dirs(A))

(* _kept: the files that belong on disk, judged by the path they are written *)
(* to and by the path their bytes come from, and their directories.          *)
Excluded(p) == \E x \in NeverExtract : IsPrefix(x, p)
Allowed(n, p) ==
  /\ ~Excluded(p)
  /\ \/ n \notin DOMAIN Declared
     \/ p \in Declared[n].exact \cup {License[n]}
     \/ \E d \in Declared[n].under : IsStrictPrefix(d, p)
KeptFilesByPath(n) == {p \in Files(archive[n]) : Allowed(n, p)}
KeptFiles(n) == {p \in Files(archive[n]) : Allowed(n, p) /\ Allowed(n, SourceIn(archive[n], p))}
KeptDirs(n) ==
  IF n \in DOMAIN Declared THEN UNION {Ancestors(p) : p \in KeptFiles(n)}
                           ELSE {d \in Dirs(archive[n]) : ~Excluded(d)}

-----------------------------------------------------------------------------
(* Entries: an archive.tar.gz beside a tree.  "other" is a path that is not a*)
(* directory, "dangling" a link to nothing.                                  *)

NoFiles == <<>>
Entry(kind, tarball, files, dirs) ==
  [kind |-> kind, tarball |-> tarball, files |-> files, dirs |-> dirs]
Bare(kind) == Entry(kind, "none", NoFiles, {})
Absent == Bare("absent")
Whole(n) ==
  Entry("entry", "pinned", [p \in KeptFiles(n) |-> SourceIn(archive[n], p)], KeptDirs(n))
Foreign == <<"?">>   \* bytes of no archived file
With(files, p, c) == [q \in DOMAIN files \cup {p} |-> IF q = p THEN c ELSE files[q]]
Without(files, p) == [q \in DOMAIN files \ {p} |-> files[q]]

Init ==
  /\ archive \in Archives
  /\ disk = [n \in Names |-> Absent]
  /\ stage = [p \in Procs |-> Absent] /\ leftover = {}
  /\ pc = [p \in Procs |-> "idle"] /\ call = [p \in Procs |-> "none"]
  /\ at = [p \in Procs |-> 1]
  /\ outcome = [p \in Procs |-> "none"]
  /\ report = [p \in Procs |-> [n \in Names |-> "none"]]
  /\ calls = 0
  /\ trouble = {} /\ touched = [p \in Procs |-> {}] /\ damaged = {}

Name(p) == Lock[at[p]]
Goes(p, from, to) == pc[p] = from /\ pc' = [pc EXCEPT ![p] = to]
Stages(p, e) == stage' = [stage EXCEPT ![p] = e]
Returns(p, o) ==
  /\ pc' = [pc EXCEPT ![p] = "done"] /\ outcome' = [outcome EXCEPT ![p] = o]
  /\ Stages(p, Absent)

-----------------------------------------------------------------------------
(* Calls. *)

Begin(p, kind, i) ==
  /\ pc[p] \in {"idle", "done"} /\ calls < MaxCalls
  /\ calls' = calls + 1
  /\ pc' = [pc EXCEPT ![p] = "look"]
  /\ call' = [call EXCEPT ![p] = kind] /\ at' = [at EXCEPT ![p] = i]
  /\ outcome' = [outcome EXCEPT ![p] = "none"]
  /\ report' = [report EXCEPT ![p] = [n \in Names |-> "none"]]
  /\ trouble' = trouble \ ({p} \X Names) /\ touched' = [touched EXCEPT ![p] = {}]
  /\ UNCHANGED <<archive, disk, stage, leftover, damaged>>
BeginFetch(p) == \E i \in 1 .. Len(Lock) : Begin(p, "fetch", i)
BeginVerify(p) == Begin(p, "verify", 1)

(* A source is done with, in a verify; a fetch has only one.                 *)
Reports(p, status) ==
  /\ report' = [report EXCEPT ![p][Name(p)] = status]
  /\ IF at[p] < Len(Lock)
       THEN at' = [at EXCEPT ![p] = @ + 1] /\ pc' = [pc EXCEPT ![p] = "look"]
       ELSE pc' = [pc EXCEPT ![p] = "done"] /\ UNCHANGED at

Look(p) ==
  /\ pc[p] = "look"
  /\ \/ /\ disk[Name(p)].kind # "absent"
        /\ Goes(p, "look", "check") /\ UNCHANGED <<report, at>>
     \/ /\ disk[Name(p)].kind = "absent" /\ call[p] = "fetch"
        /\ Goes(p, "look", "stage") /\ UNCHANGED <<report, at>>
     \/ /\ disk[Name(p)].kind = "absent" /\ call[p] = "verify"
        /\ Reports(p, "missing")
  /\ UNCHANGED <<archive, disk, leftover, calls, stage, call, outcome, trouble, outsideVars>>

-----------------------------------------------------------------------------
(* _check: the tarball, then the paths, then the bytes.                      *)

CheckEnds(p, good) ==
  IF call[p] = "fetch"
    THEN Returns(p, IF good THEN "tree" ELSE "error") /\ UNCHANGED <<report, at>>
    ELSE Reports(p, IF good THEN "verified" ELSE "invalid") /\ UNCHANGED <<outcome, stage>>

SameTarball(n) == disk[n].kind = "entry" /\ disk[n].tarball = "pinned"
SamePathsAsDeclared(n) ==
  DOMAIN disk[n].files = Files(archive[n]) /\ disk[n].dirs = Dirs(archive[n])
SamePaths(n) == DOMAIN disk[n].files = KeptFiles(n) /\ disk[n].dirs = KeptDirs(n)
SameNames(n) == KeptFiles(n) \subseteq DOMAIN disk[n].files
SameBytes(n) ==
  \A q \in KeptFiles(n) :
    q \in DOMAIN disk[n].files /\ disk[n].files[q] = SourceIn(archive[n], q)

CheckStep(p, from, holds, to) ==
  /\ pc[p] = from
  /\ IF holds
       THEN Goes(p, from, to) /\ UNCHANGED <<stage, outcome, report, at>>
       ELSE CheckEnds(p, FALSE)
  /\ UNCHANGED <<archive, disk, leftover, calls, call, trouble, outsideVars>>

CheckTarball(p) == CheckStep(p, "check", SameTarball(Name(p)) /\ Valid(archive[Name(p)]), "paths")
CheckPaths(p)   == CheckStep(p, "paths", SamePaths(Name(p)), "bytes")
CheckBytes(p) ==
  /\ pc[p] = "bytes" /\ CheckEnds(p, SameBytes(Name(p)))
  /\ UNCHANGED <<archive, disk, leftover, calls, call, trouble, outsideVars>>

-----------------------------------------------------------------------------
(* fetch, past the cache: download, digest, layout, extraction, publication. *)

StageFrame == <<archive, disk, leftover, calls, call, at, report, outsideVars>>
Raises(p) == Returns(p, "error") /\ UNCHANGED StageFrame
Troubled(p) == trouble' = trouble \cup {<<p, Name(p)>>}

MakeStage(p) ==
  /\ Goes(p, "stage", "download") /\ Stages(p, Bare("entry"))
  /\ UNCHANGED <<StageFrame, outcome, trouble>>

Download(p) ==
  /\ Goes(p, "download", "digest")
  /\ \E t \in {"pinned", "different"} : Stages(p, Entry("entry", t, NoFiles, {}))
  /\ UNCHANGED <<StageFrame, outcome, trouble>>

Digest(p) ==
  /\ pc[p] = "digest"
  /\ \/ /\ stage[p].tarball = "pinned" /\ Goes(p, "digest", "layout")
        /\ UNCHANGED <<StageFrame, stage, outcome, trouble>>
     \/ stage[p].tarball # "pinned" /\ Raises(p) /\ Troubled(p)

(* The whole archive is validated before anything of it is written.          *)
MakeTree(p) ==
  /\ pc[p] = "layout"
  /\ \/ /\ Valid(archive[Name(p)]) /\ Goes(p, "layout", "extract")
        /\ Stages(p, [stage[p] EXCEPT !.dirs = KeptDirs(Name(p))])
        /\ UNCHANGED <<StageFrame, outcome, trouble>>
     \/ ~Valid(archive[Name(p)]) /\ Raises(p) /\ UNCHANGED trouble

(* A file is created where there is nothing, in a directory that is there;   *)
(* on the strictest file system, where names differ in more than case.       *)
Room(e, q) ==
  /\ \A x \in DOMAIN e.files \cup e.dirs : Folded(x) # Folded(q)
  /\ Ancestors(q) \subseteq e.dirs
ExtractFile(p) ==
  /\ pc[p] = "extract"
  /\ \E q \in KeptFiles(Name(p)) \ DOMAIN stage[p].files :
       IF Room(stage[p], q)
         THEN /\ Stages(p, [stage[p] EXCEPT
                              !.files = With(@, q, SourceIn(archive[Name(p)], q))])
              /\ UNCHANGED <<StageFrame, pc, outcome, trouble>>
         ELSE Raises(p) /\ UNCHANGED trouble

ExtractedSome(p) == pc[p] = "extract"
Extracted(p) == pc[p] = "extract" /\ KeptFiles(Name(p)) \subseteq DOMAIN stage[p].files

(* rename gives up when there is something at the path; an empty directory   *)
(* gives way on POSIX and not on Windows.  Once the entry is in place what   *)
(* is left of the temporary directory is removed, which may fail too.        *)
Replaceable(e) == e.kind \in {"absent", "empty"}
Publish(p) ==
  /\ Extracted(p)
  /\ Replaceable(disk[Name(p)])
  /\ disk' = [disk EXCEPT ![Name(p)] = stage[p]]
  /\ \/ Returns(p, "tree") /\ UNCHANGED trouble
     \/ Returns(p, "error") /\ Troubled(p)
  /\ UNCHANGED <<archive, leftover, calls, call, at, report, outsideVars>>
LoseRename(p) ==
  /\ Extracted(p) /\ disk[Name(p)].kind # "absent"
  /\ pc' = [pc EXCEPT ![p] = "lost"]
  /\ UNCHANGED <<StageFrame, stage, outcome, trouble>>

(* The loser takes what is there, if it holds; a dangling link is not there. *)
CheckWinner(p) ==
  /\ pc[p] = "lost"
  /\ \/ /\ disk[Name(p)].kind \notin {"absent", "dangling"}
        /\ Goes(p, "lost", "check")
        /\ UNCHANGED <<StageFrame, stage, outcome, trouble>>
     \/ /\ disk[Name(p)].kind \in {"absent", "dangling"}
        /\ Raises(p) /\ UNCHANGED trouble

-----------------------------------------------------------------------------
(* What may happen to it. *)

Staging == {"stage", "download", "digest", "layout", "extract"}
Checking == {"check", "paths", "bytes"}

(* The stage is removed on the way out, unless the disk fails that as well.  *)
LeavesStage(p) == leftover' \in {leftover, leftover \cup ({stage[p]} \ {Absent})}

(* The network or the disk fails a fetch that makes an entry.                *)
FailsStaging(p) ==
  /\ pc[p] \in Staging \cup {"lost"} /\ Returns(p, "error")
  /\ Troubled(p) /\ LeavesStage(p)
  /\ UNCHANGED <<archive, disk, calls, call, at, report, outsideVars>>

(* _check takes what it cannot read for an entry that does not hold.         *)
FailsChecking(p) ==
  /\ pc[p] \in Checking /\ CheckEnds(p, FALSE)
  /\ Troubled(p) /\ LeavesStage(p)
  /\ UNCHANGED <<archive, disk, calls, call, outsideVars>>

(* The first look at the path is in no handler: a verify loses its report.   *)
FailsLooking(p) ==
  /\ pc[p] = "look" /\ Returns(p, "error") /\ Troubled(p)
  /\ report' = [report EXCEPT ![p] = [n \in Names |-> "none"]]
  /\ UNCHANGED <<archive, disk, leftover, calls, call, at, outsideVars>>

Fails(p) == FailsStaging(p) \/ FailsChecking(p) \/ FailsLooking(p)

(* A kill leaves the stage behind, under a name no call looks up.            *)
Kill(p) ==
  /\ pc[p] \notin {"idle", "done"}
  /\ pc' = [pc EXCEPT ![p] = "idle"] /\ Stages(p, Absent)
  /\ leftover' = leftover \cup ({stage[p]} \ {Absent})
  /\ UNCHANGED <<archive, disk, calls, call, at, outcome, report, trouble, outsideVars>>

Broken(e) ==
  {Absent, Bare("empty"), Bare("other"), Bare("dangling")}
    \cup {[e EXCEPT !.tarball = "different"]}
    \cup {[e EXCEPT !.dirs = @ \cup {d}] : d \in Path \ (e.dirs \cup DOMAIN e.files)}
    \cup {[e EXCEPT !.files = Without(@, q)] : q \in DOMAIN e.files}
    \cup {[e EXCEPT !.files = With(@, q, Foreign)] : q \in DOMAIN e.files}
Touch ==
  /\ \E n \in Names :
       /\ damaged' = damaged \cup {n}
       /\ \E e \in Broken(disk[n]) :
            /\ e.kind = "entry" => disk[n].kind = "entry"
            /\ disk' = [disk EXCEPT ![n] = e]
       /\ touched' = [p \in Procs |-> touched[p] \cup {n}]
  /\ Cardinality(damaged') <= MaxTouches /\ damaged' # damaged
  /\ UNCHANGED <<archive, leftover, calls, procVars>>

-----------------------------------------------------------------------------
Fetch(p) ==
  \/ MakeStage(p) \/ Download(p) \/ Digest(p) \/ MakeTree(p) \/ ExtractFile(p)
  \/ Publish(p) \/ LoseRename(p) \/ CheckWinner(p)
Check(p) == CheckTarball(p) \/ CheckPaths(p) \/ CheckBytes(p)
Process(p) == BeginFetch(p) \/ BeginVerify(p) \/ Look(p) \/ Check(p) \/ Fetch(p)
Idle == \A p \in Procs : pc[p] \in {"idle", "done"}
Rest == Idle /\ UNCHANGED vars

Next == (\E p \in Procs : Process(p) \/ Fails(p) \/ Kill(p)) \/ Touch \/ Rest

Spec == Init /\ [][Next]_vars
=============================================================================
