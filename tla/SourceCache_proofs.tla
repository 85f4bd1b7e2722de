-------------------------- MODULE SourceCache_proofs --------------------------
(***************************************************************************)
(* The cache of pinned archives keeps what SourceCacheProps says of it, for *)
(* any lock, any archives, any list of exclusions and declared inputs, and  *)
(* any number of processes and calls.                                       *)
(***************************************************************************)
EXTENDS SourceCacheProps, SequenceTheorems, TLAPS

-----------------------------------------------------------------------------
(* Types. *)

PathNames == Seq(DOMAIN Fold)
Trees == UNION {[S -> Path \cup {Foreign}] : S \in SUBSET Path}
Entries == [kind : {"absent", "empty", "other", "dangling", "entry"},
            tarball : {"none", "pinned", "different"},
            files : Trees, dirs : SUBSET PathNames]
Steps == {"idle", "look", "stage", "download", "digest", "layout", "extract",
          "lost", "check", "paths", "bytes", "done"}
TypeOK ==
  /\ archive \in Archives
  /\ disk \in [Names -> Entries] /\ stage \in [Procs -> Entries]
  /\ leftover \subseteq Entries
  /\ pc \in [Procs -> Steps] /\ call \in [Procs -> {"none", "fetch", "verify"}]
  /\ at \in [Procs -> 1 .. Len(Lock)]
  /\ outcome \in [Procs -> {"none", "tree", "error"}]
  /\ report \in [Procs -> [Names -> {"none", "missing", "invalid", "verified"}]]
  /\ trouble \subseteq Procs \X Names /\ damaged \subseteq Names
  /\ touched \in [Procs -> SUBSET Names]

-----------------------------------------------------------------------------
(* The inductive invariant. *)

(* What a tree that is being extracted, and one that is whole, hold.         *)
Begun(n, e) ==
  /\ e.kind = "entry" /\ e.tarball = "pinned" /\ e.dirs = KeptDirs(n)
  /\ DOMAIN e.files \subseteq KeptFiles(n)
  /\ \A q \in DOMAIN e.files : e.files[q] = SourceIn(archive[n], q)
Extract(n, e) == Valid(archive[n]) /\ Begun(n, e)
Finished(n, e) == Extract(n, e) /\ DOMAIN e.files = KeptFiles(n)

Stored(n) == n \in damaged \/ disk[n] = Absent \/ Finished(n, disk[n])

Downloads == {Entry("entry", t, NoFiles, {}) : t \in {"pinned", "different"}}
Staged(p) ==
  /\ pc[p] # "idle" => call[p] \in {"fetch", "verify"}
  /\ pc[p] \in Staging \cup {"lost"} => call[p] = "fetch"
  /\ pc[p] \in {"idle", "done", "look", "stage"} \/ call[p] = "verify" => stage[p] = Absent
  /\ pc[p] = "download" => stage[p] = Bare("entry")
  /\ pc[p] = "digest" => stage[p] \in Downloads
  /\ pc[p] = "layout" => stage[p] = Entry("entry", "pinned", NoFiles, {})
  /\ pc[p] = "extract" => Extract(Name(p), stage[p])
  /\ Clean(stage[p])

(* What the checks that are behind a process found still holds.              *)
Found(p) ==
  /\ pc[p] \in {"lost", "check", "paths", "bytes"} =>
       Name(p) \in damaged \/ disk[Name(p)] # Absent
  /\ pc[p] \in {"paths", "bytes"} =>
       Name(p) \in touched[p] \/ (SameTarball(Name(p)) /\ Valid(archive[Name(p)]))
  /\ pc[p] = "bytes" => Name(p) \in touched[p] \/ SamePaths(Name(p))

Pinned(n) == IsPinnedTree(n, disk[n])
Fetched(p) ==
  /\ pc[p] \notin {"idle", "done"} => outcome[p] = "none"
  /\ pc[p] = "done" =>
       /\ outcome[p] = "tree" => Name(p) \in touched[p] \/ Pinned(Name(p))
       /\ outcome[p] = "error" =>
            \/ <<p, Name(p)>> \in trouble
            \/ call[p] = "fetch" /\ (Name(p) \in damaged \/ ~Valid(archive[Name(p)]))
Reported(p) ==
  \A n \in Names :
    /\ report[p][n] = "verified" => n \in touched[p] \/ Pinned(n)
    /\ report[p][n] = "invalid" => n \in damaged \/ <<p, n>> \in trouble

ProcInv(p) == Staged(p) /\ Found(p) /\ Fetched(p) /\ Reported(p)
Shared == (\A n \in Names : Stored(n)) /\ (\A e \in leftover : Clean(e))
IInv == TypeOK /\ Shared /\ \A p \in Procs : ProcInv(p)
-----------------------------------------------------------------------------
(* Lemmas about paths. *)

(* A path is the whole of itself. *)
LEMMA WholePath ==
  ASSUME NEW S, NEW p \in Seq(S)
  PROVE  Len(p) \in Nat /\ SubSeq(p, 1, Len(p)) = p
<1>1. Len(p) \in Nat
  OBVIOUS
<1>2. SubSeq(p, 1, Len(p)) = [i \in 1 .. Len(p) |-> p[i]]
  BY <1>1
<1> QED
  BY <1>1, <1>2

(* The beginning of a path has the length that it is asked for.              *)
LEMMA Beginning ==
  ASSUME NEW S, NEW p \in Seq(S), NEW i \in 0 .. Len(p)
  PROVE  /\ SubSeq(p, 1, i) \in Seq(S) /\ Len(SubSeq(p, 1, i)) = i
         /\ \A j \in 1 .. i : SubSeq(p, 1, i)[j] = p[j]
<1>1. SubSeq(p, 1, i) = [j \in 1 .. i |-> p[j]]
  OBVIOUS
<1> QED
  BY <1>1

(* IsPrefix is to be one of the beginnings of a path.                        *)
LEMMA PrefixMeaning ==
  ASSUME NEW S, NEW x \in Seq(S), NEW p \in Seq(S)
  PROVE  IsPrefix(x, p) <=> \E i \in 0 .. Len(p) : SubSeq(p, 1, i) = x
<1>1. SubSeq(x, 1, Len(x)) = x /\ Len(x) \in Nat /\ Len(p) \in Nat
  BY WholePath
<1>2. ASSUME IsPrefix(x, p) PROVE \E i \in 0 .. Len(p) : SubSeq(p, 1, i) = x
  <2>1. Len(x) \in 0 .. Len(p)
    BY <1>1, <1>2 DEF IsPrefix
  <2>2. SubSeq(p, 1, Len(x)) = x
    BY <1>1, <1>2 DEF IsPrefix
  <2> QED
    BY <2>1, <2>2
<1>3. ASSUME NEW i \in 0 .. Len(p), SubSeq(p, 1, i) = x PROVE IsPrefix(x, p)
  <2>1. Len(x) = i
    BY <1>3, Beginning
  <2> QED
    BY <1>1, <1>3, <2>1 DEF IsPrefix
<1> QED
  BY <1>2, <1>3

(* IsStrictPrefix, for a path that is not empty, is to be an ancestor.       *)
LEMMA StrictPrefixMeaning ==
  ASSUME NEW S, NEW x \in Seq(S), NEW p \in Seq(S), x # <<>>
  PROVE  IsStrictPrefix(x, p) <=> \E i \in 1 .. Len(p) - 1 : SubSeq(p, 1, i) = x
<1>1. SubSeq(p, 1, Len(p)) = p
  BY WholePath
<1>0. Len(p) \in Nat /\ Len(x) \in Nat /\ Len(x) # 0
  OBVIOUS
<1>2. ASSUME IsStrictPrefix(x, p)
      PROVE  \E i \in 1 .. Len(p) - 1 : SubSeq(p, 1, i) = x
  <2>1. PICK i \in 0 .. Len(p) : SubSeq(p, 1, i) = x
    BY <1>2, PrefixMeaning DEF IsStrictPrefix
  <2>2. Len(x) = i /\ i # Len(p)
    BY <1>1, <1>2, <2>1, Beginning DEF IsStrictPrefix
  <2>3. i \in 1 .. Len(p) - 1
    BY <1>0, <2>2
  <2> QED
    BY <2>1, <2>3
<1>3. ASSUME NEW i \in 1 .. Len(p) - 1, SubSeq(p, 1, i) = x
      PROVE  IsStrictPrefix(x, p)
  <2>1. i \in 0 .. Len(p) /\ i # Len(p)
    BY <1>0
  <2>2. Len(x) = i
    BY <1>3, <2>1, Beginning
  <2> QED
    BY <1>3, <2>1, <2>2, PrefixMeaning DEF IsStrictPrefix
<1> QED
  BY <1>2, <1>3

(* What begins an ancestor of a path begins the path.                        *)
LEMMA AncestorPrefix ==
  ASSUME NEW S, NEW x \in Seq(S), NEW p \in Seq(S), NEW d \in Ancestors(p), IsPrefix(x, d)
  PROVE  d \in Seq(S) /\ IsPrefix(x, p)
<1>1. PICK i \in 1 .. Len(p) - 1 : d = SubSeq(p, 1, i)
  BY DEF Ancestors
<1>2. i \in 0 .. Len(p)
  BY <1>1
<1>3. d \in Seq(S) /\ Len(d) = i /\ \A j \in 1 .. i : d[j] = p[j]
  BY <1>1, <1>2, Beginning
<1>4. Len(x) \in Nat /\ Len(x) <= i
  BY <1>3 DEF IsPrefix
<1>5. SubSeq(d, 1, Len(x)) = SubSeq(p, 1, Len(x))
  BY <1>2, <1>3, <1>4
<1> QED
  BY <1>2, <1>3, <1>4, <1>5 DEF IsPrefix
-----------------------------------------------------------------------------
(* Lemmas about what an archive stands for. *)

(* Every path that is looked at is a sequence of names.                      *)
LEMMA PathsAreSequences ==
  /\ Path \subseteq PathNames /\ \A x \in Path : x # <<>>
  /\ NeverExtract \subseteq Path
  /\ \A n \in DOMAIN Declared : Declared[n].under \subseteq Path
BY PathAssumption, DeclaredAssumption DEF PathNames

(* The members of a pinned archive are members.                              *)
LEMMA MembersTyped ==
  ASSUME TypeOK, NEW n \in Names
  PROVE  /\ archive[n] \subseteq Member
         /\ \A m \in archive[n] : m.path \in Path /\ m.target \in Path /\ Origin(m) \in Path
BY ArchivesAssumption DEF TypeOK, Member, Origin

(* _kept's test is the words of the two lists, turned around.                *)
LEMMA AllowedIsWanted ==
  ASSUME NEW n \in Names, NEW p \in Path
  PROVE  Allowed(n, p) <=> ~Unwanted(n, p)
<1>1. p \in PathNames
  BY PathsAreSequences
<1>2. Excluded(p) <=> \E x \in NeverExtract : \E i \in 0 .. Len(p) : SubSeq(p, 1, i) = x
  <2>1. ASSUME NEW x \in NeverExtract
        PROVE  IsPrefix(x, p) <=> \E i \in 0 .. Len(p) : SubSeq(p, 1, i) = x
    <3>1. x \in PathNames
      BY PathsAreSequences
    <3> QED
      BY <1>1, <3>1, PrefixMeaning DEF PathNames
  <2> QED
    BY <2>1 DEF Excluded
<1>3. ASSUME n \in DOMAIN Declared
      PROVE  (\E d \in Declared[n].under : IsStrictPrefix(d, p))
               <=> \E i \in 1 .. Len(p) - 1 : SubSeq(p, 1, i) \in Declared[n].under
  <2>1. ASSUME NEW d \in Declared[n].under
        PROVE  IsStrictPrefix(d, p) <=> \E i \in 1 .. Len(p) - 1 : SubSeq(p, 1, i) = d
    <3>1. d \in PathNames /\ d # <<>>
      BY <1>3, PathsAreSequences
    <3> QED
      BY <1>1, <3>1, StrictPrefixMeaning DEF PathNames
  <2> QED
    BY <2>1
<1> QED
  BY <1>2, <1>3 DEF Allowed, Unwanted

(* In an archive that has each path once, the bytes of a member come from    *)
(* the member itself, or from the file it links to.                          *)
LEMMA SourceIsOrigin ==
  ASSUME NEW A \in SUBSET Member, ValidFiles(A), NEW m \in FileMembers(A)
  PROVE  SourceIn(A, m.path) = Origin(m)
<1>1. \A k \in FileMembers(A) : k.path = m.path => k = m
  <2> SUFFICES ASSUME NEW k \in FileMembers(A), k.path = m.path PROVE k = m
    OBVIOUS
  <2>1. k \in A /\ m \in A
    BY DEF FileMembers
  <2>2. Folded(k.path) = Folded(m.path)
    OBVIOUS
  <2> QED
    BY <2>1, <2>2 DEF ValidFiles
<1>2. (CHOOSE k \in FileMembers(A) : k.path = m.path) = m
  BY <1>1
<1> QED
  BY <1>2 DEF SourceIn, Origin

(* What is kept of an archive is what is wanted of it.                       *)
LEMMA KeptIsWanted ==
  ASSUME TypeOK, NEW n \in Names, Valid(archive[n])
  PROVE  /\ KeptFiles(n) = {m.path : m \in Wanted(n)}
         /\ \A m \in Wanted(n) : SourceIn(archive[n], m.path) = Origin(m)
<1> DEFINE A == archive[n]
<1>1. A \in SUBSET Member /\ ValidFiles(A)
  BY MembersTyped DEF Valid
<1>2. ASSUME NEW m \in FileMembers(A)
      PROVE  /\ SourceIn(A, m.path) = Origin(m)
             /\ m \in Wanted(n) <=> Allowed(n, m.path) /\ Allowed(n, SourceIn(A, m.path))
  <2>1. SourceIn(A, m.path) = Origin(m)
    BY <1>1, <1>2, SourceIsOrigin
  <2>2. m \in A /\ m.kind \in {"file", "link"}
    BY DEF FileMembers
  <2>3. m.path \in Path /\ Origin(m) \in Path
    BY <2>2, MembersTyped
  <2>4. /\ Allowed(n, m.path) <=> ~Unwanted(n, m.path)
        /\ Allowed(n, Origin(m)) <=> ~Unwanted(n, Origin(m))
    BY <2>3, AllowedIsWanted
  <2> QED
    BY <2>1, <2>2, <2>4 DEF Wanted
<1>3. Wanted(n) \subseteq FileMembers(A)
  BY DEF Wanted, FileMembers
<1>4. KeptFiles(n) = {m.path : m \in Wanted(n)}
  <2>1. Files(A) = {m.path : m \in FileMembers(A)}
    BY DEF Files
  <2> QED
    BY <1>2, <1>3, <2>1 DEF KeptFiles
<1> QED
  BY <1>2, <1>3, <1>4

(* An entry with the pinned tarball, the paths that are kept and the bytes   *)
(* they come with is the pinned tree.                                        *)
LEMMA SameIsPinned ==
  ASSUME TypeOK, NEW n \in Names, NEW e, Valid(archive[n]),
         e.kind = "entry", e.tarball = "pinned", DOMAIN e.files = KeptFiles(n),
         \A q \in KeptFiles(n) : e.files[q] = SourceIn(archive[n], q)
  PROVE  IsPinnedTree(n, e)
BY KeptIsWanted DEF IsPinnedTree

(* An extraction that is finished has made the pinned tree.                  *)
LEMMA FinishedIsPinned ==
  ASSUME TypeOK, NEW n \in Names, NEW e, Finished(n, e)
  PROVE  IsPinnedTree(n, e)
BY SameIsPinned DEF Finished, Extract, Begun

(* The kept files are files of the archive, under paths that are allowed.    *)
LEMMA KeptTyped ==
  ASSUME TypeOK, NEW n \in Names, NEW q \in KeptFiles(n)
  PROVE  /\ q \in Path /\ q \in PathNames
         /\ q \in Files(archive[n])
         /\ ~Excluded(q) /\ ~Excluded(SourceIn(archive[n], q))
         /\ SourceIn(archive[n], q) \in Path
<1>1. q \in Files(archive[n]) /\ Allowed(n, q) /\ Allowed(n, SourceIn(archive[n], q))
  BY DEF KeptFiles
<1>2. \E m \in FileMembers(archive[n]) : m.path = q
  BY <1>1 DEF Files
<1>3. \A m \in FileMembers(archive[n]) : m.path \in Path /\ m.target \in Path
  BY MembersTyped DEF FileMembers
<1>4. SourceIn(archive[n], q) \in Path /\ q \in Path
  <2> DEFINE m == CHOOSE m \in FileMembers(archive[n]) : m.path = q
  <2>1. m \in FileMembers(archive[n]) /\ m.path = q
    BY <1>2
  <2>2. SourceIn(archive[n], q) = IF m.kind = "link" THEN m.target ELSE q
    BY DEF SourceIn
  <2> QED
    BY <1>3, <2>1, <2>2
<1>5. q \in PathNames
  BY <1>4, PathsAreSequences
<1> QED
  BY <1>1, <1>4, <1>5 DEF Allowed

(* The ancestors of a path are paths, and what is excluded of them excludes  *)
(* the path.                                                                 *)
LEMMA AncestorsTyped ==
  ASSUME NEW p \in PathNames, NEW d \in Ancestors(p)
  PROVE  d \in PathNames /\ (Excluded(d) => Excluded(p))
<1>1. d \in PathNames
  BY Beginning DEF Ancestors, PathNames
<1>2. ASSUME NEW x \in NeverExtract, IsPrefix(x, d) PROVE IsPrefix(x, p)
  <2>1. x \in PathNames
    BY PathsAreSequences
  <2> QED
    BY <1>2, <2>1, AncestorPrefix DEF PathNames
<1> QED
  BY <1>1, <1>2 DEF Excluded

(* The directories that are made are directories of the archive, none of     *)
(* them is excluded, and they hold the ancestors of every file that is kept. *)
LEMMA KeptDirsTyped ==
  ASSUME TypeOK, NEW n \in Names
  PROVE  /\ KeptDirs(n) \subseteq Dirs(archive[n]) /\ KeptDirs(n) \subseteq PathNames
         /\ \A d \in KeptDirs(n) : ~Excluded(d)
         /\ \A q \in KeptFiles(n) : Ancestors(q) \subseteq KeptDirs(n)
<1> DEFINE A == archive[n]
<1>1. ASSUME NEW q \in KeptFiles(n), NEW d \in Ancestors(q)
      PROVE  d \in Dirs(A) /\ d \in PathNames /\ ~Excluded(d)
  <2>1. q \in PathNames /\ ~Excluded(q) /\ q \in Files(A)
    BY <1>1, KeptTyped
  <2>2. \E m \in A : m.path = q
    BY <2>1 DEF Files, FileMembers
  <2>3. d \in Dirs(A)
    BY <1>1, <2>2 DEF Dirs
  <2> QED
    BY <1>1, <2>1, <2>3, AncestorsTyped
<1>2. Dirs(A) \subseteq PathNames
  <2>1. \A m \in A : m.path \in PathNames
    BY MembersTyped, PathsAreSequences
  <2>2. \A m \in A : Ancestors(m.path) \subseteq PathNames
    BY <2>1, AncestorsTyped
  <2> QED
    BY <2>1, <2>2 DEF Dirs
<1>3. CASE n \in DOMAIN Declared
  <2>1. KeptDirs(n) = UNION {Ancestors(p) : p \in KeptFiles(n)}
    BY <1>3 DEF KeptDirs
  <2> QED
    BY <1>1, <2>1
<1>4. CASE n \notin DOMAIN Declared
  <2>1. KeptDirs(n) = {d \in Dirs(A) : ~Excluded(d)}
    BY <1>4 DEF KeptDirs
  <2> QED
    BY <1>1, <1>2, <2>1
<1> QED
  BY <1>3, <1>4

(* There is always room for a file of an archive that was found valid.       *)
LEMMA RoomForKept ==
  ASSUME TypeOK, NEW n \in Names, NEW e, Extract(n, e),
         NEW q \in KeptFiles(n), q \notin DOMAIN e.files
  PROVE  Room(e, q)
<1> DEFINE A == archive[n]
<1>1. /\ \A x, y \in Files(A) \cup Dirs(A) : Folded(x) = Folded(y) => x = y
      /\ {Folded(x) : x \in Files(A)} \cap {Folded(d) : d \in Dirs(A)} = {}
  BY DEF Extract, Valid, Apart
<1>2. q \in Files(A) /\ DOMAIN e.files \subseteq Files(A) /\ e.dirs \subseteq Dirs(A)
  BY KeptTyped, KeptDirsTyped DEF Extract, Begun
<1>3. \A x \in DOMAIN e.files : Folded(x) # Folded(q)
  BY <1>1, <1>2
<1>4. \A x \in e.dirs : Folded(x) # Folded(q)
  BY <1>1, <1>2
<1>5. Ancestors(q) \subseteq e.dirs
  BY KeptDirsTyped DEF Extract, Begun
<1> QED
  BY <1>3, <1>4, <1>5 DEF Room

(* Nothing that is excluded is in an extraction, from its first file on.     *)
LEMMA BegunIsClean ==
  ASSUME TypeOK, NEW n \in Names, NEW e, Begun(n, e)
  PROVE  Clean(e)
<1>1. \A q \in DOMAIN e.files : ~Excluded(q) /\ ~Excluded(e.files[q])
  BY KeptTyped DEF Begun
<1>2. \A d \in e.dirs : ~Excluded(d)
  BY KeptDirsTyped DEF Begun
<1> QED
  BY <1>1, <1>2 DEF Clean, Excluded

(* An entry without files or directories is clean.                           *)
LEMMA BareIsClean ==
  ASSUME NEW k, NEW t
  PROVE  Clean(Entry(k, t, NoFiles, {})) /\ DOMAIN NoFiles = {}
<1>1. DOMAIN NoFiles = {}
  BY DEF NoFiles
<1> QED
  BY <1>1 DEF Clean, Entry

-----------------------------------------------------------------------------
(* Entries keep their type. *)

(* What may be in the tree of an entry.                                      *)
LEMMA TreesTyped ==
  ASSUME NEW f \in Trees
  PROVE  /\ DOMAIN f \subseteq Path /\ f = [q \in DOMAIN f |-> f[q]]
         /\ \A q \in DOMAIN f : f[q] \in Path \cup {Foreign}
BY DEF Trees

(* And the converse.                                                         *)
LEMMA IsATree ==
  ASSUME NEW S \in SUBSET Path, NEW g \in [S -> Path \cup {Foreign}]
  PROVE  g \in Trees
BY DEF Trees

(* A file more, or a file less, leaves a tree.                               *)
LEMMA WithTyped ==
  ASSUME NEW f \in Trees, NEW q \in Path, NEW c \in Path \cup {Foreign}
  PROVE  /\ With(f, q, c) \in Trees
         /\ DOMAIN With(f, q, c) = DOMAIN f \cup {q}
         /\ With(f, q, c)[q] = c
         /\ \A x \in DOMAIN f \ {q} : With(f, q, c)[x] = f[x]
<1>1. DOMAIN f \subseteq Path /\ \A x \in DOMAIN f : f[x] \in Path \cup {Foreign}
  BY TreesTyped
<1>2. With(f, q, c) \in [DOMAIN f \cup {q} -> Path \cup {Foreign}]
  BY <1>1 DEF With
<1>3. With(f, q, c) \in Trees
  BY <1>1, <1>2, IsATree
<1> QED
  BY <1>3 DEF With

(* As for WithTyped.                                                         *)
LEMMA WithoutTyped ==
  ASSUME NEW f \in Trees, NEW q
  PROVE  Without(f, q) \in Trees
<1>1. DOMAIN f \subseteq Path /\ \A x \in DOMAIN f : f[x] \in Path \cup {Foreign}
  BY TreesTyped
<1>2. Without(f, q) \in [DOMAIN f \ {q} -> Path \cup {Foreign}]
  BY <1>1 DEF Without
<1> QED
  BY <1>1, <1>2, IsATree

(* The empty tree is a tree.                                                 *)
LEMMA BareTyped ==
  ASSUME NEW k \in {"absent", "empty", "other", "dangling", "entry"},
         NEW t \in {"none", "pinned", "different"}
  PROVE  Entry(k, t, NoFiles, {}) \in Entries
<1>1. NoFiles \in [{} -> Path \cup {Foreign}]
  BY DEF NoFiles
<1>2. NoFiles \in Trees
  BY <1>1, IsATree
<1> QED
  BY <1>2 DEF Entry, Entries

(* An outsider leaves an entry of the same type.                             *)
LEMMA BrokenTyped ==
  ASSUME NEW e \in Entries
  PROVE  Broken(e) \subseteq Entries
<1>1. {Absent, Bare("empty"), Bare("other"), Bare("dangling")} \subseteq Entries
  BY BareTyped DEF Absent, Bare
<1>2. e.files \in Trees /\ e.dirs \subseteq PathNames /\ DOMAIN e.files \subseteq Path
  BY TreesTyped DEF Entries
<1>3. [e EXCEPT !.tarball = "different"] \in Entries
  BY DEF Entries
<1>4. ASSUME NEW d \in Path PROVE [e EXCEPT !.dirs = @ \cup {d}] \in Entries
  <2>1. e.dirs \cup {d} \in SUBSET PathNames
    BY <1>2, PathsAreSequences
  <2> QED
    BY <2>1 DEF Entries
<1>5. ASSUME NEW q \in DOMAIN e.files
      PROVE  /\ [e EXCEPT !.files = Without(@, q)] \in Entries
             /\ [e EXCEPT !.files = With(@, q, Foreign)] \in Entries
  <2>1. Without(e.files, q) \in Trees /\ With(e.files, q, Foreign) \in Trees
    BY <1>2, WithTyped, WithoutTyped
  <2> QED
    BY <2>1 DEF Entries
<1> QED
  BY <1>1, <1>3, <1>4,
     <1>5 DEF Broken

-----------------------------------------------------------------------------
(* Types are kept. *)

(* The source a process is at is a source of the lock.                       *)
LEMMA NameTyped ==
  ASSUME NEW i \in 1 .. Len(Lock)
  PROVE  Lock[i] \in Names
BY LockAssumption

(* The ways a call moves on keep the types of what they change.              *)
LEMMA MovesTyped ==
  ASSUME TypeOK, NEW p \in Procs
  PROVE  /\ \A a \in Steps, b \in Steps : Goes(p, a, b) => pc' \in [Procs -> Steps]
         /\ \A e \in Entries : Stages(p, e) => stage' \in [Procs -> Entries]
         /\ \A o \in {"none", "tree", "error"} : Returns(p, o) =>
              /\ pc' \in [Procs -> Steps] /\ stage' \in [Procs -> Entries]
              /\ outcome' \in [Procs -> {"none", "tree", "error"}]
         /\ \A s \in {"none", "missing", "invalid", "verified"} : Reports(p, s) =>
              /\ pc' \in [Procs -> Steps] /\ at' \in [Procs -> 1 .. Len(Lock)]
              /\ report' \in [Procs -> [Names -> {"none", "missing", "invalid", "verified"}]]
<1>1. Absent \in Entries
  BY BareTyped DEF Absent, Bare
<1>2. \A e \in Entries : Stages(p, e) => stage' \in [Procs -> Entries]
  BY DEF TypeOK, Stages
<1>3. \A a \in Steps, b \in Steps : Goes(p, a, b) => pc' \in [Procs -> Steps]
  BY DEF TypeOK, Goes
<1>4. ASSUME NEW o \in {"none", "tree", "error"}, Returns(p, o)
      PROVE  /\ pc' \in [Procs -> Steps] /\ stage' \in [Procs -> Entries]
             /\ outcome' \in [Procs -> {"none", "tree", "error"}]
  <2>1. pc' \in [Procs -> Steps]
    BY <1>4 DEF TypeOK, Returns, Steps
  <2>2. stage' \in [Procs -> Entries]
    BY <1>1, <1>2, <1>4 DEF Returns
  <2> QED
    BY <1>4, <2>1, <2>2 DEF TypeOK, Returns
<1>5. ASSUME NEW s \in {"none", "missing", "invalid", "verified"}, Reports(p, s)
      PROVE  /\ pc' \in [Procs -> Steps] /\ at' \in [Procs -> 1 .. Len(Lock)]
             /\ report' \in [Procs -> [Names -> {"none", "missing", "invalid", "verified"}]]
  <2>1. pc' \in [Procs -> Steps]
    BY <1>5 DEF TypeOK, Reports, Steps
  <2>2. at' \in [Procs -> 1 .. Len(Lock)]
    <3>1. Len(Lock) \in Nat /\ at[p] \in 1 .. Len(Lock)
      BY LockAssumption DEF TypeOK
    <3>2. at[p] < Len(Lock) => at[p] + 1 \in 1 .. Len(Lock)
      BY <3>1
    <3>3. at \in [Procs -> 1 .. Len(Lock)]
      BY DEF TypeOK
    <3>4. at' = at \/ (at[p] < Len(Lock) /\ at' = [at EXCEPT ![p] = at[p] + 1])
      BY <1>5 DEF Reports
    <3> QED
      BY <3>2, <3>3, <3>4
  <2>3. report' \in [Procs -> [Names -> {"none", "missing", "invalid", "verified"}]]
    BY <1>5 DEF TypeOK, Reports
  <2> QED
    BY <2>1, <2>2, <2>3
<1> QED
  BY <1>2, <1>3, <1>4, <1>5

(* A process that checks, or that moves on from a check.                     *)
LEMMA CheckTypes ==
  ASSUME TypeOK, NEW p \in Procs, Look(p) \/ Check(p)
  PROVE  TypeOK'
<1>1. CASE Look(p)
  <2>1. /\ pc' \in [Procs -> Steps] /\ at' \in [Procs -> 1 .. Len(Lock)]
        /\ report' \in [Procs -> [Names -> {"none", "missing", "invalid", "verified"}]]
    <3>1. "look" \in Steps /\ "check" \in Steps /\ "stage" \in Steps
      BY DEF Steps
    <3> QED
      BY <1>1, <3>1, MovesTyped DEF Look, TypeOK
  <2> QED
    BY <1>1, <2>1 DEF Look, TypeOK, outsideVars
<1>2. ASSUME NEW g \in BOOLEAN, CheckEnds(p, g)
      PROVE  /\ pc' \in [Procs -> Steps] /\ at' \in [Procs -> 1 .. Len(Lock)]
             /\ stage' \in [Procs -> Entries]
             /\ outcome' \in [Procs -> {"none", "tree", "error"}]
             /\ report' \in [Procs -> [Names -> {"none", "missing", "invalid", "verified"}]]
  <2>1. (IF g THEN "tree" ELSE "error") \in {"none", "tree", "error"}
    OBVIOUS
  <2>2. (IF g THEN "verified" ELSE "invalid") \in {"none", "missing", "invalid", "verified"}
    OBVIOUS
  <2>3. CASE call[p] = "fetch"
    BY <1>2, <2>1, <2>3, MovesTyped DEF CheckEnds, TypeOK
  <2>4. CASE call[p] # "fetch"
    BY <1>2, <2>2, <2>4, MovesTyped DEF CheckEnds, TypeOK
  <2> QED
    BY <2>3, <2>4
<1>3. ASSUME NEW a \in Steps, NEW b \in Steps, NEW h, CheckStep(p, a, h, b) PROVE TypeOK'
  <2>1. /\ pc' \in [Procs -> Steps] /\ at' \in [Procs -> 1 .. Len(Lock)]
        /\ stage' \in [Procs -> Entries]
        /\ outcome' \in [Procs -> {"none", "tree", "error"}]
        /\ report' \in [Procs -> [Names -> {"none", "missing", "invalid", "verified"}]]
    <3>1. CASE h
      BY <1>3, <3>1, MovesTyped DEF CheckStep, TypeOK
    <3>2. CASE ~h
      BY <1>2, <1>3, <3>2 DEF CheckStep
    <3> QED
      BY <3>1, <3>2
  <2> QED
    BY <1>3, <2>1 DEF CheckStep, TypeOK, outsideVars
<1>4. "check" \in Steps /\ "paths" \in Steps /\ "bytes" \in Steps
  BY DEF Steps
<1>5. CASE CheckTarball(p)
  BY <1>3, <1>4, <1>5 DEF CheckTarball
<1>6. CASE CheckPaths(p)
  BY <1>3, <1>4, <1>6 DEF CheckPaths
<1>7. CASE CheckBytes(p)
  <2>1. SameBytes(Name(p)) \in BOOLEAN
    BY DEF SameBytes
  <2>2. CheckEnds(p, SameBytes(Name(p)))
    BY <1>7 DEF CheckBytes
  <2>3. /\ pc' \in [Procs -> Steps] /\ at' \in [Procs -> 1 .. Len(Lock)]
        /\ stage' \in [Procs -> Entries]
        /\ outcome' \in [Procs -> {"none", "tree", "error"}]
        /\ report' \in [Procs -> [Names -> {"none", "missing", "invalid", "verified"}]]
    BY <1>2, <2>1, <2>2
  <2> QED
    BY <1>7, <2>3 DEF CheckBytes, TypeOK, outsideVars
<1> QED
  BY <1>1, <1>5, <1>6, <1>7 DEF Check

(* A process that extracts an archive and publishes it.                      *)
LEMMA FetchTypes ==
  ASSUME TypeOK, NEW p \in Procs, Fetch(p)
  PROVE  TypeOK'
<1>1. Steps = {"idle", "look", "stage", "download", "digest", "layout", "extract",
               "lost", "check", "paths", "bytes", "done"}
  BY DEF Steps
<1>2. at[p] \in 1 .. Len(Lock) /\ Name(p) \in Names /\ stage[p] \in Entries
  BY NameTyped DEF TypeOK, Name
<1>3. /\ disk' \in [Names -> Entries] /\ stage' \in [Procs -> Entries]
      /\ pc' \in [Procs -> Steps] /\ outcome' \in [Procs -> {"none", "tree", "error"}]
      /\ trouble' \subseteq Procs \X Names
      /\ UNCHANGED <<archive, leftover, calls, call, at, report, touched, damaged>>
  <2>0. /\ Raises(p) => /\ stage' \in [Procs -> Entries] /\ pc' \in [Procs -> Steps]
                        /\ outcome' \in [Procs -> {"none", "tree", "error"}]
                        /\ UNCHANGED StageFrame
        /\ UNCHANGED StageFrame =>
             /\ disk' \in [Names -> Entries]
             /\ UNCHANGED <<archive, leftover, calls, call, at, report, touched, damaged>>
        /\ Troubled(p) => trouble' \subseteq Procs \X Names
    BY <1>2, MovesTyped DEF Raises, StageFrame, TypeOK, outsideVars, Troubled
  <2>1. CASE MakeStage(p)
    <3>1. Bare("entry") \in Entries
      BY BareTyped DEF Bare
    <3> QED
      BY <1>1, <2>0, <2>1, <3>1, MovesTyped DEF MakeStage, TypeOK
  <2>2. CASE Download(p)
    <3>1. \A t \in {"pinned", "different"} : Entry("entry", t, NoFiles, {}) \in Entries
      BY BareTyped
    <3> QED
      BY <1>1, <2>0, <2>2, <3>1, MovesTyped DEF Download, TypeOK
  <2>3. CASE Digest(p)
    BY <1>1, <2>0, <2>3, MovesTyped DEF Digest, TypeOK
  <2>4. CASE MakeTree(p)
    <3>1. [stage[p] EXCEPT !.dirs = KeptDirs(Name(p))] \in Entries
      <4>1. KeptDirs(Name(p)) \in SUBSET PathNames
        BY <1>2, KeptDirsTyped
      <4> QED
        BY <1>2, <4>1 DEF Entries
    <3> QED
      BY <1>1, <2>0, <2>4, <3>1, MovesTyped DEF MakeTree, TypeOK
  <2>5. CASE ExtractFile(p)
    <3>1. PICK q \in KeptFiles(Name(p)) \ DOMAIN stage[p].files :
            IF Room(stage[p], q)
              THEN /\ Stages(p, [stage[p] EXCEPT
                                   !.files = With(@, q, SourceIn(archive[Name(p)], q))])
                   /\ UNCHANGED <<StageFrame, pc, outcome, trouble>>
              ELSE Raises(p) /\ UNCHANGED trouble
      BY <2>5 DEF ExtractFile
    <3>2. [stage[p] EXCEPT !.files = With(@, q, SourceIn(archive[Name(p)], q))] \in Entries
      <4>1. stage[p].files \in Trees
        BY <1>2 DEF Entries
      <4>2. With(stage[p].files, q, SourceIn(archive[Name(p)], q)) \in Trees
        BY <1>2, <4>1, KeptTyped, WithTyped
      <4> QED
        BY <1>2, <4>2 DEF Entries
    <3>3. CASE Room(stage[p], q)
      BY <2>0, <3>1, <3>2, <3>3, MovesTyped DEF TypeOK
    <3>4. CASE ~Room(stage[p], q)
      BY <2>0, <3>1, <3>4 DEF TypeOK
    <3> QED
      BY <3>3, <3>4
  <2>6. CASE Publish(p)
    <3>1. disk' \in [Names -> Entries]
      BY <1>2, <2>6 DEF Publish, TypeOK
    <3> QED
      BY <2>0, <2>6, <3>1, MovesTyped DEF Publish, TypeOK, outsideVars
  <2>7. CASE LoseRename(p)
    <3>1. pc' \in [Procs -> Steps]
      BY <1>1, <2>7 DEF LoseRename, TypeOK
    <3> QED
      BY <2>0, <2>7, <3>1 DEF LoseRename, TypeOK
  <2>8. CASE CheckWinner(p)
    BY <1>1, <2>0, <2>8, MovesTyped DEF CheckWinner, TypeOK
  <2> QED
    BY <2>1, <2>2, <2>3, <2>4, <2>5, <2>6, <2>7, <2>8 DEF Fetch
<1> QED
  BY <1>3 DEF TypeOK

(* A process that the network or the disk fails.                             *)
LEMMA FailsTypes ==
  ASSUME TypeOK, NEW p \in Procs, Fails(p)
  PROVE  TypeOK'
<1>1. at[p] \in 1 .. Len(Lock) /\ Name(p) \in Names /\ stage[p] \in Entries
  BY NameTyped DEF TypeOK, Name
<1>2. Troubled(p) => trouble' \subseteq Procs \X Names
  BY <1>1 DEF Troubled, TypeOK
<1>3. LeavesStage(p) => leftover' \subseteq Entries
  BY <1>1 DEF LeavesStage, TypeOK
<1>4. CASE FailsStaging(p)
  BY <1>2, <1>3, <1>4, MovesTyped DEF FailsStaging, TypeOK, outsideVars
<1>5. CASE FailsChecking(p)
  <2>1. \/ Returns(p, "error") /\ UNCHANGED <<report, at>>
        \/ Reports(p, "invalid") /\ UNCHANGED <<outcome, stage>>
    BY <1>5 DEF FailsChecking, CheckEnds
  <2>2. /\ pc' \in [Procs -> Steps] /\ at' \in [Procs -> 1 .. Len(Lock)]
        /\ stage' \in [Procs -> Entries]
        /\ outcome' \in [Procs -> {"none", "tree", "error"}]
        /\ report' \in [Procs -> [Names -> {"none", "missing", "invalid", "verified"}]]
    BY <2>1, MovesTyped DEF TypeOK
  <2> QED
    BY <1>2, <1>3, <1>5, <2>2 DEF FailsChecking, TypeOK, outsideVars
<1>6. CASE FailsLooking(p)
  <2>1. report' \in [Procs -> [Names -> {"none", "missing", "invalid", "verified"}]]
    BY <1>6 DEF FailsLooking, TypeOK
  <2> QED
    BY <1>2, <1>6, <2>1, MovesTyped DEF FailsLooking, TypeOK, outsideVars
<1> QED
  BY <1>4, <1>5, <1>6 DEF Fails

(* Every step keeps the types.                                               *)
LEMMA StepTypes ==
  ASSUME TypeOK, [Next]_vars
  PROVE  TypeOK'
<1>1. ASSUME NEW p \in Procs, NEW k \in {"fetch", "verify"}, NEW i \in 1 .. Len(Lock),
             Begin(p, k, i)
      PROVE  TypeOK'
  <2>1. pc' \in [Procs -> Steps] /\ call' \in [Procs -> {"none", "fetch", "verify"}]
    BY <1>1 DEF Begin, TypeOK, Steps
  <2>2. at' \in [Procs -> 1 .. Len(Lock)] /\ outcome' \in [Procs -> {"none", "tree", "error"}]
    BY <1>1 DEF Begin, TypeOK
  <2>3. report' \in [Procs -> [Names -> {"none", "missing", "invalid", "verified"}]]
    BY <1>1 DEF Begin, TypeOK
  <2>4. trouble' \subseteq Procs \X Names /\ touched' \in [Procs -> SUBSET Names]
    BY <1>1 DEF Begin, TypeOK
  <2> QED
    BY <1>1, <2>1, <2>2, <2>3, <2>4 DEF Begin, TypeOK
<1>2. ASSUME NEW p \in Procs, BeginFetch(p) \/ BeginVerify(p) PROVE TypeOK'
  <2>1. 1 \in 1 .. Len(Lock)
    BY LockAssumption
  <2> QED
    BY <1>1, <1>2, <2>1 DEF BeginFetch, BeginVerify
<1>3. ASSUME NEW p \in Procs, Fails(p) PROVE TypeOK'
  BY <1>3, FailsTypes
<1>4. ASSUME NEW p \in Procs, Kill(p) PROVE TypeOK'
  <2>1. Absent \in Entries /\ "idle" \in Steps
    BY BareTyped DEF Absent, Bare, Steps
  <2>2. stage' \in [Procs -> Entries] /\ pc' \in [Procs -> Steps]
    BY <1>4, <2>1, MovesTyped DEF Kill, TypeOK
  <2>3. leftover' \subseteq Entries
    BY <1>4 DEF Kill, TypeOK
  <2> QED
    BY <1>4, <2>2, <2>3 DEF Kill, TypeOK, outsideVars
<1>5. CASE Touch
  <2>1. PICK n \in Names :
          /\ damaged' = damaged \cup {n}
          /\ \E e \in Broken(disk[n]) :
               /\ e.kind = "entry" => disk[n].kind = "entry"
               /\ disk' = [disk EXCEPT ![n] = e]
          /\ touched' = [p \in Procs |-> touched[p] \cup {n}]
    BY <1>5 DEF Touch
  <2>2. disk' \in [Names -> Entries]
    BY <2>1, BrokenTyped DEF TypeOK
  <2>3. damaged' \subseteq Names /\ touched' \in [Procs -> SUBSET Names]
    BY <2>1 DEF TypeOK
  <2> QED
    BY <1>5, <2>2, <2>3 DEF Touch, TypeOK, procVars
<1>6. CASE UNCHANGED vars
  BY <1>6 DEF vars, procVars, outsideVars, TypeOK
<1> QED
  BY <1>2, <1>3, <1>4, <1>5, <1>6, CheckTypes, FetchTypes DEF Next, Process, Rest

-----------------------------------------------------------------------------
(* The invariant is kept. *)

(* What an archive stands for does not change, for no archive does.          *)
LEMMA ArchiveKept ==
  ASSUME archive' = archive
  PROVE  \A n : /\ KeptFiles(n)' = KeptFiles(n) /\ KeptDirs(n)' = KeptDirs(n)
                /\ \A e : /\ Begun(n, e)' <=> Begun(n, e)
                          /\ Extract(n, e)' <=> Extract(n, e)
                          /\ Finished(n, e)' <=> Finished(n, e)
                          /\ IsPinnedTree(n, e)' <=> IsPinnedTree(n, e)
<1>1. \A n : KeptFiles(n)' = KeptFiles(n) /\ KeptDirs(n)' = KeptDirs(n)
  BY DEF KeptFiles, KeptDirs
<1>2. \A n, e : (Begun(n, e)' <=> Begun(n, e)) /\ (Extract(n, e)' <=> Extract(n, e))
  BY <1>1 DEF Begun, Extract
<1>3. \A n, e : Finished(n, e)' <=> Finished(n, e)
  BY <1>1, <1>2 DEF Finished
<1>4. \A n, e : IsPinnedTree(n, e)' <=> IsPinnedTree(n, e)
  BY DEF IsPinnedTree, Wanted
<1> QED
  BY <1>1, <1>2, <1>3, <1>4

(* What may become of an entry, for a process in whose call the sources of S *)
(* are changed from outside: only what is absent or empty is published over. *)
Moves(n, S) ==
  \/ disk'[n] = disk[n]
  \/ n \in S /\ n \in damaged'
  \/ Replaceable(disk[n]) /\ disk'[n] # Absent
(* What was found of an entry is still so, if nobody changed it.             *)
LEMMA FoundKept ==
  ASSUME archive' = archive, NEW n, NEW S, Moves(n, S)
  PROVE  n \in S \/ /\ SameTarball(n) => SameTarball(n)'
                    /\ SameTarball(n) /\ SamePaths(n) => SamePaths(n)'
                    /\ Pinned(n) => Pinned(n)'
<1>1. SUFFICES ASSUME n \notin S
      PROVE  /\ SameTarball(n) => SameTarball(n)'
             /\ SameTarball(n) /\ SamePaths(n) => SamePaths(n)'
             /\ Pinned(n) => Pinned(n)'
  OBVIOUS
<1>2. disk[n].kind = "entry" => disk'[n] = disk[n]
  BY <1>1 DEF Moves, Replaceable
<1>3. SameTarball(n) => disk[n].kind = "entry"
  BY DEF SameTarball
<1>4. Pinned(n) => disk[n].kind = "entry"
  BY DEF Pinned, IsPinnedTree
<1>5. SameTarball(n) => SameTarball(n)'
  BY <1>2, <1>3 DEF SameTarball
<1>6. SameTarball(n) /\ SamePaths(n) => SamePaths(n)'
  BY <1>2, <1>3, ArchiveKept DEF SamePaths
<1>7. Pinned(n) => Pinned(n)'
  <2>1. disk'[n] = disk[n] => (Pinned(n)' <=> Pinned(n))
    BY DEF Pinned, IsPinnedTree, Wanted
  <2> QED
    BY <1>2, <1>4, <2>1
<1> QED
  BY <1>5, <1>6, <1>7

(* A process keeps its invariant while it is others that move.               *)
LEMMA AlikeKeeps ==
  ASSUME TypeOK, NEW q \in Procs, ProcInv(q), archive' = archive,
         pc'[q] = pc[q], stage'[q] = stage[q], call'[q] = call[q], at'[q] = at[q],
         outcome'[q] = outcome[q], report'[q] = report[q],
         \A n \in Names : <<q, n>> \in trouble => <<q, n>> \in trouble',
         touched[q] \subseteq touched'[q], damaged \subseteq damaged',
         \A n \in Names : Moves(n, touched'[q])
  PROVE  ProcInv(q)'
<1>1. Name(q)' = Name(q) /\ Name(q) \in Names
  BY NameTyped DEF Name, TypeOK
<1>2. Staged(q)'
  <2>1. Extract(Name(q), stage[q]) => Extract(Name(q), stage[q])'
    BY <1>1, ArchiveKept DEF Extract, Begun
  <2>2. Clean(stage[q]) => Clean(stage[q])'
    BY DEF Clean
  <2> QED
    BY <2>1, <2>2 DEF ProcInv, Staged
<1>3. Found(q)'
  <2>1. Name(q) \in damaged \/ disk[Name(q)] # Absent =>
          Name(q) \in damaged' \/ disk'[Name(q)] # Absent
    BY <1>1 DEF Moves
  <2>2. SameTarball(Name(q)) => Name(q) \in touched'[q] \/ SameTarball(Name(q))'
    BY <1>1, FoundKept
  <2> QED
    BY <1>1, <2>1, <2>2, FoundKept DEF ProcInv, Found
<1>4. Fetched(q)'
  BY <1>1, FoundKept DEF ProcInv, Fetched
<1>5. Reported(q)'
  BY FoundKept DEF ProcInv, Reported
<1> QED
  BY <1>2, <1>3, <1>4, <1>5 DEF ProcInv

(* What is so of the entries while none of them changes.                     *)
LEMMA Still ==
  ASSUME UNCHANGED <<archive, disk>>
  PROVE  \A n : /\ SameTarball(n)' <=> SameTarball(n)
                /\ SamePaths(n)' <=> SamePaths(n)
                /\ Pinned(n)' <=> Pinned(n)
                /\ Stored(n)' <=> (n \in damaged' \/ disk[n] = Absent \/ Finished(n, disk[n]))
<1>1. \A n : SameTarball(n)' <=> SameTarball(n)
  BY DEF SameTarball
<1>2. \A n : SamePaths(n)' <=> SamePaths(n)
  BY ArchiveKept DEF SamePaths
<1>3. \A n : Pinned(n)' <=> Pinned(n)
  BY DEF Pinned, IsPinnedTree, Wanted
<1>4. \A n : Stored(n)' <=> (n \in damaged' \/ disk[n] = Absent \/ Finished(n, disk[n]))
  BY ArchiveKept DEF Stored, Finished, Extract, Begun
<1> QED
  BY <1>1, <1>2, <1>3, <1>4

(* What is on record of the entries stays so.                                *)
LEMMA ReportedKept ==
  ASSUME NEW p \in Procs, Reported(p), UNCHANGED <<archive, disk, damaged>>,
         trouble \subseteq trouble', report'[p] = report[p], touched'[p] = touched[p]
  PROVE  Reported(p)'
BY Still DEF Reported

(* A step that leaves the cache alone, and goes on with the same call.       *)
Quiet(p) == UNCHANGED <<archive, disk, damaged, call, touched>>

(* The end of a call that fails, for a reason.                               *)
LEMMA RaisesKeeps ==
  ASSUME TypeOK, NEW p \in Procs, ProcInv(p), Returns(p, "error"), pc[p] # "idle",
         Quiet(p), at' = at, trouble \subseteq trouble',
         report'[p] = report[p] \/ report'[p] = [n \in Names |-> "none"],
         \/ <<p, Name(p)>> \in trouble'
         \/ call[p] = "fetch" /\ (Name(p) \in damaged \/ ~Valid(archive[Name(p)]))
  PROVE  ProcInv(p)'
<1>1. pc'[p] = "done" /\ outcome'[p] = "error" /\ stage'[p] = Absent
  BY DEF Returns, Stages, TypeOK
<1>2. Name(p)' = Name(p)
  BY <1>1 DEF Name
<1>3. Staged(p)'
  <2>1. Clean(Absent)'
    BY BareIsClean DEF Absent, Bare, Clean
  <2> QED
    BY <1>1, <2>1 DEF ProcInv, Staged, Quiet, Staging
<1>4. Found(p)'
  BY <1>1 DEF Found
<1>5. Fetched(p)'
  BY <1>1, <1>2 DEF Fetched, Quiet
<1>6. Reported(p)'
  <2>1. CASE report'[p] = report[p]
    BY <2>1, ReportedKept DEF Quiet, ProcInv
  <2>2. CASE report'[p] = [n \in Names |-> "none"]
    BY <2>2 DEF Reported
  <2> QED
    BY <2>1, <2>2
<1> QED
  BY <1>3, <1>4, <1>5, <1>6 DEF ProcInv

(* The end of a verify's look at one source.                                 *)
LEMMA ReportsKeeps ==
  ASSUME TypeOK, NEW p \in Procs, ProcInv(p), call[p] = "verify",
         NEW s \in {"missing", "invalid", "verified"}, Reports(p, s),
         Quiet(p), UNCHANGED <<stage, outcome>>, trouble \subseteq trouble',
         pc[p] \notin {"idle", "done"},
         s = "verified" => Name(p) \in touched[p] \/ Pinned(Name(p)),
         s = "invalid" => Name(p) \in damaged \/ <<p, Name(p)>> \in trouble'
  PROVE  ProcInv(p)'
<1>0. outcome'[p] = "none"
  BY DEF ProcInv, Fetched
<1>1. /\ pc'[p] \in {"look", "done"} /\ stage'[p] = Absent /\ call'[p] = "verify"
      /\ touched'[p] = touched[p] /\ damaged' = damaged /\ archive' = archive /\ disk' = disk
  BY DEF Reports, TypeOK, Quiet, ProcInv, Staged
<1>2. \A n \in Names : report'[p][n] = IF n = Name(p) THEN s ELSE report[p][n]
  BY DEF Reports, TypeOK
<1>3. Staged(p)'
  <2>1. Clean(Absent)'
    BY BareIsClean DEF Absent, Bare, Clean
  <2> QED
    BY <1>1, <2>1 DEF Staged, Staging
<1>4. Found(p)'
  BY <1>1 DEF Found
<1>5. Fetched(p)'
  BY <1>0 DEF Fetched
<1>6. Reported(p)'
  BY <1>1, <1>2, Still DEF Reported, ProcInv
<1> QED
  BY <1>3, <1>4, <1>5, <1>6 DEF ProcInv

(* The end of a check, of a fetch or of a verify.                            *)
LEMMA CheckEndsKeeps ==
  ASSUME TypeOK, NEW p \in Procs, ProcInv(p), NEW g \in BOOLEAN, CheckEnds(p, g),
         Quiet(p), trouble \subseteq trouble', pc[p] \in Checking,
         g => Name(p) \in touched[p] \/ Pinned(Name(p)),
         ~g => Name(p) \in damaged \/ <<p, Name(p)>> \in trouble'
  PROVE  ProcInv(p)'
<1>1. CASE call[p] = "fetch"
  <2>1. /\ Returns(p, IF g THEN "tree" ELSE "error") /\ report' = report /\ at' = at
    BY <1>1 DEF CheckEnds
  <2>2. /\ pc'[p] = "done" /\ stage'[p] = Absent
        /\ outcome'[p] = IF g THEN "tree" ELSE "error"
    BY <2>1 DEF Returns, Stages, TypeOK
  <2>3. Name(p)' = Name(p)
    BY <2>1 DEF Name
  <2>4. Staged(p)'
    <3>1. Clean(Absent)'
      BY BareIsClean DEF Absent, Bare, Clean
    <3> QED
      BY <1>1, <2>2, <3>1 DEF Staged, Staging, Quiet
  <2>5. Found(p)'
    BY <2>2 DEF Found
  <2>6. Fetched(p)'
    BY <1>1, <2>2, <2>3, Still DEF Fetched, Quiet
  <2>7. Reported(p)'
    BY <2>1, ReportedKept DEF Quiet, ProcInv
  <2> QED
    BY <2>4, <2>5, <2>6, <2>7 DEF ProcInv
<1>2. CASE call[p] # "fetch"
  <2>1. call[p] = "verify"
    BY <1>2 DEF ProcInv, Staged, Checking
  <2>2. Reports(p, IF g THEN "verified" ELSE "invalid") /\ UNCHANGED <<stage, outcome>>
    BY <1>2 DEF CheckEnds
  <2>3. (IF g THEN "verified" ELSE "invalid") \in {"missing", "invalid", "verified"}
    OBVIOUS
  <2>4. pc[p] \notin {"idle", "done"}
    BY DEF Checking
  <2> QED
    BY <2>1, <2>2, <2>3, <2>4, ReportsKeeps
<1> QED
  BY <1>1, <1>2

(* The start of a call, and what it does first.                              *)
LEMMA LookKeeps ==
  ASSUME TypeOK, NEW p \in Procs, ProcInv(p),
         Look(p) \/ \E k \in {"fetch", "verify"}, i \in 1 .. Len(Lock) : Begin(p, k, i)
  PROVE  ProcInv(p)'
<1>1. Clean(Absent)'
  BY BareIsClean DEF Absent, Bare, Clean
<1>2. ASSUME NEW k \in {"fetch", "verify"}, NEW i \in 1 .. Len(Lock), Begin(p, k, i)
      PROVE  ProcInv(p)'
  <2>1. /\ pc'[p] = "look" /\ stage'[p] = Absent /\ call'[p] = k
        /\ report'[p] = [n \in Names |-> "none"] /\ outcome'[p] = "none"
    BY <1>2 DEF Begin, TypeOK, ProcInv, Staged
  <2>2. Staged(p)'
    BY <1>1, <2>1 DEF Staged, Staging
  <2>3. Found(p)' /\ Fetched(p)' /\ Reported(p)'
    BY <2>1 DEF Found, Fetched, Reported
  <2> QED
    BY <2>2, <2>3 DEF ProcInv
<1>3. CASE Look(p)
  <2>1. /\ Quiet(p) /\ UNCHANGED <<stage, outcome, trouble>> /\ pc[p] = "look"
        /\ stage[p] = Absent
    BY <1>3 DEF Look, Quiet, outsideVars, ProcInv, Staged
  <2>2. CASE disk[Name(p)].kind = "absent" /\ call[p] = "verify" /\ Reports(p, "missing")
    BY <2>1, <2>2, ReportsKeeps
  <2>3. ASSUME NEW s \in {"check", "stage"}, Goes(p, "look", s), UNCHANGED <<report, at>>,
               s = "check" => disk[Name(p)].kind # "absent",
               s = "stage" => call[p] = "fetch"
        PROVE  ProcInv(p)'
    <3>1. pc'[p] = s /\ Name(p)' = Name(p) /\ call[p] \in {"fetch", "verify"}
      BY <2>1, <2>3 DEF Goes, TypeOK, Name, ProcInv, Staged
    <3>2. Staged(p)'
      BY <1>1, <2>1, <2>3, <3>1 DEF Staged, Staging, Quiet
    <3>3. Found(p)'
      BY <2>1, <2>3, <3>1 DEF Found, Quiet, Absent, Bare, Entry
    <3>4. Fetched(p)' /\ Reported(p)'
      BY <2>1, <2>3, <3>1, ReportedKept DEF Fetched, Quiet, ProcInv
    <3> QED
      BY <3>2, <3>3, <3>4 DEF ProcInv
  <2>4. CASE disk[Name(p)].kind # "absent" /\ Goes(p, "look", "check") /\ UNCHANGED <<report, at>>
    BY <2>3, <2>4
  <2>5. CASE /\ disk[Name(p)].kind = "absent" /\ call[p] = "fetch"
             /\ Goes(p, "look", "stage") /\ UNCHANGED <<report, at>>
    BY <2>3, <2>5
  <2> QED
    BY <1>3, <2>2, <2>4, <2>5 DEF Look
<1> QED
  BY <1>2, <1>3

(* An entry that nobody changed and that is there passes every check.        *)
LEMMA StoredPasses ==
  ASSUME NEW n, Stored(n), n \notin damaged, disk[n] # Absent
  PROVE  SameTarball(n) /\ Valid(archive[n]) /\ SamePaths(n) /\ SameBytes(n)
BY DEF Stored, Finished, Extract, Begun, SameTarball, SamePaths, SameBytes

(* The three checks.                                                         *)
LEMMA CheckKeeps ==
  ASSUME TypeOK, Shared, NEW p \in Procs, ProcInv(p), Check(p)
  PROVE  ProcInv(p)'
<1> DEFINE n == Name(p)
<1>1. n \in Names
  BY NameTyped DEF TypeOK, Name
<1>2. /\ Quiet(p) /\ trouble' = trouble /\ pc[p] \in {"check", "paths", "bytes"}
      /\ pc[p] \in Checking
  BY DEF Check, CheckTarball, CheckPaths, CheckBytes, CheckStep, Quiet, outsideVars, Checking
<1>3. n \notin damaged => SameTarball(n) /\ Valid(archive[n]) /\ SamePaths(n) /\ SameBytes(n)
  BY <1>1, <1>2, StoredPasses DEF Shared, ProcInv, Found
<1>4. ASSUME NEW s \in {"paths", "bytes"}, Goes(p, pc[p], s),
             UNCHANGED <<stage, outcome, report, at>>,
             SameTarball(n) \/ n \in touched[p], Valid(archive[n]) \/ n \in touched[p],
             s = "bytes" => SamePaths(n)
      PROVE  ProcInv(p)'
  <2>1. pc'[p] = s /\ Name(p)' = n /\ pc[p] # "idle"
    BY <1>2, <1>4 DEF Goes, TypeOK, Name
  <2>2. Staged(p)'
    <3>1. Clean(stage[p])'
      BY <1>4 DEF ProcInv, Staged, Clean
    <3> QED
      BY <1>2, <1>4, <2>1, <3>1 DEF ProcInv, Staged, Staging, Quiet
  <2>3. Found(p)'
    <3>1. n \in damaged \/ disk[n] # Absent
      BY <1>2 DEF ProcInv, Found
    <3>2. UNCHANGED <<archive, disk, touched, damaged>>
      BY <1>2 DEF Quiet
    <3> QED
      BY <1>4, <2>1, <3>1, <3>2, Still DEF Found
  <2>4. Fetched(p)' /\ Reported(p)'
    BY <1>2, <1>4, <2>1, ReportedKept DEF Fetched, Quiet, ProcInv
  <2> QED
    BY <2>2, <2>3, <2>4 DEF ProcInv
<1>5. CheckEnds(p, FALSE) /\ n \in damaged => ProcInv(p)'
  BY <1>2, CheckEndsKeeps
<1>6. CASE CheckTarball(p)
  <2>1. CASE SameTarball(n) /\ Valid(archive[n])
    <3>1. Goes(p, pc[p], "paths") /\ UNCHANGED <<stage, outcome, report, at>>
      BY <1>6, <2>1 DEF CheckTarball, CheckStep
    <3> QED
      BY <1>4, <2>1, <3>1
  <2>2. CASE ~(SameTarball(n) /\ Valid(archive[n]))
    <3>1. CheckEnds(p, FALSE)
      BY <1>6, <2>2 DEF CheckTarball, CheckStep
    <3> QED
      BY <1>3, <1>5, <2>2, <3>1
  <2> QED
    BY <2>1, <2>2
<1>7. CASE CheckPaths(p)
  <2>1. CASE SamePaths(n)
    <3>1. Goes(p, pc[p], "bytes") /\ UNCHANGED <<stage, outcome, report, at>> /\ pc[p] = "paths"
      BY <1>7, <2>1 DEF CheckPaths, CheckStep
    <3>2. n \in touched[p] \/ (SameTarball(n) /\ Valid(archive[n]))
      BY <3>1 DEF ProcInv, Found
    <3> QED
      BY <1>4, <2>1, <3>1, <3>2
  <2>2. CASE ~SamePaths(n)
    <3>1. CheckEnds(p, FALSE)
      BY <1>7, <2>2 DEF CheckPaths, CheckStep
    <3> QED
      BY <1>3, <1>5, <2>2, <3>1
  <2> QED
    BY <2>1, <2>2
<1>8. CASE CheckBytes(p)
  <2>1. pc[p] = "bytes" /\ CheckEnds(p, SameBytes(n)) /\ SameBytes(n) \in BOOLEAN
    BY <1>8 DEF CheckBytes, SameBytes
  <2>2. ASSUME SameBytes(n), n \notin touched[p] PROVE Pinned(n)
    <3>1. SameTarball(n) /\ Valid(archive[n]) /\ SamePaths(n)
      BY <2>1, <2>2 DEF ProcInv, Found
    <3> QED
      BY <1>1, <2>2, <3>1, SameIsPinned DEF Pinned, SameTarball, SamePaths, SameBytes
  <2> QED
    BY <1>2, <1>3, <2>1, <2>2, CheckEndsKeeps
<1> QED
  BY <1>6, <1>7, <1>8 DEF Check

(* A step that goes on staging an archive.                                   *)
LEMMA StagingKeeps ==
  ASSUME TypeOK, NEW p \in Procs, ProcInv(p), Quiet(p),
         UNCHANGED <<at, report, outcome, trouble>>,
         pc[p] \notin {"idle", "done"}, call[p] = "fetch",
         NEW s \in {"download", "digest", "layout", "extract"}, pc'[p] = s,
         s = "download" => stage'[p] = Bare("entry"),
         s = "digest" => stage'[p] \in Downloads,
         s = "layout" => stage'[p] = Entry("entry", "pinned", NoFiles, {}),
         s = "extract" => Extract(Name(p), stage'[p])
  PROVE  ProcInv(p)'
<1>1. Name(p)' = Name(p) /\ Name(p) \in Names
  BY NameTyped DEF Name, TypeOK
<1>2. Clean(stage'[p])
  <2>1. CASE s \in {"download", "digest", "layout"}
    BY <2>1, BareIsClean DEF Downloads, Bare
  <2>2. CASE s = "extract"
    BY <1>1, <2>2, BegunIsClean DEF Extract
  <2> QED
    BY <2>1, <2>2
<1>3. Staged(p)'
  <2>1. Clean(stage[p])'
    BY <1>2 DEF Clean
  <2>2. s = "extract" => Extract(Name(p), stage[p])'
    BY <1>1, ArchiveKept DEF Extract, Begun, Quiet
  <2>3. s = "digest" => (stage[p] \in Downloads)'
    BY DEF Downloads
  <2> QED
    BY <2>1, <2>2, <2>3 DEF Staged, Staging, Quiet
<1>4. Found(p)' /\ Fetched(p)' /\ Reported(p)'
  BY ReportedKept DEF Found, Fetched, ProcInv, Quiet
<1> QED
  BY <1>3, <1>4 DEF ProcInv

(* A fetch that extracts, publishes, or finds that another was faster.       *)
LEMMA FetchKeeps ==
  ASSUME TypeOK, Shared, NEW p \in Procs, ProcInv(p), Fetch(p)
  PROVE  ProcInv(p)'
<1> DEFINE n == Name(p)
<1>1. n \in Names /\ stage[p] \in Entries
  BY NameTyped DEF TypeOK, Name
<1>2. pc[p] \in Staging \cup {"lost"} /\ pc[p] \notin {"idle", "done"} /\ call[p] = "fetch"
  <2>1. pc[p] \in Staging \cup {"lost"}
    BY DEF Fetch, MakeStage, Download, Digest, MakeTree, ExtractFile, Publish, LoseRename,
           CheckWinner, Goes, Extracted, Staging
  <2> QED
    BY <2>1 DEF ProcInv, Staged, Staging
<1>3. UNCHANGED StageFrame => Quiet(p) /\ UNCHANGED <<at, report>>
  BY DEF StageFrame, outsideVars, Quiet
<1>4. CASE MakeStage(p)
  <2>1. /\ pc'[p] = "download" /\ stage'[p] = Bare("entry")
        /\ UNCHANGED <<StageFrame, outcome, trouble>>
    BY <1>4 DEF MakeStage, Goes, Stages, TypeOK
  <2> QED
    BY <1>2, <1>3, <2>1, StagingKeeps
<1>5. CASE Download(p)
  <2>1. /\ pc'[p] = "digest" /\ stage'[p] \in Downloads
        /\ UNCHANGED <<StageFrame, outcome, trouble>>
    BY <1>5 DEF Download, Goes, Stages, TypeOK, Downloads
  <2> QED
    BY <1>2, <1>3, <2>1, StagingKeeps
<1>6. CASE Digest(p)
  <2>1. CASE stage[p].tarball = "pinned" /\ UNCHANGED stage /\ Goes(p, "digest", "layout")
               /\ UNCHANGED <<StageFrame, outcome, trouble>>
    <3>1. pc'[p] = "layout" /\ pc[p] = "digest"
      BY <2>1 DEF Goes, TypeOK
    <3>2. stage'[p] = Entry("entry", "pinned", NoFiles, {})
      BY <2>1, <3>1 DEF ProcInv, Staged, Downloads, Entry
    <3> QED
      BY <1>2, <1>3, <2>1, <3>1, <3>2, StagingKeeps
  <2>2. CASE Raises(p) /\ Troubled(p)
    <3>1. trouble \subseteq trouble' /\ <<p, n>> \in trouble'
      BY <2>2 DEF Troubled
    <3> QED
      BY <1>2, <1>3, <2>2, <3>1, RaisesKeeps DEF Raises
  <2> QED
    BY <1>6, <2>1, <2>2 DEF Digest
<1>7. CASE MakeTree(p)
  <2>1. CASE /\ Valid(archive[n]) /\ Goes(p, "layout", "extract")
             /\ Stages(p, [stage[p] EXCEPT !.dirs = KeptDirs(n)])
             /\ UNCHANGED <<StageFrame, outcome, trouble>>
    <3>1. pc'[p] = "extract" /\ pc[p] = "layout"
      BY <2>1 DEF Goes, TypeOK
    <3>2. stage'[p] = [Entry("entry", "pinned", NoFiles, {}) EXCEPT !.dirs = KeptDirs(n)]
      BY <2>1, <3>1 DEF ProcInv, Staged, Stages, TypeOK
    <3>3. stage'[p] = Entry("entry", "pinned", NoFiles, KeptDirs(n))
      BY <3>2 DEF Entry
    <3>4. Extract(n, stage'[p])
      <4>1. DOMAIN NoFiles = {}
        BY DEF NoFiles
      <4> QED
        BY <2>1, <3>3, <4>1 DEF Extract, Begun, Entry
    <3> QED
      BY <1>2, <1>3, <2>1, <3>1, <3>4, StagingKeeps
  <2>2. CASE ~Valid(archive[n]) /\ Raises(p) /\ UNCHANGED trouble
    BY <1>2, <1>3, <2>2, RaisesKeeps DEF Raises
  <2> QED
    BY <1>7, <2>1, <2>2 DEF MakeTree
<1>8. CASE ExtractFile(p)
  <2>1. pc[p] = "extract" /\ Extract(n, stage[p])
    BY <1>8 DEF ExtractFile, ProcInv, Staged
  <2>2. PICK q \in KeptFiles(n) \ DOMAIN stage[p].files :
          IF Room(stage[p], q)
            THEN /\ Stages(p, [stage[p] EXCEPT
                                 !.files = With(@, q, SourceIn(archive[n], q))])
                 /\ UNCHANGED <<StageFrame, pc, outcome, trouble>>
            ELSE Raises(p) /\ UNCHANGED trouble
    BY <1>8 DEF ExtractFile
  <2>3. Room(stage[p], q)
    BY <1>1, <2>1, RoomForKept
  <2> DEFINE f == With(stage[p].files, q, SourceIn(archive[n], q))
  <2>4. /\ stage'[p] = [stage[p] EXCEPT !.files = f]
        /\ pc'[p] = "extract" /\ UNCHANGED <<StageFrame, outcome, trouble>>
    BY <2>1, <2>2, <2>3 DEF Stages, TypeOK
  <2>5. /\ stage'[p].kind = "entry" /\ stage'[p].tarball = "pinned"
        /\ stage'[p].dirs = KeptDirs(n) /\ stage'[p].files = f
    BY <1>1, <2>1, <2>4 DEF Extract, Begun, Entries
  <2>6. /\ DOMAIN f = DOMAIN stage[p].files \cup {q} /\ f[q] = SourceIn(archive[n], q)
        /\ \A x \in DOMAIN stage[p].files \ {q} : f[x] = stage[p].files[x]
    <3>1. stage[p].files \in Trees
      BY <1>1 DEF Entries
    <3>2. q \in Path /\ SourceIn(archive[n], q) \in Path \cup {Foreign}
      BY <1>1, KeptTyped
    <3> QED
      BY <3>1, <3>2, WithTyped
  <2>7. Extract(n, stage'[p])
    BY <2>1, <2>5, <2>6 DEF Extract, Begun
  <2> QED
    BY <1>2, <1>3, <2>4, <2>7, StagingKeeps
<1>9. CASE Publish(p)
  <2>1. /\ pc[p] = "extract" /\ Finished(n, stage[p])
        /\ disk' = [disk EXCEPT ![n] = stage[p]] /\ Replaceable(disk[n])
        /\ \/ Returns(p, "tree") /\ UNCHANGED trouble
           \/ Returns(p, "error") /\ Troubled(p)
        /\ UNCHANGED <<archive, call, at, report, touched, damaged>>
    <3>1. pc[p] = "extract" /\ KeptFiles(n) \subseteq DOMAIN stage[p].files
      BY <1>9 DEF Publish, Extracted
    <3>2. Finished(n, stage[p])
      BY <3>1 DEF ProcInv, Staged, Finished, Extract, Begun
    <3> QED
      BY <1>9, <3>1, <3>2 DEF Publish, outsideVars
  <2>2. /\ pc'[p] = "done" /\ stage'[p] = Absent /\ trouble \subseteq trouble'
        /\ outcome'[p] = "tree" \/ (outcome'[p] = "error" /\ <<p, n>> \in trouble')
        /\ Name(p)' = n /\ disk'[n] = stage[p]
    BY <1>1, <2>1 DEF Returns, Stages, TypeOK, Name, Troubled
  <2>3. stage[p] # Absent
    BY <2>1 DEF Finished, Extract, Begun, Absent, Bare, Entry
  <2>4. \A k \in Names : Moves(k, {})
    BY <1>1, <2>1, <2>2, <2>3 DEF Moves, TypeOK
  <2>5. Staged(p)'
    <3>1. Clean(Absent)'
      BY BareIsClean DEF Absent, Bare, Clean
    <3> QED
      BY <1>2, <2>1, <2>2, <3>1 DEF Staged, Staging
  <2>6. Found(p)'
    BY <2>2 DEF Found
  <2>7. Fetched(p)'
    <3>1. IsPinnedTree(n, stage[p])
      BY <1>1, <2>1, FinishedIsPinned
    <3>2. Pinned(n)'
      BY <2>1, <2>2, <3>1 DEF Pinned, IsPinnedTree, Wanted
    <3> QED
      BY <2>2, <3>2 DEF Fetched
  <2>8. Reported(p)'
    <3>1. \A k \in Names : Pinned(k) => Pinned(k)'
      BY <2>1, <2>4, FoundKept
    <3> QED
      BY <2>1, <2>2, <3>1 DEF Reported, ProcInv
  <2> QED
    BY <2>5, <2>6, <2>7, <2>8 DEF ProcInv
<1>10. CASE LoseRename(p)
  <2>1. /\ pc[p] = "extract" /\ pc'[p] = "lost" /\ disk[n] # Absent
        /\ stage' = stage /\ UNCHANGED <<StageFrame, outcome, trouble>>
    BY <1>10 DEF LoseRename, Extracted, TypeOK, Absent, Bare, Entry
  <2>2. Name(p)' = n
    BY <1>3, <2>1 DEF Name
  <2>3. Staged(p)'
    <3>1. Clean(stage[p])'
      BY <2>1 DEF ProcInv, Staged, Clean
    <3> QED
      BY <1>2, <1>3, <2>1, <3>1 DEF Staged, Staging, Quiet
  <2>4. Found(p)'
    BY <1>3, <2>1, <2>2 DEF Found, Quiet
  <2>5. Fetched(p)' /\ Reported(p)'
    BY <1>3, <2>1, ReportedKept DEF Fetched, ProcInv, Quiet
  <2> QED
    BY <2>3, <2>4, <2>5 DEF ProcInv
<1>11. CASE CheckWinner(p)
  <2>1. pc[p] = "lost" /\ (n \in damaged \/ disk[n] # Absent)
    BY <1>11 DEF CheckWinner, ProcInv, Found
  <2>2. CASE Goes(p, "lost", "check") /\ UNCHANGED <<StageFrame, stage, outcome, trouble>>
    <3>1. pc'[p] = "check" /\ Name(p)' = n
      BY <1>3, <2>2 DEF Goes, TypeOK, Name
    <3>2. Staged(p)'
      <4>1. Clean(stage[p])'
        BY <2>2 DEF ProcInv, Staged, Clean
      <4> QED
        BY <1>2, <1>3, <2>2, <3>1, <4>1 DEF Staged, Staging, Quiet
    <3>3. Found(p)'
      BY <1>3, <2>1, <2>2, <3>1 DEF Found, Quiet
    <3>4. Fetched(p)' /\ Reported(p)'
      BY <1>2, <1>3, <2>2, <3>1, ReportedKept DEF Fetched, ProcInv, Quiet
    <3> QED
      BY <3>2, <3>3, <3>4 DEF ProcInv
  <2>3. CASE disk[n].kind \in {"absent", "dangling"} /\ Raises(p) /\ UNCHANGED trouble
    <3>1. n \in damaged
      BY <1>1, <2>1, <2>3 DEF Shared, Stored, Finished, Extract, Begun
    <3> QED
      BY <1>2, <1>3, <2>3, <3>1, RaisesKeeps DEF Raises
  <2> QED
    BY <1>11, <2>2, <2>3 DEF CheckWinner
<1> QED
  BY <1>4, <1>5, <1>6, <1>7, <1>8, <1>9, <1>10, <1>11 DEF Fetch

(* A fetch, a check or a look that the network or the disk fails.            *)
LEMMA FailsKeeps ==
  ASSUME TypeOK, NEW p \in Procs, ProcInv(p), Fails(p)
  PROVE  ProcInv(p)'
<1>1. /\ Quiet(p) /\ trouble \subseteq trouble' /\ <<p, Name(p)>> \in trouble'
      /\ pc[p] # "idle"
  BY DEF Fails, FailsStaging, FailsChecking, FailsLooking, Troubled, Staging, Checking,
         Quiet, outsideVars
<1>2. CASE FailsStaging(p)
  BY <1>1, <1>2, RaisesKeeps DEF FailsStaging
<1>3. CASE FailsChecking(p)
  BY <1>1, <1>3, CheckEndsKeeps DEF FailsChecking
<1>4. CASE FailsLooking(p)
  <2>1. report'[p] = [n \in Names |-> "none"]
    BY <1>4 DEF FailsLooking, TypeOK
  <2> QED
    BY <1>1, <1>4, <2>1, RaisesKeeps DEF FailsLooking
<1> QED
  BY <1>2, <1>3, <1>4 DEF Fails

(* Whatever a process does, it keeps its own invariant.                      *)
LEMMA OwnKeeps ==
  ASSUME TypeOK, Shared, NEW p \in Procs, ProcInv(p), Process(p) \/ Fails(p) \/ Kill(p)
  PROVE  ProcInv(p)'
<1>1. CASE BeginFetch(p) \/ BeginVerify(p)
  <2>1. 1 \in 1 .. Len(Lock)
    BY LockAssumption
  <2> QED
    BY <1>1, <2>1, LookKeeps DEF BeginFetch, BeginVerify
<1>2. CASE Look(p)
  BY <1>2, LookKeeps
<1>3. CASE Fails(p)
  BY <1>3, FailsKeeps
<1>4. CASE Kill(p)
  <2>1. /\ pc'[p] = "idle" /\ stage'[p] = Absent
        /\ UNCHANGED <<archive, disk, call, report, trouble, touched, damaged>>
    BY <1>4 DEF Kill, Stages, TypeOK, outsideVars
  <2>2. Staged(p)'
    <3>1. Clean(Absent)'
      BY BareIsClean DEF Absent, Bare, Clean
    <3> QED
      BY <2>1, <3>1 DEF Staged, Staging
  <2>3. Found(p)' /\ Fetched(p)' /\ Reported(p)'
    BY <2>1, ReportedKept DEF Found, Fetched, ProcInv
  <2> QED
    BY <2>2, <2>3 DEF ProcInv
<1> QED
  BY <1>1, <1>2, <1>3, <1>4, CheckKeeps, FetchKeeps DEF Process

(* What a process leaves alone: the others, the archives, and every entry    *)
(* but one that is not there or is empty.                                    *)
LEMMA StepAlike ==
  ASSUME TypeOK, Shared, NEW p \in Procs, ProcInv(p), Process(p) \/ Fails(p) \/ Kill(p)
  PROVE  /\ archive' = archive /\ damaged' = damaged
         /\ \A q \in Procs \ {p} :
              /\ pc'[q] = pc[q] /\ stage'[q] = stage[q] /\ call'[q] = call[q] /\ at'[q] = at[q]
              /\ outcome'[q] = outcome[q] /\ report'[q] = report[q]
              /\ \A k \in Names : <<q, k>> \in trouble => <<q, k>> \in trouble'
              /\ touched'[q] = touched[q]
         /\ \A n \in Names : Moves(n, {})
         /\ \A n \in Names : Stored(n)'
         /\ \A e \in leftover' : Clean(e)
<1> DEFINE n == Name(p)
<1>0. n \in Names
  BY NameTyped DEF TypeOK, Name
<1>1. CASE Publish(p)
  <2>1. /\ pc[p] = "extract" /\ Finished(n, stage[p])
        /\ disk' = [disk EXCEPT ![n] = stage[p]] /\ Replaceable(disk[n])
        /\ \/ Returns(p, "tree") /\ UNCHANGED trouble
           \/ Returns(p, "error") /\ Troubled(p)
        /\ UNCHANGED <<archive, call, at, leftover, report, touched, damaged>>
    <3>1. pc[p] = "extract" /\ KeptFiles(n) \subseteq DOMAIN stage[p].files
      BY <1>1 DEF Publish, Extracted
    <3>2. Finished(n, stage[p])
      BY <3>1 DEF ProcInv, Staged, Finished, Extract, Begun
    <3> QED
      BY <1>1, <3>1, <3>2 DEF Publish, outsideVars
  <2>2. \A k \in Names : disk'[k] = IF k = n THEN stage[p] ELSE disk[k]
    BY <1>0, <2>1 DEF TypeOK
  <2>3. stage[p] # Absent
    BY <2>1 DEF Finished, Extract, Begun, Absent, Bare, Entry
  <2>4. \A k \in Names : Moves(k, {})
    BY <2>1, <2>2, <2>3 DEF Moves
  <2>5. ASSUME NEW k \in Names PROVE Stored(k)'
    <3>2. CASE k = n
      BY <2>1, <2>2, <3>2, ArchiveKept DEF Stored, Finished, Extract, Begun
    <3>3. CASE k # n
      BY <2>1, <2>2, <3>3, ArchiveKept DEF Shared, Stored, Finished, Extract, Begun
    <3> QED
      BY <3>2, <3>3
  <2> QED
    BY <2>1, <2>4, <2>5 DEF Returns, Stages, TypeOK, Shared, Troubled
<1>2. CASE ~Publish(p)
  <2>1. UNCHANGED <<archive, disk, damaged>>
    BY <1>2 DEF Process, BeginFetch, BeginVerify, Begin, Look, Check, CheckTarball,
       CheckPaths,
                CheckBytes, CheckStep, Fetch, MakeStage, Download, Digest, MakeTree,
                ExtractFile, LoseRename, CheckWinner, Fails, FailsStaging, FailsChecking,
                FailsLooking, Troubled, LeavesStage, Kill, Raises, StageFrame,
                outsideVars
  <2>2. \A k \in Names : Moves(k, {}) /\ Stored(k)'
    BY <2>1, Still DEF Moves, Shared, Stored
  <2>3. leftover' \subseteq leftover \cup {stage[p]}
    BY <1>2 DEF Process, BeginFetch, BeginVerify, Begin, Look, Check, CheckTarball,
       CheckPaths,
                CheckBytes, CheckStep, Fetch, MakeStage, Download, Digest, MakeTree,
                ExtractFile, LoseRename, CheckWinner, Fails, FailsStaging, FailsChecking,
                FailsLooking, Troubled, LeavesStage, Kill, Raises, StageFrame
  <2>4. \A e \in leftover' : Clean(e)
    BY <2>3 DEF Shared, ProcInv, Staged
  <2>5. ASSUME NEW q \in Procs \ {p}
        PROVE  pc'[q] = pc[q] /\ stage'[q] = stage[q]
    BY <1>2 DEF TypeOK, Process, BeginFetch, BeginVerify, Begin, Look, Check, CheckTarball,
                CheckPaths, CheckBytes, CheckStep, CheckEnds, Reports, Returns, Stages,
                Goes,
                Fetch, MakeStage, Download, Digest, MakeTree, ExtractFile, LoseRename,
                CheckWinner, Fails, FailsStaging, FailsChecking,
                FailsLooking, Troubled, LeavesStage, Kill, Raises, StageFrame
  <2>6. ASSUME NEW q \in Procs \ {p}
        PROVE  /\ call'[q] = call[q] /\ at'[q] = at[q]
               /\ \A k \in Names : <<q, k>> \in trouble => <<q, k>> \in trouble'
    BY <1>2 DEF TypeOK, Process, BeginFetch, BeginVerify, Begin, Look, Check, CheckTarball,
                CheckPaths, CheckBytes, CheckStep, CheckEnds, Reports, Returns,
                Fetch, MakeStage, Download, Digest, MakeTree, ExtractFile, LoseRename,
                CheckWinner, Fails, FailsStaging, FailsChecking,
                FailsLooking, Troubled, LeavesStage, Kill, Raises, StageFrame
  <2>7. ASSUME NEW q \in Procs \ {p}
        PROVE  outcome'[q] = outcome[q] /\ report'[q] = report[q] /\ touched'[q] = touched[q]
    BY <1>2 DEF TypeOK, Process, BeginFetch, BeginVerify, Begin, Look, Check, CheckTarball,
                CheckPaths, CheckBytes, CheckStep, CheckEnds, Reports, Returns,
                Fetch, MakeStage, Download, Digest, MakeTree, ExtractFile, LoseRename,
                CheckWinner, Fails, FailsStaging, FailsChecking,
                FailsLooking, Troubled, LeavesStage, Kill, Raises, StageFrame, outsideVars
  <2> QED
    BY <2>1, <2>2, <2>4, <2>5, <2>6, <2>7
<1> QED
  BY <1>1, <1>2

(* An outsider's change is nobody's fault.                                   *)
LEMMA TouchKeeps ==
  ASSUME IInv, Touch
  PROVE  Shared' /\ \A q \in Procs : ProcInv(q)'
<1>1. PICK n \in Names :
        /\ damaged' = damaged \cup {n}
        /\ \E e \in Broken(disk[n]) :
             /\ e.kind = "entry" => disk[n].kind = "entry"
             /\ disk' = [disk EXCEPT ![n] = e]
        /\ touched' = [p \in Procs |-> touched[p] \cup {n}]
  BY DEF Touch
<1>2. UNCHANGED <<archive, leftover, calls, procVars>>
  BY DEF Touch
<1>3. \A k \in Names \ {n} : disk'[k] = disk[k]
  BY <1>1 DEF IInv, TypeOK
<1>4. ASSUME NEW q \in Procs PROVE ProcInv(q)'
  <2>1. \A k \in Names : Moves(k, touched'[q])
    BY <1>1, <1>3 DEF Moves
  <2>2. /\ touched[q] \subseteq touched'[q] /\ damaged \subseteq damaged'
        /\ UNCHANGED <<archive, pc, stage, call, at, outcome, report, trouble>>
    BY <1>1, <1>2 DEF procVars
  <2> QED
    BY <2>1, <2>2, AlikeKeeps DEF IInv
<1>5. ASSUME NEW k \in Names PROVE Stored(k)'
  <2>1. CASE k = n
    BY <1>1, <2>1 DEF Stored
  <2>2. CASE k # n
    BY <1>1, <1>2, <1>3, <2>2, ArchiveKept DEF IInv, Shared, Stored, Finished, Extract,
       Begun
  <2> QED
    BY <2>1, <2>2
<1>6. \A e \in leftover' : Clean(e)
  BY <1>2 DEF IInv, Shared
<1> QED
  BY <1>4, <1>5, <1>6 DEF Shared, Clean

(* The invariant holds at the start.                                         *)
LEMMA InitIInv == Init => IInv
<1> SUFFICES ASSUME Init PROVE IInv
  OBVIOUS
<1>1. Absent \in Entries /\ Clean(Absent)
  BY BareTyped, BareIsClean DEF Absent, Bare
<1>2. TypeOK
  <2>1. 1 \in 1 .. Len(Lock)
    BY LockAssumption
  <2> QED
    BY <1>1, <2>1 DEF Init, TypeOK, Steps
<1>3. Shared
  BY DEF Init, Shared, Stored
<1>4. ASSUME NEW p \in Procs PROVE ProcInv(p)
  <2>1. pc[p] = "idle" /\ stage[p] = Absent /\ report[p] = [n \in Names |-> "none"]
    BY DEF Init
  <2> QED
    BY <1>1, <2>1 DEF ProcInv, Staged, Found, Fetched, Reported, Staging
<1> QED
  BY <1>2, <1>3, <1>4 DEF IInv

(* Every step keeps the invariant.                                           *)
LEMMA StepIInv == IInv /\ [Next]_vars => IInv'
<1> SUFFICES ASSUME IInv, [Next]_vars PROVE IInv'
  OBVIOUS
<1>1. TypeOK'
  BY StepTypes DEF IInv
<1>2. ASSUME NEW p \in Procs, Process(p) \/ Fails(p) \/ Kill(p)
      PROVE  Shared' /\ \A q \in Procs : ProcInv(q)'
  <2>1. TypeOK /\ Shared /\ ProcInv(p)
    BY DEF IInv
  <2>2. ProcInv(p)'
    BY <1>2, <2>1, OwnKeeps
  <2>3. ASSUME NEW q \in Procs, q # p PROVE ProcInv(q)'
    <3>1. \A n \in Names : Moves(n, touched'[q])
      BY <1>2, <2>1, StepAlike DEF Moves
    <3>2. /\ archive' = archive /\ damaged' = damaged
          /\ pc'[q] = pc[q] /\ stage'[q] = stage[q] /\ call'[q] = call[q] /\ at'[q] = at[q]
          /\ outcome'[q] = outcome[q] /\ report'[q] = report[q]
          /\ \A k \in Names : <<q, k>> \in trouble => <<q, k>> \in trouble'
          /\ touched'[q] = touched[q]
      BY <1>2, <2>1, <2>3, StepAlike
    <3> QED
      BY <3>1, <3>2, AlikeKeeps DEF IInv
  <2>4. (\A n \in Names : Stored(n)') /\ \A e \in leftover' : Clean(e)
    BY <1>2, <2>1, StepAlike
  <2> QED
    BY <2>2, <2>3, <2>4 DEF Shared, Clean
<1>3. CASE Touch
  BY <1>1, <1>3, TouchKeeps DEF IInv
<1>4. CASE UNCHANGED vars
  <2>1. /\ UNCHANGED <<archive, disk, stage, leftover, pc, call, at, outcome, report>>
        /\ UNCHANGED <<trouble, touched, damaged>>
    BY <1>4 DEF vars, procVars, outsideVars
  <2>2. ASSUME NEW q \in Procs PROVE ProcInv(q)'
    <3>1. \A n \in Names : Moves(n, touched'[q])
      BY <2>1 DEF Moves
    <3> QED
      BY <2>1, <3>1, AlikeKeeps DEF IInv
  <2>3. Shared'
    BY <2>1, Still DEF IInv, Shared, Stored, Clean
  <2> QED
    BY <1>1, <2>2, <2>3 DEF IInv
<1> QED
  BY <1>1, <1>2, <1>3, <1>4 DEF IInv, Next, Rest

(* So it always holds.                                                       *)
LEMMA SpecIInv == Spec => []IInv
BY InitIInv, StepIInv, PTL DEF Spec

-----------------------------------------------------------------------------
(* Theorems. *)

(* An entry that nobody else changed is absent or the pinned tree, whoever   *)
(* is killed, fails or loses the rename: for any lock, archives, processes   *)
(* and number of calls.                                                      *)
THEOREM EntriesAreWhole == Spec => []WholeOrAbsent
<1>1. IInv => WholeOrAbsent
  <2> SUFFICES ASSUME IInv PROVE WholeOrAbsent
    OBVIOUS
  <2>1. ASSUME NEW n \in Names \ damaged PROVE disk[n] = Absent \/ IsPinnedTree(n, disk[n])
    BY FinishedIsPinned DEF IInv, Shared, Stored
  <2> QED
    BY <2>1 DEF WholeOrAbsent
<1> QED
  BY <1>1, SpecIInv, PTL

(* No path of NEVER_EXTRACT is in the cache, in a stage or in one that a     *)
(* killed process left: not under its own name, not through a link, and not  *)
(* as a directory.                                                           *)
THEOREM ExcludedStaysOut == Spec => []NothingExcluded
<1>1. IInv => NothingExcluded
  <2> SUFFICES ASSUME IInv PROVE NothingExcluded
    OBVIOUS
  <2>1. Clean(Absent)
    BY BareIsClean DEF Absent, Bare
  <2>2. ASSUME NEW n \in Names \ damaged PROVE Clean(disk[n])
    BY <2>1, BegunIsClean DEF IInv, Shared, Stored, Finished, Extract
  <2>3. ASSUME NEW p \in Procs PROVE Clean(stage[p])
    BY DEF IInv, ProcInv, Staged
  <2> QED
    BY <2>2, <2>3 DEF IInv, Shared, NothingExcluded
<1> QED
  BY <1>1, SpecIInv, PTL

(* A fetch that returns and a verify that says "verified" found the pinned   *)
(* tree, unless the entry was changed from outside during the call itself.   *)
THEOREM AnswersAreTrue == Spec => []AnswersAreRight
<1>1. IInv => AnswersAreRight
  <2> SUFFICES ASSUME IInv, NEW p \in Procs, pc[p] = "done"
               PROVE  /\ call[p] = "fetch" /\ outcome[p] = "tree" /\ Name(p) \notin touched[p] =>
                           IsPinnedTree(Name(p), disk[Name(p)])
                      /\ call[p] = "verify" => \A n \in Names \ touched[p] :
                           report[p][n] = "verified" => IsPinnedTree(n, disk[n])
    BY DEF AnswersAreRight
  <2>1. Fetched(p) /\ Reported(p)
    BY DEF IInv, ProcInv
  <2> QED
    BY <2>1 DEF Fetched, Reported, Pinned
<1> QED
  BY <1>1, SpecIInv, PTL

(* A fetch fails, and a verify reports an entry as invalid or ends without a *)
(* report, only if the network or the disk failed that call at that source,  *)
(* the archive of the fetch is one that is never extracted or somebody       *)
(* changed the entry: two calls at once never spoil each other's answer.     *)
THEOREM FailuresAreExplained == Spec => []FailuresHaveReasons
<1>1. IInv => FailuresHaveReasons
  <2> SUFFICES ASSUME IInv, NEW p \in Procs, pc[p] = "done"
               PROVE  /\ outcome[p] = "error" =>
                           \/ <<p, Name(p)>> \in trouble
                           \/ /\ call[p] = "fetch"
                              /\ Name(p) \in damaged \/ ~Valid(archive[Name(p)])
                      /\ \A n \in Names : report[p][n] = "invalid" =>
                           n \in damaged \/ <<p, n>> \in trouble
    BY DEF FailuresHaveReasons
  <2>1. Fetched(p) /\ Reported(p)
    BY DEF IInv, ProcInv
  <2> QED
    BY <2>1 DEF Fetched, Reported
<1> QED
  BY <1>1, SpecIInv, PTL
=============================================================================
