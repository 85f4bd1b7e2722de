--------------------------- MODULE SourceCacheProps ---------------------------
(***************************************************************************)
(* What a caller of the source cache may rely on.                           *)
(***************************************************************************)
EXTENDS SourceCache

(* The tree a pinned archive stands for, from the words of NEVER_EXTRACT and *)
(* DECLARED_INPUTS: a member is wanted unless it, or the file a link names,  *)
(* is on the one list or missing from the other.                             *)
Unwanted(n, p) ==
  \/ \E x \in NeverExtract : \E i \in 0 .. Len(p) : SubSeq(p, 1, i) = x
  \/ /\ n \in DOMAIN Declared /\ p \notin Declared[n].exact /\ p # License[n]
     /\ ~\E i \in 1 .. Len(p) - 1 : SubSeq(p, 1, i) \in Declared[n].under
Origin(m) == IF m.kind = "link" THEN m.target ELSE m.path
Wanted(n) == {m \in archive[n] : m.kind \in {"file", "link"}
                                   /\ ~Unwanted(n, m.path) /\ ~Unwanted(n, Origin(m))}
IsPinnedTree(n, e) ==
  /\ e.kind = "entry" /\ e.tarball = "pinned"
  /\ DOMAIN e.files = {m.path : m \in Wanted(n)}
  /\ \A m \in Wanted(n) : e.files[m.path] = Origin(m)

(* "New entries are staged on the same filesystem and published only after   *)
(* complete extraction": whoever is killed, whatever fails and whoever wins  *)
(* the rename, an entry nobody else changed is absent or whole.              *)
WholeOrAbsent ==
  \A n \in Names \ damaged : disk[n] = Absent \/ IsPinnedTree(n, disk[n])

(* NEVER_EXTRACT "Paths that are never written to disk": not in the cache,   *)
(* nor in a stage, nor in one left behind; not under another name either,    *)
(* through a link; and no directory to tell of them.                         *)
Clean(e) ==
  \A x \in NeverExtract :
    /\ \A q \in DOMAIN e.files : ~IsPrefix(x, q) /\ ~IsPrefix(x, e.files[q])
    /\ \A d \in e.dirs : ~IsPrefix(x, d)
NothingExcluded ==
  /\ \A p \in Procs : Clean(stage[p])
  /\ \A e \in leftover : Clean(e)
  /\ \A n \in Names \ damaged : Clean(disk[n])

(* What a call says is so, for every source nobody else changed meanwhile: a *)
(* fetch that returns, and a verify that says "verified", found the pinned   *)
(* tree, whatever state the cache was in before.                             *)
AnswersAreRight ==
  \A p \in Procs : pc[p] = "done" =>
    /\ call[p] = "fetch" /\ outcome[p] = "tree" /\ Name(p) \notin touched[p] =>
         IsPinnedTree(Name(p), disk[Name(p)])
    /\ call[p] = "verify" => \A n \in Names \ touched[p] :
         report[p][n] = "verified" => IsPinnedTree(n, disk[n])

(* The converse: a fetch fails, and a verify reports an entry as invalid,    *)
(* only if the network or the disk failed that very call at that very source *)
(* (an entry that could not be read is reported as one that does not hold),  *)
(* somebody changed the entry, or, for a fetch, the archive is one that is   *)
(* never extracted; a verify gives no report only if the disk failed it.  So *)
(* two fetches at once both succeed, a source that could not be read spoils  *)
(* the answer for no other, and what the extractor wrote the verifier        *)
(* accepts.                                                                  *)
FailuresHaveReasons ==
  \A p \in Procs : pc[p] = "done" =>
    /\ outcome[p] = "error" =>
         \/ <<p, Name(p)>> \in trouble
         \/ call[p] = "fetch" /\ (Name(p) \in damaged \/ ~Valid(archive[Name(p)]))
    /\ call[p] = "verify" => \A n \in Names :
         report[p][n] = "invalid" => n \in damaged \/ <<p, n>> \in trouble
=============================================================================
