--------------------------- MODULE Installer_proofs ---------------------------
(***************************************************************************)
(* Why nothing the person wrote is lost: the lock keeps two installers from *)
(* interleaving, so between a backup and the replacement only the person    *)
(* can touch the file, and the recheck sees whatever they did before it.    *)
(***************************************************************************)
EXTENDS InstallerProps, FiniteSetTheorems, SequenceTheorems, WellFoundedInduction, TLAPS

-----------------------------------------------------------------------------
(* Induction, as a fact about sets of numbers, and what it shows of Only. *)

(* Every set of numbers that is not empty has a smallest one.                *)
LEMMA SmallestNat ==
  ASSUME NEW T \in SUBSET Nat, T # {}
  PROVE  \E m \in T : \A k \in T : m <= k
<1> DEFINE R == OpToRel(<, Nat)
<1>1. IsWellFoundedOn(R, Nat)
  BY NatLessThanWellFounded
<1>2. \A x, y \in Nat : <<y, x>> \in R <=> y < x
  BY DEF OpToRel
<1> HIDE DEF R
<1>3. PICK m \in T : \A y \in T : ~ (<<y, m>> \in R)
  BY <1>1, WFMin
<1>4. ASSUME NEW k \in T PROVE m <= k
  <2>1. m \in Nat /\ k \in Nat
    OBVIOUS
  <2>2. ~ (k < m)
    BY <1>2, <1>3, <2>1
  <2> QED
    BY <2>1, <2>2
<1> QED
  BY <1>3, <1>4

(* A set with zero, and with the successor of every number in it, has every  *)
(* number.                                                                   *)
LEMMA SetInduction ==
  ASSUME NEW S, 0 \in S, \A n \in Nat : n \in S => n + 1 \in S
  PROVE  Nat \subseteq S
<1> SUFFICES ASSUME Nat \ S # {} PROVE FALSE
  OBVIOUS
<1>1. PICK m \in Nat \ S : \A k \in Nat \ S : m <= k
  BY SmallestNat
<1> QED
  BY <1>1

-----------------------------------------------------------------------------
(* Only, step by step. *)

Chain(s, T, m, g) ==
  \A n \in 0 .. m :
    g[n] = IF n = 0 THEN <<>> ELSE IF s[n] \in T THEN Append(g[n - 1], s[n]) ELSE g[n - 1]

(* The recursion in Only has a solution, and its steps are sequences.        *)
LEMMA ChainExists ==
  ASSUME NEW S, NEW s \in Seq(S), NEW T
  PROVE  \E g \in [0 .. Len(s) -> Seq(S \cap T)] : Chain(s, T, Len(s), g)
<1> DEFINE Good == {m \in Nat : m <= Len(s) =>
                      \E g \in [0 .. m -> Seq(S \cap T)] : Chain(s, T, m, g)}
<1>1. 0 \in Good
  <2>1. [n \in 0 .. 0 |-> <<>>] \in [0 .. 0 -> Seq(S \cap T)]
    OBVIOUS
  <2>2. Chain(s, T, 0, [n \in 0 .. 0 |-> <<>>])
    BY DEF Chain
  <2> QED
    BY <2>1, <2>2
<1>2. ASSUME NEW m \in Nat, m \in Good PROVE m + 1 \in Good
  <2> SUFFICES ASSUME m + 1 <= Len(s)
               PROVE  \E g \in [0 .. m + 1 -> Seq(S \cap T)] : Chain(s, T, m + 1, g)
    OBVIOUS
  <2>1. PICK g \in [0 .. m -> Seq(S \cap T)] : Chain(s, T, m, g)
    BY <1>2
  <2>2. g[m] \in Seq(S \cap T) /\ s[m + 1] \in S
    BY <2>1
  <2> DEFINE e == IF s[m + 1] \in T THEN Append(g[m], s[m + 1]) ELSE g[m]
  <2>3. e \in Seq(S \cap T)
    BY <2>2
  <2> DEFINE h == [n \in 0 .. m + 1 |-> IF n = m + 1 THEN e ELSE g[n]]
  <2>4. h \in [0 .. m + 1 -> Seq(S \cap T)]
    BY <2>1, <2>3
  <2>5. ASSUME NEW n \in 0 .. m + 1
        PROVE  h[n] = IF n = 0 THEN <<>>
                      ELSE IF s[n] \in T THEN Append(h[n - 1], s[n]) ELSE h[n - 1]
    <3>1. CASE n = m + 1
      <4>1. h[n] = e /\ h[n - 1] = g[m] /\ n # 0
        BY <3>1
      <4> QED
        BY <3>1, <4>1
    <3>2. CASE n # m + 1
      <4>1. n \in 0 .. m /\ h[n] = g[n] /\ (n # 0 => h[n - 1] = g[n - 1])
        BY <3>2
      <4> QED
        BY <2>1, <4>1 DEF Chain
    <3> QED
      BY <3>1, <3>2
  <2>6. Chain(s, T, m + 1, h)
    BY <2>5 DEF Chain
  <2> QED
    BY <2>4, <2>6
<1>3. Nat \subseteq Good
  <2> HIDE DEF Good
  <2> QED
    BY <1>1, <1>2, SetInduction
<1>4. Len(s) \in Nat
  OBVIOUS
<1> QED
  BY <1>3, <1>4

(* It has one solution only.                                                 *)
LEMMA ChainUnique ==
  ASSUME NEW s, NEW T, NEW m \in Nat, NEW g, NEW h, Chain(s, T, m, g), Chain(s, T, m, h)
  PROVE  \A n \in 0 .. m : g[n] = h[n]
<1> DEFINE Good == {n \in Nat : n <= m => g[n] = h[n]}
<1>1. 0 \in Good
  BY DEF Chain
<1>2. ASSUME NEW n \in Nat, n \in Good PROVE n + 1 \in Good
  <2> SUFFICES ASSUME n + 1 <= m PROVE g[n + 1] = h[n + 1]
    OBVIOUS
  <2>1. n + 1 \in 0 .. m /\ n + 1 # 0 /\ (n + 1) - 1 = n /\ g[n] = h[n]
    BY <1>2
  <2>2. /\ g[n + 1] = IF s[n + 1] \in T THEN Append(g[n], s[n + 1]) ELSE g[n]
        /\ h[n + 1] = IF s[n + 1] \in T THEN Append(h[n], s[n + 1]) ELSE h[n]
    BY <2>1 DEF Chain
  <2> QED
    BY <2>1, <2>2
<1>3. Nat \subseteq Good
  <2> HIDE DEF Good
  <2> QED
    BY <1>1, <1>2, SetInduction
<1> QED
  BY <1>3

(* Only is where the recursion ends.                                         *)
LEMMA OnlyChain ==
  ASSUME NEW S, NEW s \in Seq(S), NEW T, NEW g, Chain(s, T, Len(s), g)
  PROVE  Only(s, T) = g[Len(s)] /\ Only(s, T) \in Seq(S \cap T)
<1> DEFINE F(f) == f = [n \in 0 .. Len(s) |->
                         IF n = 0 THEN <<>>
                         ELSE IF s[n] \in T THEN Append(f[n - 1], s[n]) ELSE f[n - 1]]
           first == CHOOSE f : F(f)
<1>1. PICK h \in [0 .. Len(s) -> Seq(S \cap T)] : Chain(s, T, Len(s), h)
  BY ChainExists
<1>2. F(h)
  BY <1>1 DEF Chain
<1>3. F(first)
  BY <1>2
<1>4. Chain(s, T, Len(s), first)
  BY <1>3 DEF Chain
<1>5. Only(s, T) = first[Len(s)]
  BY DEF Only
<1>6. Len(s) \in Nat /\ Len(s) \in 0 .. Len(s)
  OBVIOUS
<1>7. first[Len(s)] = g[Len(s)] /\ first[Len(s)] = h[Len(s)]
  <2> HIDE DEF first
  <2> QED
    BY <1>1, <1>4, <1>6, ChainUnique
<1>8. h[Len(s)] \in Seq(S \cap T)
  BY <1>1, <1>6
<1> QED
  BY <1>5, <1>7, <1>8

(* Nothing is chosen from an empty list, and what is chosen from a longer    *)
(* one is what is chosen from all but the last, and the last if it is in the *)
(* set.                                                                      *)
LEMMA OnlyEmpty ==
  ASSUME NEW T
  PROVE  Only(<<>>, T) = <<>>
<1>1. <<>> \in Seq({}) /\ Len(<<>>) = 0
  OBVIOUS
<1>2. Chain(<<>>, T, 0, [n \in 0 .. 0 |-> <<>>])
  BY DEF Chain
<1> QED
  BY <1>1, <1>2, OnlyChain

(* As OnlyEmpty says.                                                        *)
LEMMA OnlyAppend ==
  ASSUME NEW S, NEW s \in Seq(S), NEW x \in S, NEW T
  PROVE  Only(Append(s, x), T) = IF x \in T THEN Append(Only(s, T), x) ELSE Only(s, T)
<1> DEFINE t == Append(s, x)
<1>1. t \in Seq(S) /\ Len(t) = Len(s) + 1 /\ t[Len(s) + 1] = x /\ Len(s) \in Nat
      /\ \A n \in 1 .. Len(s) : t[n] = s[n]
  OBVIOUS
<1>2. PICK g \in [0 .. Len(t) -> Seq(S \cap T)] : Chain(t, T, Len(t), g)
  BY <1>1, ChainExists
<1>3. Chain(s, T, Len(s), g)
  <2> SUFFICES ASSUME NEW n \in 0 .. Len(s)
               PROVE  g[n] = IF n = 0 THEN <<>>
                             ELSE IF s[n] \in T THEN Append(g[n - 1], s[n]) ELSE g[n - 1]
    BY DEF Chain
  <2>1. n \in 0 .. Len(t) /\ (n # 0 => t[n] = s[n])
    BY <1>1
  <2> QED
    BY <1>2, <2>1 DEF Chain
<1>4. Only(s, T) = g[Len(s)] /\ Only(t, T) = g[Len(s) + 1]
  BY <1>1, <1>2, <1>3, OnlyChain
<1>5. g[Len(s) + 1] = IF x \in T THEN Append(g[Len(s)], x) ELSE g[Len(s)]
  <2>1. Len(s) + 1 \in 0 .. Len(t) /\ Len(s) + 1 # 0 /\ (Len(s) + 1) - 1 = Len(s)
    BY <1>1
  <2> QED
    BY <1>1, <1>2, <2>1 DEF Chain
<1> QED
  BY <1>4, <1>5

(* What is chosen is a list of elements of the set.                          *)
LEMMA OnlyTyped ==
  ASSUME NEW S, NEW s \in Seq(S), NEW T
  PROVE  Only(s, T) \in Seq(S \cap T)
<1>1. PICK g \in [0 .. Len(s) -> Seq(S \cap T)] : Chain(s, T, Len(s), g)
  BY ChainExists
<1> QED
  BY <1>1, OnlyChain
-----------------------------------------------------------------------------
(* Induction over lists, and what it shows of a comprehension. *)

(* A set with the empty list, and with every list one longer than a list in  *)
(* it, has every list.                                                       *)
LEMMA ListInduction ==
  ASSUME NEW S, NEW P, <<>> \in P, \A s \in Seq(S) : \A x \in S : s \in P => Append(s,
  x) \in P
  PROVE  Seq(S) \subseteq P
<1> DEFINE Good == {n \in Nat : \A s \in Seq(S) : Len(s) = n => s \in P}
<1>1. 0 \in Good
  <2>1. \A s \in Seq(S) : Len(s) = 0 => s = <<>>
    OBVIOUS
  <2> QED
    BY <2>1
<1>2. ASSUME NEW n \in Nat, n \in Good PROVE n + 1 \in Good
  <2> SUFFICES ASSUME NEW s \in Seq(S), Len(s) = n + 1 PROVE s \in P
    OBVIOUS
  <2> DEFINE t == SubSeq(s, 1, n)
  <2>1. t \in Seq(S) /\ Len(t) = n /\ s[n + 1] \in S
    OBVIOUS
  <2>2. \A i \in 1 .. n : t[i] = s[i]
    OBVIOUS
  <2> HIDE DEF t
  <2>3. s = Append(t, s[n + 1])
    BY <2>1, <2>2
  <2>4. t \in P
    BY <1>2, <2>1
  <2> QED
    BY <2>1, <2>3, <2>4
<1>3. Nat \subseteq Good
  <2> HIDE DEF Good
  <2> QED
    BY <1>1, <1>2, SetInduction
<1>4. \A s \in Seq(S) : Len(s) \in Nat
  OBVIOUS
<1> QED
  BY <1>3, <1>4

(* A list whose elements are all in the set is all chosen.                   *)
LEMMA OnlyAll ==
  ASSUME NEW S, NEW T, NEW s \in Seq(S), \A i \in 1 .. Len(s) : s[i] \in T
  PROVE  Only(s, T) = s
<1> DEFINE P == {u \in Seq(S) : (\A i \in 1 .. Len(u) : u[i] \in T) => Only(u, T) = u}
<1>1. <<>> \in P
  BY OnlyEmpty
<1>2. ASSUME NEW u \in Seq(S), NEW x \in S, u \in P PROVE Append(u, x) \in P
  <2>0. Append(u, x) \in Seq(S)
    OBVIOUS
  <2> SUFFICES ASSUME \A i \in 1 .. Len(Append(u, x)) : Append(u, x)[i] \in T
               PROVE  Only(Append(u, x), T) = Append(u, x)
    BY <2>0
  <2>1. /\ Len(u) \in Nat /\ Len(Append(u, x)) = Len(u) + 1 /\ Append(u, x)[Len(u) + 1] = x
        /\ \A i \in 1 .. Len(u) : Append(u, x)[i] = u[i]
    OBVIOUS
  <2>2. x \in T /\ \A i \in 1 .. Len(u) : u[i] \in T
    BY <2>1
  <2>3. Only(u, T) = u
    BY <1>2, <2>2
  <2> QED
    BY <2>2, <2>3, OnlyAppend
<1>3. Seq(S) \subseteq P
  <2> HIDE DEF P
  <2> QED
    BY <1>1, <1>2, ListInduction
<1> QED
  BY <1>3

(* Applying a function to the elements of a list, one more at a time.        *)
LEMMA MapAppend ==
  ASSUME NEW S, NEW R, NEW f \in [S -> R], NEW k \in Seq(S), NEW x \in S
  PROVE  /\ [i \in DOMAIN k |-> f[k[i]]] \in Seq(R)
         /\ Append([i \in DOMAIN k |-> f[k[i]]], f[x])
              = [i \in DOMAIN Append(k, x) |-> f[Append(k, x)[i]]]
<1> DEFINE m == [i \in DOMAIN k |-> f[k[i]]]
           n == [i \in DOMAIN Append(k, x) |-> f[Append(k, x)[i]]]
<1>1. Len(k) \in Nat /\ DOMAIN k = 1 .. Len(k) /\ \A i \in 1 .. Len(k) : k[i] \in S
  OBVIOUS
<1>2. /\ Append(k, x) \in Seq(S) /\ DOMAIN Append(k, x) = 1 .. Len(k) + 1
      /\ Append(k, x)[Len(k) + 1] = x /\ \A i \in 1 .. Len(k) : Append(k, x)[i] = k[i]
  OBVIOUS
<1>3. m \in Seq(R) /\ Len(m) = Len(k) /\ \A i \in 1 .. Len(k) : m[i] = f[k[i]]
  <2>1. m \in [1 .. Len(k) -> R]
    BY <1>1
  <2>2. m \in Seq(R) /\ Len(m) = Len(k)
    BY <1>1, <2>1
  <2> QED
    BY <1>1, <2>2
<1>4. n \in Seq(R) /\ Len(n) = Len(k) + 1 /\ \A i \in 1 .. Len(k) + 1 : n[i] = f[Append(k, x)[i]]
  <2>1. \A i \in 1 .. Len(k) + 1 : Append(k, x)[i] \in S
    BY <1>2
  <2>2. n \in [1 .. Len(k) + 1 -> R]
    BY <1>2, <2>1
  <2>3. n \in Seq(R) /\ Len(n) = Len(k) + 1
    BY <1>1, <2>2
  <2> QED
    BY <1>2, <2>3
<1>5. f[x] \in R
  OBVIOUS
<1> HIDE DEF m, n
<1>6. /\ Append(m, f[x]) \in Seq(R) /\ Len(Append(m, f[x])) = Len(k) + 1
      /\ Append(m, f[x])[Len(k) + 1] = f[x]
      /\ \A i \in 1 .. Len(k) : Append(m, f[x])[i] = m[i]
  BY <1>3, <1>5
<1>7. \A i \in 1 .. Len(k) + 1 : Append(m, f[x])[i] = n[i]
  BY <1>1, <1>2, <1>3, <1>4, <1>6
<1>8. Append(m, f[x]) = n
  BY <1>1, <1>4, <1>6, <1>7, SeqEqual
<1> QED
  BY <1>3, <1>8 DEF m, n

-----------------------------------------------------------------------------
(* The invariant. *)

Holding == Working \cup {"leaving"}

JobsOK == DOMAIN job = Procs

(* A process past Acquire holds the lock.                                     *)
Exclusive == \A p \in Procs : job[p].stage \in Holding => lock = p

BackedUp(p) ==
  job[p].stage \in {"backed_up", "receipted", "rechecked"} =>
    job[p].before \in backups \cup {Absent}
Fresh(p) == job[p].stage = "rechecked" /\ raced = "no" => settings = job[p].before

IInv == /\ JobsOK
        /\ Exclusive
        /\ \A p \in Procs : BackedUp(p) /\ Fresh(p)
        /\ Recoverable

-----------------------------------------------------------------------------
(* Every step changes the job of one process at most.                         *)
Quiet(p) == \A q \in Procs \ {p} : job'[q] = job[q]

LEMMA BecomesJob ==
  ASSUME JobsOK, NEW p \in Procs, NEW j, Becomes(p, j)
  PROVE  JobsOK' /\ Quiet(p) /\ job'[p] = j
  BY DEF JobsOK, Becomes, Quiet

(* A step that moves p to another stage.                                      *)
Moves(p, stage) ==
  JobsOK' /\ Quiet(p) /\ job'[p].stage = stage /\ job'[p].before = job[p].before

LEMMA GoesMoves ==
  ASSUME JobsOK, NEW p \in Procs, NEW stage, Goes(p, stage)
  PROVE  Moves(p, stage)
  BY BecomesJob DEF Goes, GoesWith, Job, Moves

LEMMA NewJobStage ==
  ASSUME JobsOK, NEW p \in Procs, NEW cmd, NEW confirm, NEW spec, NEW stage,
         Becomes(p, NewJob(stage, cmd, confirm, spec))
  PROVE  JobsOK' /\ Quiet(p) /\ job'[p].stage = stage
  BY BecomesJob DEF NewJob, Job

(* A step of p that keeps the files, the lock and the person apart.           *)
LEMMA Moving ==
  ASSUME IInv, NEW p \in Procs, Quiet(p),
         JobsOK',
         UNCHANGED <<settings, lock, written, raced>>, backups \subseteq backups',
         job'[p].stage \in Holding => lock = p,
         BackedUp(p)', Fresh(p)'
  PROVE  IInv'
<1>2. Exclusive'
  BY DEF IInv, Exclusive, Quiet
<1>3. \A q \in Procs : BackedUp(q)' /\ Fresh(q)'
  BY DEF IInv, BackedUp, Fresh, Quiet
<1>4. Recoverable'
  BY DEF IInv, Recoverable
<1> QED
  BY <1>2, <1>3, <1>4 DEF IInv

LEMMA InitIInv == Init => IInv
<1> SUFFICES ASSUME Init PROVE IInv
  OBVIOUS
<1>1. \A p \in Procs : job[p] = Idle
  BY DEF Init
<1>2. JobsOK /\ \A p \in Procs : job[p].stage = "idle"
  BY <1>1 DEF Init, JobsOK, Idle, NewJob, Job
<1> QED
  BY <1>2 DEF Init, IInv, Exclusive, Holding, Working, BackedUp, Fresh, Recoverable

-----------------------------------------------------------------------------
LEMMA StepIInv == IInv /\ [Next]_vars => IInv'
<1> SUFFICES ASSUME IInv, [Next]_vars PROVE IInv'
  OBVIOUS
<1>j. JobsOK
  BY DEF IInv
<1>1. ASSUME NEW p \in Procs, Begin(p) PROVE IInv'
  <2>1. Quiet(p) /\ JobsOK' /\ job'[p].stage = "begin"
    BY <1>1, <1>j, NewJobStage DEF Begin
  <2> QED
    BY <1>1, <2>1, Moving DEF Begin, Person, BackedUp, Fresh, Holding, Working
<1>2. ASSUME NEW p \in Procs, Acquire(p) PROVE IInv'
  <2>1. UNCHANGED <<settings, backups, written, raced>>
    BY <1>2 DEF Acquire, Person
  <2>2. CASE lock = "free" /\ lock' = p /\ Goes(p, "locked")
    <3>1. Moves(p, "locked")
      BY <1>j, <2>2, GoesMoves
    <3>2. \A q \in Procs : job[q].stage \notin Holding
      BY <2>2, ProcsAssumption DEF IInv, Exclusive, ProcsAssumption
    <3>3. JobsOK' /\ Exclusive'
      BY <1>j, <2>2, <3>1, <3>2 DEF JobsOK, Exclusive, Moves, Quiet
    <3>4. \A q \in Procs : BackedUp(q)' /\ Fresh(q)'
      BY <2>1, <3>1 DEF IInv, BackedUp, Fresh, Moves, Quiet
    <3> QED
      BY <2>1, <3>3, <3>4 DEF IInv, Recoverable
  <2>3. CASE Becomes(p, Idle) /\ UNCHANGED lock
    <3>1. Quiet(p) /\ JobsOK' /\ job'[p].stage = "idle"
      BY <1>j, <2>3, NewJobStage DEF Idle
    <3> QED
      BY <2>1, <2>3, <3>1, Moving DEF BackedUp, Fresh, Holding, Working
  <2> QED
    BY <1>2, <2>2, <2>3 DEF Acquire, TryLock
<1>3. ASSUME NEW p \in Procs, Read(p) PROVE IInv'
  <2>1. Quiet(p) /\ JobsOK'
        /\ job'[p].stage \in {"leaving", "read"}
    BY <1>3, <1>j, BecomesJob DEF Read, GoesWith, Job
  <2>2. lock = p
    BY <1>3 DEF Read, IInv, Exclusive, Holding, Working
  <2> QED
    BY <1>3, <2>1, <2>2, Moving DEF Read, Person, BackedUp, Fresh
<1>4. ASSUME NEW p \in Procs, Propose(p) PROVE IInv'
  <2>1. Quiet(p) /\ JobsOK'
        /\ job'[p].stage \in {"leaving", "proposed"}
    BY <1>4, <1>j, BecomesJob DEF Propose, GoesWith, Job
  <2>2. lock = p
    BY <1>4 DEF Propose, IInv, Exclusive, Holding, Working
  <2> QED
    BY <1>4, <2>1, <2>2, Moving DEF Propose, Person, BackedUp, Fresh
<1>5. ASSUME NEW p \in Procs, Check(p) PROVE IInv'
  <2>1. \E stage \in {"checked", "leaving"} : Moves(p, stage)
    BY <1>5, <1>j, GoesMoves DEF Check
  <2>2. lock = p
    BY <1>5 DEF Check, IInv, Exclusive, Holding, Working
  <2> QED
    BY <1>5, <2>1, <2>2, Moving DEF Check, Person, Moves, BackedUp, Fresh
<1>6. ASSUME NEW p \in Procs, Backup(p) PROVE IInv'
  <2>1. Moves(p, "backed_up")
    BY <1>6, <1>j, GoesMoves DEF Backup
  <2>2. lock = p
    BY <1>6 DEF Backup, IInv, Exclusive, Holding, Working
  <2> QED
    BY <1>6, <2>1, <2>2, Moving DEF Backup, Person, Moves, BackedUp, Fresh
<1>7. ASSUME NEW p \in Procs, WriteReceipt(p) PROVE IInv'
  <2>1. Moves(p, "receipted")
    BY <1>7, <1>j, GoesMoves DEF WriteReceipt
  <2>2. lock = p
    BY <1>7 DEF WriteReceipt, IInv, Exclusive, Holding, Working
  <2> QED
    BY <1>7, <2>1, <2>2, Moving DEF WriteReceipt, Person, Moves, BackedUp, Fresh, IInv
<1>8. ASSUME NEW p \in Procs, Recheck(p) PROVE IInv'
  <2>1. \/ Moves(p, "leaving")
        \/ Moves(p, "rechecked") /\ settings = job[p].before
    BY <1>8, <1>j, GoesMoves DEF Recheck, Unchanged
  <2>2. lock = p
    BY <1>8 DEF Recheck, IInv, Exclusive, Holding, Working
  <2> QED
    BY <1>8, <2>1, <2>2, Moving DEF Recheck, Person, Moves, BackedUp, Fresh, IInv
<1>9. ASSUME NEW p \in Procs, Replace(p) PROVE IInv'
  <2>1. Moves(p, "leaving") /\ UNCHANGED <<backups, lock, written, raced>>
    BY <1>9, <1>j, GoesMoves DEF Replace, Person
  <2>2. lock = p /\ \A q \in Procs \ {p} : job[q].stage \notin Holding
    BY <1>9 DEF Replace, IInv, Exclusive, Holding, Working
  <2>3. JobsOK' /\ Exclusive'
    BY <1>j, <2>1, <2>2 DEF JobsOK, Exclusive, Moves, Quiet
  <2>4. \A q \in Procs : BackedUp(q)' /\ Fresh(q)'
    BY <2>1, <2>2 DEF IInv, BackedUp, Fresh, Moves, Quiet, Holding, Working
  <2>5. Recoverable'
    BY <1>9, <2>1 DEF Replace, IInv, BackedUp, Fresh, Recoverable
  <2> QED
    BY <2>3, <2>4, <2>5 DEF IInv
<1>10. ASSUME NEW p \in Procs, Leave(p) PROVE IInv'
  <2>1. Quiet(p) /\ JobsOK' /\ job'[p].stage = "idle"
    BY <1>10, <1>j, NewJobStage DEF Leave, Idle
  <2>2. lock = p /\ \A q \in Procs \ {p} : job[q].stage \notin Holding
    BY <1>10 DEF Leave, IInv, Exclusive, Holding, Working
  <2>3. JobsOK' /\ Exclusive'
    BY <1>j, <2>1, <2>2 DEF JobsOK, Exclusive, Quiet, Holding, Working
  <2>4. \A q \in Procs : BackedUp(q)' /\ Fresh(q)'
    BY <1>10, <2>1 DEF Leave, Person, IInv, BackedUp, Fresh, Quiet
  <2> QED
    BY <1>10, <2>3, <2>4 DEF Leave, Person, IInv, Recoverable
<1>11. ASSUME NEW p \in Procs, Raise(p) PROVE IInv'
  <2>1. Moves(p, "leaving")
    BY <1>11, <1>j, GoesMoves DEF Raise, AfterError
  <2>2. lock = p
    BY <1>11 DEF Raise, IInv, Exclusive, Holding
  <2> QED
    BY <1>11, <2>1, <2>2, Moving DEF Raise, Person, Moves, BackedUp, Fresh
<1>12. ASSUME NEW p \in Procs, Crash(p) PROVE IInv'
  <2>1. Quiet(p) /\ JobsOK' /\ job'[p].stage = "idle"
    BY <1>12, <1>j, NewJobStage DEF Crash, Idle
  <2>2. JobsOK' /\ Exclusive'
    BY <1>12, <1>j, <2>1 DEF Crash, IInv, JobsOK, Exclusive, Quiet, Holding, Working
  <2>3. \A q \in Procs : BackedUp(q)' /\ Fresh(q)'
    BY <1>12, <2>1 DEF Crash, Person, IInv, BackedUp, Fresh, Quiet
  <2> QED
    BY <1>12, <2>2, <2>3 DEF Crash, Person, IInv, Recoverable
<1>13. CASE RemoveLock
  <2>1. \A q \in Procs : job[q].stage \notin Holding
    BY <1>13, ProcsAssumption DEF RemoveLock, IInv, Exclusive, ProcsAssumption
  <2> QED
    BY <1>13, <2>1 DEF RemoveLock, Person, IInv, JobsOK, Exclusive, BackedUp, Fresh,
       Recoverable
<1>14. CASE Edit
  <2>1. UNCHANGED <<backups, lock, job>> /\ settings' = written'
    BY <1>14 DEF Edit
  <2>2. \A q \in Procs : Fresh(q)'
    BY <1>14 DEF Edit, Fresh
  <2> QED
    BY <2>1, <2>2 DEF IInv, JobsOK, Exclusive, BackedUp, Recoverable
<1>15. CASE UNCHANGED vars
  BY <1>15 DEF vars, IInv, JobsOK, Exclusive, BackedUp, Fresh, Recoverable
<1> QED
  BY <1>1, <1>2, <1>3, <1>4, <1>5, <1>6, <1>7, <1>8, <1>9, <1>10, <1>11, <1>12, <1>13,
     <1>14, <1>15 DEF Next, Advance

(* "After backup": for any number of installers, kills and edits, what the    *)
(* person last wrote is the settings file or in a backup, as long as no edit  *)
(* came after a replacement's last look at the file.                          *)
THEOREM Recovery == Spec => []Recoverable
<1>1. IInv => Recoverable
  BY DEF IInv
<1> QED
  BY <1>1, InitIInv, StepIInv, PTL DEF Spec
-----------------------------------------------------------------------------
(* What the person last wrote, what an install with handler s makes of it,    *)
(* and the containers it then has to create.                                 *)
Old(d) == IF d = Absent THEN Empty ELSE d
Hooked(d, s) ==
  Doc("present", [e \in DOMAIN d.on \cup Events |->
                    IF e \in Events THEN Append(GroupsOf(d, e), Dedicated(s)) ELSE d.on[e]])
Made(d) == (Events \ DOMAIN d.on) \cup {c \in {"hooks"} : d.hooks = "absent"}

(* As long as the person keeps our handlers and the last race out of it, the  *)
(* file is what they wrote, or that with one handler of ours in each event    *)
(* and a receipt that says so.                                               *)
Untainted == raced = "no" /\ ~HasOwned(written)
Follows ==
  Untainted =>
    \/ settings \in {written, Old(written)}
    \/ /\ written # Invalid
       /\ \E s \in Specs : settings = Hooked(Old(written), s)
       /\ receipt = Made(Old(written))

Files == Docs \cup {Absent, Invalid}
TypeOK ==
  /\ settings \in Files /\ written \in Files
  /\ receipt \in (SUBSET Containers) \cup {NoReceipt}

(* A command holds the merge of the file it read, and while it holds the lock *)
(* only the person changes that file.                                        *)
Merging == Working \ {"locked", "read"}
Given(p) ==
  job[p].stage \in Working \cup {"begin"} =>
    job[p].cmd \in {"install", "uninstall"} /\ job[p].spec \in Specs
Readable(p) ==
  job[p].stage \in Working \ {"locked"} =>
    job[p].before \in Docs \cup {Absent} /\ settings \in {job[p].before, written}
MergedWith(j, created) ==
  /\ j.result = Merge(Old(j.before), j, created)
  /\ ~HasOwned(j.before) => created = {}
  /\ HasOwned(j.before) /\ settings = j.before /\ Untainted => created = Made(Old(written))
Merged(p) ==
  job[p].stage \in Merging => \E created \in SUBSET Containers : MergedWith(job[p], created)
Receipted(p) ==
  job[p].stage \in {"receipted", "rechecked"} /\ job[p].cmd = "install" =>
    receipt = job[p].result.created

Held(p) == Given(p) /\ Readable(p) /\ Merged(p) /\ Receipted(p)
FileInv == TypeOK /\ Follows /\ \A p \in Procs : Held(p)
-----------------------------------------------------------------------------
(* Groups and lists of groups. *)

(* A handler is ours or the person's.                                        *)
LEMMA TheirsAreForeign == Theirs = Foreign
BY HandlersAssumption DEF HandlersAssumption, Theirs, Owned, Handlers

Clean(g) == [g EXCEPT !.hooks = Only(@, Theirs)]

(* A group without our handlers has only the person's.                       *)
LEMMA CleanGroup ==
  ASSUME NEW g \in Groups
  PROVE  /\ Clean(g) \in Groups /\ Clean(g).kind = g.kind
         /\ Clean(g).hooks = Only(g.hooks, Foreign) /\ Clean(g).hooks \in Seq(Foreign)
<1>1. g.hooks \in Seq(Handlers)
  BY DEF Groups
<1>2. Only(g.hooks, Foreign) \in Seq(Handlers \cap Foreign)
  BY <1>1, OnlyTyped
<1>3. Handlers \cap Foreign = Foreign
  BY DEF Handlers
<1>4. Seq(Foreign) \subseteq Seq(Handlers)
  BY DEF Handlers
<1>5. PICK h : h = Only(g.hooks, Foreign)
  OBVIOUS
<1>6. Clean(g) = [g EXCEPT !.hooks = h]
  BY <1>5, TheirsAreForeign DEF Clean
<1>7. h \in Seq(Foreign) /\ h \in Seq(Handlers)
  BY <1>2, <1>3, <1>4, <1>5
<1> QED
  BY <1>5, <1>6, <1>7 DEF Groups

(* A function of no index is the empty list.                                 *)
LEMMA EmptyMap ==
  ASSUME NEW f, DOMAIN f = DOMAIN <<>>, f = [i \in DOMAIN f |-> f[i]]
  PROVE  f = <<>>
<1>1. f \in [1 .. 0 -> {}]
  OBVIOUS
<1>2. f \in Seq({}) /\ Len(f) = 0
  BY <1>1
<1> QED
  BY <1>2

(* Clearing a list of groups, one group more at a time.                      *)
LEMMA ClearedEmpty == Cleared(<<>>) = <<>>
<1>1. Only(<<>>, {g \in Groups : ~Dropped(g)}) = <<>>
  BY OnlyEmpty
<1>2. [i \in DOMAIN <<>> |-> [(<<>>)[i] EXCEPT !.hooks = Only(@, Theirs)]] = <<>>
  BY EmptyMap
<1> QED
  BY <1>1, <1>2 DEF Cleared

(* As ClearedEmpty says.                                                     *)
LEMMA ClearedAppend ==
  ASSUME NEW groups \in Seq(Groups), NEW g \in Groups
  PROVE  /\ Cleared(groups) \in Seq(Groups)
         /\ Cleared(Append(groups, g))
              = IF Dropped(g) THEN Cleared(groups) ELSE Append(Cleared(groups), Clean(g))
<1> DEFINE T == {x \in Groups : ~Dropped(x)}
           f == [x \in Groups |-> Clean(x)]
           On(k) == [i \in DOMAIN k |-> f[k[i]]]
<1>1. f \in [Groups -> Groups]
  BY CleanGroup
<1>2. ASSUME NEW k \in Seq(Groups)
      PROVE  [i \in DOMAIN k |-> [k[i] EXCEPT !.hooks = Only(@, Theirs)]] = On(k)
  <2>1. \A i \in DOMAIN k : k[i] \in Groups
    OBVIOUS
  <2> QED
    BY <2>1 DEF Clean
<1> HIDE DEF T
<1>3. \A s \in Seq(Groups) : Only(s, T) \in Seq(Groups)
  <2> SUFFICES ASSUME NEW s \in Seq(Groups) PROVE Only(s, T) \in Seq(Groups)
    OBVIOUS
  <2>1. Only(s, T) \in Seq(Groups \cap T)
    BY OnlyTyped
  <2>2. Seq(Groups \cap T) \subseteq Seq(Groups)
    OBVIOUS
  <2> QED
    BY <2>1, <2>2
<1>4. \A s \in Seq(Groups) : Cleared(s) = On(Only(s, T))
  BY <1>2, <1>3 DEF Cleared, T
<1>5. PICK k \in Seq(Groups) : k = Only(groups, T)
  BY <1>3
<1>6. Append(groups, g) \in Seq(Groups)
  OBVIOUS
<1>7. g \in T <=> ~Dropped(g)
  BY DEF T
<1>8. Only(Append(groups, g), T) = IF Dropped(g) THEN k ELSE Append(k, g)
  BY <1>5, <1>7, OnlyAppend
<1> HIDE DEF f
<1>9. Append(On(k), f[g]) = On(Append(k, g))
  BY <1>1, MapAppend
<1>t. On(k) \in Seq(Groups)
  BY <1>1, MapAppend
<1>10. f[g] = Clean(g)
  BY DEF f
<1> HIDE DEF On
<1> QED
  BY <1>4, <1>5, <1>6, <1>8, <1>9, <1>10, <1>t

(* The person's groups among a list of groups, the same way.                 *)
TheirOf(groups) ==
  [i \in DOMAIN Only(groups, {g \in Groups : HasTheirs(g)}) |->
     TheirView(Only(groups, {g \in Groups : HasTheirs(g)})[i])]

LEMMA TheirEmpty == TheirOf(<<>>) = <<>>
<1>1. Only(<<>>, {g \in Groups : HasTheirs(g)}) = <<>>
  BY OnlyEmpty
<1>2. [i \in DOMAIN <<>> |-> TheirView((<<>>)[i])] = <<>>
  BY EmptyMap
<1> QED
  BY <1>1, <1>2 DEF TheirOf

(* As TheirEmpty says.                                                       *)
LEMMA TheirAppend ==
  ASSUME NEW groups \in Seq(Groups), NEW g \in Groups
  PROVE  TheirOf(Append(groups, g))
           = IF HasTheirs(g) THEN Append(TheirOf(groups), TheirView(g)) ELSE TheirOf(groups)
<1> DEFINE T == {x \in Groups : HasTheirs(x)}
           R == {TheirView(x) : x \in Groups}
           f == [x \in Groups |-> TheirView(x)]
           On(k) == [i \in DOMAIN k |-> f[k[i]]]
<1>1. f \in [Groups -> R]
  OBVIOUS
<1>2. ASSUME NEW k \in Seq(Groups)
      PROVE  [i \in DOMAIN k |-> TheirView(k[i])] = On(k)
  <2>1. \A i \in DOMAIN k : k[i] \in Groups
    OBVIOUS
  <2> QED
    BY <2>1
<1> HIDE DEF T, R
<1>3. \A s \in Seq(Groups) : Only(s, T) \in Seq(Groups)
  <2> SUFFICES ASSUME NEW s \in Seq(Groups) PROVE Only(s, T) \in Seq(Groups)
    OBVIOUS
  <2>1. Only(s, T) \in Seq(Groups \cap T)
    BY OnlyTyped
  <2>2. Seq(Groups \cap T) \subseteq Seq(Groups)
    OBVIOUS
  <2> QED
    BY <2>1, <2>2
<1>4. \A s \in Seq(Groups) : TheirOf(s) = On(Only(s, T))
  BY <1>2, <1>3 DEF TheirOf, T
<1>5. PICK k \in Seq(Groups) : k = Only(groups, T)
  BY <1>3
<1>6. Append(groups, g) \in Seq(Groups)
  OBVIOUS
<1>7. g \in T <=> HasTheirs(g)
  BY DEF T
<1>8. Only(Append(groups, g), T) = IF HasTheirs(g) THEN Append(k, g) ELSE k
  BY <1>5, <1>7, OnlyAppend
<1> HIDE DEF f
<1>9. Append(On(k), f[g]) = On(Append(k, g))
  BY <1>1, MapAppend
<1>10. f[g] = TheirView(g)
  BY DEF f
<1> HIDE DEF On
<1> QED
  BY <1>4, <1>5, <1>6, <1>8, <1>9, <1>10
(* No handler of ours.                                                       *)
Free(g) == \A j \in 1 .. Len(g.hooks) : g.hooks[j] \notin Specs
NoneOwned(groups) == \A i \in 1 .. Len(groups) : Free(groups[i])

LEMMA OwnedNowhere ==
  ASSUME NEW groups \in Seq(Groups)
  PROVE  OwnedAt(groups) = {} <=> NoneOwned(groups)
<1>1. DOMAIN groups = 1 .. Len(groups)
  OBVIOUS
<1>2. \A i \in 1 .. Len(groups) : DOMAIN groups[i].hooks = 1 .. Len(groups[i].hooks)
  BY DEF Groups
<1>3. \A i \in 1 .. Len(groups) :
        Free(groups[i]) <=> {k \in DOMAIN groups[i].hooks : Owned(groups[i].hooks[k])} = {}
  BY <1>2 DEF Free, Owned
<1>4. OwnedAt(groups) = {} <=>
        \A i \in DOMAIN groups : {k \in DOMAIN groups[i].hooks : Owned(groups[i].hooks[k])} = {}
  <2> DEFINE At(i) == {k \in DOMAIN groups[i].hooks : Owned(groups[i].hooks[k])}
  <2>1. OwnedAt(groups) = UNION {{<<i, j>> : j \in At(i)} : i \in DOMAIN groups}
    BY DEF OwnedAt
  <2> HIDE DEF At
  <2>2. \A i \in DOMAIN groups : \A j \in At(i) : <<i, j>> \in OwnedAt(groups)
    <3>1. \A i \in DOMAIN groups : \A j \in At(i) : <<i, j>> \in {<<i, k>> : k \in At(i)}
      OBVIOUS
    <3> QED
      BY <2>1, <3>1
  <2>3. \A x \in OwnedAt(groups) : \E i \in DOMAIN groups : \E j \in At(i) : x = <<i, j>>
    BY <2>1
  <2>4. OwnedAt(groups) = {} <=> \A i \in DOMAIN groups : At(i) = {}
    BY <2>2, <2>3
  <2> QED
    BY <2>4 DEF At
<1> QED
  BY <1>1, <1>3, <1>4 DEF NoneOwned

(* One group more.                                                           *)
LEMMA NoneOwnedAppend ==
  ASSUME NEW groups \in Seq(Groups), NEW g \in Groups
  PROVE  NoneOwned(Append(groups, g)) <=> NoneOwned(groups) /\ Free(g)
<1>1. /\ Len(groups) \in Nat /\ Len(Append(groups, g)) = Len(groups) + 1
      /\ Append(groups, g)[Len(groups) + 1] = g
      /\ \A i \in 1 .. Len(groups) : Append(groups, g)[i] = groups[i]
  OBVIOUS
<1>2. \A i \in 1 .. Len(groups) + 1 : i \in 1 .. Len(groups) \/ i = Len(groups) + 1
  BY <1>1
<1> QED
  BY <1>1, <1>2 DEF NoneOwned

(* The group an install adds.                                                *)
LEMMA DedicatedGroup ==
  ASSUME NEW s \in Specs
  PROVE  /\ Dedicated(s) \in Groups /\ ~Free(Dedicated(s))
         /\ Dropped(Dedicated(s)) /\ ~HasTheirs(Dedicated(s))
<1>1. Dedicated(s).kind = "star" /\ Dedicated(s).hooks = <<s>>
  BY DEF Dedicated
<1>2. <<s>> \in Seq(Handlers) /\ Len(<<s>>) = 1 /\ (<<s>>)[1] = s /\ DOMAIN <<s>> = 1 .. 1
  BY DEF Handlers
<1>3. Dedicated(s) \in Groups
  BY <1>2 DEF Dedicated, Groups
<1>4. ~Free(Dedicated(s))
  BY <1>1, <1>2 DEF Free
<1>5. \A j \in DOMAIN <<s>> : (<<s>>)[j] = s
  BY <1>2
<1>6. s \notin Foreign
  BY HandlersAssumption DEF HandlersAssumption
<1>7. Dropped(Dedicated(s)) /\ ~HasTheirs(Dedicated(s))
  BY <1>1, <1>2, <1>5, <1>6 DEF Dropped, OursAlone, Owned, HasTheirs
<1> QED
  BY <1>3, <1>4, <1>7

(* Clearing a group that stays: it keeps the person's handlers, all of them   *)
(* if it had no other.                                                       *)
LEMMA ClearedGroup ==
  ASSUME NEW g \in Groups
  PROVE  /\ Free(Clean(g))
         /\ Free(g) => ~Dropped(g) /\ Clean(g) = g
         /\ Dropped(g) => ~HasTheirs(g)
         /\ ~Dropped(g) => HasTheirs(g) /\ HasTheirs(Clean(g))
         /\ TheirView(Clean(g)) = TheirView(g)
<1>0. /\ g \in [kind : {"star", "plain", "extra"}, hooks : Seq(Handlers)]
      /\ DOMAIN g.hooks = 1 .. Len(g.hooks) /\ Len(g.hooks) \in Nat
      /\ \A j \in DOMAIN g.hooks : g.hooks[j] \in Handlers
  BY DEF Groups
<1>a. \A h \in Handlers : h \in Specs <=> h \notin Foreign
  BY HandlersAssumption DEF HandlersAssumption, Handlers
<1>b. PICK k : k = Only(g.hooks, Foreign)
  OBVIOUS
<1>c. Clean(g) \in Groups /\ Clean(g).kind = g.kind /\ Clean(g).hooks = k /\ k \in Seq(Foreign)
  BY <1>b, CleanGroup
<1>d. DOMAIN k = 1 .. Len(k) /\ Len(k) \in Nat /\ \A j \in 1 .. Len(k) : k[j] \in Foreign
  BY <1>c
<1>1. Free(Clean(g))
  BY <1>c, <1>d, HandlersAssumption DEF Free, HandlersAssumption
<1>2. ASSUME Free(g) PROVE ~Dropped(g) /\ Clean(g) = g
  <2>1. \A j \in 1 .. Len(g.hooks) : g.hooks[j] \in Foreign
    BY <1>0, <1>2, <1>a DEF Free
  <2>2. k = g.hooks
    BY <1>0, <1>b, <2>1, OnlyAll
  <2>3. Clean(g) = [g EXCEPT !.hooks = Only(@, Foreign)]
    BY TheirsAreForeign DEF Clean
  <2>4. Clean(g) = [g EXCEPT !.hooks = k]
    BY <1>b, <2>3
  <2>5. Clean(g) = g
    BY <1>0, <2>2, <2>4
  <2>6. ~Dropped(g)
    <3>1. g.hooks # <<>> => 1 \in DOMAIN g.hooks
      BY <1>0
    <3> QED
      BY <1>0, <1>2, <3>1 DEF Dropped, OursAlone, Owned, Free
  <2> QED
    BY <2>5, <2>6
<1>3. Dropped(g) => ~HasTheirs(g)
  BY <1>0, <1>a DEF Dropped, OursAlone, Owned, HasTheirs
<1>4. ASSUME ~Dropped(g) PROVE HasTheirs(g) /\ HasTheirs(Clean(g))
  <2>1. HasTheirs(g)
    BY <1>0, <1>a, <1>4 DEF Dropped, OursAlone, Owned, HasTheirs
  <2>2. k = <<>> \/ (1 \in DOMAIN k /\ k[1] \in Foreign)
    BY <1>c, <1>d
  <2>3. HasTheirs(Clean(g))
    BY <1>c, <2>2 DEF HasTheirs
  <2> QED
    BY <2>1, <2>3
<1>5. TheirView(Clean(g)) = TheirView(g)
  <2>1. Only(k, Foreign) = k
    BY <1>c, <1>d, OnlyAll
  <2> QED
    BY <1>b, <1>c, <2>1 DEF TheirView
<1> QED
  BY <1>1, <1>2, <1>3, <1>4, <1>5

(* Clearing a list takes our handlers out of it and nothing of the person's.  *)
LEMMA ClearedGroups ==
  ASSUME NEW groups \in Seq(Groups)
  PROVE  /\ Cleared(groups) \in Seq(Groups) /\ NoneOwned(Cleared(groups))
         /\ NoneOwned(groups) => Cleared(groups) = groups
         /\ TheirOf(Cleared(groups)) = TheirOf(groups)
<1> DEFINE P == {s \in Seq(Groups) :
                   /\ Cleared(s) \in Seq(Groups) /\ NoneOwned(Cleared(s))
                   /\ NoneOwned(s) => Cleared(s) = s
                   /\ TheirOf(Cleared(s)) = TheirOf(s)}
<1>1. <<>> \in P
  <2>1. NoneOwned(<<>>)
    BY DEF NoneOwned
  <2>2. <<>> \in Seq(Groups) /\ Cleared(<<>>) = <<>>
    BY ClearedEmpty
  <2>3. TheirOf(Cleared(<<>>)) = TheirOf(<<>>)
    BY <2>2
  <2> QED
    BY <2>1, <2>2, <2>3
<1>2. ASSUME NEW s \in Seq(Groups), NEW g \in Groups, s \in P PROVE Append(s, g) \in P
  <2>1. /\ Cleared(s) \in Seq(Groups) /\ NoneOwned(Cleared(s))
        /\ NoneOwned(s) => Cleared(s) = s
        /\ TheirOf(Cleared(s)) = TheirOf(s)
    BY <1>2
  <2>2. /\ Append(s, g) \in Seq(Groups) /\ Clean(g) \in Groups
        /\ Append(Cleared(s), Clean(g)) \in Seq(Groups)
    BY <2>1, CleanGroup
  <2>3. CASE Dropped(g)
    <3>1. Cleared(Append(s, g)) = Cleared(s)
      BY <2>3, ClearedAppend
    <3>2. ~Free(g) /\ ~HasTheirs(g)
      BY <2>3, ClearedGroup
    <3>3. ~NoneOwned(Append(s, g))
      BY <3>2, NoneOwnedAppend
    <3>4. TheirOf(Append(s, g)) = TheirOf(s)
      BY <3>2, TheirAppend
    <3> QED
      BY <2>1, <2>2, <3>1, <3>3, <3>4
  <2>4. CASE ~Dropped(g)
    <3>1. Cleared(Append(s, g)) = Append(Cleared(s), Clean(g))
      BY <2>4, ClearedAppend
    <3>2. Free(Clean(g)) /\ HasTheirs(g) /\ HasTheirs(Clean(g)) /\ TheirView(Clean(g)) = TheirView(g)
      BY <2>4, ClearedGroup
    <3>3. NoneOwned(Append(Cleared(s), Clean(g)))
      BY <2>1, <2>2, <3>2, NoneOwnedAppend
    <3>4. NoneOwned(Append(s, g)) => Cleared(s) = s /\ Clean(g) = g
      BY <2>1, NoneOwnedAppend, ClearedGroup
    <3>5. TheirOf(Append(s, g)) = Append(TheirOf(s), TheirView(g))
      BY <3>2, TheirAppend
    <3>6. TheirOf(Append(Cleared(s), Clean(g))) = Append(TheirOf(Cleared(s)), TheirView(Clean(g)))
      BY <2>1, <2>2, <3>2, TheirAppend
    <3> QED
      BY <2>1, <2>2, <3>1, <3>2, <3>3, <3>4, <3>5, <3>6
  <2> QED
    BY <2>3, <2>4
<1>3. Seq(Groups) \subseteq P
  <2> HIDE DEF P
  <2> QED
    BY <1>1, <1>2, ListInduction
<1> QED
  BY <1>3

(* A list without handlers of ours and one dedicated group has one of ours.   *)
LEMMA OwnedOnce ==
  ASSUME NEW groups \in Seq(Groups), NoneOwned(groups), NEW s \in Specs
  PROVE  /\ OwnedAt(Append(groups, Dedicated(s))) # {}
         /\ Cardinality(OwnedAt(Append(groups, Dedicated(s)))) = 1
         /\ \A i \in DOMAIN Append(groups, Dedicated(s)) : \A t \in Specs :
              Append(groups, Dedicated(s))[i] = Dedicated(t) => t = s
<1> DEFINE l == Append(groups, Dedicated(s))
           n == Len(groups) + 1
<1>1. /\ n \in Nat /\ DOMAIN l = 1 .. n /\ l[n] = Dedicated(s) /\ n \in 1 .. n
      /\ \A i \in 1 .. n : i = n \/ (i \in 1 .. Len(groups) /\ l[i] = groups[i])
  BY DedicatedGroup
<1> HIDE DEF n, l
<1>2. \A i \in 1 .. Len(groups) : Free(groups[i]) /\ groups[i] \in Groups
  BY DEF NoneOwned
<1>3. \A g \in Groups : Free(g) => {k \in DOMAIN g.hooks : Owned(g.hooks[k])} = {}
  BY DEF Groups, Free, Owned
<1>4. {k \in DOMAIN Dedicated(s).hooks : Owned(Dedicated(s).hooks[k])} = {1}
  <2>1. Dedicated(s).hooks = <<s>>
    BY DEF Dedicated
  <2>2. DOMAIN <<s>> = {1} /\ (<<s>>)[1] = s
    OBVIOUS
  <2> QED
    BY <2>1, <2>2 DEF Owned
<1>5. OwnedAt(l) = {<<n, 1>>}
  <2> DEFINE At(i) == {k \in DOMAIN l[i].hooks : Owned(l[i].hooks[k])}
  <2>1. At(n) = {1}
    BY <1>1, <1>4
  <2>2. \A i \in DOMAIN l : i # n => At(i) = {}
    BY <1>1, <1>2, <1>3
  <2>3. OwnedAt(l) = UNION {{<<i, j>> : j \in At(i)} : i \in DOMAIN l}
    BY DEF OwnedAt
  <2> HIDE DEF At
  <2>4. n \in DOMAIN l
    BY <1>1
  <2> QED
    BY <2>1, <2>2, <2>3, <2>4
<1>6. Cardinality({<<n, 1>>}) = 1
  BY FS_Singleton
<1>7. ASSUME NEW i \in DOMAIN l, NEW t \in Specs, l[i] = Dedicated(t) PROVE t = s
  <2>1. ~Free(l[i])
    BY <1>7, DedicatedGroup
  <2>2. i = n
    BY <1>1, <1>2, <2>1
  <2>3. Dedicated(t) = Dedicated(s)
    BY <1>1, <1>7, <2>2
  <2>4. Dedicated(t).hooks = <<t>> /\ Dedicated(s).hooks = <<s>>
    BY DEF Dedicated
  <2>5. <<t>> = <<s>>
    BY <2>3, <2>4
  <2> QED
    BY <2>5
<1> QED
  BY <1>5, <1>6, <1>7 DEF l

(* What an install makes of a list of groups.                                *)
LEMMA InstalledGroups ==
  ASSUME NEW groups \in Seq(Groups), NEW s \in Specs
  PROVE  /\ Installed(groups, s) \in Seq(Groups)
         /\ Cardinality(OwnedAt(Installed(groups, s))) = 1
         /\ \E i \in DOMAIN Installed(groups, s) : Installed(groups, s)[i] = Dedicated(s)
         /\ TheirOf(Installed(groups, s)) = TheirOf(groups)
<1>1. CASE Current(groups, s)
  BY <1>1 DEF Installed, Current
<1>2. CASE ~Current(groups, s)
  <2>1. PICK c : c = Cleared(groups)
    OBVIOUS
  <2>2. c \in Seq(Groups) /\ NoneOwned(c) /\ TheirOf(c) = TheirOf(groups)
    BY <2>1, ClearedGroups
  <2>3. Installed(groups, s) = Append(c, Dedicated(s))
    BY <1>2, <2>1 DEF Installed
  <2>4. Dedicated(s) \in Groups /\ ~HasTheirs(Dedicated(s))
    BY DedicatedGroup
  <2>5. TheirOf(Append(c, Dedicated(s))) = TheirOf(c)
    BY <2>2, <2>4, TheirAppend
  <2>6. Append(c, Dedicated(s)) \in Seq(Groups)
    BY <2>2, <2>4
  <2>7. Len(c) + 1 \in DOMAIN Append(c, Dedicated(s))
        /\ Append(c, Dedicated(s))[Len(c) + 1] = Dedicated(s)
    BY <2>2, <2>4
  <2>8. Cardinality(OwnedAt(Append(c, Dedicated(s)))) = 1
    BY <2>2, OwnedOnce
  <2> QED
    BY <2>2, <2>3, <2>5, <2>6, <2>7, <2>8
<1> QED
  BY <1>1, <1>2

(* What it makes of the person's groups, and of what it made of them before.  *)
LEMMA InstalledFresh ==
  ASSUME NEW groups \in Seq(Groups), NoneOwned(groups), NEW s \in Specs, NEW t \in Specs
  PROVE  /\ Installed(groups, s) = Append(groups, Dedicated(s))
         /\ Installed(Append(groups, Dedicated(t)), s) = Append(groups, Dedicated(s))
         /\ Cleared(Append(groups, Dedicated(t))) = groups
<1>1. Cleared(groups) = groups
  BY ClearedGroups
<1>2. ~Current(groups, s)
  <2>1. OwnedAt(groups) = {}
    BY OwnedNowhere
  <2>2. Cardinality(OwnedAt(groups)) = 0
    BY <2>1, FS_EmptySet
  <2> QED
    BY <2>2 DEF Current
<1>3. Installed(groups, s) = Append(groups, Dedicated(s))
  BY <1>1, <1>2 DEF Installed
<1>4. Cleared(Append(groups, Dedicated(t))) = groups
  BY <1>1, DedicatedGroup, ClearedAppend
<1>5. Installed(Append(groups, Dedicated(t)), s) = Append(groups, Dedicated(s))
  <2>1. CASE Current(Append(groups, Dedicated(t)), s)
    <3>1. PICK i \in DOMAIN Append(groups, Dedicated(t)) :
            Append(groups, Dedicated(t))[i] = Dedicated(s)
      BY <2>1 DEF Current
    <3>2. s = t
      BY <3>1, OwnedOnce
    <3> QED
      BY <2>1, <3>2 DEF Installed
  <2>2. CASE ~Current(Append(groups, Dedicated(t)), s)
    BY <1>4, <2>2 DEF Installed
  <2> QED
    BY <2>1, <2>2
<1> QED
  BY <1>3, <1>4, <1>5
-----------------------------------------------------------------------------
(* Documents. *)

(* What a document is made of.                                               *)
LEMMA DocParts ==
  ASSUME NEW d \in Docs
  PROVE  /\ d.hooks \in {"present", "absent"} /\ d = Doc(d.hooks, d.on)
         /\ DOMAIN d.on \subseteq AnyEvent /\ (d.hooks = "absent" => DOMAIN d.on = {})
         /\ d.on = [e \in DOMAIN d.on |-> d.on[e]]
         /\ \A e \in DOMAIN d.on : d.on[e] \in Seq(Groups)
<1>1. /\ d.hooks \in {"present", "absent"} /\ d = [hooks |-> d.hooks, on |-> d.on]
      /\ d.hooks = "absent" => DOMAIN d.on = {}
      /\ d.on \in Naming({}) \cup Naming({"PreToolUse"}) \cup Naming({"PostToolUse"}) \cup Naming(Events)
  BY DEF Docs
<1>2. \A E \in SUBSET Events : \A f \in Naming(E) :
        /\ DOMAIN f \subseteq AnyEvent /\ f = [e \in DOMAIN f |-> f[e]]
        /\ \A e \in DOMAIN f : f[e] \in Seq(Groups)
  <2> HIDE DEF Groups
  <2> QED
    BY DEF Naming, AnyEvent, Events
<1>3. {} \in SUBSET Events /\ {"PreToolUse"} \in SUBSET Events
      /\ {"PostToolUse"} \in SUBSET Events /\ Events \in SUBSET Events
  BY DEF Events
<1>4. PICK E \in SUBSET Events : d.on \in Naming(E)
  BY <1>1, <1>3
<1> QED
  BY <1>1, <1>2, <1>4 DEF Doc

LEMMA DocMade ==
  ASSUME NEW hooks \in {"present", "absent"}, NEW E \in SUBSET AnyEvent,
         hooks = "absent" => E = {}, NEW f \in [E -> Seq(Groups)]
  PROVE  Doc(hooks, f) \in Docs
<1>1. E \ {"Stop"} \in SUBSET Events /\ (E = E \ {"Stop"} \/ E = (E \ {"Stop"}) \cup {"Stop"})
  BY DEF AnyEvent
<1>2. PICK D \in SUBSET Events : E = D \/ E = D \cup {"Stop"}
  BY <1>1
<1>3. f \in Naming(D)
  BY <1>2 DEF Naming
<1>4. D = {} \/ D = {"PreToolUse"} \/ D = {"PostToolUse"} \/ D = Events
  <2>1. Events = {"PreToolUse", "PostToolUse"}
    BY DEF Events
  <2> QED
    BY <2>1
<1>5. f \in Naming({}) \cup Naming({"PreToolUse"}) \cup Naming({"PostToolUse"}) \cup Naming(Events)
  BY <1>3, <1>4
<1>6. DOMAIN f = E
  OBVIOUS
<1>7. Doc(hooks, f).hooks = hooks /\ Doc(hooks, f).on = f /\ Doc(hooks, f) = [hooks |-> hooks, on |-> f]
  BY DEF Doc
<1> QED
  BY <1>5, <1>6, <1>7 DEF Docs

LEMMA EmptyDoc ==
  /\ Empty \in Docs /\ DOMAIN Empty.on = {} /\ Empty.hooks = "absent"
  /\ ~HasOwned(Empty) /\ \A d : Old(d) = IF d = Absent THEN Empty ELSE d
<1>1. Empty.hooks = "absent" /\ Empty.on = <<>>
  BY DEF Empty, Doc
<1>2. <<>> \in [{} -> Seq(Groups)] /\ DOMAIN <<>> = {}
  <2>1. <<>> \in Seq({}) /\ Len(<<>>) = 0
    OBVIOUS
  <2>2. <<>> \in [1 .. 0 -> {}] /\ 1 .. 0 = {}
    BY <2>1
  <2> QED
    BY <2>2
<1>3. Empty \in Docs
  BY <1>2, DocMade DEF Empty
<1>4. ~HasOwned(Empty)
  BY <1>1, <1>2 DEF HasOwned
<1> QED
  BY <1>1, <1>2, <1>3, <1>4 DEF Old

(* A document with no handler of ours.                                       *)
LEMMA OwnedInDoc ==
  ASSUME NEW d \in Docs
  PROVE  /\ HasOwned(d) <=> \E e \in Events : OwnedAt(GroupsOf(d, e)) # {}
         /\ ~HasOwned(d) => \A e \in Events : NoneOwned(GroupsOf(d, e))
         /\ \A e : GroupsOf(d, e) \in Seq(Groups)
<1>1. \A e : GroupsOf(d, e) \in Seq(Groups)
  <2>1. \A e \in DOMAIN d.on : d.on[e] \in Seq(Groups)
    BY DocParts
  <2>2. <<>> \in Seq(Groups)
    OBVIOUS
  <2> HIDE DEF Groups
  <2> QED
    BY <2>1, <2>2 DEF GroupsOf
<1>2. d # Absent /\ d # Invalid
  BY DocsAssumption DEF DocsAssumption
<1>3. OwnedAt(<<>>) = {}
  <2>1. NoneOwned(<<>>) /\ <<>> \in Seq(Groups)
    BY DEF NoneOwned
  <2> QED
    BY <2>1, OwnedNowhere
<1>4. \A e \in Events : OwnedAt(GroupsOf(d, e)) # {} <=>
                          e \in DOMAIN d.on /\ OwnedAt(d.on[e]) # {}
  BY <1>3 DEF GroupsOf
<1>5. HasOwned(d) <=> \E e \in Events : OwnedAt(GroupsOf(d, e)) # {}
  BY <1>2, <1>4 DEF HasOwned
<1> QED
  BY <1>1, <1>5, OwnedNowhere

-----------------------------------------------------------------------------
(* What merge does to a document. *)

(* An install.                                                               *)
LEMMA InstallDoc ==
  ASSUME NEW d \in Docs, NEW s \in Specs, NEW created \in SUBSET Containers
  PROVE  /\ MergeInstall(d, s, created).doc \in Docs
         /\ MergeInstall(d, s, created).created \in SUBSET Containers
         /\ \A e \in Events :
              MergeInstall(d, s, created).doc.on[e] = Installed(GroupsOf(d, e), s)
         /\ \A e \in AnyEvent :
              TheirOf(GroupsOf(MergeInstall(d, s, created).doc, e)) = TheirOf(GroupsOf(d,
              e))
<1> DEFINE E == DOMAIN d.on \cup Events
           f == [e \in E |-> IF e \in Events THEN Installed(GroupsOf(d, e), s) ELSE d.on[e]]
           m == MergeInstall(d, s, created)
<1>1. m.doc = Doc("present", f)
      /\ m.created = created \cup (Events \ DOMAIN d.on) \cup {c \in {"hooks"} : d.hooks = "absent"}
  BY DEF MergeInstall, Result
<1>2. E \in SUBSET AnyEvent
  BY DocParts DEF AnyEvent
<1>3. f \in [E -> Seq(Groups)]
  <2>1. \A e \in Events : Installed(GroupsOf(d, e), s) \in Seq(Groups)
    BY OwnedInDoc, InstalledGroups
  <2>2. \A e \in DOMAIN d.on : d.on[e] \in Seq(Groups)
    BY DocParts
  <2> QED
    BY <2>1, <2>2
<1>4. m.doc.on = f /\ DOMAIN f = E
  BY <1>1 DEF Doc
<1>5. m.doc \in Docs
  <2> HIDE DEF f, E, m
  <2> QED
    BY <1>1, <1>2, <1>3, DocMade
<1>6. m.created \in SUBSET Containers
  <2> HIDE DEF m
  <2>1. Events \subseteq Containers /\ {c \in {"hooks"} : d.hooks = "absent"} \subseteq Containers
    BY DEF Containers
  <2> QED
    BY <1>1, <2>1
<1>7. \A e \in Events : f[e] = Installed(GroupsOf(d, e), s)
  OBVIOUS
<1>8. \A e \in AnyEvent : GroupsOf(m.doc, e)
         = IF e \in Events THEN Installed(GroupsOf(d, e), s) ELSE GroupsOf(d, e)
  <2> HIDE DEF m
  <2> QED
    BY <1>4 DEF GroupsOf
<1>9. \A e \in Events : TheirOf(Installed(GroupsOf(d, e), s)) = TheirOf(GroupsOf(d, e))
  BY OwnedInDoc, InstalledGroups
<1> HIDE DEF m, f, E
<1> QED
  BY <1>4, <1>5, <1>6, <1>7, <1>8, <1>9 DEF m

(* An uninstall.                                                             *)
LEMMA UninstallDoc ==
  ASSUME NEW d \in Docs, NEW created \in SUBSET Containers
  PROVE  /\ MergeUninstall(d, created).doc \in Docs
         /\ \A e \in AnyEvent :
              TheirOf(GroupsOf(MergeUninstall(d, created).doc, e)) = TheirOf(GroupsOf(d, e))
<1> DEFINE cleared == [e \in DOMAIN d.on |-> IF e \in Events THEN Cleared(d.on[e]) ELSE d.on[e]]
           left == {e \in DOMAIN d.on : e \notin Events \cap created \/ cleared[e] # <<>>}
           f == [e \in left |-> cleared[e]]
           m == MergeUninstall(d, created).doc
<1>0. /\ DOMAIN d.on \subseteq AnyEvent /\ (d.hooks = "absent" => DOMAIN d.on = {})
      /\ \A e \in DOMAIN d.on : d.on[e] \in Seq(Groups)
  BY DocParts
<1>1. m = IF d.hooks = "absent" \/ (left = {} /\ "hooks" \in created)
            THEN Empty ELSE Doc("present", f)
  BY DEF MergeUninstall, Result
<1>2. \A e \in DOMAIN d.on : cleared[e] \in Seq(Groups) /\ TheirOf(cleared[e]) = TheirOf(d.on[e])
  BY <1>0, ClearedGroups
<1>3. left \in SUBSET AnyEvent /\ left \subseteq DOMAIN d.on
  BY <1>0
<1>4. f \in [left -> Seq(Groups)]
  BY <1>2
<1>5. Doc("present", f) \in Docs
  <2> HIDE DEF f, left, cleared
  <2> QED
    BY <1>3, <1>4, DocMade
<1>6. m \in Docs
  BY <1>1, <1>5, EmptyDoc
<1>7. \A e \in DOMAIN d.on \ left : TheirOf(d.on[e]) = <<>>
  <2>1. \A e \in DOMAIN d.on \ left : cleared[e] = <<>>
    OBVIOUS
  <2> QED
    BY <1>2, <2>1, TheirEmpty
<1>8. Doc("present", f).on = f /\ DOMAIN f = left /\ \A e \in left : f[e] = cleared[e]
  BY DEF Doc
<1> HIDE DEF f, left, cleared, m
<1>9. ASSUME NEW e \in AnyEvent
      PROVE  TheirOf(GroupsOf(m, e)) = TheirOf(GroupsOf(d, e))
  <2>1. CASE m = Doc("present", f)
    <3>1. GroupsOf(m, e) = IF e \in left THEN cleared[e] ELSE <<>>
      BY <1>8, <2>1 DEF GroupsOf
    <3>2. GroupsOf(d, e) = IF e \in DOMAIN d.on THEN d.on[e] ELSE <<>>
      BY DEF GroupsOf
    <3> QED
      BY <1>2, <1>3, <1>7, <3>1, <3>2, TheirEmpty
  <2>2. CASE m = Empty /\ (left = {} \/ d.hooks = "absent")
    <3>1. GroupsOf(m, e) = <<>>
      BY <2>2, EmptyDoc DEF GroupsOf
    <3>2. GroupsOf(d, e) = IF e \in DOMAIN d.on THEN d.on[e] ELSE <<>>
      BY DEF GroupsOf
    <3>3. e \in DOMAIN d.on => left = {}
      BY <1>0, <2>2
    <3> QED
      BY <1>7, <3>1, <3>2, <3>3, TheirEmpty
  <2> QED
    BY <1>1, <2>1, <2>2
<1> QED
  BY <1>6, <1>9 DEF m

(* Installing into the person's document, and then again, or not at all.      *)
LEMMA InstallFresh ==
  ASSUME NEW d \in Docs, ~HasOwned(d), NEW s \in Specs, NEW t \in Specs
  PROVE  /\ MergeInstall(d, s, {}) = Result(Hooked(d, s), Made(d))
         /\ MergeInstall(Hooked(d, t), s, Made(d)) = Result(Hooked(d, s), Made(d))
<1>0. \A e \in Events : GroupsOf(d, e) \in Seq(Groups) /\ NoneOwned(GroupsOf(d, e))
  BY OwnedInDoc
<1>1. \A e \in Events : Installed(GroupsOf(d, e), s) = Append(GroupsOf(d, e), Dedicated(s))
  BY <1>0, InstalledFresh
<1>2. MergeInstall(d, s, {}) = Result(Hooked(d, s), Made(d))
  <2>1. [e \in DOMAIN d.on \cup Events |->
           IF e \in Events THEN Installed(GroupsOf(d, e), s) ELSE d.on[e]]
          = [e \in DOMAIN d.on \cup Events |->
               IF e \in Events THEN Append(GroupsOf(d, e), Dedicated(s)) ELSE d.on[e]]
    BY <1>1
  <2>2. {} \cup (Events \ DOMAIN d.on) \cup {c \in {"hooks"} : d.hooks = "absent"} = Made(d)
    BY DEF Made
  <2> QED
    BY <2>1, <2>2 DEF MergeInstall, Hooked
<1> DEFINE h == Hooked(d, t)
<1>3. /\ h.hooks = "present" /\ DOMAIN h.on = DOMAIN d.on \cup Events
      /\ \A e \in DOMAIN d.on \cup Events :
           h.on[e] = IF e \in Events THEN Append(GroupsOf(d, e), Dedicated(t)) ELSE d.on[e]
  BY DEF Hooked, Doc
<1> HIDE DEF h
<1>4. \A e \in Events : Installed(GroupsOf(h, e), s) = Append(GroupsOf(d, e), Dedicated(s))
  <2>1. \A e \in Events : GroupsOf(h, e) = Append(GroupsOf(d, e), Dedicated(t))
    BY <1>3 DEF GroupsOf
  <2> QED
    BY <1>0, <2>1, InstalledFresh
<1>5. MergeInstall(h, s, Made(d)) = Result(Hooked(d, s), Made(d))
  <2>1. DOMAIN h.on \cup Events = DOMAIN d.on \cup Events
    BY <1>3
  <2>2. [e \in DOMAIN h.on \cup Events |->
           IF e \in Events THEN Installed(GroupsOf(h, e), s) ELSE h.on[e]]
          = [e \in DOMAIN d.on \cup Events |->
               IF e \in Events THEN Append(GroupsOf(d, e), Dedicated(s)) ELSE d.on[e]]
    BY <1>3, <1>4, <2>1
  <2>3. Made(d) \cup (Events \ DOMAIN h.on) \cup {c \in {"hooks"} : h.hooks = "absent"} = Made(d)
    BY <1>3
  <2> QED
    BY <2>2, <2>3 DEF MergeInstall, Hooked
<1> QED
  BY <1>2, <1>5 DEF h

(* An uninstall gives the person's document back.                            *)
LEMMA UninstallFresh ==
  ASSUME NEW d \in Docs, ~HasOwned(d), NEW t \in Specs
  PROVE  /\ MergeUninstall(d, {}).doc = d
         /\ MergeUninstall(Hooked(d, t), Made(d)).doc = d
         /\ HasOwned(Hooked(d, t))
         /\ Hooked(d, t) \in Docs
<1>0. \A e \in Events : GroupsOf(d, e) \in Seq(Groups) /\ NoneOwned(GroupsOf(d, e))
  BY OwnedInDoc
<1>d. /\ d.hooks \in {"present", "absent"} /\ d = Doc(d.hooks, d.on)
      /\ DOMAIN d.on \subseteq AnyEvent /\ (d.hooks = "absent" => DOMAIN d.on = {})
      /\ d.on = [e \in DOMAIN d.on |-> d.on[e]]
  BY DocParts
<1>1. \A e \in Events \cap DOMAIN d.on : d.on[e] = GroupsOf(d, e) /\ Cleared(d.on[e]) = d.on[e]
  BY <1>0, ClearedGroups DEF GroupsOf
<1>e. d.hooks = "absent" => d = Empty
  <2> SUFFICES ASSUME d.hooks = "absent" PROVE d = Empty
    OBVIOUS
  <2>1. d.on = <<>>
    <3>1. DOMAIN <<>> = {} /\ DOMAIN d.on = {}
      BY <1>d, EmptyDoc DEF Empty, Doc
    <3> QED
      BY <1>d, <3>1, EmptyMap
  <2> QED
    BY <1>d, <2>1 DEF Empty
<1>2. MergeUninstall(d, {}).doc = d
  <2> DEFINE cleared == [e \in DOMAIN d.on |-> IF e \in Events THEN Cleared(d.on[e]) ELSE d.on[e]]
             left == {e \in DOMAIN d.on : e \notin Events \cap {} \/ cleared[e] # <<>>}
             f == [e \in left |-> cleared[e]]
  <2>1. cleared = [e \in DOMAIN d.on |-> d.on[e]]
    BY <1>1
  <2>2. left = DOMAIN d.on
    OBVIOUS
  <2>3. f = [e \in DOMAIN d.on |-> d.on[e]]
    BY <2>1, <2>2
  <2>4. MergeUninstall(d, {}).doc = IF d.hooks = "absent" THEN Empty ELSE Doc("present", f)
    BY DEF MergeUninstall, Result
  <2> HIDE DEF f
  <2> QED
    BY <1>d, <1>e, <2>3, <2>4
<1> DEFINE h == Hooked(d, t)
<1>3. /\ h.hooks = "present" /\ DOMAIN h.on = DOMAIN d.on \cup Events
      /\ \A e \in DOMAIN d.on \cup Events :
           h.on[e] = IF e \in Events THEN Append(GroupsOf(d, e), Dedicated(t)) ELSE d.on[e]
  BY DEF Hooked, Doc
<1>h. h \in Docs
  <2> DEFINE E == DOMAIN d.on \cup Events
             g == [e \in E |->
                     IF e \in Events THEN Append(GroupsOf(d, e), Dedicated(t)) ELSE d.on[e]]
  <2>1. \A e \in Events : Append(GroupsOf(d, e), Dedicated(t)) \in Seq(Groups)
    BY <1>0, DedicatedGroup
  <2>2. g \in [E -> Seq(Groups)]
    BY <2>1, DocParts
  <2>3. E \in SUBSET AnyEvent
    BY <1>d DEF AnyEvent
  <2>4. h = Doc("present", g)
    BY DEF Hooked
  <2> HIDE DEF g, E, h
  <2> QED
    BY <2>2, <2>3, <2>4, DocMade
<1> HIDE DEF h
<1>4. \A e \in Events : Cleared(h.on[e]) = GroupsOf(d, e)
  BY <1>0, <1>3, InstalledFresh
<1>5. MergeUninstall(h, Made(d)).doc = d
  <2> DEFINE cleared == [e \in DOMAIN h.on |-> IF e \in Events THEN Cleared(h.on[e]) ELSE h.on[e]]
             left == {e \in DOMAIN h.on : e \notin Events \cap Made(d) \/ cleared[e] # <<>>}
             f == [e \in left |-> cleared[e]]
  <2>1. \A e \in DOMAIN h.on : cleared[e] = GroupsOf(d, e)
    BY <1>3, <1>4 DEF GroupsOf
  <2>2. \A e \in Events : e \in Made(d) <=> e \notin DOMAIN d.on
    BY DEF Made, Events
  <2>3. left = DOMAIN d.on
    <3>1. ASSUME NEW e \in DOMAIN d.on PROVE e \in left
      BY <1>3, <2>2
    <3>2. ASSUME NEW e \in left PROVE e \in DOMAIN d.on
      <4> SUFFICES ASSUME e \notin DOMAIN d.on PROVE FALSE
        OBVIOUS
      <4>1. e \in Events /\ e \in Made(d)
        BY <1>3, <2>2
      <4>2. cleared[e] = <<>>
        BY <1>3, <2>1 DEF GroupsOf
      <4> QED
        BY <4>1, <4>2
    <3> QED
      BY <3>1, <3>2
  <2>4. f = [e \in DOMAIN d.on |-> d.on[e]]
    <3>1. \A e \in DOMAIN d.on : cleared[e] = d.on[e]
      BY <1>3, <2>1 DEF GroupsOf
    <3> HIDE DEF cleared, left
    <3> QED
      BY <2>3, <3>1
  <2>5. "hooks" \in Made(d) <=> d.hooks = "absent"
    BY DEF Made, Events
  <2>6. MergeUninstall(h, Made(d)).doc
          = IF h.hooks = "absent" \/ (left = {} /\ "hooks" \in Made(d))
              THEN Empty ELSE Doc("present", f)
    BY DEF MergeUninstall, Result
  <2> HIDE DEF f, left
  <2> QED
    BY <1>3, <1>d, <1>e, <2>3, <2>4, <2>5, <2>6
<1>6. HasOwned(h)
  <2>1. "PreToolUse" \in Events
    BY DEF Events
  <2>2. GroupsOf(h, "PreToolUse") = Append(GroupsOf(d, "PreToolUse"), Dedicated(t))
    BY <1>3, <2>1 DEF GroupsOf
  <2>3. OwnedAt(GroupsOf(h, "PreToolUse")) # {}
    BY <1>0, <2>1, <2>2, OwnedOnce
  <2> QED
    BY <1>h, <2>1, <2>3, OwnedInDoc
<1> QED
  BY <1>2, <1>5, <1>6,
     <1>h DEF h-----------------------------------------------------------------------------
(* FileInv is inductive. *)

(* What the person last wrote, when it has no handler of ours.               *)
LEMMA OldWritten ==
  ASSUME TypeOK, Untainted
  PROVE  /\ ~HasOwned(Old(written))
         /\ written # Invalid => Old(written) \in Docs
         /\ settings \in {written, Old(written)} => ~HasOwned(settings)
<1>1. written \in Docs \cup {Absent, Invalid} /\ ~HasOwned(written)
  BY DEF TypeOK, Files, Untainted
<1> QED
  BY <1>1, EmptyDoc

(* A step that keeps the files, the person and every other job.              *)
LEMMA Keeping ==
  ASSUME FileInv, NEW p \in Procs, Quiet(p),
         UNCHANGED <<settings, receipt, written, raced>>, Held(p)'
  PROVE  FileInv'
<1>0. settings' = settings /\ receipt' = receipt /\ written' = written /\ raced' = raced
  OBVIOUS
<1>1. TypeOK' /\ Follows' /\ (Untainted' <=> Untainted)
  BY <1>0 DEF FileInv, TypeOK, Follows, Untainted
<1>2. ASSUME NEW q \in Procs \ {p} PROVE Held(q)'
  <2>1. job'[q] = job[q] /\ Held(q)
    BY DEF Quiet, FileInv
  <2> QED
    BY <1>0, <1>1, <2>1 DEF Held, Given, Readable, Merged, MergedWith, Receipted
<1> QED
  BY <1>1, <1>2 DEF FileInv

(* Of a merge, only the command and the handler of the job count.            *)
LEMMA MergedSame ==
  ASSUME NEW j, NEW k, NEW created, MergedWith(j, created),
         k.cmd = j.cmd, k.spec = j.spec, k.before = j.before, k.result = j.result
  PROVE  MergedWith(k, created)
  BY DEF MergedWith, Merge

(* A command that goes on with its merge, or leaves.                         *)
LEMMA Carrying ==
  ASSUME JobsOK, FileInv, NEW p \in Procs, NEW stage, Goes(p, stage), Quiet(p),
         \/ stage = "leaving"
         \/ stage \in Merging /\ job[p].stage \in Merging,
         UNCHANGED <<settings, receipt, written, raced>>, Receipted(p)'
  PROVE  FileInv'
<1>0. settings' = settings /\ written' = written /\ raced' = raced
  OBVIOUS
<1>1. /\ job'[p].stage = stage /\ job'[p].cmd = job[p].cmd /\ job'[p].spec = job[p].spec
      /\ job'[p].before = job[p].before /\ job'[p].result = job[p].result
  BY BecomesJob DEF Goes, GoesWith, Job
<1>2. Held(p)
  BY DEF FileInv
<1>3. Given(p)' /\ Readable(p)'
  BY <1>0, <1>1, <1>2 DEF Held, Given, Readable, Working, Merging
<1>4. Merged(p)'
  <2> SUFFICES ASSUME stage \in Merging
               PROVE  \E created \in SUBSET Containers : MergedWith(job[p], created)'
    BY <1>1 DEF Merged
  <2>1. PICK created \in SUBSET Containers : MergedWith(job[p], created)
    BY <1>2 DEF Held, Merged, Merging, Working
  <2>2. MergedWith(job'[p], created)
    BY <1>1, <2>1, MergedSame
  <2>3. MergedWith(job[p], created)'
    BY <1>0, <2>2 DEF MergedWith, Untainted
  <2> QED
    BY <2>3
<1> QED
  BY <1>3, <1>4, Keeping DEF Held

LEMMA InitFileInv == Init => FileInv
<1> SUFFICES ASSUME Init PROVE FileInv
  OBVIOUS
<1>0. settings \in PersonDocs /\ written = settings /\ receipt = NoReceipt
  BY DEF Init
<1>1. TypeOK /\ Follows
  <2>1. PersonDocs \subseteq Files
    BY DocsAssumption DEF Files, DocsAssumption
  <2>2. settings \in Files /\ written \in Files
    BY <1>0, <2>1
  <2>3. receipt \in (SUBSET Containers) \cup {NoReceipt}
    BY <1>0
  <2>4. Follows
    BY <1>0 DEF Follows
  <2> QED
    BY <2>2, <2>3, <2>4 DEF TypeOK
<1>2. \A p \in Procs : job[p].stage = "idle"
  BY DEF Init, Idle, NewJob, Job
<1>3. \A p \in Procs : Held(p)
  BY <1>2 DEF Held, Given, Readable, Merged, Receipted, Working, Merging
<1> QED
  BY <1>1, <1>3 DEF FileInv
(* Of the person's document and what we make of it, the merge makes the       *)
(* other, or itself.                                                         *)
LEMMA MergeFollows ==
  ASSUME TypeOK, Follows, Untainted, NEW j, NEW created \in SUBSET Containers,
         MergedWith(j, created), j.cmd \in {"install", "uninstall"}, j.spec \in Specs,
         settings = j.before, settings # Invalid
  PROVE  /\ written # Invalid
         /\ IF j.cmd = "install"
              THEN j.result = Result(Hooked(Old(written), j.spec), Made(Old(written)))
              ELSE j.result.doc = Old(written)
<1>d. Old(written) \in Docs /\ ~HasOwned(Old(written)) /\ written # Invalid
  <2>1. written # Invalid
    BY EmptyDoc, DocsAssumption DEF Follows, DocsAssumption
  <2> QED
    BY <2>1, OldWritten
<1>a. Absent \notin Docs
  BY DocsAssumption DEF DocsAssumption
<1>m. j.result = IF j.cmd = "install" THEN MergeInstall(Old(j.before), j.spec, created)
                                      ELSE MergeUninstall(Old(j.before), created)
  BY DEF MergedWith, Merge
<1>1. CASE settings \in {written, Old(written)}
  <2>1. created = {}
    BY <1>1, OldWritten DEF MergedWith
  <2>2. Old(j.before) = Old(written)
    BY <1>1, <1>d, <1>a, EmptyDoc
  <2> QED
    BY <1>d, <1>m, <2>1, <2>2, InstallFresh, UninstallFresh
<1>2. CASE \E s \in Specs : settings = Hooked(Old(written), s)
  <2>1. PICK s \in Specs : settings = Hooked(Old(written), s)
    BY <1>2
  <2>2. HasOwned(settings) /\ settings \in Docs
    BY <1>d, <2>1, UninstallFresh
  <2>3. created = Made(Old(written))
    BY <2>2 DEF MergedWith
  <2>4. Old(j.before) = Hooked(Old(written), s)
    BY <1>a, <2>1, <2>2, EmptyDoc
  <2> QED
    BY <1>d, <1>m, <2>1, <2>3, <2>4, InstallFresh, UninstallFresh
<1> QED
  BY <1>1, <1>2 DEF Follows
(* What a merge makes is a document, and a set of containers.                *)
LEMMA ResultTyped ==
  ASSUME NEW j, NEW created \in SUBSET Containers, MergedWith(j, created),
         j.cmd \in {"install", "uninstall"}, j.spec \in Specs,
         j.before \in Docs \cup {Absent}
  PROVE  /\ j.result.doc \in Docs /\ j.result.created \in SUBSET Containers
         /\ \A e \in AnyEvent :
              TheirOf(GroupsOf(j.result.doc, e)) = TheirOf(GroupsOf(Old(j.before), e))
<1>1. Old(j.before) \in Docs
  BY EmptyDoc
<1>2. j.result = IF j.cmd = "install" THEN MergeInstall(Old(j.before), j.spec, created)
                                      ELSE MergeUninstall(Old(j.before), created)
  BY DEF MergedWith, Merge
<1>3. MergeUninstall(Old(j.before), created).created = created
  BY DEF MergeUninstall, Result
<1>4. CASE j.cmd = "install"
  BY <1>1, <1>2, <1>4, InstallDoc
<1>5. CASE j.cmd # "install"
  BY <1>1, <1>2, <1>3, <1>5, UninstallDoc
<1> QED
  BY <1>4, <1>5

LEMMA StepFileInv == IInv /\ FileInv /\ [Next]_vars => FileInv'
<1> SUFFICES ASSUME IInv, FileInv, [Next]_vars PROVE FileInv'
  OBVIOUS
<1>j. JobsOK /\ Exclusive /\ TypeOK /\ Follows /\ \A q \in Procs : Held(q)
  BY DEF IInv, FileInv
<1>n. ASSUME NEW p \in Procs, Quiet(p), job'[p].stage = "idle",
             UNCHANGED <<settings, receipt, written, raced>>
      PROVE  FileInv'
  BY <1>n, Keeping DEF Held, Given, Readable, Merged, Receipted, Working, Merging
<1>1. ASSUME NEW p \in Procs, Begin(p) PROVE FileInv'
  <2>1. PICK cmd \in {"install", "uninstall"}, confirm \in {"yes", "no"}, spec \in Specs :
          Becomes(p, NewJob("begin", cmd, confirm, spec))
    BY <1>1 DEF Begin
  <2>2. Quiet(p) /\ job'[p] = NewJob("begin", cmd, confirm, spec)
    BY <1>j, <2>1, BecomesJob
  <2>3. job'[p].stage = "begin" /\ job'[p].cmd = cmd /\ job'[p].spec = spec
    BY <2>2 DEF NewJob, Job
  <2>4. Held(p)'
    BY <2>3 DEF Held, Given, Readable, Merged, Receipted, Working, Merging
  <2>5. UNCHANGED <<settings, receipt, written, raced>>
    BY <1>1 DEF Begin, Person
  <2> QED
    BY <2>2, <2>4, <2>5, Keeping
<1>2. ASSUME NEW p \in Procs, Acquire(p) PROVE FileInv'
  <2>1. job[p].stage = "begin" /\ UNCHANGED <<settings, receipt, written, raced>>
    BY <1>2 DEF Acquire, Person
  <2>2. CASE Goes(p, "locked")
    <3>1. Quiet(p) /\ job'[p].stage = "locked" /\ job'[p].cmd = job[p].cmd
          /\ job'[p].spec = job[p].spec
      BY <1>j, <2>2, BecomesJob DEF Goes, GoesWith, Job
    <3>2. Held(p)'
      BY <1>j, <2>1, <3>1 DEF Held, Given, Readable, Merged, Receipted, Working, Merging
    <3> QED
      BY <2>1, <3>1, <3>2, Keeping
  <2>3. CASE Becomes(p, Idle)
    BY <1>j, <1>n, <2>1, <2>3, NewJobStage DEF Idle
  <2> QED
    BY <1>2, <2>2, <2>3 DEF Acquire, TryLock
<1>3. ASSUME NEW p \in Procs, Read(p) PROVE FileInv'
  <2>1. job[p].stage = "locked" /\ UNCHANGED <<settings, receipt, written, raced>>
    BY <1>3 DEF Read, Person
  <2>2. Quiet(p) /\ job'[p].stage = (IF settings = Invalid THEN "leaving" ELSE "read")
        /\ job'[p].cmd = job[p].cmd /\ job'[p].spec = job[p].spec /\ job'[p].before = settings
    BY <1>j, <1>3, BecomesJob DEF Read, GoesWith, Job
  <2>3. settings # Invalid => settings \in Docs \cup {Absent}
    BY <1>j DEF TypeOK, Files
  <2>4. Given(p)' /\ Readable(p)'
    BY <1>j, <2>1, <2>2, <2>3 DEF Held, Given, Readable, Working
  <2>5. Merged(p)' /\ Receipted(p)'
    BY <2>2 DEF Merged, Receipted, Working, Merging
  <2> QED
    BY <2>1, <2>2, <2>4, <2>5, Keeping DEF Held
<1>4. ASSUME NEW p \in Procs, Propose(p) PROVE FileInv'
  <2>1. job[p].stage = "read" /\ UNCHANGED <<settings, receipt, written, raced>>
    BY <1>4 DEF Propose, Person
  <2>u. settings' = settings /\ written' = written /\ (Untainted' <=> Untainted)
    BY <2>1 DEF Untainted
  <2>c. PICK created : created = Created(job[p].before)
    OBVIOUS
  <2>2. /\ Quiet(p) /\ job'[p].stage \in {"leaving", "proposed"}
        /\ job'[p].cmd = job[p].cmd /\ job'[p].spec = job[p].spec
        /\ job'[p].before = job[p].before
        /\ job'[p].result = Merge(Old(job[p].before), job[p], created)
    BY <1>j, <1>4, <2>c, BecomesJob DEF Propose, GoesWith, Job, Old
  <2>3. created \in SUBSET Containers /\ (~HasOwned(job[p].before) => created = {})
    BY <1>j, <2>c DEF TypeOK, Created
  <2>4. ASSUME HasOwned(job[p].before), settings = job[p].before, Untainted
        PROVE  created = Made(Old(written))
    <3>1. receipt = Made(Old(written))
      BY <1>j, <2>4, OldWritten DEF Follows
    <3>2. Made(Old(written)) \in SUBSET Containers
      BY DEF Made, Containers
    <3>3. receipt # NoReceipt
      BY <3>1, <3>2, DocsAssumption DEF DocsAssumption
    <3> QED
      BY <2>c, <2>4, <3>1, <3>3 DEF Created
  <2>5. MergedWith(job[p], created)'
    <3>1. Merge(Old(job[p].before), job[p], created) = Merge(Old(job'[p].before), job'[p], created)
      BY <2>2 DEF Merge
    <3>2. job'[p].result = Merge(Old(job'[p].before), job'[p], created)
      BY <2>2, <3>1
    <3> QED
      BY <2>u, <2>2, <2>3, <2>4, <3>2 DEF MergedWith
  <2>6. Given(p)' /\ Readable(p)'
    BY <1>j, <2>1, <2>2 DEF Held, Given, Readable, Working
  <2>7. Merged(p)'
    BY <2>3, <2>5 DEF Merged
  <2>8. Receipted(p)'
    BY <2>2 DEF Receipted
  <2> QED
    BY <2>1, <2>2, <2>6, <2>7, <2>8, Keeping DEF Held
<1>5. ASSUME NEW p \in Procs, Check(p) PROVE FileInv'
  <2>1. job[p].stage = "proposed" /\ UNCHANGED <<settings, receipt, written, raced>>
    BY <1>5 DEF Check, Person
  <2>2. PICK stage \in {"checked", "leaving"} : Goes(p, stage)
    BY <1>5 DEF Check
  <2>3. Moves(p, stage)
    BY <1>j, <2>2, GoesMoves
  <2>4. Receipted(p)'
    BY <2>3 DEF Moves, Receipted
  <2> QED
    BY <1>j, <2>1, <2>2, <2>3, <2>4, Carrying DEF Moves, Merging, Working
<1>6. ASSUME NEW p \in Procs, Backup(p) PROVE FileInv'
  <2>1. job[p].stage = "checked" /\ Goes(p, "backed_up")
        /\ UNCHANGED <<settings, receipt, written, raced>>
    BY <1>6 DEF Backup, Person
  <2>2. Moves(p, "backed_up")
    BY <1>j, <2>1, GoesMoves
  <2>3. Receipted(p)'
    BY <2>2 DEF Moves, Receipted
  <2> QED
    BY <1>j, <2>1, <2>2, <2>3, Carrying DEF Moves, Merging,
       Working<1>7. ASSUME NEW p \in Procs, WriteReceipt(p) PROVE FileInv'
  <2>1. /\ job[p].stage = "backed_up" /\ Goes(p, "receipted")
        /\ settings' = settings /\ written' = written /\ raced' = raced
        /\ receipt' = IF job[p].cmd = "install" THEN job[p].result.created ELSE receipt
    BY <1>7 DEF WriteReceipt, Person
  <2>2. /\ Quiet(p) /\ job'[p].stage = "receipted" /\ job'[p].cmd = job[p].cmd
        /\ job'[p].spec = job[p].spec /\ job'[p].before = job[p].before
        /\ job'[p].result = job[p].result
    BY <1>j, <2>1, BecomesJob DEF Goes, GoesWith, Job
  <2>3. /\ job[p].cmd \in {"install", "uninstall"} /\ job[p].spec \in Specs
        /\ settings \in {job[p].before, written}
    BY <1>j, <2>1 DEF Held, Given, Readable, Working
  <2>4. PICK created \in SUBSET Containers : MergedWith(job[p], created)
    BY <1>j, <2>1 DEF Held, Merged, Working, Merging
  <2>5. receipt' \in (SUBSET Containers) \cup {NoReceipt}
    BY <1>j, <2>1, <2>3, <2>4, ResultTyped DEF Held, Readable, TypeOK, Working
  <2>6. TypeOK'
    BY <1>j, <2>1, <2>5 DEF TypeOK
  <2>7. Follows'
    <3> SUFFICES ASSUME Untainted, settings \notin {written, Old(written)}
                 PROVE  /\ written # Invalid
                        /\ \E s \in Specs : settings = Hooked(Old(written), s)
                        /\ receipt' = Made(Old(written))
      BY <2>1 DEF Follows, Untainted
    <3>1. /\ written # Invalid /\ receipt = Made(Old(written))
          /\ \E s \in Specs : settings = Hooked(Old(written), s)
      BY <1>j DEF Follows
    <3>2. settings = job[p].before
      BY <2>3
    <3>3. settings # Invalid
      BY <1>j, <3>1, OldWritten, UninstallFresh, DocsAssumption DEF DocsAssumption
    <3>4. job[p].cmd = "install" => job[p].result.created = Made(Old(written))
      <4>1. job[p].cmd = "install" =>
              job[p].result = Result(Hooked(Old(written), job[p].spec), Made(Old(written)))
        BY <1>j, <2>3, <2>4, <3>2, <3>3, MergeFollows
      <4> QED
        BY <4>1 DEF Result
    <3> QED
      BY <2>1, <3>1, <3>4
  <2>8. Held(p)'
    <3>1. Given(p)' /\ Readable(p)' /\ Receipted(p)'
      BY <1>j, <2>1, <2>2 DEF Held, Given, Readable, Receipted, Working
    <3>2. MergedWith(job'[p], created)
      BY <2>2, <2>4, MergedSame
    <3>3. MergedWith(job[p], created)'
      BY <2>1, <3>2 DEF MergedWith, Untainted
    <3> QED
      BY <3>1, <3>3 DEF Held, Merged
  <2>9. ASSUME NEW q \in Procs \ {p} PROVE Held(q)'
    <3>1. job'[q] = job[q] /\ job[q].stage \notin Working
      BY <1>j, <2>1, <2>2 DEF Quiet, Exclusive, Holding, Working
    <3> QED
      BY <1>j, <3>1 DEF Held, Given, Readable, Merged, Receipted, Working, Merging
  <2> QED
    BY <2>6, <2>7, <2>8, <2>9 DEF FileInv
<1>8. ASSUME NEW p \in Procs, Recheck(p) PROVE FileInv'
  <2>1. job[p].stage = "receipted" /\ UNCHANGED <<settings, receipt, written, raced>>
    BY <1>8 DEF Recheck, Person
  <2>2. PICK stage \in {"rechecked", "leaving"} : Goes(p, stage)
    BY <1>8 DEF Recheck
  <2>3. Quiet(p) /\ job'[p].stage = stage /\ job'[p].cmd = job[p].cmd
        /\ job'[p].result = job[p].result
    BY <1>j, <2>2, BecomesJob DEF Goes, GoesWith, Job
  <2>4. Receipted(p)'
    BY <1>j, <2>1, <2>3 DEF Held, Receipted
  <2> QED
    BY <1>j, <2>1, <2>2, <2>3, <2>4, Carrying DEF Merging, Working
<1>9. ASSUME NEW p \in Procs, Replace(p) PROVE FileInv'
  <2>1. /\ job[p].stage = "rechecked" /\ Goes(p, "leaving") /\ settings' = job[p].result.doc
        /\ receipt' = receipt /\ written' = written /\ raced' = raced
    BY <1>9 DEF Replace, Person
  <2>2. Quiet(p) /\ job'[p].stage = "leaving"
    BY <1>j, <2>1, BecomesJob DEF Goes, GoesWith, Job
  <2>3. /\ job[p].cmd \in {"install", "uninstall"} /\ job[p].spec \in Specs
        /\ job[p].before \in Docs \cup {Absent}
        /\ job[p].cmd = "install" => receipt = job[p].result.created
    BY <1>j, <2>1 DEF Held, Given, Readable, Receipted, Working
  <2>4. PICK created \in SUBSET Containers : MergedWith(job[p], created)
    BY <1>j, <2>1 DEF Held, Merged, Working, Merging
  <2>5. settings' \in Docs
    BY <2>1, <2>3, <2>4, ResultTyped
  <2>6. TypeOK'
    BY <1>j, <2>1, <2>5 DEF TypeOK, Files
  <2>7. Follows'
    <3> SUFFICES ASSUME Untainted
                 PROVE  \/ settings' = Old(written)
                        \/ /\ written # Invalid
                           /\ \E s \in Specs : settings' = Hooked(Old(written), s)
                           /\ receipt = Made(Old(written))
      BY <2>1 DEF Follows, Untainted
    <3>1. settings = job[p].before
      BY <2>1 DEF IInv, Fresh, Untainted
    <3>2. settings # Invalid
      BY <2>3, <3>1, DocsAssumption DEF DocsAssumption
    <3>3. /\ written # Invalid
          /\ IF job[p].cmd = "install"
               THEN job[p].result = Result(Hooked(Old(written), job[p].spec),
               Made(Old(written)))
               ELSE job[p].result.doc = Old(written)
      BY <1>j, <2>3, <2>4, <3>1, <3>2, MergeFollows
    <3>4. CASE job[p].cmd = "install"
      <4>1. settings' = Hooked(Old(written), job[p].spec) /\ receipt = Made(Old(written))
        BY <2>1, <2>3, <3>3, <3>4 DEF Result
      <4> QED
        BY <2>3, <3>3, <4>1
    <3>5. CASE job[p].cmd # "install"
      BY <2>1, <3>3, <3>5
    <3> QED
      BY <3>4, <3>5
  <2>8. Held(p)'
    BY <2>2 DEF Held, Given, Readable, Merged, Receipted, Working, Merging
  <2>9. ASSUME NEW q \in Procs \ {p} PROVE Held(q)'
    <3>1. job'[q] = job[q] /\ job[q].stage \notin Working
      BY <1>j, <2>1, <2>2 DEF Quiet, Exclusive, Holding, Working
    <3> QED
      BY <1>j, <3>1 DEF Held, Given, Readable, Merged, Receipted, Working, Merging
  <2> QED
    BY <2>6, <2>7, <2>8, <2>9 DEF FileInv
<1>10. ASSUME NEW p \in Procs, Leave(p) PROVE FileInv'
  <2>1. Becomes(p, Idle) /\ UNCHANGED <<settings, receipt, written, raced>>
    BY <1>10 DEF Leave, Person
  <2> QED
    BY <1>j, <1>n, <2>1, NewJobStage DEF Idle
<1>11. ASSUME NEW p \in Procs, Raise(p) PROVE FileInv'
  <2>1. Goes(p, "leaving") /\ UNCHANGED <<settings, receipt, written, raced>>
    BY <1>11 DEF Raise, Person, AfterError
  <2>2. Moves(p, "leaving")
    BY <1>j, <2>1, GoesMoves
  <2>3. Receipted(p)'
    BY <2>2 DEF Moves, Receipted
  <2> QED
    BY <1>j, <2>1, <2>2, <2>3, Carrying DEF Moves
<1>12. ASSUME NEW p \in Procs, Crash(p) PROVE FileInv'
  <2>1. Becomes(p, Idle) /\ UNCHANGED <<settings, receipt, written, raced>>
    BY <1>12 DEF Crash, Person
  <2> QED
    BY <1>j, <1>n, <2>1, NewJobStage DEF Idle
<1>13. CASE UNCHANGED <<settings, receipt, job, written, raced>>
  <2>1. settings' = settings /\ receipt' = receipt /\ written' = written /\ raced' = raced
        /\ \A q \in Procs : job'[q] = job[q]
    BY <1>13
  <2>2. TypeOK' /\ Follows' /\ (Untainted' <=> Untainted)
    BY <1>j, <2>1 DEF TypeOK, Follows, Untainted
  <2>3. \A q \in Procs : Held(q)'
    BY <1>j, <2>1, <2>2 DEF Held, Given, Readable, Merged, MergedWith, Receipted
  <2> QED
    BY <2>2, <2>3 DEF FileInv
<1>14. CASE Edit
  <2>1. /\ settings' \in PersonDocs /\ written' = settings' /\ receipt' = receipt
        /\ \A q \in Procs : job'[q] = job[q]
    BY <1>14 DEF Edit
  <2>2. PersonDocs \subseteq Files
    BY DocsAssumption DEF DocsAssumption, Files
  <2>3. TypeOK'
    BY <1>j, <2>1, <2>2 DEF TypeOK
  <2>4. Follows'
    BY <2>1 DEF Follows
  <2>5. ASSUME NEW q \in Procs PROVE Held(q)'
    <3>1. Given(q)' /\ Readable(q)' /\ Receipted(q)'
      BY <1>j, <2>1 DEF Held, Given, Readable, Receipted
    <3>2. Merged(q)'
      BY <1>j, <2>1 DEF Held, Merged, MergedWith, Untainted
    <3> QED
      BY <3>1, <3>2 DEF Held
  <2> QED
    BY <2>3, <2>4, <2>5 DEF FileInv
<1> QED
  BY <1>1, <1>2, <1>3, <1>4, <1>5, <1>6, <1>7, <1>8, <1>9, <1>10, <1>11, <1>12, <1>13,
     <1>14 DEF Next, Advance, RemoveLock, Person, vars
(* A replacement puts in place the merge of a document the command has read.  *)
LEMMA Replaces ==
  ASSUME FileInv, NEW p \in Procs, Replace(p)
  PROVE  /\ job[p].cmd \in {"install", "uninstall"} /\ job[p].spec \in Specs
         /\ job[p].before \in Docs \cup {Absent} /\ settings' = job[p].result.doc
         /\ \E created \in SUBSET Containers : MergedWith(job[p], created)
<1>1. job[p].stage = "rechecked" /\ settings' = job[p].result.doc
  BY DEF Replace
<1>2. Given(p) /\ Readable(p) /\ Merged(p)
  BY DEF FileInv, Held
<1> QED
  BY <1>1, <1>2 DEF Given, Readable, Merged, Working, Merging

-----------------------------------------------------------------------------
(* "Remove only agent-defs hook handlers": for any number of installers, any  *)
(* document and any kills, a command that replaces the file leaves every      *)
(* group and handler of the person's as it was, in its order, unless an edit  *)
(* came after the last look.                                                 *)
THEOREM NothingOfTheirs == Spec => OnlyOursChanges
<1>1. ASSUME IInv, FileInv, NEW p \in Procs, Replace(p), raced' = "no"
      PROVE  LET old == IF settings = Absent THEN Empty ELSE settings
             IN  \A e \in AnyEvent : TheirPart(settings', e) = TheirPart(old, e)
  <2>1. settings = job[p].before
    BY <1>1 DEF IInv, Fresh, Replace, Person
  <2>2. PICK created \in SUBSET Containers : MergedWith(job[p], created)
    BY <1>1, Replaces
  <2>3. \A e \in AnyEvent :
          TheirOf(GroupsOf(settings', e)) = TheirOf(GroupsOf(Old(settings), e))
    BY <1>1, <2>1, <2>2, Replaces, ResultTyped
  <2>4. \A d, e : TheirPart(d, e) = TheirOf(GroupsOf(d, e))
    BY DEF TheirPart, TheirOf
  <2> QED
    BY <2>3, <2>4 DEF Old
<1>2. ASSUME IInv, FileInv
      PROVE  [\A p \in Procs : Replace(p) /\ raced' = "no" =>
                LET old == IF settings = Absent THEN Empty ELSE settings
                IN  \A e \in AnyEvent : TheirPart(settings', e) = TheirPart(old, e)]_vars
  BY <1>1, <1>2
<1> QED
  BY <1>2, InitIInv, StepIInv, InitFileInv, StepFileInv, PTL DEF Spec, OnlyOursChanges

(* test_install_idempotent: whatever handlers of other installations a file   *)
(* held, once an install has replaced it each event runs the hook once.       *)
THEOREM OneHandler == Spec => RunsOnce
<1>1. ASSUME FileInv, NEW p \in Procs, Replace(p), job[p].cmd = "install", NEW e \in Events
      PROVE  /\ Cardinality(OwnedAt(settings'.on[e])) = 1
             /\ \E i \in DOMAIN settings'.on[e] : settings'.on[e][i] = Dedicated(job[p].spec)
  <2>1. PICK created \in SUBSET Containers : MergedWith(job[p], created)
    BY <1>1, Replaces
  <2>2. PICK d \in Docs : d = Old(job[p].before)
    BY <1>1, Replaces, EmptyDoc
  <2>3. settings' = MergeInstall(d, job[p].spec, created).doc
    BY <1>1, <2>1, <2>2, Replaces DEF MergedWith, Merge
  <2>4. settings'.on[e] = Installed(GroupsOf(d, e), job[p].spec)
    BY <1>1, <2>2, <2>3, Replaces, InstallDoc
  <2>5. GroupsOf(d, e) \in Seq(Groups)
    BY <2>2, OwnedInDoc
  <2> QED
    BY <1>1, <2>4, <2>5, Replaces, InstalledGroups
<1>2. ASSUME FileInv
      PROVE  [\A p \in Procs : Replace(p) /\ job[p].cmd = "install" =>
                \A e \in Events :
                  /\ Cardinality(OwnedAt(settings'.on[e])) = 1
                  /\ \E i \in DOMAIN settings'.on[e] :
                       settings'.on[e][i] = Dedicated(job[p].spec)]_vars
  BY <1>1, <1>2
<1> QED
  BY <1>2, InitIInv, StepIInv, InitFileInv, StepFileInv, PTL DEF Spec, RunsOnce

(* test_install_idempotent_and_uninstall_preserves_guard: for any documents,  *)
(* installers, upgrades, kills and refused edits, a file without our handlers *)
(* is the one the person last wrote, if they wrote it without them.           *)
THEOREM Restored == Spec => []UninstallRestores
<1>1. FileInv => UninstallRestores
  <2> SUFFICES ASSUME FileInv, Untainted, settings # Absent, ~HasOwned(settings)
               PROVE  settings = Old(written)
    BY DEF UninstallRestores, Untainted, Old
  <2>1. TypeOK /\ Follows
    BY DEF FileInv
  <2>2. CASE settings \in {written, Old(written)}
    BY <2>2 DEF Old
  <2>3. ASSUME written # Invalid, NEW s \in Specs, settings = Hooked(Old(written), s)
        PROVE  FALSE
    BY <2>1, <2>3, OldWritten, UninstallFresh
  <2> QED
    BY <2>1, <2>2, <2>3 DEF Follows
<1> QED
  BY <1>1, InitIInv, StepIInv, InitFileInv, StepFileInv, PTL DEF Spec
=============================================================================
