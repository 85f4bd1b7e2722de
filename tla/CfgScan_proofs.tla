----------------------------- MODULE CfgScan_proofs -----------------------------
(***************************************************************************)
(* Why a configuration scan keeps its promise: the lines in the pipe are    *)
(* the shipped worker's, one per rule in order, what the parent receives is *)
(* a prefix of them, and what it has accepted is exactly what it reports.   *)
(* That a line says what an exhaustive search would have said is a fact     *)
(* about the walk over the conditions, proved by induction on its steps.    *)
(***************************************************************************)
EXTENDS CfgScanProps, SequenceTheorems, WellFoundedInduction, TLAPS

-----------------------------------------------------------------------------
(* Induction, as a fact about sets of numbers, and what it shows of Only. *)

(* Every set of numbers that is not empty has a smallest one.                *)
LEMMA SmallestNat ==
  ASSUME NEW T \in SUBSET Nat, T # {}
  PROVE  \E m \in T : \A k \in T : m <= k
<1> DEFINE R == OpToRel(<, Nat)
<1>1. IsWellFoundedOn(R, Nat)
  BY NatLessThanWellFounded
<1>2. \A x, y \in Nat : <<y, x>> \in R <=> y < x
  BY DEF OpToRel
<1> HIDE DEF R
<1>3. PICK m \in T : \A y \in T : ~ (<<y, m>> \in R)
  BY <1>1, WFMin
<1>4. ASSUME NEW k \in T PROVE m <= k
  <2>1. m \in Nat /\ k \in Nat
    OBVIOUS
  <2>2. ~ (k < m)
    BY <1>2, <1>3, <2>1
  <2> QED
    BY <2>1, <2>2
<1> QED
  BY <1>3, <1>4

(* A set with zero, and with the successor of every number in it, has every  *)
(* number.                                                                   *)
LEMMA SetInduction ==
  ASSUME NEW S, 0 \in S, \A n \in Nat : n \in S => n + 1 \in S
  PROVE  Nat \subseteq S
<1> SUFFICES ASSUME Nat \ S # {} PROVE FALSE
  OBVIOUS
<1>1. PICK m \in Nat \ S : \A k \in Nat \ S : m <= k
  BY SmallestNat
<1> QED
  BY <1>1


Chain(s, T, m, g) ==
  \A n \in 0 .. m :
    g[n] = IF n = 0 THEN <<>> ELSE IF s[n] \in T THEN Append(g[n - 1], s[n]) ELSE g[n - 1]

(* The recursion in Only has a solution, and its steps are sequences.        *)
LEMMA ChainExists ==
  ASSUME NEW S, NEW s \in Seq(S), NEW T
  PROVE  \E g \in [0 .. Len(s) -> Seq(S \cap T)] : Chain(s, T, Len(s), g)
<1> DEFINE Good == {m \in Nat : m <= Len(s) =>
                      \E g \in [0 .. m -> Seq(S \cap T)] : Chain(s, T, m, g)}
<1>1. 0 \in Good
  <2>1. [n \in 0 .. 0 |-> <<>>] \in [0 .. 0 -> Seq(S \cap T)]
    OBVIOUS
  <2>2. Chain(s, T, 0, [n \in 0 .. 0 |-> <<>>])
    BY DEF Chain
  <2> QED
    BY <2>1, <2>2
<1>2. ASSUME NEW m \in Nat, m \in Good PROVE m + 1 \in Good
  <2> SUFFICES ASSUME m + 1 <= Len(s)
               PROVE  \E g \in [0 .. m + 1 -> Seq(S \cap T)] : Chain(s, T, m + 1, g)
    OBVIOUS
  <2>1. PICK g \in [0 .. m -> Seq(S \cap T)] : Chain(s, T, m, g)
    BY <1>2
  <2>2. g[m] \in Seq(S \cap T) /\ s[m + 1] \in S
    BY <2>1
  <2> DEFINE e == IF s[m + 1] \in T THEN Append(g[m], s[m + 1]) ELSE g[m]
  <2>3. e \in Seq(S \cap T)
    BY <2>2
  <2> DEFINE h == [n \in 0 .. m + 1 |-> IF n = m + 1 THEN e ELSE g[n]]
  <2>4. h \in [0 .. m + 1 -> Seq(S \cap T)]
    BY <2>1, <2>3
  <2>5. ASSUME NEW n \in 0 .. m + 1
        PROVE  h[n] = IF n = 0 THEN <<>>
                      ELSE IF s[n] \in T THEN Append(h[n - 1], s[n]) ELSE h[n - 1]
    <3>1. CASE n = m + 1
      <4>1. h[n] = e /\ h[n - 1] = g[m] /\ n # 0
        BY <3>1
      <4> QED
        BY <3>1, <4>1
    <3>2. CASE n # m + 1
      <4>1. n \in 0 .. m /\ h[n] = g[n] /\ (n # 0 => h[n - 1] = g[n - 1])
        BY <3>2
      <4> QED
        BY <2>1, <4>1 DEF Chain
    <3> QED
      BY <3>1, <3>2
  <2>6. Chain(s, T, m + 1, h)
    BY <2>5 DEF Chain
  <2> QED
    BY <2>4, <2>6
<1>3. Nat \subseteq Good
  <2> HIDE DEF Good
  <2> QED
    BY <1>1, <1>2, SetInduction
<1>4. Len(s) \in Nat
  OBVIOUS
<1> QED
  BY <1>3, <1>4

(* What is chosen is a list of elements of the set.                          *)
LEMMA OnlyTyped ==
  ASSUME NEW S, NEW s \in Seq(S), NEW T
  PROVE  Only(s, T) \in Seq(S \cap T)
<1> DEFINE F(f) == f = [n \in 0 .. Len(s) |->
                         IF n = 0 THEN <<>>
                         ELSE IF s[n] \in T THEN Append(f[n - 1], s[n]) ELSE f[n - 1]]
           first == CHOOSE f : F(f)
<1>1. PICK h \in [0 .. Len(s) -> Seq(S \cap T)] : Chain(s, T, Len(s), h)
  BY ChainExists
<1>2. F(h)
  BY <1>1 DEF Chain
<1>3. F(first)
  BY <1>2
<1>4. Chain(s, T, Len(s), first)
  BY <1>3 DEF Chain
<1>5. Only(s, T) = first[Len(s)]
  BY DEF Only
<1> HIDE DEF first, F
<1> DEFINE Good == {n \in Nat : n <= Len(s) => first[n] \in Seq(S \cap T)}
<1>6. 0 \in Good
  <2>1. 0 \in 0 .. Len(s) /\ <<>> \in Seq(S \cap T)
    OBVIOUS
  <2> QED
    BY <1>4, <2>1 DEF Chain
<1>7. ASSUME NEW n \in Nat, n \in Good PROVE n + 1 \in Good
  <2> SUFFICES ASSUME n + 1 <= Len(s) PROVE first[n + 1] \in Seq(S \cap T)
    OBVIOUS
  <2>1. n + 1 \in 0 .. Len(s) /\ n + 1 # 0 /\ (n + 1) - 1 = n /\ first[n] \in Seq(S \cap T) /\ s[n + 1] \in S
    BY <1>7
  <2>2. first[n + 1] = IF s[n + 1] \in T THEN Append(first[n], s[n + 1]) ELSE first[n]
    BY <1>4, <2>1 DEF Chain
  <2> QED
    BY <2>1, <2>2
<1>8. Nat \subseteq Good
  <2> HIDE DEF Good
  <2> QED
    BY <1>6, <1>7, SetInduction
<1>9. Len(s) \in Nat
  OBVIOUS
<1> QED
  BY <1>5, <1>8, <1>9

-----------------------------------------------------------------------------
(* The lines, and what is taken from them. *)

(* The line of the shipped worker for rule i: what the trusted scan reports,  *)
(* unless the document was cut.                                              *)
Tells(r, l) ==
  \A c \in Conditions, t \in Texts :
    ReportedFor(r, c, t) <=> l.condition = c /\ l.text = t
Written(i, l) ==
  IF Bindings[i].behaviour = "runs"
    THEN /\ l.status = "ok" /\ l.index = i
         /\ l.condition # 0 => l.condition \in Conditions /\ l.text \in Texts
         /\ ~job.cut => Tells(Bindings[i], l)
    ELSE l = Error(i)

(* Lines of any worker, and lines of ours.                                    *)
Lines(s) ==
  s \in Seq(Line) /\ \A i \in 1 .. Len(s) : s[i].status # "ok" => s[i].condition = 0
Ours(s) == Len(s) <= Len(Bindings) /\ \A i \in 1 .. Len(s) : Written(i, s[i])

WorkerOK ==
  /\ Lines(pipe) /\ row \in Nat
  /\ Honest => row = Len(pipe) + 1 /\ Ours(pipe)

ReplyOK ==
  /\ Lines(received) /\ cancelled \in {"clear", "set"}
  /\ Honest => Ours(received)

Accepted(i) ==
  /\ received[i].index = i /\ i <= Len(Bindings)
  /\ received[i].status \in {"ok", "error"}
  /\ received[i].status = "ok" => SpanOK(received[i])
ParseOK ==
  /\ completed \in 0 .. Len(received)
  /\ \A i \in 1 .. completed : Accepted(i)
  /\ found = {Finding(received[i]) : i \in {j \in 1 .. completed : received[j].condition # 0}}
  /\ errors = {i \in 1 .. completed : received[i].status = "error"}

StageOK ==
  /\ pc \in {"bundle", "wire", "running", "parse", "conclude", "returned"}
  /\ pc \in {"bundle", "wire", "running"} => received = <<>> /\ completed = 0
  /\ pc = "conclude" => workerError # "no"
  /\ pc = "returned" /\ workerError = "no" /\ Bindings # <<>> =>
       completed = Len(received) /\ completed = Len(Bindings)

IInv == job \in JobType /\ WorkerOK /\ ReplyOK /\ ParseOK /\ StageOK
-----------------------------------------------------------------------------
(* The walk over the conditions of a rule. *)

(* What a walk knows after the first c conditions.                           *)
Leads(r, t, c, f) ==
  f \in 1 .. c /\ Counts(r, t, f) /\ \A d \in 1 .. f - 1 : ~Counts(r, t, d)
Knows(r, t, c, w) ==
  /\ w.first \in 0 .. c /\ w.stopped \in BOOLEAN
  /\ r.logic = "any" => /\ w.stopped <=> w.first # 0
                        /\ w.first # 0 => Leads(r, t, c, w.first)
                        /\ w.first = 0 => \A d \in 1 .. c : ~Counts(r, t, d)
  /\ r.logic = "all" => /\ w.stopped => w.first = 0 /\ \E d \in 1 .. c : ~Counts(r, t, d)
                        /\ ~w.stopped => /\ \A d \in 1 .. c : Counts(r, t, d)
                                         /\ c # 0 => w.first = 1

(* A condition counts where the source would say that it matched.            *)
LEMMA SeesCounts ==
  ASSUME NEW r \in RuleType, NEW t \in Texts, NEW c \in Conditions
  PROVE  Sees(r, t, c) <=> Counts(r, t, c)
<1>1. r.sees[t][c] \in Sights
  BY DEF RuleType
<1>2. r.suppress \in BOOLEAN
  BY DEF RuleType
<1> QED
  BY <1>1, <1>2 DEF Sees, Counts, Sights

(* One more condition.                                                       *)
LEMMA OneCondition ==
  ASSUME NEW r \in RuleType, NEW t \in Texts, NEW c \in Nat, c + 1 <= r.count,
         NEW w, Knows(r, t, c, w)
  PROVE  Knows(r, t, c + 1, Past(r, t, c + 1, w))
<1>1. r.count \in 0 .. MaxConditions /\ r.logic \in {"any", "all"} /\ MaxConditions \in Nat
  BY LimitsAssumption DEF RuleType, LimitsAssumption
<1>2. c + 1 \in Conditions
  BY <1>1 DEF Conditions
<1>3. Sees(r, t, c + 1) <=> Counts(r, t, c + 1)
  BY <1>2, SeesCounts
<1>4. \A d \in 1 .. c + 1 : d \in 1 .. c \/ d = c + 1
  OBVIOUS
<1>5. w.first \in 0 .. c /\ w.stopped \in BOOLEAN
  BY DEF Knows
<1>6. CASE w.stopped
  <2>1. Past(r, t, c + 1, w) = w
    BY <1>6 DEF Past
  <2>2. r.logic = "any" => w.first # 0 /\ Leads(r, t, c + 1, w.first)
    BY <1>6 DEF Knows, Leads
  <2>3. r.logic = "all" => w.first = 0 /\ \E d \in 1 .. c + 1 : ~Counts(r, t, d)
    BY <1>6 DEF Knows
  <2>4. w.first \in 0 .. c + 1
    BY <1>5
  <2> QED
    BY <1>1, <1>5, <1>6, <2>1, <2>2, <2>3, <2>4 DEF Knows
<1>7. CASE ~w.stopped /\ Sees(r, t, c + 1)
  <2> DEFINE f == IF w.first = 0 THEN c + 1 ELSE w.first
  <2>1. Past(r, t, c + 1, w) = At(f, r.logic = "any")
    BY <1>7 DEF Past
  <2>2. At(f, r.logic = "any").first = f /\ At(f, r.logic = "any").stopped = (r.logic = "any")
    BY DEF At
  <2>3. f \in 1 .. c + 1
    BY <1>5
  <2>4. ASSUME r.logic = "any" PROVE f = c + 1 /\ Leads(r, t, c + 1, f)
    <3>1. w.first = 0 /\ \A d \in 1 .. c : ~Counts(r, t, d)
      BY <1>7, <2>4 DEF Knows
    <3>2. (c + 1) - 1 = c /\ c + 1 \in 1 .. c + 1
      OBVIOUS
    <3> QED
      BY <1>3, <1>7, <3>1, <3>2 DEF Leads
  <2>5. ASSUME r.logic = "all" PROVE f = 1 /\ \A d \in 1 .. c + 1 : Counts(r, t, d)
    <3>1. (\A d \in 1 .. c : Counts(r, t, d)) /\ (c # 0 => w.first = 1)
      BY <1>7, <2>5 DEF Knows
    <3>2. f = 1
      BY <1>5, <3>1
    <3> QED
      BY <1>3, <1>4, <1>7, <3>1, <3>2
  <2> HIDE DEF f
  <2>6. Past(r, t, c + 1, w).first = f /\ Past(r, t, c + 1, w).stopped = (r.logic = "any")
    BY <2>1, <2>2
  <2>7. f # 0 /\ f \in 0 .. c + 1
    BY <2>3
  <2>8. r.logic = "any" => r.logic # "all"
    OBVIOUS
  <2> QED
    BY <1>1, <2>4, <2>5, <2>6, <2>7, <2>8 DEF Knows
<1>8. CASE ~w.stopped /\ ~Sees(r, t, c + 1) /\ r.logic = "all"
  <2>1. Past(r, t, c + 1, w) = At(0, TRUE)
    BY <1>8 DEF Past
  <2>2. \E d \in 1 .. c + 1 : ~Counts(r, t, d)
    BY <1>3, <1>8
  <2>3. At(0, TRUE).first = 0 /\ At(0, TRUE).stopped = TRUE
    BY DEF At
  <2>4. r.logic # "any" /\ 0 \in 0 .. c + 1 /\ c + 1 # 0
    BY <1>8
  <2> QED
    BY <2>1, <2>2, <2>3, <2>4 DEF Knows
<1>9. CASE ~w.stopped /\ ~Sees(r, t, c + 1) /\ r.logic # "all"
  <2>1. Past(r, t, c + 1, w) = w
    BY <1>9 DEF Past
  <2>2. r.logic = "any" /\ w.first = 0
    BY <1>1, <1>5, <1>9 DEF Knows
  <2>3. \A d \in 1 .. c + 1 : ~Counts(r, t, d)
    BY <1>3, <1>4, <1>9, <2>2 DEF Knows
  <2> QED
    BY <1>5, <1>9, <2>1, <2>2, <2>3 DEF Knows
<1> QED
  BY <1>6, <1>7, <1>8, <1>9

(* What the walk has seen after each of m conditions.                         *)
Walked(r, t, m, g) ==
  g = [c \in 0 .. m |-> IF c = 0 THEN At(0, FALSE) ELSE Past(r, t, c, g[c - 1])]

(* The walk can be taken.                                                    *)
LEMMA WalkExists ==
  ASSUME NEW r, NEW t, r.count \in Nat
  PROVE  \E g : Walked(r, t, r.count, g)
<1> DEFINE Good == {m \in Nat : \E g : Walked(r, t, m, g)}
<1>1. 0 \in Good
  <2>1. Walked(r, t, 0, [c \in 0 .. 0 |-> At(0, FALSE)])
    BY DEF Walked
  <2> QED
    BY <2>1
<1>2. ASSUME NEW m \in Nat, m \in Good PROVE m + 1 \in Good
  <2>1. PICK g : Walked(r, t, m, g)
    BY <1>2
  <2> DEFINE h == [c \in 0 .. m + 1 |-> IF c = m + 1 THEN Past(r, t, c, g[m]) ELSE g[c]]
  <2>2. ASSUME NEW c \in 0 .. m + 1
        PROVE  h[c] = IF c = 0 THEN At(0, FALSE) ELSE Past(r, t, c, h[c - 1])
    <3>1. CASE c = m + 1
      <4>1. c # 0 /\ c - 1 = m /\ m \in 0 .. m + 1 /\ m # m + 1
        BY <3>1
      <4>2. h[c] = Past(r, t, c, g[m]) /\ h[m] = g[m]
        BY <3>1, <4>1
      <4> QED
        BY <4>1, <4>2
    <3>2. CASE c # m + 1
      <4>1. c \in 0 .. m /\ (c # 0 => c - 1 \in 0 .. m + 1 /\ c - 1 # m + 1)
        BY <3>2
      <4>2. h[c] = g[c] /\ (c # 0 => h[c - 1] = g[c - 1])
        BY <3>2, <4>1
      <4>3. g[c] = IF c = 0 THEN At(0, FALSE) ELSE Past(r, t, c, g[c - 1])
        BY <2>1, <4>1 DEF Walked
      <4> HIDE DEF h
      <4> QED
        BY <4>2, <4>3
    <3> QED
      BY <3>1, <3>2
  <2>3. Walked(r, t, m + 1, h)
    <3>1. h = [c \in 0 .. m + 1 |-> h[c]]
      OBVIOUS
    <3> HIDE DEF h
    <3>2. [c \in 0 .. m + 1 |-> h[c]]
            = [c \in 0 .. m + 1 |-> IF c = 0 THEN At(0, FALSE) ELSE Past(r, t, c, h[c - 1])]
      BY <2>2
    <3> QED
      BY <3>1, <3>2 DEF Walked
  <2> HIDE DEF h
  <2> QED
    BY <2>3
<1>3. Nat \subseteq Good
  <2> HIDE DEF Good
  <2> QED
    BY <1>1, <1>2, SetInduction
<1> QED
  BY <1>3

(* What the walk finds: a condition exactly when the rule fires on the text,  *)
(* and then the first that counts.                                           *)
LEMMA WalkFinds ==
  ASSUME NEW r \in Executable, NEW t \in Texts
  PROVE  /\ Walk(r, t) \in 0 .. r.count
         /\ Walk(r, t) # 0 <=> Fires(r, t)
         /\ Walk(r, t) # 0 => Leads(r, t, r.count, Walk(r, t))
<1> DEFINE walked == CHOOSE g : Walked(r, t, r.count, g)
<1>1. r \in RuleType /\ r.count \in Nat /\ r.count # 0 /\ r.logic \in {"any", "all"}
  BY LimitsAssumption DEF Executable, RuleType, LimitsAssumption
<1>2. Walked(r, t, r.count, walked)
  BY <1>1, WalkExists
<1>3. Walk(r, t) = walked[r.count].first
  BY DEF Walk, Walked
<1>4. \A c \in 0 .. r.count :
        walked[c] = IF c = 0 THEN At(0, FALSE) ELSE Past(r, t, c, walked[c - 1])
  BY <1>2 DEF Walked
<1> HIDE DEF walked
<1> DEFINE Good == {c \in Nat : c <= r.count => Knows(r, t, c, walked[c])}
<1>5. 0 \in Good
  <2>1. walked[0] = At(0, FALSE)
    <3>1. 0 \in 0 .. r.count
      BY <1>1
    <3> QED
      BY <1>4, <3>1
  <2>2. Knows(r, t, 0, At(0, FALSE))
    <3>1. PICK w : w = At(0, FALSE)
      OBVIOUS
    <3>2. w.first = 0 /\ w.stopped \in BOOLEAN /\ ~w.stopped
      BY <3>1 DEF At
    <3>3. \A d \in 1 .. 0 : FALSE
      OBVIOUS
    <3>4. Knows(r, t, 0, w)
      BY <3>2, <3>3 DEF Knows
    <3> QED
      BY <3>1, <3>4
  <2> QED
    BY <2>1, <2>2
<1>6. ASSUME NEW c \in Nat, c \in Good PROVE c + 1 \in Good
  <2> SUFFICES ASSUME c + 1 <= r.count PROVE Knows(r, t, c + 1, walked[c + 1])
    OBVIOUS
  <2>1. c + 1 \in 0 .. r.count /\ c + 1 # 0 /\ (c + 1) - 1 = c
    BY <1>1
  <2>2. walked[c + 1] = Past(r, t, c + 1, walked[c])
    BY <1>4, <2>1
  <2>3. Knows(r, t, c, walked[c])
    BY <1>1, <1>6
  <2> QED
    BY <1>1, <2>2, <2>3, OneCondition
<1>7. Nat \subseteq Good
  <2> HIDE DEF Good
  <2> QED
    BY <1>5, <1>6, SetInduction
<1>8. Knows(r, t, r.count, walked[r.count])
  BY <1>1, <1>7
<1>9. PICK w : w = walked[r.count]
  OBVIOUS
<1>10. Knows(r, t, r.count, w) /\ Walk(r, t) = w.first
  BY <1>3, <1>8, <1>9
<1>11. CASE r.logic = "any"
  <2>1. w.first # 0 => Leads(r, t, r.count, w.first)
    BY <1>10, <1>11 DEF Knows
  <2>2. w.first = 0 => \A d \in 1 .. r.count : ~Counts(r, t, d)
    BY <1>10, <1>11 DEF Knows
  <2>3. Fires(r, t) <=> \E d \in 1 .. r.count : Counts(r, t, d)
    BY <1>11 DEF Fires
  <2>4. w.first \in 0 .. r.count
    BY <1>10 DEF Knows
  <2> QED
    BY <1>10, <2>1, <2>2, <2>3, <2>4 DEF Leads
<1>12. CASE r.logic = "all"
  <2>1. Fires(r, t) <=> \A d \in 1 .. r.count : Counts(r, t, d)
    BY <1>12 DEF Fires
  <2>2. w.first \in 0 .. r.count /\ w.stopped \in BOOLEAN
    BY <1>10 DEF Knows
  <2>3. CASE w.stopped
    BY <1>10, <1>12, <2>1, <2>2, <2>3 DEF Knows
  <2>4. CASE ~w.stopped
    <3>1. w.first = 1 /\ \A d \in 1 .. r.count : Counts(r, t, d)
      BY <1>1, <1>10, <1>12, <2>4 DEF Knows
    <3>2. 1 \in 1 .. r.count
      BY <1>1
    <3> QED
      BY <1>10, <2>1, <2>2, <3>1, <3>2 DEF Leads
  <2> QED
    BY <2>2, <2>3, <2>4
<1> QED
  BY <1>1, <1>11, <1>12

-----------------------------------------------------------------------------
(* The search over the texts. *)

(* The texts of a document are texts.                                        *)
LEMMA SearchedTexts ==
  ASSUME job \in JobType
  PROVE  /\ Searched \subseteq Texts /\ Searched \subseteq Nat \ {0}
         /\ \A t \in Texts : t \in Searched <=> t = 1 \/ (job.decode /\ t <= 1 + job.blocks)
<1>1. job.blocks \in 0 .. MaxTexts - 1 /\ job.decode \in BOOLEAN
  BY DEF JobType
<1>2. MaxTexts \in Nat \ {0}
  BY LimitsAssumption DEF LimitsAssumption
<1>3. job.blocks \in Nat /\ 1 + job.blocks <= MaxTexts
  BY <1>1, <1>2
<1>4. CASE job.decode
  <2>1. Searched = 1 .. (1 + job.blocks)
    BY <1>4 DEF Searched
  <2> QED
    BY <1>2, <1>3, <1>4, <2>1 DEF Texts
<1>5. CASE ~job.decode
  <2>1. Searched = 1 .. 1
    BY <1>5 DEF Searched
  <2> QED
    BY <1>2, <1>3, <1>5, <2>1 DEF Texts
<1> QED
  BY <1>4, <1>5

(* A search ends without a match, or with one at a condition of the rule.    *)
LEMMA SearchTyped ==
  ASSUME job \in JobType, NEW r \in Executable
  PROVE  \/ Search(r) = NoMatch /\ \A t \in Searched : ~Fires(r, t)
         \/ \E t \in Searched :
              /\ Search(r) = [condition |-> Walk(r, t), text |-> t]
              /\ Fires(r, t) /\ \A u \in Searched : u < t => ~Fires(r, u)
<1> DEFINE hit == {t \in Searched : Walk(r, t) # 0}
<1>1. \A t \in Searched : Walk(r, t) # 0 <=> Fires(r, t)
  BY SearchedTexts, WalkFinds
<1>2. hit \subseteq Nat
  BY SearchedTexts
<1>3. Search(r) = IF hit = {} THEN NoMatch
                  ELSE [condition |-> Walk(r, FirstText(r, hit)), text |-> FirstText(r,
                  hit)]
  BY DEF Search
<1>4. CASE hit = {}
  BY <1>1, <1>3, <1>4
<1>5. CASE hit # {}
  <2>1. \E t \in hit : \A u \in hit : t <= u
    <3> HIDE DEF hit
    <3> QED
      BY <1>2, <1>5, SmallestNat
  <2>2. PICK t : t = FirstText(r, hit)
    OBVIOUS
  <2>3. t \in hit /\ \A u \in hit : t <= u
    BY <2>1, <2>2 DEF FirstText
  <2>4. \A u \in Searched : u < t => ~Fires(r, u)
    <3> SUFFICES ASSUME NEW u \in Searched, u < t, Fires(r, u) PROVE FALSE
      OBVIOUS
    <3>1. u \in hit
      BY <1>1
    <3> QED
      BY <1>2, <2>3, <3>1
  <2>5. Search(r) = [condition |-> Walk(r, t), text |-> t]
    BY <1>3, <1>5, <2>2
  <2> QED
    BY <1>1, <2>3, <2>4, <2>5
<1> QED
  BY <1>4, <1>5

(* The search finds what the trusted scan reports, and nothing else.         *)
LEMMA SearchReports ==
  ASSUME job \in JobType, NEW r \in Executable, NEW c \in Conditions, NEW t \in Texts
  PROVE  ReportedFor(r, c, t) <=> Search(r) = [condition |-> c, text |-> t]
<1>1. r.count \in Nat /\ c \in Nat \ {0} /\ t \in Nat \ {0}
  BY LimitsAssumption DEF Executable, RuleType, Conditions, Texts, LimitsAssumption
<1>2. \A u \in Texts : u \in Searched <=> u = 1 \/ (job.decode /\ u <= 1 + job.blocks)
  BY SearchedTexts
<1>3. ASSUME ReportedFor(r, c, t)
      PROVE  Search(r) = [condition |-> c, text |-> t]
  <2>1. /\ t \in Searched /\ Fires(r, t) /\ \A u \in 1 .. t - 1 : ~Fires(r, u)
        /\ c <= r.count /\ Counts(r, t, c) /\ \A d \in 1 .. c - 1 : ~Counts(r, t, d)
    BY <1>2, <1>3 DEF ReportedFor
  <2>2. PICK s \in Searched :
          /\ Search(r) = [condition |-> Walk(r, s), text |-> s]
          /\ Fires(r, s) /\ \A u \in Searched : u < s => ~Fires(r, u)
    BY <2>1, SearchTyped
  <2>3. s \in Nat \ {0}
    BY SearchedTexts
  <2>4. s = t
    BY <1>1, <2>1, <2>2, <2>3
  <2>5. Walk(r, t) # 0 /\ Walk(r, t) \in 0 .. r.count /\ Leads(r, t, r.count, Walk(r, t))
    BY <2>1, WalkFinds
  <2>6. PICK w : w = Walk(r, t)
    OBVIOUS
  <2>7. w \in 1 .. r.count /\ Counts(r, t, w) /\ \A d \in 1 .. w - 1 : ~Counts(r, t, d)
    BY <2>5, <2>6 DEF Leads
  <2>8. w = c
    BY <1>1, <2>1, <2>7
  <2> QED
    BY <2>2, <2>4, <2>6, <2>8
<1>4. ASSUME Search(r) = [condition |-> c, text |-> t]
      PROVE  ReportedFor(r, c, t)
  <2>1. Search(r) # NoMatch
    <3>1. Search(r).condition = c /\ NoMatch.condition = 0
      BY <1>4 DEF NoMatch
    <3> QED
      BY <1>1, <3>1
  <2>2. PICK s \in Searched :
          /\ Search(r) = [condition |-> Walk(r, s), text |-> s]
          /\ Fires(r, s) /\ \A u \in Searched : u < s => ~Fires(r, u)
    BY <2>1, SearchTyped
  <2>3. Search(r).condition = Walk(r, s) /\ Search(r).text = s
    BY <2>2
  <2>4. Search(r).condition = c /\ Search(r).text = t
    BY <1>4
  <2>5. s = t /\ Walk(r, t) = c
    BY <2>3, <2>4
  <2>6. Leads(r, t, r.count, c)
    BY <1>1, <2>5, WalkFinds
  <2>7. \A u \in 1 .. t - 1 : ~Fires(r, u)
    <3> SUFFICES ASSUME NEW u \in 1 .. t - 1 PROVE ~Fires(r, u)
      OBVIOUS
    <3>1. u \in Texts /\ u < t
      BY <1>1, LimitsAssumption DEF Texts, LimitsAssumption
    <3>2. u \in Searched
      <4>1. t = 1 \/ (job.decode /\ t <= 1 + job.blocks)
        BY <1>2, <2>2, <2>5
      <4>2. t # 1 /\ job.decode /\ t <= 1 + job.blocks
        BY <1>1, <4>1
      <4>3. job.blocks \in Int
        <5>1. job.blocks \in 0 .. MaxTexts - 1
          BY DEF JobType
        <5> QED
          BY <5>1
      <4>4. u <= 1 + job.blocks
        BY <1>1, <4>2, <4>3
      <4> QED
        BY <1>2, <3>1, <4>2, <4>4
    <3> QED
      BY <2>2, <2>5, <3>1, <3>2
  <2>8. c <= r.count /\ Counts(r, t, c) /\ \A d \in 1 .. c - 1 : ~Counts(r, t, d)
    BY <1>1, <2>6 DEF Leads
  <2> QED
    BY <1>2, <2>2, <2>5, <2>7, <2>8 DEF ReportedFor
<1> QED
  BY <1>3, <1>4
-----------------------------------------------------------------------------
(* The invariant. *)

(* The bindings are a list of executable rules.                              *)
LEMMA BindingsTyped ==
  ASSUME job \in JobType
  PROVE  /\ Bindings \in Seq(Executable) /\ Len(Bindings) \in Nat
         /\ \A i \in 1 .. Len(Bindings) : Bindings[i] \in Executable
<1>1. job.rules \in Seq(RuleType)
  BY DEF JobType
<1>2. Bindings \in Seq(RuleType \cap Executable)
  BY <1>1, OnlyTyped DEF Bindings
<1>3. RuleType \cap Executable = Executable
  BY DEF Executable
<1> QED
  BY <1>2, <1>3

(* The job, its rules and what is true of them never change.                 *)
LEMMA SameJob ==
  ASSUME UNCHANGED job
  PROVE  /\ Bindings' = Bindings
         /\ \A i, l : Written(i, l)' <=> Written(i, l)
         /\ \A s : Ours(s)' <=> Ours(s)
<1>1. Bindings' = Bindings
  BY DEF Bindings
<1>2. \A r, t, c : Counts(r, t, c)' <=> Counts(r, t, c)
  BY DEF Counts
<1>3. \A r, t : Fires(r, t)' <=> Fires(r, t)
  BY <1>2 DEF Fires
<1>4. \A r, c, t : ReportedFor(r, c, t)' <=> ReportedFor(r, c, t)
  BY <1>2, <1>3 DEF ReportedFor
<1>5. \A r, l : Tells(r, l)' <=> Tells(r, l)
  BY <1>4 DEF Tells
<1>6. \A i, l : Written(i, l)' <=> Written(i, l)
  BY <1>1, <1>5 DEF Written
<1> QED
  BY <1>1, <1>6 DEF Ours

(* A line more keeps a list of lines one.                                    *)
LEMMA OneMoreLine ==
  ASSUME NEW s, Lines(s), NEW l \in Line, l.status # "ok" => l.condition = 0
  PROVE  /\ Lines(Append(s, l))
         /\ Len(s) \in Nat /\ Len(Append(s, l)) = Len(s) + 1
         /\ Ours(s) /\ Len(s) + 1 <= Len(Bindings) /\ Written(Len(s) + 1, l)
              => Ours(Append(s, l))
<1>1. s \in Seq(Line) /\ Len(s) \in Nat
  BY DEF Lines
<1> DEFINE t == Append(s, l)
<1>2. /\ t \in Seq(Line) /\ Len(t) = Len(s) + 1 /\ t[Len(s) + 1] = l
      /\ \A i \in 1 .. Len(s) : t[i] = s[i]
  BY <1>1
<1> HIDE DEF t
<1>3. \A i \in 1 .. Len(t) : i = Len(s) + 1 \/ i \in 1 .. Len(s)
  BY <1>1, <1>2
<1>4. Lines(t)
  BY <1>2, <1>3 DEF Lines
<1>5. ASSUME Ours(s), Len(s) + 1 <= Len(Bindings), Written(Len(s) + 1, l)
      PROVE  Ours(t)
  BY <1>2, <1>3, <1>5 DEF Ours
<1> QED
  BY <1>1, <1>2, <1>4, <1>5 DEF t

(* What is cut short is lines too.                                           *)
LEMMA FewerLines ==
  ASSUME NEW s, Lines(s), NEW n \in 0 .. Len(s), job \in JobType
  PROVE  Lines(SubSeq(s, 1, n)) /\ (Ours(s) => Ours(SubSeq(s, 1, n)))
<1>1. s \in Seq(Line) /\ Len(s) \in Nat
  BY DEF Lines
<1> DEFINE t == SubSeq(s, 1, n)
<1>2. /\ t \in Seq(Line) /\ Len(t) = n
      /\ \A i \in 1 .. n : t[i] = s[i]
  BY <1>1
<1> HIDE DEF t
<1>3. \A i \in 1 .. Len(t) : i \in 1 .. Len(s) /\ t[i] = s[i]
  BY <1>1, <1>2
<1>4. Lines(t)
  BY <1>2, <1>3 DEF Lines
<1>5. Len(Bindings) \in Nat
  BY BindingsTyped
<1>6. Ours(s) => Ours(t)
  BY <1>1, <1>2, <1>3, <1>5 DEF Ours
<1> QED
  BY <1>4, <1>6 DEF t

(* What the shipped worker writes for a rule it can run.                     *)
LEMMA OutcomeWritten ==
  ASSUME job \in JobType, NEW i \in 1 .. Len(Bindings), NEW m \in Outcomes(Bindings[i]),
         Bindings[i].behaviour = "runs"
  PROVE  Ok(i, m) \in Line /\ Written(i, Ok(i, m))
<1>1. PICK r : r = Bindings[i]
  OBVIOUS
<1>2. r \in Executable /\ r.count \in 0 .. MaxConditions /\ MaxConditions \in Nat /\ i \in Nat
  BY <1>1, BindingsTyped, LimitsAssumption DEF Executable, RuleType, LimitsAssumption
<1>3. Searched \subseteq Texts /\ Searched \subseteq Nat \ {0}
  BY SearchedTexts
<1>4. /\ \/ m.condition = 0 /\ m.text = 0
         \/ m.condition \in Conditions /\ m.text \in Texts /\ m.text \in Nat
      /\ ~job.cut => m = Search(r)
  <2>1. CASE job.cut
    <3>1. m = NoMatch \/ m \in [condition : 1 .. r.count, text : Searched]
      BY <1>1, <2>1 DEF Outcomes
    <3>2. 1 .. r.count \subseteq Conditions
      BY <1>2 DEF Conditions
    <3>3. CASE m = NoMatch
      BY <2>1, <3>3 DEF NoMatch
    <3>4. CASE m \in [condition : 1 .. r.count, text : Searched]
      <4>1. m.condition \in 1 .. r.count /\ m.text \in Searched
        BY <3>4
      <4> QED
        BY <1>3, <2>1, <3>2, <4>1
    <3> QED
      BY <3>1, <3>3, <3>4
  <2>2. CASE ~job.cut
    <3>1. m = Search(r)
      BY <1>1, <2>2 DEF Outcomes
    <3>2. CASE Search(r) = NoMatch
      BY <3>1, <3>2 DEF NoMatch
    <3>3. CASE Search(r) # NoMatch
      <4>1. PICK t \in Searched :
              Search(r) = [condition |-> Walk(r, t), text |-> t] /\ Fires(r, t)
        BY <1>2, <3>3, SearchTyped
      <4>2. Walk(r, t) \in 1 .. r.count
        BY <1>2, <1>3, <4>1, WalkFinds
      <4>3. PICK w : w = Walk(r, t)
        OBVIOUS
      <4>4. w \in Conditions
        BY <1>2, <4>2, <4>3 DEF Conditions
      <4> QED
        BY <1>3, <3>1, <4>1, <4>3, <4>4
    <3> QED
      BY <3>2, <3>3
  <2> QED
    BY <2>1, <2>2
<1>5. \A c \in Conditions : c \in Nat \ {0}
  BY <1>2 DEF Conditions
<1>6. PICK l : l = Ok(i, m)
  OBVIOUS
<1>7. /\ l.status = "ok" /\ l.index = i /\ l.condition = m.condition /\ l.text = m.text
      /\ l = [status |-> "ok", index |-> i, condition |-> m.condition, text |-> m.text]
  BY <1>6 DEF Ok
<1>8. l \in Line
  <2>1. m.condition \in Nat /\ m.text \in Nat
    BY <1>4, <1>5
  <2> QED
    BY <1>2, <1>7, <2>1 DEF Line
<1>9. ~job.cut => Tells(r, l)
  <2> SUFFICES ASSUME ~job.cut, NEW c \in Conditions, NEW t \in Texts
               PROVE  ReportedFor(r, c, t) <=> l.condition = c /\ l.text = t
    BY DEF Tells
  <2>1. ReportedFor(r, c, t) <=> m = [condition |-> c, text |-> t]
    BY <1>2, <1>4, SearchReports
  <2>2. m = [condition |-> m.condition, text |-> m.text]
    <3>1. Search(r) = NoMatch \/ \E u : Search(r) = [condition |-> Walk(r, u), text |-> u]
      BY <1>2, SearchTyped
    <3> QED
      BY <1>4, <3>1 DEF NoMatch
  <2>3. m = [condition |-> c, text |-> t] <=> m.condition = c /\ m.text = t
    BY <2>2
  <2> QED
    BY <1>7, <2>1, <2>3
<1> QED
  BY <1>1, <1>4, <1>6, <1>7, <1>8, <1>9 DEF Written
LEMMA InitIInv == Init => IInv
<1> SUFFICES ASSUME Init PROVE IInv
  OBVIOUS
<1>1. job \in JobType /\ Len(Bindings) \in Nat
  BY JobsAssumption, BindingsTyped DEF Init, JobsAssumption
<1>2. Lines(<<>>) /\ Ours(<<>>) /\ Len(<<>>) = 0
  BY <1>1 DEF Lines, Ours
<1>3. WorkerOK /\ ReplyOK
  BY <1>2 DEF Init, WorkerOK, ReplyOK
<1>4. ParseOK
  BY <1>2 DEF Init, ParseOK
<1>5. StageOK
  BY DEF Init, StageOK
<1> QED
  BY <1>1, <1>3, <1>4, <1>5 DEF IInv

(* What a step does not touch stays as it was.                               *)
LEMMA WorkerStays ==
  ASSUME IInv, UNCHANGED <<job, pipe, row>>
  PROVE  job' \in JobType /\ WorkerOK'
<1>1. Ours(pipe)' <=> Ours(pipe)
  BY SameJob DEF Ours
<1> QED
  BY <1>1 DEF IInv, WorkerOK, Lines, Honest

LEMMA ReplyStays ==
  ASSUME IInv, UNCHANGED <<job, received, cancelled>>
  PROVE  ReplyOK'
<1>1. Ours(received)' <=> Ours(received)
  BY SameJob DEF Ours
<1> QED
  BY <1>1 DEF IInv, ReplyOK, Lines, Honest

LEMMA ParseStays ==
  ASSUME IInv, UNCHANGED <<job, received, completed, found, errors>>
  PROVE  ParseOK'
<1>1. Bindings' = Bindings
  BY SameJob
<1>2. \A i : Accepted(i)' <=> Accepted(i)
  BY <1>1 DEF Accepted, SpanOK
<1> QED
  BY <1>2 DEF IInv, ParseOK
(* Before anything is sent.                                                  *)
LEMMA PrepareIInv ==
  ASSUME IInv, Prepare
  PROVE  IInv'
<1>1. /\ UNCHANGED <<job, pipe, row, received, cancelled, completed, found, errors>>
      /\ pc \in {"bundle", "wire"}
  BY DEF Prepare, CheckBundle, WireBinding, Dispatch, parentVars, workerVars, replyVars,
     parseVars
<1>2. Bindings' = Bindings
  BY <1>1, SameJob
<1>3. \/ pc' \in {"wire", "running"}
      \/ pc' = "returned" /\ (workerError' # "no" \/ Len(Bindings) = 0)
  <2>1. CASE CheckBundle
    BY <2>1 DEF CheckBundle, Return
  <2>2. CASE WireBinding
    BY <1>1, <2>2 DEF WireBinding, Return
  <2>3. CASE Dispatch
    BY <2>3 DEF Dispatch, Return
  <2> QED
    BY <2>1, <2>2, <2>3 DEF Prepare
<1>4. Len(Bindings) = 0 => Bindings = <<>>
  BY BindingsTyped DEF IInv
<1>5. StageOK'
  BY <1>1, <1>2, <1>3, <1>4 DEF IInv, StageOK
<1> QED
  BY <1>1, <1>5, WorkerStays, ReplyStays, ParseStays DEF IInv

(* The worker and the clock.                                                 *)
LEMMA WorkerIInv ==
  ASSUME IInv, Worker \/ Expire
  PROVE  IInv'
<1>1. UNCHANGED <<job, pc, received, completed, found, errors, workerError>> /\ pc = "running"
  BY DEF Worker, Launch, Evaluate, Exit, Crash, Arbitrary, Expire, WorkerFrame, Working,
         parentVars, replyVars, parseVars
<1>2. Bindings' = Bindings
  BY <1>1, SameJob
<1>3. ReplyOK'
  <2>1. UNCHANGED cancelled \/ cancelled' = "set"
    BY DEF Worker, Launch, Evaluate, Exit, Crash, Arbitrary, Expire, WorkerFrame, replyVars
  <2>2. Ours(received)' <=> Ours(received)
    BY <1>1, SameJob DEF Ours
  <2> QED
    BY <1>1, <2>1, <2>2 DEF IInv, ReplyOK, Lines, Honest
<1>4. StageOK'
  BY <1>1, <1>2 DEF IInv, StageOK
<1>5. job' \in JobType /\ WorkerOK'
  <2>1. CASE UNCHANGED <<pipe, row>>
    BY <1>1, <2>1, WorkerStays
  <2>2. CASE Evaluate
    <3>1. /\ Honest /\ row <= Len(Bindings) /\ row' = row + 1
          /\ row = Len(pipe) + 1 /\ Ours(pipe) /\ Lines(pipe) /\ row \in Nat
      BY <2>2 DEF Evaluate, Honest, IInv, WorkerOK
    <3>2. row \in 1 .. Len(Bindings) /\ Len(Bindings) \in Nat
      <4>1. Len(Bindings) \in Nat /\ Len(pipe) \in Nat
        BY <3>1, BindingsTyped DEF IInv, Lines
      <4> QED
        BY <3>1, <4>1
    <3>3. PICK l \in Line : /\ pipe' = Append(pipe, l) /\ Written(row, l)
                            /\ l.status # "ok" => l.condition = 0
      <4>1. CASE /\ Bindings[row].behaviour = "runs"
                 /\ \E m \in Outcomes(Bindings[row]) : pipe' = Append(pipe, Ok(row, m))
        <5>1. PICK m \in Outcomes(Bindings[row]) : pipe' = Append(pipe, Ok(row, m))
          BY <4>1
        <5>2. Ok(row, m) \in Line /\ Written(row, Ok(row, m))
          BY <3>2, <4>1, <5>1, OutcomeWritten DEF IInv
        <5>3. Ok(row, m).status = "ok"
          BY DEF Ok
        <5> QED
          BY <5>1, <5>2, <5>3
      <4>2. CASE Bindings[row].behaviour # "runs" /\ pipe' = Append(pipe, Error(row))
        <5>1. Error(row) \in Line /\ Error(row).condition = 0
          BY <3>1 DEF Error, Line
        <5>2. Written(row, Error(row))
          BY <4>2 DEF Written
        <5> QED
          BY <4>2, <5>1, <5>2
      <4> QED
        BY <2>2, <4>1, <4>2 DEF Evaluate
    <3>4. Lines(pipe') /\ Len(pipe') = Len(pipe) + 1 /\ Ours(pipe')
      BY <3>1, <3>2, <3>3, OneMoreLine
    <3>5. Ours(pipe)'
      BY <1>1, <3>4, SameJob DEF Ours
    <3> QED
      BY <1>1, <3>1, <3>4, <3>5 DEF WorkerOK, Lines, IInv
  <2>3. CASE Arbitrary
    <3>1. ~Honest /\ ~Honest' /\ UNCHANGED row
      BY <1>1, <2>3 DEF Arbitrary, Honest
    <3>2. Lines(pipe')
      <4>1. CASE UNCHANGED pipe
        BY <4>1 DEF IInv, WorkerOK
      <4>2. CASE pipe' # pipe
        <5>1. PICK l \in Line : pipe' = Append(pipe, l) /\ (l.status # "ok" => l.condition = 0)
          <6>1. CASE \E i \in 1 .. Len(Bindings) + 1, c \in 0 .. MaxConditions + 1, t \in {0, 1, 2} :
                       pipe' = Append(pipe, Ok(i, [condition |-> c, text |-> t]))
            BY <6>1 DEF Ok, Line
          <6>2. CASE \E i \in 1 .. Len(Bindings) + 1 : pipe' = Append(pipe, Error(i))
            BY <6>2 DEF Error, Line
          <6>3. CASE pipe' = Append(pipe, Junk)
            BY <6>3 DEF Junk, Line
          <6> QED
            BY <2>3, <4>2, <6>1, <6>2, <6>3 DEF Arbitrary
        <5> QED
          BY <5>1, OneMoreLine DEF IInv, WorkerOK
      <4> QED
        BY <4>1, <4>2
    <3> QED
      BY <1>1, <3>1, <3>2 DEF IInv, WorkerOK, Lines
  <2> QED
    BY <2>1, <2>2, <2>3 DEF Worker, Launch, Exit, Crash, Expire
<1> QED
  BY <1>1, <1>3, <1>4, <1>5, ParseStays DEF IInv

(* What the parent gets of the pipe.                                         *)
LEMMA ReplyIInv ==
  ASSUME IInv, RunWorkerReturns
  PROVE  IInv'
<1>1. /\ UNCHANGED <<job, pipe, row, completed, found, errors>>
      /\ pc = "running" /\ pc' = "parse"
  BY DEF RunWorkerReturns, workerVars, parseVars
<1>2. received = <<>> /\ completed = 0
  BY <1>1 DEF IInv, StageOK
<1>3. /\ received' \in {<<>>, pipe} \cup {SubSeq(pipe, 1, n) : n \in 0 .. Len(pipe)}
      /\ cancelled' \in {"clear", "set"}
  <2>1. cancelled \in {"clear", "set"}
    BY DEF IInv, ReplyOK
  <2> QED
    BY <2>1 DEF RunWorkerReturns, Finished, GaveUp, NoProcess, Faulted, Reply
<1>4. Lines(received') /\ (Honest => Ours(received'))
  <2>1. Lines(pipe) /\ (Honest => Ours(pipe)) /\ job \in JobType
    BY DEF IInv, WorkerOK
  <2>2. Lines(<<>>) /\ Ours(<<>>)
    BY <2>1, BindingsTyped DEF Lines, Ours
  <2> QED
    BY <1>3, <2>1, <2>2, FewerLines
<1>5. ReplyOK'
  <2>1. Honest => Ours(received)'
    BY <1>1, <1>4, SameJob DEF Ours
  <2> QED
    BY <1>1, <1>3, <1>4, <2>1 DEF ReplyOK, Lines, Honest
<1>6. ParseOK'
  <2>1. Len(received') \in Nat
    BY <1>4 DEF Lines
  <2>2. completed' = 0 /\ found' = {} /\ errors' = {}
    BY <1>1, <1>2 DEF IInv, ParseOK
  <2> QED
    BY <2>1, <2>2 DEF ParseOK
<1>7. StageOK'
  BY <1>1 DEF StageOK
<1> QED
  BY <1>1, <1>5, <1>6, <1>7, WorkerStays DEF IInv

(* A line that is accepted.                                                  *)
LEMMA TakeIInv ==
  ASSUME IInv, TakeLine
  PROVE  IInv'
<1> DEFINE k == completed + 1
           l == received[k]
<1>1. /\ UNCHANGED <<job, pc, pipe, row, received, cancelled, workerError>>
      /\ pc = "parse" /\ completed < Len(received) /\ completed' = k /\ Acceptable(l)
      /\ found' = found \cup {m \in {Finding(l)} : m.condition # 0}
      /\ errors' = errors \cup {i \in {l.index} : l.status = "error"}
  BY DEF TakeLine, workerVars, replyVars
<1>2. Lines(received) /\ completed \in 0 .. Len(received) /\ Len(received) \in Nat
  BY DEF IInv, ReplyOK, ParseOK, Lines
<1>3. /\ k \in 1 .. Len(received) /\ k \in 0 .. Len(received)
      /\ \A i \in 1 .. k : i = k \/ i \in 1 .. completed
      /\ \A i \in 1 .. completed : i \in 1 .. k
  BY <1>1, <1>2
<1>4. Accepted(k)
  BY <1>1, <1>2 DEF Acceptable, InOrder, Accepted
<1>5. Bindings' = Bindings
  BY <1>1, SameJob
<1>6. \A i \in 1 .. k : Accepted(i)'
  <2>1. \A i \in 1 .. k : Accepted(i)
    BY <1>3, <1>4 DEF IInv, ParseOK
  <2> QED
    BY <1>1, <1>5, <2>1 DEF Accepted, SpanOK
<1>7. l.index = k
  BY <1>4 DEF Accepted
<1>8. Finding(l).condition = l.condition
  BY DEF Finding
<1> HIDE DEF k
<1>9. found' = {Finding(received[i]) : i \in {j \in 1 .. k : received[j].condition # 0}}
  <2>1. found = {Finding(received[i]) :
                   i \in {j \in 1 .. completed : received[j].condition # 0}}
    BY DEF IInv, ParseOK
  <2> HIDE DEF Finding
  <2> QED
    BY <1>1, <1>3, <1>8, <2>1
<1>10. errors' = {i \in 1 .. k : received[i].status = "error"}
  <2>1. errors = {i \in 1 .. completed : received[i].status = "error"}
    BY DEF IInv, ParseOK
  <2> QED
    BY <1>1, <1>3, <1>7, <2>1
<1>11. ParseOK'
  BY <1>1, <1>3, <1>6, <1>9, <1>10 DEF ParseOK
<1>12. StageOK'
  BY <1>1 DEF IInv, StageOK
<1> QED
  BY <1>1, <1>11, <1>12, WorkerStays, ReplyStays DEF IInv

LEMMA StepIInv == IInv /\ [Next]_vars => IInv'
<1> SUFFICES ASSUME IInv, [Next]_vars PROVE IInv'
  OBVIOUS
<1>1. CASE Prepare
  BY <1>1, PrepareIInv
<1>2. CASE Worker \/ Expire
  BY <1>2, WorkerIInv
<1>3. CASE RunWorkerReturns
  BY <1>3, ReplyIInv
<1>4. CASE TakeLine
  BY <1>4, TakeIInv
<1>5. CASE RejectLine
  <2>1. /\ UNCHANGED <<job, pipe, row, received, cancelled, completed, found, errors>>
        /\ pc' = "conclude" /\ workerError' # "no"
    BY <1>5 DEF RejectLine, workerVars, replyVars, parseVars
  <2>2. StageOK'
    BY <2>1 DEF StageOK
  <2> QED
    BY <2>1, <2>2, WorkerStays, ReplyStays, ParseStays DEF IInv
<1>6. CASE Conclude
  <2>1. /\ UNCHANGED <<job, pipe, row, received, cancelled, completed, found, errors>>
        /\ pc' = "returned" /\ workerError' = FinalError
        /\ pc = "conclude" \/ (pc = "parse" /\ completed = Len(received))
    BY <1>6 DEF Conclude, Return, workerVars, replyVars, parseVars
  <2>2. FinalError = "no" => workerError = "no" /\ completed = Len(Bindings)
    <3>1. cancelled \in {"clear", "set"}
      BY DEF IInv, ReplyOK
    <3> QED
      BY <3>1 DEF FinalError, Orelse
  <2>3. Bindings' = Bindings
    BY <2>1, SameJob
  <2>4. StageOK'
    BY <2>1, <2>2, <2>3 DEF IInv, StageOK
  <2> QED
    BY <2>1, <2>4, WorkerStays, ReplyStays, ParseStays DEF IInv
<1>7. CASE UNCHANGED vars
  <2>1. /\ UNCHANGED <<job, pc, pipe, row, received, cancelled, completed, found, errors>>
        /\ UNCHANGED workerError
    BY <1>7 DEF vars, workerVars, replyVars, parseVars
  <2>2. Bindings' = Bindings
    BY <2>1, SameJob
  <2>3. StageOK'
    BY <2>1, <2>2 DEF IInv, StageOK
  <2> QED
    BY <2>1, <2>3, WorkerStays, ReplyStays, ParseStays DEF IInv
<1> QED
  BY <1>1, <1>2, <1>3, <1>4, <1>5, <1>6, <1>7 DEF Next, Parent, Done

(* The lines, the reply and what was accepted of it are always as said.       *)
THEOREM Inductive == Spec => []IInv
<1>1. Init => IInv
  BY InitIInv
<1>2. IInv /\ [Next]_vars => IInv'
  BY StepIInv
<1> QED
  BY <1>1, <1>2, PTL DEF Spec
-----------------------------------------------------------------------------
(* What the answer says. *)

(* "A rule the worker never reached is unfinished rather than clean", for     *)
(* every bundle, every document and every worker.                            *)
THEOREM RulesInPlace == Spec => []EveryRuleInPlace
<1>1. IInv => EveryRuleInPlace
  <2> SUFFICES ASSUME IInv PROVE EveryRuleInPlace
    OBVIOUS
  <2>0. /\ completed \in 0 .. Len(received) /\ received \in Seq(Line) /\ Len(received) \in Nat
        /\ \A i \in 1 .. Len(received) : received[i].status # "ok" => received[i].condition = 0
        /\ \A i \in 1 .. completed : Accepted(i)
        /\ found = {Finding(received[i]) : i \in {j \in 1 .. completed : received[j].condition # 0}}
        /\ errors = {i \in 1 .. completed : received[i].status = "error"}
    BY DEF IInv, ReplyOK, ParseOK, Lines
  <2>1. \A i \in 1 .. completed : received[i].index = i
    BY <2>0 DEF Accepted
  <2>2. ASSUME NEW f \in found
        PROVE  \E i \in 1 .. completed :
                 /\ f = Finding(received[i]) /\ f.rule = i /\ received[i].condition # 0
                 /\ i \notin errors /\ f.condition <= Bindings[f.rule].count
    <3>1. PICK i \in 1 .. completed : f = Finding(received[i]) /\ received[i].condition # 0
      BY <2>0
    <3>2. f.rule = i /\ f.condition = received[i].condition
      BY <2>1, <3>1 DEF Finding
    <3>3. i \in 1 .. Len(received)
      BY <2>0
    <3>4. received[i].status = "ok" /\ i \notin errors
      BY <2>0, <3>1, <3>3
    <3>5. received[i].condition \in 1 .. Bindings[i].count
      BY <2>0, <2>1, <3>1, <3>4 DEF Accepted, SpanOK
    <3>6. Bindings[i].count \in Nat
      <4>1. i \in 1 .. Len(Bindings) /\ MaxConditions \in Nat
        BY <2>0, LimitsAssumption DEF Accepted, LimitsAssumption
      <4>2. Bindings[i] \in Executable
        BY <4>1, BindingsTyped DEF IInv
      <4> QED
        BY <4>1, <4>2 DEF Executable, RuleType
    <3> QED
      BY <3>1, <3>2, <3>4, <3>5, <3>6
  <2>3. \A f, g \in found : f.rule = g.rule => f = g
    BY <2>2
  <2>4. \A f \in found :
          f.rule \in (1 .. completed) \ errors /\ f.condition <= Bindings[f.rule].count
    BY <2>2
  <2>5. ASSUME Returned, Complete
        PROVE  Len(received) = Len(Bindings) /\ \A l \in Range(received) : l.status = "ok"
    <3>1. completed = Len(received) /\ completed = Len(Bindings)
      BY <2>5 DEF IInv, StageOK, Returned, Complete
    <3>2. errors = {}
      BY <2>5 DEF Complete
    <3>3. \A i \in 1 .. Len(received) : received[i].status = "ok"
      BY <2>0, <3>1, <3>2 DEF Accepted
    <3>4. Range(received) = {received[i] : i \in 1 .. Len(received)}
      BY <2>0 DEF Range
    <3> QED
      BY <3>1, <3>3, <3>4
  <2> QED
    BY <2>1, <2>3, <2>4, <2>5 DEF EveryRuleInPlace
<1> QED
  BY <1>1, Inductive, PTL

(* What the shipped worker's accepted lines say, taken together.             *)
LEMMA FoundIsTrue ==
  ASSUME IInv, Honest, ~job.cut
  PROVE  /\ found \subseteq Trusted
         /\ completed = Len(Bindings) /\ errors = {} => found = Trusted
<1>0. /\ completed \in 0 .. Len(received) /\ received \in Seq(Line) /\ Len(received) \in Nat
      /\ \A i \in 1 .. completed : Accepted(i)
      /\ found = {Finding(received[i]) : i \in {j \in 1 .. completed : received[j].condition # 0}}
      /\ errors = {i \in 1 .. completed : received[i].status = "error"}
  BY DEF IInv, ReplyOK, ParseOK, Lines
<1>1. \A i \in 1 .. completed : Written(i, received[i]) /\ i \in 1 .. Len(Bindings)
  <2>1. Ours(received)
    BY DEF IInv, ReplyOK
  <2>2. \A i \in 1 .. completed : i \in 1 .. Len(received)
    BY <1>0
  <2> QED
    BY <1>0, <2>1, <2>2 DEF Ours, Accepted
<1>2. ASSUME NEW f \in found
      PROVE  f \in Trusted
  <2>1. PICK i \in 1 .. completed : f = Finding(received[i]) /\ received[i].condition # 0
    BY <1>0
  <2>2. PICK l : l = received[i]
    OBVIOUS
  <2>3. Written(i, l) /\ l.index = i
    BY <1>0, <1>1, <2>2 DEF Accepted
  <2>4. Bindings[i].behaviour = "runs"
    BY <2>1, <2>2, <2>3 DEF Written, Error
  <2>5. /\ l.condition \in Conditions /\ l.text \in Texts
        /\ ReportedFor(Bindings[i], l.condition, l.text)
    BY <2>1, <2>2, <2>3, <2>4 DEF Written, Tells
  <2>6. f = [rule |-> i, condition |-> l.condition, text |-> l.text]
    BY <2>1, <2>2, <2>3 DEF Finding
  <2> QED
    BY <1>1, <2>4, <2>5, <2>6 DEF Trusted
<1>3. ASSUME completed = Len(Bindings), errors = {}, NEW f \in Trusted
      PROVE  f \in found
  <2>1. PICK i \in 1 .. Len(Bindings), c \in Conditions, t \in Texts :
          f = [rule |-> i, condition |-> c, text |-> t]
    BY DEF Trusted
  <2>2. Bindings[i].behaviour = "runs" /\ ReportedFor(Bindings[i], c, t)
    BY <2>1 DEF Trusted
  <2>3. i \in 1 .. completed
    BY <1>3
  <2>4. PICK l : l = received[i]
    OBVIOUS
  <2>5. l.condition = c /\ l.text = t /\ l.index = i
    BY <1>1, <2>2, <2>3, <2>4 DEF Written, Tells
  <2>6. f = Finding(l) /\ l.condition # 0
    BY <2>1, <2>5 DEF Finding, Conditions
  <2> QED
    BY <1>0, <2>3, <2>4, <2>6
<1> QED
  BY <1>2, <1>3

LEMMA AnswerKeeps ==
  ASSUME IInv, Honest, Returned
  PROVE  Promise!Keeps(Answer) /\ Answer # NoAnswer
<1> DEFINE truth == {<<f, 1>> : f \in Trusted}
<1>1. /\ Answer.complete = Complete
      /\ Answer.findings = {<<f, 1>> : f \in found}
      /\ Answer.cut = {x \in {1} : job.cut}
  BY DEF Answer
<1>2. Answer.cut # {0}
  BY <1>1
<1>3. Answer # NoAnswer
  BY <1>2 DEF NoAnswer
<1>4. {x \in Answer.findings : x[2] \notin Answer.cut} \subseteq truth
  <2>1. CASE job.cut
    BY <1>1, <2>1
  <2>2. CASE ~job.cut
    <3>1. found \subseteq Trusted
      BY <2>2, FoundIsTrue
    <3> QED
      BY <1>1, <3>1
  <2> QED
    BY <2>1, <2>2
<1>5. ASSUME Complete
      PROVE  Answer.findings = truth /\ Answer.cut = {}
  <2>1. ~job.cut /\ errors = {} /\ completed = Len(Bindings)
    BY <1>5 DEF Complete, IInv, StageOK, Returned
  <2>2. found = Trusted
    BY <2>1, FoundIsTrue
  <2> QED
    BY <1>1, <2>1, <2>2
<1> QED
  BY <1>1, <1>3, <1>4, <1>5 DEF Promise!Keeps, Promise!OnWholeLeaves

(* What the trusted scan reports of a job does not change.                   *)
LEMMA TruthStays ==
  ASSUME UNCHANGED job
  PROVE  Trusted' = Trusted
<1>1. \A r, t, c : Counts(r, t, c)' <=> Counts(r, t, c)
  BY DEF Counts
<1>2. \A r, t : Fires(r, t)' <=> Fires(r, t)
  BY <1>1 DEF Fires
<1>3. \A r, c, t : ReportedFor(r, c, t)' <=> ReportedFor(r, c, t)
  BY <1>1, <1>2 DEF ReportedFor
<1> QED
  BY <1>3, SameJob DEF Trusted

LEMMA PromiseStep ==
  ASSUME IInv, IInv', [Next]_vars
  PROVE  [Promise!Next]_<<{<<f, 1>> : f \in Trusted}, Answer>>
<1>1. UNCHANGED job
  BY DEF Next, Parent, Prepare, CheckBundle, WireBinding, Dispatch, RunWorkerReturns,
     TakeLine,
         RejectLine, Conclude, Worker, Launch, Evaluate, Exit, Crash, Arbitrary, Expire,
         Done,
         WorkerFrame, vars
<1>2. Trusted' = Trusted
  BY <1>1, TruthStays
<1>3. Honest' <=> Honest
  BY <1>1 DEF Honest
<1>4. CASE ~(Returned /\ Honest)
  <2>1. Answer = NoAnswer
    BY <1>4 DEF Answer
  <2>2. CASE (Returned /\ Honest)'
    <3>1. (IInv /\ Honest /\ Returned)' => (Promise!Keeps(Answer) /\ Answer # NoAnswer)'
      BY AnswerKeeps, PTL
    <3>2. Promise!Keeps(Answer') /\ Answer' # NoAnswer
      BY <1>2, <2>2, <3>1 DEF Promise!Keeps, Promise!OnWholeLeaves, NoAnswer
    <3> QED
      BY <1>2, <2>1, <3>2 DEF Promise!Next, Promise!Answer
  <2>3. CASE ~(Returned /\ Honest)'
    BY <1>2, <2>1, <2>3 DEF Answer, NoAnswer
  <2> QED
    BY <2>2, <2>3
<1>5. CASE Returned /\ Honest
  <2>1. UNCHANGED vars
    BY <1>5 DEF Returned, Next, Parent, Prepare, CheckBundle, WireBinding, Dispatch,
       RunWorkerReturns, TakeLine, RejectLine, Conclude, Worker, Launch, Evaluate, Exit,
       Crash,
       Arbitrary, Expire, Done, Working
  <2>2. Answer' = Answer
    <3>1. Bindings' = Bindings
      BY <1>1, SameJob
    <3>2. UNCHANGED <<job, pc, found, errors, workerError>>
      BY <2>1 DEF vars, parseVars
    <3> QED
      BY <1>3, <3>1, <3>2 DEF Answer, Returned, Honest, Complete, NoAnswer
  <2> QED
    BY <1>2, <2>2
<1> QED
  BY <1>4, <1>5

(* A configuration scan implements the promise of ScanPromise with every      *)
(* bundle, every document and every way the worker can be interrupted: a      *)
(* complete scan has exactly the findings of the trusted scan, and what an    *)
(* incomplete one has found is among them.                                   *)
THEOREM PromiseKept == Spec => KeepsPromise
<1>1. Init => Promise!Init
  BY DEF Init, Promise!Init, Answer, Returned
<1>2. IInv /\ IInv' /\ [Next]_vars => [Promise!Next]_<<{<<f, 1>> : f \in Trusted}, Answer>>
  BY PromiseStep
<1> QED
  BY <1>1, <1>2, Inductive, PTL DEF Spec, KeepsPromise, Promise!Spec
=============================================================================
