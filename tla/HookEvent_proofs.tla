---------------------------- MODULE HookEvent_proofs ----------------------------
(***************************************************************************)
(* Why the hook's silence can be read as "checked", for every payload, any  *)
(* rules and any caps.                                                      *)
(*                                                                          *)
(* The argument has two halves.  The walk (Walk): every string is           *)
(* collected, kept with a reason, or below a node still on the stack, and   *)
(* the subtrees on the stack lie apart and unvisited, so that no string is  *)
(* collected twice.  The answer (Settled): what is known of the scan when   *)
(* process decides, and that the response is that decision, an early one, or *)
(* that of the handler of exceptions.                                       *)
(***************************************************************************)
EXTENDS HookEventProps, FiniteSetTheorems, TLAPS

Before == {"config", "read", "rules", "process"}
After  == {"log", "answer"}
Ended  == {"answered", "failed"}
Stops  == {"depth_cap", "node_cap", "deadline"}

TypeOK ==
  /\ ev \in Events
  /\ pc \in Before \cup After \cup Ended \cup {"walk", "scan", "scanning", "materialize"}
  /\ event \in {"unknown", "IN", "OUT", "other"}
  /\ canAsk \in BOOLEAN /\ spent \in BOOLEAN
  /\ stack \in Seq(Nodes) /\ nodes \in Nat /\ stopped \in {"no"} \cup Stops
  /\ texts \in Seq(Nodes) /\ skeleton \in [Nodes -> {"new", "ref", "kept", "asis"}]
  /\ wired \subseteq ev.selected /\ scan \in {"none", "answered", "raised"}
  /\ batch.complete \in BOOLEAN /\ batch.findings \subseteq wired \X (1 .. Len(texts))
  /\ incomplete \in BOOLEAN /\ logged \in BOOLEAN

-----------------------------------------------------------------------------
(* The walk. *)

U(n) == Under(ev.tree, n)
Refs == {n \in Nodes : skeleton[n] = "ref"}

Reached == \A n \in Texts : \/ skeleton[n] = "ref"
                            \/ \E k \in Nodes : skeleton[k] = "kept" /\ n \in U(k)
                            \/ \E i \in DOMAIN stack : n \in U(stack[i])
Ahead == \A n \in Nodes : skeleton[n] # "new" => \A i \in DOMAIN stack : n \notin U(stack[i])
Apart == \A i, j \in DOMAIN stack : i # j => U(stack[i]) \cap U(stack[j]) = {}
Collected == /\ Refs = {texts[p] : p \in 1 .. Len(texts)} /\ Refs \subseteq Texts
             /\ IsFiniteSet(Refs) /\ Cardinality(Refs) = Len(texts)
Reasoned == (\E k \in Nodes : skeleton[k] = "kept") <=> stopped # "no"
Walk == Reached /\ Ahead /\ Apart /\ Collected /\ Reasoned

-----------------------------------------------------------------------------
(* The answer. *)

(* What run knows of the event at each stage.                                *)
Known ==
  /\ canAsk => event = "IN" /\ DenyRules # {}
  /\ pc \in {"config", "read", "rules"} => ~canAsk
  /\ event # "unknown" => event = ev.surface
  /\ pc \in {"config", "read"} => event = "unknown"
  /\ pc \notin {"config", "read"} \cup Ended => event # "unknown"
  /\ pc \notin Before \cup Ended => event # "other" /\ ev.selected # {}
  /\ pc \notin {"config", "read", "rules"} \cup Ended \/ scan # "none" =>
       (canAsk <=> event = "IN" /\ DenyRules # {})

(* What came of the scanner.                                                 *)
Scanned ==
  /\ scan = "answered" => Promise!Keeps(batch)
  /\ scan # "answered" => batch = NoBatch
  /\ scan = "raised" => incomplete
  /\ pc \in {"scan", "scanning", "materialize"} \cup After => stack = <<>>
  /\ pc \in Before \cup {"walk", "scan", "scanning"} => scan = "none"
  /\ pc \in {"scan", "scanning", "materialize"} \cup After =>
       /\ ~incomplete => stopped = "no"
       /\ pc \notin {"scan", "scanning"} /\ scan = "none" /\ ~incomplete => texts = <<>>
  /\ pc \in {"scan", "scanning"} \/ scan # "none" => texts # <<>>
  /\ pc \notin After \cup Ended => fired = {} /\ replaced = {} /\ records = {}

Settled ==
  /\ fired = {ev.lane[x[1]] : x \in Found}
  /\ replaced = Withheld
  /\ records = {<<x[1], texts[x[2]]>> : x \in Found}
  /\ ~incomplete => /\ stack = <<>> /\ stopped = "no"
                    /\ \/ scan = "none" /\ texts = <<>>
                       \/ scan = "answered" /\ batch.complete /\ wired = ev.selected

Reply ==
  [ updated  |-> event = "OUT" /\ Changed,
    decision |-> Decision,
    context  |-> CASE incomplete -> "incomplete"
                   [] ~incomplete /\ Advised -> "advice"
                   [] OTHER -> "none",
    message  |-> CASE incomplete -> "degraded"
                   [] ~incomplete /\ ~logged -> "log"
                   [] OTHER -> "none" ]
Early ==
  /\ scan = "none"
  /\ \/ response = Degraded(event, canAsk)
     \/ response = Silent /\ (event = "other" \/ ev.selected = {}) /\ ~canAsk
Told ==
  /\ pc \in After => Settled
  /\ pc = "answered" => (Settled /\ response = Reply) \/ Early
  /\ pc = "failed" => response = Degraded(event, canAsk)

IInv == TypeOK /\ Walk /\ Known /\ Scanned /\ Told


-----------------------------------------------------------------------------
(* What a tree is, unfolded at a node.                                       *)
LEMMA UnderUnfolds ==
  ASSUME NEW t, IsTree(t), NEW k \in DOMAIN t.kind
  PROVE  /\ k \in Under(t, k)
         /\ \A i \in DOMAIN t.children[k] : Under(t, t.children[k][i]) \subseteq Under(t, k)
         /\ \A n \in Under(t, k) :
              n = k \/ \E i \in DOMAIN t.children[k] : n \in Under(t, t.children[k][i])
<1> DEFINE D == DOMAIN t.kind
           c == t.children[k]
           S == {k} \cup {m \in D : \E i \in DOMAIN c : m \in Under(t, c[i])}
<1>0. \A n \in D : \A i \in DOMAIN t.children[n] : t.children[n][i] \in D
  BY DEF IsTree
<1>1. k \in Under(t, k)
  BY DEF Under
<1>2. ASSUME NEW i \in DOMAIN c PROVE Under(t, c[i]) \subseteq Under(t, k)
  BY <1>2 DEF Under, Closed
<1>3. Closed(t, S)
  <2> SUFFICES ASSUME NEW n \in S, NEW j \in DOMAIN t.children[n]
               PROVE  t.children[n][j] \in S
    BY DEF Closed
  <2>1. CASE n = k
    <3>1. t.children[n][j] \in D /\ t.children[n][j] \in Under(t, c[j])
      BY <1>0, <2>1 DEF Under
    <3> QED
      BY <2>1, <3>1
  <2>2. CASE n # k
    <3>1. PICK i \in DOMAIN c : n \in Under(t, c[i])
      BY <2>2
    <3>2. n \in D /\ t.children[n][j] \in D
      BY <1>0, <2>2
    <3>3. t.children[n][j] \in Under(t, c[i])
      BY <3>1, <3>2 DEF Under, Closed
    <3> QED
      BY <3>1, <3>2, <3>3
  <2> QED
    BY <2>1, <2>2
<1>4. S \in SUBSET D
  OBVIOUS
<1>5. ASSUME NEW n \in Under(t, k) PROVE n = k \/ \E i \in DOMAIN c : n \in Under(t, c[i])
  <2>1. n \in S
    BY <1>3, <1>4 DEF Under
  <2> QED
    BY <2>1
<1> QED
  BY <1>1, <1>2, <1>5

LEMMA EventTree ==
  ASSUME TypeOK
  PROVE  IsEvent(ev) /\ IsTree(ev.tree)
  BY EventsAssumption, TreesAssumption DEF TypeOK, EventsAssumption, TreesAssumption

(* The stack loses its first node.                                           *)
LEMMA StackSplits ==
  ASSUME stack \in Seq(Nodes), stack # <<>>
  PROVE  /\ Head(stack) \in Nodes /\ Head(stack) = stack[1] /\ 1 \in DOMAIN stack
         /\ Tail(stack) \in Seq(Nodes)
         /\ \A i \in DOMAIN Tail(stack) : /\ i + 1 \in DOMAIN stack /\ i + 1 # 1
                                          /\ Tail(stack)[i] = stack[i + 1]
         /\ \A i \in DOMAIN stack : i = 1 \/ (i - 1 \in DOMAIN Tail(stack)
                                               /\ Tail(stack)[i - 1] = stack[i])
  OBVIOUS

(* A node the walk does not enter, or a string it collects, takes the place  *)
(* of its subtree; the rest of the stack stays.                              *)
LEMMA StackShrinks ==
  ASSUME TypeOK, Walk, stack # <<>>, ev' = ev, stack' = Tail(stack),
         NEW s, skeleton' = [skeleton EXCEPT ![Head(stack)] = s]
  PROVE  Ahead' /\ Apart'
<1>1. /\ Head(stack) \in Nodes /\ 1 \in DOMAIN stack /\ Head(stack) = stack[1]
      /\ \A i \in DOMAIN Tail(stack) : /\ i + 1 \in DOMAIN stack /\ i + 1 # 1
                                       /\ Tail(stack)[i] = stack[i + 1]
  BY StackSplits DEF TypeOK
<1>2. Head(stack) \in U(stack[1])
  BY <1>1, EventTree, UnderUnfolds DEF U, Nodes
<1>3. Ahead'
  <2> SUFFICES ASSUME NEW n \in Nodes, skeleton'[n] # "new", NEW i \in DOMAIN Tail(stack)
               PROVE  n \notin U(stack[i + 1])
    BY <1>1 DEF Ahead, Nodes, U
  <2>1. CASE n = Head(stack)
    BY <1>1, <1>2, <2>1 DEF Walk, Apart
  <2>2. CASE n # Head(stack)
    BY <1>1, <2>2 DEF Walk, Ahead, TypeOK
  <2> QED
    BY <2>1, <2>2
<1>4. Apart'
  <2> SUFFICES ASSUME NEW i \in DOMAIN Tail(stack), NEW j \in DOMAIN Tail(stack), i # j
               PROVE  U(stack[i + 1]) \cap U(stack[j + 1]) = {}
    BY <1>1 DEF Apart, U
  <2>1. i + 1 # j + 1
    BY StackSplits DEF TypeOK
  <2> QED
    BY <1>1, <2>1 DEF Walk, Apart
<1> QED
  BY <1>3, <1>4

LEMMA KeepWalks ==
  ASSUME TypeOK, Walk, stack # <<>>, ev' = ev, Keep(Head(stack)), stopped' # "no"
  PROVE  Walk'
<1>1. /\ Head(stack) \in Nodes /\ Head(stack) = stack[1]
      /\ \A i \in DOMAIN stack : i = 1 \/ (i - 1 \in DOMAIN Tail(stack)
                                            /\ Tail(stack)[i - 1] = stack[i])
  BY StackSplits DEF TypeOK
<1>2. skeleton' = [skeleton EXCEPT ![Head(stack)] = "kept"] /\ stack' = Tail(stack)
      /\ texts' = texts
  BY DEF Keep
<1>3. Head(stack) \in U(stack[1]) /\ skeleton[Head(stack)] = "new"
  BY <1>1, StackSplits, EventTree, UnderUnfolds DEF Walk, Ahead, TypeOK, U, Nodes
<1>4. Reached'
  <2> SUFFICES ASSUME NEW n \in Texts
               PROVE  \/ skeleton'[n] = "ref"
                      \/ \E k \in Nodes : skeleton'[k] = "kept" /\ n \in U(k)
                      \/ \E i \in DOMAIN Tail(stack) : n \in U(Tail(stack)[i])
    BY <1>2 DEF Reached, Texts, Nodes, U
  <2>0. n \in Nodes
    BY DEF Texts
  <2>1. CASE skeleton[n] = "ref"
    BY <1>2, <1>3, <2>0, <2>1 DEF TypeOK
  <2>2. CASE \E k \in Nodes : skeleton[k] = "kept" /\ n \in U(k)
    BY <1>2, <1>3, <2>2 DEF TypeOK
  <2>3. CASE \E i \in DOMAIN stack : n \in U(stack[i])
    BY <1>1, <1>2, <2>3 DEF TypeOK
  <2> QED
    BY <2>1, <2>2, <2>3 DEF Walk, Reached
<1>5. Ahead' /\ Apart'
  BY <1>2, StackShrinks
<1>6. Refs' = Refs
  BY <1>1, <1>2, <1>3 DEF Refs, TypeOK, Nodes
<1>7. Collected'
  BY <1>2, <1>6 DEF Walk, Collected, Texts, Nodes
<1>8. Reasoned'
  BY <1>1, <1>2 DEF Reasoned, TypeOK, Nodes
<1> QED
  BY <1>4, <1>5, <1>7, <1>8 DEF Walk

LEMMA CollectWalks ==
  ASSUME TypeOK, Walk, stack # <<>>, ev' = ev, Collect(Head(stack)), stopped' = stopped
  PROVE  Walk'
<1> DEFINE h == Head(stack)
<1>1. /\ h \in Nodes /\ h = stack[1]
      /\ \A i \in DOMAIN stack : i = 1 \/ (i - 1 \in DOMAIN Tail(stack)
                                            /\ Tail(stack)[i - 1] = stack[i])
  BY StackSplits DEF TypeOK
<1>2. skeleton' = [skeleton EXCEPT ![h] = "ref"] /\ stack' = Tail(stack)
      /\ texts' = Append(texts, h) /\ ev.tree.kind[h] = "text"
  BY DEF Collect
<1>3. h \in U(stack[1]) /\ skeleton[h] = "new"
  BY <1>1, StackSplits, EventTree, UnderUnfolds DEF Walk, Ahead, TypeOK, U, Nodes
<1>4. \A n \in U(stack[1]) : n = h
  <2>1. ev.tree.children[h] = <<>>
    BY <1>1, <1>2, EventTree DEF IsTree, Nodes
  <2> QED
    BY <1>1, <2>1, EventTree, UnderUnfolds DEF U, Nodes
<1>5. Reached'
  <2> SUFFICES ASSUME NEW n \in Texts
               PROVE  \/ skeleton'[n] = "ref"
                      \/ \E k \in Nodes : skeleton'[k] = "kept" /\ n \in U(k)
                      \/ \E i \in DOMAIN Tail(stack) : n \in U(Tail(stack)[i])
    BY <1>2 DEF Reached, Texts, Nodes, U
  <2>0. n \in Nodes
    BY DEF Texts
  <2>1. CASE skeleton[n] = "ref"
    BY <1>2, <2>0, <2>1 DEF TypeOK
  <2>2. CASE \E k \in Nodes : skeleton[k] = "kept" /\ n \in U(k)
    BY <1>2, <1>3, <2>2 DEF TypeOK
  <2>3. CASE \E i \in DOMAIN stack : n \in U(stack[i])
    <3>1. CASE n = h
      BY <1>1, <1>2, <3>1 DEF TypeOK
    <3>2. CASE n # h
      BY <1>1, <1>4, <2>3, <3>2
    <3> QED
      BY <3>1, <3>2
  <2> QED
    BY <2>1, <2>2, <2>3 DEF Walk, Reached
<1>6. Ahead' /\ Apart'
  BY <1>2, StackShrinks
<1>7. Refs' = Refs \cup {h} /\ h \notin Refs
  BY <1>1, <1>2, <1>3 DEF Refs, TypeOK, Nodes
<1>8. /\ Len(texts') = Len(texts) + 1
      /\ {texts'[p] : p \in 1 .. Len(texts')} = {texts[p] : p \in 1 .. Len(texts)} \cup {h}
  BY <1>1, <1>2 DEF TypeOK
<1>9. Collected'
  <2>1. Refs' \subseteq Texts'
    BY <1>1, <1>2, <1>7 DEF Walk, Collected, Texts, Nodes
  <2> QED
    BY <1>7, <1>8, <2>1, FS_AddElement DEF Walk, Collected
<1>10. Reasoned'
  BY <1>1, <1>2, <1>3 DEF Walk, Reasoned, TypeOK, Nodes
<1> QED
  BY <1>5, <1>6, <1>9, <1>10 DEF Walk

(* The children of a node replace it on the stack.                           *)
LEMMA StackGrows ==
  ASSUME stack \in Seq(Nodes), stack # <<>>, NEW c \in Seq(Nodes)
  PROVE  /\ \A i \in DOMAIN (c \o Tail(stack)) :
              \/ i \in DOMAIN c /\ (c \o Tail(stack))[i] = c[i]
              \/ /\ i - Len(c) + 1 \in DOMAIN stack \ {1} /\ i \notin DOMAIN c
                 /\ (c \o Tail(stack))[i] = stack[i - Len(c) + 1]
         /\ \A a \in DOMAIN c : a \in DOMAIN (c \o Tail(stack)) /\ (c \o Tail(stack))[a] = c[a]
         /\ \A b \in DOMAIN stack \ {1} : /\ b + Len(c) - 1 \in DOMAIN (c \o Tail(stack))
                                          /\ (c \o Tail(stack))[b + Len(c) - 1] = stack[b]
         /\ DOMAIN c \subseteq Nat /\ Len(c) \in Nat
  OBVIOUS

LEMMA EnterWalks ==
  ASSUME TypeOK, Walk, stack # <<>>, ev' = ev, Enter(Head(stack)), stopped' = stopped
  PROVE  Walk'
<1> DEFINE h == Head(stack)
           c == ev.tree.children[h]
<1>1. h \in Nodes /\ h = stack[1] /\ 1 \in DOMAIN stack
  BY StackSplits DEF TypeOK
<1>2. /\ skeleton' = [skeleton EXCEPT ![h] = "asis"] /\ stack' = c \o Tail(stack)
      /\ texts' = texts /\ ev.tree.kind[h] # "text"
  BY DEF Enter
<1>3. h \in U(stack[1]) /\ skeleton[h] = "new"
  BY <1>1, EventTree, UnderUnfolds DEF Walk, Ahead, TypeOK, U, Nodes
<1>4. /\ c \in Seq(Nodes)
      /\ \A i \in DOMAIN c : h \notin U(c[i])
      /\ \A i, j \in DOMAIN c : i # j => U(c[i]) \cap U(c[j]) = {}
  BY <1>1, EventTree DEF IsTree, Nodes, U
<1>5. /\ \A i \in DOMAIN c : U(c[i]) \subseteq U(stack[1])
      /\ \A n \in U(stack[1]) : n = h \/ \E i \in DOMAIN c : n \in U(c[i])
  BY <1>1, EventTree, UnderUnfolds DEF U, Nodes
<1>6. /\ \A i \in DOMAIN stack' : \/ i \in DOMAIN c /\ stack'[i] = c[i]
                                  \/ /\ i - Len(c) + 1 \in DOMAIN stack \ {1}
                                     /\ i \notin DOMAIN c /\ stack'[i] = stack[i - Len(c) + 1]
      /\ \A a \in DOMAIN c : a \in DOMAIN stack' /\ stack'[a] = c[a]
      /\ \A b \in DOMAIN stack \ {1} : /\ b + Len(c) - 1 \in DOMAIN stack'
                                       /\ stack'[b + Len(c) - 1] = stack[b]
  <2>1. stack' = c \o Tail(stack) /\ c \in Seq(Nodes) /\ stack \in Seq(Nodes)
    BY <1>2, <1>4 DEF TypeOK
  <2> HIDE DEF c
  <2>2. /\ \A i \in DOMAIN (c \o Tail(stack)) :
              \/ i \in DOMAIN c /\ (c \o Tail(stack))[i] = c[i]
              \/ /\ i - Len(c) + 1 \in DOMAIN stack \ {1} /\ i \notin DOMAIN c
                 /\ (c \o Tail(stack))[i] = stack[i - Len(c) + 1]
        /\ \A a \in DOMAIN c : a \in DOMAIN (c \o Tail(stack)) /\ (c \o Tail(stack))[a] = c[a]
        /\ \A b \in DOMAIN stack \ {1} : /\ b + Len(c) - 1 \in DOMAIN (c \o Tail(stack))
                                         /\ (c \o Tail(stack))[b + Len(c) - 1] = stack[b]
    BY <2>1, StackGrows, Zenon
  <2> QED
    BY <2>1, <2>2
<1> HIDE DEF c
<1>7. Reached'
  <2> SUFFICES ASSUME NEW n \in Texts
               PROVE  \/ skeleton'[n] = "ref"
                      \/ \E k \in Nodes : skeleton'[k] = "kept" /\ n \in U(k)
                      \/ \E i \in DOMAIN stack' : n \in U(stack'[i])
    BY DEF Reached, Texts, Nodes, U
  <2>0. n \in Nodes /\ n # h
    BY <1>2 DEF Texts
  <2>1. CASE skeleton[n] = "ref"
    BY <1>2, <2>0, <2>1 DEF TypeOK
  <2>2. CASE \E k \in Nodes : skeleton[k] = "kept" /\ n \in U(k)
    BY <1>2, <1>3, <2>2 DEF TypeOK
  <2>3. CASE \E i \in DOMAIN stack : n \in U(stack[i])
    <3>1. PICK i \in DOMAIN stack : n \in U(stack[i])
      BY <2>3
    <3>2. CASE i = 1
      <4>1. PICK a \in DOMAIN c : n \in U(c[a])
        BY <1>5, <2>0, <3>1, <3>2
      <4> QED
        BY <1>6, <4>1
    <3>3. CASE i # 1
      BY <1>6, <3>1, <3>3
    <3> QED
      BY <3>2, <3>3
  <2> QED
    BY <2>1, <2>2, <2>3 DEF Walk, Reached
<1>8. Ahead'
  <2> SUFFICES ASSUME NEW n \in Nodes, skeleton'[n] # "new", NEW i \in DOMAIN stack'
               PROVE  n \notin U(stack'[i])
    BY DEF Ahead, Nodes, U
  <2>1. CASE i \in DOMAIN c /\ stack'[i] = c[i]
    <3>1. CASE n = h
      BY <1>4, <2>1, <3>1
    <3>2. CASE n # h
      BY <1>1, <1>2, <1>5, <2>1, <3>2 DEF Walk, Ahead, TypeOK
    <3> QED
      BY <3>1, <3>2
  <2>2. CASE i - Len(c) + 1 \in DOMAIN stack \ {1} /\ stack'[i] = stack[i - Len(c) + 1]
    <3>1. CASE n = h
      BY <1>1, <1>3, <2>2, <3>1 DEF Walk, Apart
    <3>2. CASE n # h
      BY <1>2, <2>2, <3>2 DEF Walk, Ahead, TypeOK
    <3> QED
      BY <3>1, <3>2
  <2> QED
    BY <1>6, <2>1, <2>2
<1>9. Apart'
  <2> SUFFICES ASSUME NEW i \in DOMAIN stack', NEW j \in DOMAIN stack', i # j
               PROVE  U(stack'[i]) \cap U(stack'[j]) = {}
    BY DEF Apart, U
  <2> DEFINE Child(k) == k \in DOMAIN c /\ stack'[k] = c[k]
             Old(k) == /\ k - Len(c) + 1 \in DOMAIN stack \ {1}
                       /\ stack'[k] = stack[k - Len(c) + 1]
  <2>1. CASE Child(i) /\ Child(j)
    BY <1>4, <2>1
  <2>2. CASE Child(i) /\ Old(j)
    BY <1>1, <1>5, <2>2 DEF Walk, Apart
  <2>3. CASE Old(i) /\ Child(j)
    BY <1>1, <1>5, <2>3 DEF Walk, Apart
  <2>4. CASE Old(i) /\ Old(j)
    <3>1. i \in Int /\ j \in Int /\ Len(c) \in Nat
      BY <1>2, <1>4, StackSplits DEF TypeOK
    <3>2. i - Len(c) + 1 # j - Len(c) + 1
      BY <3>1
    <3> QED
      BY <2>4, <3>2 DEF Walk, Apart
  <2> QED
    BY <1>6, <2>1, <2>2, <2>3, <2>4
<1>10. Refs' = Refs
  BY <1>1, <1>2, <1>3 DEF Refs, TypeOK, Nodes
<1>11. Collected'
  BY <1>2, <1>10 DEF Walk, Collected, Texts, Nodes
<1>12. Reasoned'
  BY <1>1, <1>2, <1>3 DEF Walk, Reasoned, TypeOK, Nodes
<1> QED
  BY <1>7, <1>8, <1>9, <1>11, <1>12 DEF Walk

-----------------------------------------------------------------------------
(* A step that leaves the event and the walk alone.                          *)
LEMMA WalkStays ==
  ASSUME Walk, UNCHANGED <<ev, walkVars>>
  PROVE  Walk'
<1> USE DEF walkVars
<1>1. Nodes' = Nodes /\ Texts' = Texts /\ Refs' = Refs
  BY DEF Nodes, Texts, Refs
<1>2. \A n : U(n)' = U(n)
  BY DEF U
<1>3. Reached' /\ Ahead' /\ Apart' /\ Reasoned'
  BY <1>1, <1>2 DEF Walk, Reached, Ahead, Apart, Reasoned
<1>4. Collected'
  BY <1>1 DEF Walk, Collected
<1> QED
  BY <1>3, <1>4 DEF Walk

(* The promise is about the strings and the rules of the scan.               *)
LEMMA PromiseStays ==
  ASSUME UNCHANGED <<ev, texts, wired>>, NEW a, Promise!Keeps(a)
  PROVE  Truth' = Truth /\ (batch' = a => Promise!Keeps(batch)')
<1>1. Truth' = Truth
  BY DEF Truth
<1> QED
  BY <1>1 DEF Promise!Keeps, Promise!OnWholeLeaves

(* The handler of exceptions, whenever it is reached.                        *)
LEMMA FailKeeps ==
  ASSUME IInv, Fails
  PROVE  IInv'
<1>0. TypeOK /\ Walk /\ Known /\ Scanned
  BY DEF IInv
<1>1. /\ UNCHANGED <<ev, event, canAsk, spent, walkVars, scanVars, outcomeVars, logged>>
      /\ pc' = "failed" /\ response' = Degraded(event, canAsk)
  BY DEF Fails
<1>2. UNCHANGED <<Nodes, stack, nodes, stopped, texts, skeleton, wired, scan, batch, fired,
                  replaced, incomplete, records>>
  BY <1>1 DEF Nodes, walkVars, scanVars, outcomeVars
<1>3. Walk'
  BY <1>0, <1>1, WalkStays
<1>4. TypeOK'
  BY <1>0, <1>1, <1>2 DEF TypeOK, Ended
<1>5. Known'
  BY <1>0, <1>1, <1>2 DEF Known, DenyRules, Before, Ended
<1>6. Scanned'
  <2>1. scan = "answered" => Promise!Keeps(batch)'
    BY <1>0, <1>1, <1>2, PromiseStays DEF Scanned
  <2> QED
    BY <1>0, <1>1, <1>2, <2>1 DEF Scanned, Before, After, Ended
<1>7. Told'
  <2>1. response' = Degraded(event, canAsk)'
    BY <1>1 DEF Degraded
  <2> QED
    BY <1>1, <2>1 DEF Told, After
<1> QED
  BY <1>3, <1>4, <1>5, <1>6, <1>7 DEF IInv

(* The stages of run before the walk.                                        *)
LEMMA RunKeeps ==
  ASSUME IInv, ReadConfig \/ TooLarge \/ ParsePayload \/ LoadRules
                 \/ NothingToDo \/ MissingPayload \/ StartWalk
  PROVE  IInv'
<1>0. TypeOK /\ Walk /\ Known /\ Scanned /\ Told /\ IsEvent(ev)
  BY EventTree DEF IInv
<1>1. UNCHANGED <<ev, spent, walkVars, scanVars, outcomeVars, logged>>
  BY DEF ReadConfig, TooLarge, ParsePayload, LoadRules, NothingToDo, MissingPayload,
     StartWalk
<1>2. Walk'
  BY <1>0, <1>1, WalkStays
<1>3. TypeOK'
  <2>1. Nodes' = Nodes
    BY <1>1 DEF Nodes
  <2>2. pc' \in {"read", "rules", "process", "walk", "answered"}
    BY DEF ReadConfig, TooLarge, ParsePayload, LoadRules, NothingToDo,
       MissingPayload,
       StartWalk, Answer
  <2>3. event' \in {"unknown", "IN", "OUT", "other"} /\ canAsk' \in BOOLEAN
    BY <1>0 DEF TypeOK, IsEvent, ReadConfig, TooLarge, ParsePayload, LoadRules,
       NothingToDo, MissingPayload, StartWalk
  <2> QED
    BY <1>0, <1>1, <2>1, <2>2, <2>3 DEF TypeOK, walkVars, scanVars, outcomeVars, Before, Ended
<1>4. scan = "none" /\ pc \in Before
  BY <1>0 DEF Scanned, Before, Ended, ReadConfig, TooLarge, ParsePayload, LoadRules,
     NothingToDo, MissingPayload, StartWalk
<1>5. Scanned' /\ scan' = "none"
  <2>1. pc' \in Before \cup {"walk", "answered"}
    BY DEF ReadConfig, TooLarge, ParsePayload, LoadRules, NothingToDo,
       MissingPayload,
       StartWalk, Answer, Before, Ended
  <2> QED
    BY <1>0, <1>1, <1>4, <2>1 DEF Scanned, walkVars, scanVars, outcomeVars, Before, Ended, After
<1>6. Known'
  <2>1. DenyRules' = DenyRules /\ ev' = ev
    BY <1>1 DEF DenyRules
  <2>a. CASE ReadConfig
    BY <1>0, <1>5, <2>1, <2>a DEF Known, ReadConfig, Before, Ended
  <2>b. CASE ParsePayload
    BY <1>0, <1>5, <2>1, <2>b DEF Known, ParsePayload, IsEvent, Before, Ended
  <2>c. CASE LoadRules
    BY <1>0, <1>5, <2>1, <2>c DEF Known, LoadRules, Before, Ended
  <2>3. CASE TooLarge \/ NothingToDo \/ MissingPayload
    <3>1. pc' = "answered" /\ event' = event /\ canAsk' = canAsk
      BY <2>3 DEF TooLarge, NothingToDo, MissingPayload, Answer
    <3> QED
      BY <1>0, <1>5, <2>1, <3>1 DEF Known, Before, Ended
  <2>4. CASE StartWalk
    BY <1>0, <1>5, <2>1, <2>4 DEF Known, StartWalk, Before, Ended
  <2> QED
    BY <2>a, <2>b, <2>c, <2>3, <2>4
<1>7. Told'
  <2>1. CASE ReadConfig \/ ParsePayload \/ LoadRules \/ StartWalk
    BY <2>1 DEF Told, ReadConfig, ParsePayload, LoadRules, StartWalk, After
  <2>2. CASE TooLarge \/ MissingPayload
    <3>1. response' = Degraded(event, canAsk) /\ event' = event /\ canAsk' = canAsk
      <4>1. CASE TooLarge
        <5>1. event = "unknown" /\ canAsk = FALSE
          BY <1>0, <4>1 DEF Known, TypeOK, TooLarge
        <5> QED
          BY <4>1, <5>1, Zenon DEF TooLarge, Answer
      <4>2. CASE MissingPayload
        BY <4>2 DEF MissingPayload, Answer
      <4> QED
        BY <2>2, <4>1, <4>2
    <3>2. response' = Degraded(event, canAsk)'
      BY <3>1, Zenon
    <3>3. Early'
      BY <1>1, <1>4, <3>2 DEF Early, scanVars
    <3> QED
      BY <2>2, <3>3 DEF Told, TooLarge, MissingPayload, Answer, After
  <2>3. CASE NothingToDo
    <3>1. ~canAsk
      BY <1>0, <2>3 DEF Known, NothingToDo, DenyRules
    <3>2. Early'
      BY <1>1, <1>4, <2>3, <3>1 DEF Early, NothingToDo, Answer, Silent, scanVars
    <3> QED
      BY <2>3, <3>2 DEF Told, NothingToDo, Answer, After
  <2> QED
    BY <2>1, <2>2, <2>3
<1> QED
  BY <1>2, <1>3, <1>5, <1>6, <1>7 DEF IInv

(* The walk, up to the scan.                                                 *)
LEMMA VisitKeeps ==
  ASSUME IInv, Visit
  PROVE  IInv'
<1>0. TypeOK /\ Walk /\ Known /\ Scanned
  BY DEF IInv
<1>1. /\ pc = "walk" /\ pc' = "walk" /\ stack # <<>> /\ nodes' = nodes + 1
      /\ UNCHANGED <<ev, event, canAsk, spent, scanVars, outcomeVars, logged, response>>
  BY DEF Visit
<1>2. Head(stack) \in Nodes /\ Tail(stack) \in Seq(Nodes) /\ batch.findings = {}
  BY <1>0, <1>1, StackSplits DEF TypeOK, Scanned, NoBatch
<1>3. ev.tree.children[Head(stack)] \in Seq(Nodes)
  BY <1>0, <1>2, EventTree DEF IsTree, Nodes
<1>4. stopped \in {"no"} \cup Stops /\ StopReason(Head(stack), nodes') \in {"no"} \cup Stops
  BY <1>0 DEF TypeOK, StopReason, Stops
<1>5. /\ stopped' \in {"no"} \cup Stops
      /\ \/ Keep(Head(stack)) /\ stopped' # "no"
         \/ (Collect(Head(stack)) \/ Enter(Head(stack))) /\ stopped' = stopped
  BY <1>4 DEF Visit, FirstStop, Stops
<1>6. Walk'
  BY <1>0, <1>1, <1>5, KeepWalks, CollectWalks, EnterWalks
<1>7. TypeOK'
  <2>1. Nodes' = Nodes
    BY <1>1 DEF Nodes
  <2>2. /\ stack' \in Seq(Nodes) /\ texts' \in Seq(Nodes)
        /\ skeleton' \in [Nodes -> {"new", "ref", "kept", "asis"}]
    <3>1. CASE Keep(Head(stack))
      BY <1>0, <1>2, <3>1 DEF TypeOK, Keep
    <3>2. CASE Collect(Head(stack))
      BY <1>0, <1>2, <3>2 DEF TypeOK, Collect
    <3>3. CASE Enter(Head(stack))
      BY <1>0, <1>2, <1>3, <3>3 DEF TypeOK, Enter
    <3> QED
      BY <1>5, <3>1, <3>2, <3>3
  <2>3. batch'.findings = {}
    BY <1>1, <1>2 DEF scanVars
  <2> QED
    BY <1>0, <1>1, <1>5, <2>1, <2>2, <2>3 DEF TypeOK, scanVars, outcomeVars
<1>8. Known' /\ Scanned' /\ Told'
  <2>1. Known'
    <3>1. ev' = ev /\ event' = event /\ canAsk' = canAsk /\ DenyRules' = DenyRules
      BY <1>1 DEF DenyRules
    <3> QED
      BY <1>0, <1>1, <3>1 DEF Known, Before, Ended
  <2>2. Scanned'
    BY <1>0, <1>1 DEF Scanned, scanVars, outcomeVars, Before, Ended, After
  <2>3. Told'
    BY <1>1 DEF Told, After
  <2> QED
    BY <2>1, <2>2, <2>3
<1> QED
  BY <1>6, <1>7, <1>8 DEF IInv

LEMMA WalkEndKeeps ==
  ASSUME IInv, EndWalk \/ SkipScan \/ StartScan \/ BudgetRunsOut
  PROVE  IInv'
<1>0. TypeOK /\ Walk /\ Known /\ Scanned
  BY DEF IInv
<1>1. /\ UNCHANGED <<ev, event, canAsk, walkVars, scan, batch, fired, replaced, records, logged,
                     response>>
      /\ pc \in {"walk", "scan"} /\ pc' \in {"walk", "scan", "scanning", "materialize"}
  BY DEF EndWalk, SkipScan, StartScan, BudgetRunsOut, scanVars, outcomeVars
<1>2. Walk'
  BY <1>0, <1>1, WalkStays
<1>3. TypeOK'
  <2>1. Nodes' = Nodes /\ batch'.findings = {} /\ UNCHANGED <<stack, nodes, stopped, texts, skeleton>>
    BY <1>0, <1>1 DEF Nodes, Scanned, NoBatch, walkVars
  <2>2. wired' \subseteq ev.selected /\ incomplete' \in BOOLEAN /\ spent' \in BOOLEAN
    BY <1>0 DEF TypeOK, EndWalk, SkipScan, StartScan, BudgetRunsOut, scanVars, outcomeVars
  <2> QED
    BY <1>0, <1>1, <2>1, <2>2 DEF TypeOK
<1>4. Known'
  BY <1>0, <1>1 DEF Known, DenyRules, Before, Ended
<1>5. Scanned'
  <2>1. scan = "none"
    BY <1>0, <1>1 DEF Scanned
  <2>2. CASE EndWalk
    BY <1>0, <1>1, <2>1, <2>2 DEF Scanned, EndWalk, walkVars, Before, Ended, After
  <2>3. CASE SkipScan
    BY <1>0, <1>1, <2>1, <2>3 DEF Scanned, SkipScan, walkVars, Before, Ended, After
  <2>4. CASE StartScan
    BY <1>0, <1>1, <2>1, <2>4 DEF Scanned, StartScan, outcomeVars, walkVars, Before, Ended, After
  <2>5. CASE BudgetRunsOut
    BY <1>0, <1>1, <2>1, <2>5 DEF Scanned, BudgetRunsOut, outcomeVars, walkVars, Before, Ended,
       After
  <2> QED
    BY <2>2, <2>3, <2>4, <2>5
<1>6. Told'
  BY <1>1 DEF Told, After
<1> QED
  BY <1>2, <1>3, <1>4, <1>5, <1>6 DEF IInv

LEMMA SettledStays ==
  ASSUME Settled, UNCHANGED <<ev, event, stack, stopped, texts, scanVars, outcomeVars>>
  PROVE  Settled'
<1>1. Found' = Found /\ ev' = ev /\ texts' = texts
  BY DEF Found, scanVars
<1>2. DeniedPositions' = DeniedPositions
  BY <1>1 DEF DeniedPositions
<1>3. Withheld' = Withheld
  BY <1>1, <1>2 DEF Withheld
<1> QED
  BY <1>1, <1>3 DEF Settled, scanVars, outcomeVars

(* The scanner answers or raises.                                            *)
LEMMA ScannerKeeps ==
  ASSUME IInv, Scanner
  PROVE  IInv'
<1>0. TypeOK /\ Walk /\ Known /\ Scanned
  BY DEF IInv
<1>1. /\ UNCHANGED <<ev, event, canAsk, spent, walkVars, wired, logged, response>>
      /\ UNCHANGED <<fired, replaced, records>>
      /\ pc = "scanning" /\ pc' \in {"materialize", "log"}
  BY DEF Scanner, BatchReturns, ScannerRaises, outcomeVars
<1>2. Walk'
  BY <1>0, <1>1, WalkStays
<1>3. Known'
  BY <1>0, <1>1 DEF Known, DenyRules, Before, Ended, Scanned
<1>4. /\ scan = "none" /\ batch = NoBatch /\ stack = <<>> /\ (~incomplete => stopped = "no")
      /\ fired = {} /\ replaced = {} /\ records = {} /\ texts # <<>>
  BY <1>0, <1>1 DEF Scanned, After, Ended
<1>5. UNCHANGED <<Nodes, stack, nodes, stopped, texts, skeleton>>
  BY <1>1 DEF Nodes, walkVars
<1>6. CASE BatchReturns
  <2>1. PICK a \in Answers : Promise!Keeps(a) /\ batch' = a
    BY <1>6 DEF BatchReturns
  <2>2. a.complete \in BOOLEAN /\ a.findings \subseteq wired \X (1 .. Len(texts))
    BY DEF Answers
  <2>3. TypeOK'
    BY <1>0, <1>1, <1>5, <1>6, <2>1, <2>2 DEF TypeOK, BatchReturns, outcomeVars
  <2>4. Promise!Keeps(batch)'
    BY <1>1, <1>5, <2>1, PromiseStays
  <2>5. Scanned'
    BY <1>4, <1>5, <1>6, <2>4 DEF Scanned, BatchReturns, outcomeVars, Before, Ended, After
  <2>6. Told'
    BY <1>6 DEF BatchReturns, Told, After
  <2> QED
    BY <1>2, <1>3, <2>3, <2>5, <2>6 DEF IInv
<1>7. CASE ScannerRaises
  <2>1. TypeOK'
    BY <1>0, <1>1, <1>5, <1>7 DEF TypeOK, ScannerRaises, After
  <2>2. Scanned'
    BY <1>4, <1>5, <1>7 DEF Scanned, ScannerRaises, Before, Ended, After
  <2>3. Found' = {} /\ incomplete'
    BY <1>4, <1>7 DEF Found, ScannerRaises, NoBatch
  <2>4. DeniedPositions' = {}
    BY <2>3 DEF DeniedPositions
  <2>5. Withheld' = {}
    BY <2>4 DEF Withheld
  <2>6. Settled'
    BY <1>1, <1>4, <2>3, <2>5 DEF Settled
  <2>7. Told'
    BY <1>7, <2>6 DEF Told, ScannerRaises, After
  <2> QED
    BY <1>2, <1>3, <2>1, <2>2, <2>7 DEF IInv
<1> QED
  BY <1>6, <1>7 DEF Scanner

(* The findings are applied, logged and answered.                            *)
LEMMA AnswerKeeps ==
  ASSUME IInv, Materialize \/ WriteLog \/ Respond
  PROVE  IInv'
<1>0. TypeOK /\ Walk /\ Known /\ Scanned /\ Told
  BY DEF IInv
<1>1. /\ UNCHANGED <<ev, event, canAsk, spent, walkVars, scanVars>>
      /\ pc \in {"materialize"} \cup After /\ pc' \in After \cup {"answered"}
  BY DEF Materialize, WriteLog, Respond, Answer, After
<1>2. Walk'
  BY <1>0, <1>1, WalkStays
<1>3. Known'
  BY <1>0, <1>1 DEF Known, DenyRules, Before, Ended, After, scanVars
<1>4. UNCHANGED <<Nodes, stack, nodes, stopped, texts, skeleton, wired, scan, batch>>
  BY <1>1 DEF Nodes, walkVars, scanVars
<1>5. scan = "answered" => Promise!Keeps(batch)'
  BY <1>0, <1>1, <1>4, PromiseStays DEF Scanned
<1>6. CASE Materialize
  <2>1. TypeOK'
    <3>1. StillIncomplete \in BOOLEAN
      BY <1>0 DEF TypeOK, StillIncomplete
    <3> QED
      BY <1>0, <1>1, <1>4, <1>6, <3>1 DEF TypeOK, Materialize, After
  <2>2. incomplete => incomplete'
    BY <1>6 DEF Materialize, StillIncomplete
  <2>3. Scanned'
    BY <1>0, <1>4, <1>5, <1>6, <2>2 DEF Scanned, Materialize, Before, Ended, After
  <2>4. Found' = Found /\ Withheld' = Withheld
    <3>1. Found' = Found
      BY <1>4 DEF Found
    <3>2. DeniedPositions' = DeniedPositions
      BY <1>1, <3>1 DEF DeniedPositions
    <3> QED
      BY <1>1, <1>4, <3>1, <3>2 DEF Withheld
  <2>5. Settled'
    BY <1>0, <1>1, <1>4, <1>6, <2>4 DEF Settled, Materialize, StillIncomplete, Scanned,
       TypeOK
  <2>6. Told'
    BY <1>6, <2>5 DEF Told, Materialize, After
  <2> QED
    BY <1>2, <1>3, <2>1, <2>3, <2>6 DEF IInv
<1>7. CASE WriteLog \/ Respond
  <2>1. UNCHANGED outcomeVars /\ pc \in After
    BY <1>7 DEF WriteLog, Respond, After
  <2>2. TypeOK'
    BY <1>0, <1>1, <1>4, <1>7, <2>1 DEF TypeOK, WriteLog, Respond, Answer, After,
       Ended, outcomeVars
  <2>3. Scanned'
    BY <1>0, <1>1, <1>4, <1>5, <2>1 DEF Scanned, Before, Ended, After, outcomeVars
  <2>4. Settled'
    BY <1>0, <1>1, <1>4, <2>1, SettledStays DEF Told
  <2>5. ASSUME WriteLog PROVE Told'
    <3>1. pc' = "answer"
      BY <2>5 DEF WriteLog
    <3> QED
      BY <2>4, <3>1 DEF Told
  <2>6. ASSUME Respond PROVE Told'
    <3>1. response' = Reply
      BY <2>6 DEF Respond, Answer, Reply
    <3>2. UNCHANGED <<ev, event, canAsk, replaced, fired, incomplete, logged>>
      BY <2>6 DEF Respond, outcomeVars
    <3>3. Decision' = Decision
      BY <3>2 DEF Decision
    <3>4. Advised' = Advised
      BY <3>2, <3>3 DEF Advised
    <3>5. Reply' = Reply
      BY <3>2, <3>3, <3>4 DEF Reply, Changed
    <3>6. pc' = "answered"
      BY <2>6 DEF Respond, Answer
    <3>7. (Settled /\ response = Reply)'
      BY <2>4, <3>1, <3>5
    <3> QED
      BY <3>6, <3>7 DEF Told, After
  <2> QED
    BY <1>2, <1>3, <1>7, <2>2, <2>3, <2>5, <2>6 DEF IInv
<1> QED
  BY <1>6, <1>7

-----------------------------------------------------------------------------
LEMMA InitIInv == Init => IInv
<1> SUFFICES ASSUME Init PROVE IInv
  OBVIOUS
<1>1. IsEvent(ev) /\ IsTree(ev.tree) /\ 1 \in Nodes
  BY EventsAssumption, TreesAssumption
  DEF Init, EventsAssumption, TreesAssumption, IsTree, Nodes
<1>2. TypeOK
  <2>1. stack \in Seq(Nodes) /\ texts \in Seq(Nodes)
    BY <1>1 DEF Init
  <2>2. skeleton \in [Nodes -> {"new", "ref", "kept", "asis"}]
    BY DEF Init
  <2>3. batch.complete \in BOOLEAN /\ batch.findings = {} /\ wired = {}
    BY DEF Init, NoBatch
  <2> QED
    BY <2>1, <2>2, <2>3 DEF Init, TypeOK, Before, Ended
<1>3. Walk
  <2>1. \A n \in Nodes : n \in U(1)
    BY <1>1 DEF IsTree, U, Nodes
  <2>2. DOMAIN stack = {1} /\ stack[1] = 1
    BY DEF Init
  <2>3. Reached /\ Apart
    BY <2>1, <2>2 DEF Reached, Apart, Texts
  <2>4. Ahead /\ Reasoned
    BY DEF Init, Ahead, Reasoned
  <2>5. Refs = {} /\ texts = <<>>
    BY DEF Init, Refs
  <2>6. Collected
    BY <2>5, FS_EmptySet DEF Collected
  <2> QED
    BY <2>3, <2>4, <2>6 DEF Walk
<1>4. Known /\ Scanned /\ Told
  BY DEF Init, Known, Scanned, Told, Before, Ended, After
<1> QED
  BY <1>2, <1>3, <1>4 DEF IInv

LEMMA StepIInv == IInv /\ [Next]_vars => IInv'
<1> SUFFICES ASSUME IInv, [Next]_vars PROVE IInv'
  OBVIOUS
<1>1. CASE Hook \/ BudgetRunsOut
  BY <1>1, FailKeeps, RunKeeps, VisitKeeps, WalkEndKeeps, AnswerKeeps DEF Hook
<1>2. CASE Scanner
  BY <1>2, ScannerKeeps
<1>3. CASE UNCHANGED vars
  <2>1. UNCHANGED <<ev, pc, event, canAsk, spent, walkVars, scanVars, outcomeVars, logged,
                    response>>
    BY <1>3 DEF vars
  <2>2. UNCHANGED <<stack, nodes, stopped, texts, skeleton, wired, scan, batch, fired, replaced,
                    incomplete, records>>
    BY <2>1 DEF walkVars, scanVars, outcomeVars
  <2>3. TypeOK'
    BY <2>1, <2>2 DEF IInv, TypeOK, Nodes
  <2>4. Walk'
    BY <2>1, WalkStays DEF IInv
  <2>5. Known'
    BY <2>1, <2>2 DEF IInv, Known, DenyRules
  <2>6. Scanned'
    BY <2>1, <2>2, PromiseStays DEF IInv, Scanned
  <2>7. Settled => Settled'
    BY <2>1, <2>2, SettledStays
  <2>8. Reply' = Reply
    <3>1. Decision' = Decision
      BY <2>1, <2>2 DEF Decision
    <3>2. Advised' = Advised
      BY <2>2, <3>1 DEF Advised
    <3> QED
      BY <2>1, <2>2, <3>1, <3>2 DEF Reply, Changed
  <2>9. Early => Early'
    BY <2>1, <2>2 DEF Early, Degraded
  <2>10. Told'
    BY <2>1, <2>7, <2>8, <2>9 DEF IInv, Told
  <2> QED
    BY <2>3, <2>4, <2>5, <2>6, <2>10 DEF IInv
<1> QED
  BY <1>1, <1>2, <1>3 DEF Next, Done

LEMMA SpecIInv == Spec => []IInv
  BY InitIInv, StepIInv, PTL DEF Spec

-----------------------------------------------------------------------------
(* The answers, field by field.                                              *)
LEMMA DecisionCases ==
  /\ event = "IN" /\ "DENY" \in fired => Decision = "deny"
  /\ event = "IN" /\ "DENY" \notin fired /\ incomplete /\ canAsk => Decision = "ask"
  /\ ~(event = "IN" /\ "DENY" \in fired) /\ ~(event = "IN" /\ incomplete /\ canAsk) =>
       Decision = "none"
  BY DEF Decision

LEMMA ReplyFields ==
  ASSUME response = Reply
  PROVE  /\ response.updated <=> event = "OUT" /\ Changed
         /\ response.decision = Decision
         /\ incomplete => response.context = "incomplete" /\ response.message = "degraded"
         /\ ~incomplete /\ Advised => response.context = "advice"
         /\ ~incomplete /\ ~Advised => response.context = "none"
         /\ ~incomplete /\ ~logged => response.message = "log"
  BY DEF Reply

LEMMA DegradedFields ==
  ASSUME response = Degraded(event, canAsk)
  PROVE  /\ ~response.updated /\ response # Silent /\ response.context # "advice"
         /\ response.decision = IF event = "IN" /\ canAsk THEN "ask" ELSE "none"
  BY DEF Degraded, Silent

(* A finding of the scan is one of a selected rule, on a collected string.   *)
LEMMA FoundIsSelected ==
  ASSUME TypeOK
  PROVE  \A x \in Found : /\ x = <<x[1], x[2]>> /\ x[1] \in ev.selected
                          /\ x[2] \in 1 .. Len(texts)
  BY DEF TypeOK, Found

(* What withholding and denying come to.                                     *)
LEMMA WithheldIsDenied ==
  /\ event = "OUT" => Withheld = {texts[x[2]] : x \in {y \in Found : ev.lane[y[1]] = "DENY"}}
  /\ event # "OUT" => Withheld = {}
  /\ Withheld # {} => \E x \in Found : ev.lane[x[1]] = "DENY"
  BY DEF Withheld, DeniedPositions

(* "Deliberately not a second bounded walk": no string of the payload is     *)
(* lost or collected twice, for every payload and any caps.                  *)
THEOREM StringsAreKept == Spec => []NoStringLost
<1>1. IInv => NoStringLost
  <2> SUFFICES ASSUME IInv, stack = <<>> PROVE NoStringLost
    BY DEF NoStringLost, Materialized
  <2>1. \A n \in Texts : skeleton[n] = "ref"
                         \/ \E k \in Nodes : skeleton[k] = "kept" /\ n \in Under(ev.tree, k)
    BY DEF IInv, Walk, Reached, U
  <2> QED
    BY <2>1 DEF IInv, Walk, Collected, Reasoned, Refs, NoStringLost
<1> QED
  BY <1>1, SpecIInv, PTL

(* "RECORD and ADVISE cannot acquire blocking power through a timeout": only *)
(* a selected DENY rule decides or rewrites, only an advising one advises;   *)
(* without a DENY rule an output is sent back only unmodified, for a NaN.    *)
THEOREM LanesAreBounded == Spec => []LanesBoundPower
<1>1. IInv => LanesBoundPower
  <2> SUFFICES ASSUME IInv, pc \in {"answered", "failed"} PROVE LanesBoundPower
    BY DEF LanesBoundPower, Answered
  <2>0. /\ TypeOK /\ Known
        /\ (Settled /\ response = Reply) \/ Early \/ response = Degraded(event, canAsk)
    BY DEF IInv, Told
  <2>1. CASE Settled /\ response = Reply
    <3>1. (\E x \in Found : ev.lane[x[1]] = "DENY") => DenyRules # {}
      BY <2>0, FoundIsSelected DEF DenyRules
    <3>2. fired = {ev.lane[x[1]] : x \in Found} /\ replaced = Withheld
      BY <2>1 DEF Settled
    <3>3. response.decision # "none" => DenyRules # {}
      <4>1. "DENY" \in fired => DenyRules # {}
        BY <3>1, <3>2
      <4> QED
        BY <2>0, <2>1, <4>1, ReplyFields, DecisionCases DEF Known
    <3>4. response.updated => DenyRules # {} \/ (ev.tree.kind[1] = "nan" /\ replaced = {})
      <4>1. replaced # {} => DenyRules # {}
        BY <3>1, <3>2, WithheldIsDenied
      <4> QED
        BY <2>1, <4>1, ReplyFields DEF Changed
    <3>5. response.context = "advice" => \E r \in ev.selected : ev.lane[r] # "RECORD"
      <4>1. response.context = "advice" => "ADVISE" \in fired
        BY <2>1, ReplyFields DEF Advised
      <4>2. ASSUME "ADVISE" \in fired PROVE \E r \in ev.selected : ev.lane[r] # "RECORD"
        <5>1. PICK x \in Found : ev.lane[x[1]] = "ADVISE"
          BY <3>2, <4>2
        <5> QED
          BY <2>0, <5>1, FoundIsSelected
      <4> QED
        BY <4>1, <4>2
    <3> QED
      BY <3>3, <3>4, <3>5 DEF LanesBoundPower
  <2>2. CASE response = Degraded(event, canAsk)
    BY <2>0, <2>2, DegradedFields DEF Known, LanesBoundPower
  <2>3. CASE response = Silent
    BY <2>3 DEF Silent, LanesBoundPower
  <2> QED
    BY <2>0, <2>1, <2>2, <2>3 DEF Early
<1> QED
  BY <1>1, SpecIInv, PTL

(* A scan has strings, and a payload that is a single NaN has none.          *)
LEMMA ScannedIsNoNumber ==
  ASSUME TypeOK, Walk, texts # <<>>
  PROVE  ev.tree.kind[1] # "nan"
<1> SUFFICES ASSUME ev.tree.kind[1] = "nan" PROVE FALSE
  OBVIOUS
<1>1. /\ 1 \in Nodes /\ ev.tree.children[1] = <<>> /\ Nodes = U(1)
      /\ IsTree(ev.tree)
  BY EventTree DEF IsTree, Nodes, U
<1>2. \A n \in Nodes : n = 1
  BY <1>1, UnderUnfolds DEF Nodes, U
<1>3. texts[1] \in Texts
  <2>1. 1 \in 1 .. Len(texts)
    BY DEF TypeOK
  <2> QED
    BY <2>1 DEF Walk, Collected
<1> QED
  BY <1>2, <1>3 DEF Texts

(* "A completed DENY match still denies": a reported DENY finding refuses    *)
(* the call on IN and replaces its strings, and only those, on OUT, where    *)
(* they are sent back unless all of them were withheld already; after an     *)
(* exception the call it covers is still not let through unasked.            *)
THEOREM DenialsAreExact == Spec => []DenyIsExact
<1>1. IInv => DenyIsExact
  <2> SUFFICES ASSUME IInv, pc \in {"answered", "failed"}, scan = "answered"
               PROVE  DenyIsExact
    BY DEF DenyIsExact, Answered
  <2>0. TypeOK /\ Walk /\ Known /\ Scanned
    BY DEF IInv
  <2> DEFINE denied == {texts[x[2]] : x \in {y \in batch.findings : ev.lane[y[1]] = "DENY"}}
  <2>f. CASE pc = "failed"
    <3>1. response = Degraded(event, canAsk)
      BY <2>f DEF IInv, Told
    <3>2. denied # {} => DenyRules # {}
      <4> SUFFICES ASSUME NEW x \in Found, ev.lane[x[1]] = "DENY" PROVE DenyRules # {}
        BY DEF Found
      <4> QED
        BY <2>0, FoundIsSelected DEF DenyRules
    <3>3. event = "IN" /\ denied # {} => response.decision = "ask"
      BY <2>0, <3>1, <3>2, DegradedFields DEF Known
    <3>4. response.decision # "deny" /\ ~response.updated
      BY <3>1, DegradedFields
    <3> QED
      BY <2>f, <3>3, <3>4 DEF DenyIsExact
  <2>a. SUFFICES ASSUME pc = "answered" PROVE DenyIsExact
    BY <2>f
  <2>1. Settled /\ response = Reply
    BY <2>a DEF IInv, Told, Early
  <2>2. fired = {ev.lane[x[1]] : x \in Found} /\ replaced = Withheld /\ Found = batch.findings
    BY <2>1 DEF Settled, Found
  <2>3. denied # {} <=> "DENY" \in fired
    BY <2>2
  <2>4. Decision # "deny" => Decision \in {"ask", "none"}
    BY DecisionCases
  <2>5. event = "IN" => (response.decision = "deny" <=> denied # {}) /\ replaced = {}
    <3>1. event = "IN" => (Decision = "deny" <=> "DENY" \in fired)
      BY DecisionCases DEF Decision
    <3>2. event = "IN" => replaced = {}
      BY <2>2, WithheldIsDenied
    <3> QED
      BY <2>1, <2>3, <3>1, <3>2, ReplyFields
  <2>6. event = "OUT" => /\ replaced = denied /\ response.decision = "none"
                         /\ (response.updated <=> ~(denied \subseteq ev.already))
    <3>1. event = "OUT" => replaced = denied /\ response.decision = "none"
      BY <2>1, <2>2, ReplyFields, DecisionCases, WithheldIsDenied
    <3>2. ev.tree.kind[1] # "nan"
      BY <2>0, ScannedIsNoNumber DEF Scanned
    <3>3. response.updated <=> event = "OUT" /\ replaced \ ev.already # {}
      BY <2>1, <3>2, ReplyFields DEF Changed
    <3> QED
      BY <3>1, <3>3
  <2> QED
    BY <2>a, <2>5, <2>6 DEF DenyIsExact
<1> QED
  BY <1>1, SpecIInv, PTL

(* A walk that stopped nowhere has collected every string.                   *)
LEMMA WholeWalk ==
  ASSUME Walk, stack = <<>>, stopped = "no"
  PROVE  \A n \in Texts : \E p \in 1 .. Len(texts) : texts[p] = n
<1> SUFFICES ASSUME NEW n \in Texts PROVE \E p \in 1 .. Len(texts) : texts[p] = n
  OBVIOUS
<1>1. n \in Nodes /\ skeleton[n] = "ref"
  BY DEF Walk, Reached, Reasoned, Texts
<1> QED
  BY <1>1 DEF Walk, Collected, Refs

(* "an enabled measured DENY check could not finish. Approval is required to *)
(* proceed": the call goes ahead unasked only after a whole scan, or when    *)
(* the payload has no string at all.                                         *)
THEOREM UnfinishedChecksAsk == Spec => []UnfinishedDenyAsks
<1>1. IInv => UnfinishedDenyAsks
  <2> SUFFICES ASSUME IInv, pc \in {"answered", "failed"}, event = "IN", canAsk,
                      response.decision = "none"
               PROVE  \/ scan = "answered" /\ batch.complete /\ wired = ev.selected
                                           /\ stopped = "no"
                      \/ Texts = {}
    BY DEF UnfinishedDenyAsks, Answered
  <2>1. Settled /\ response = Reply
    BY DegradedFields DEF IInv, Told, Early
  <2>2. ~incomplete
    BY <2>1, ReplyFields, DecisionCases
  <2>3. CASE scan = "none" /\ texts = <<>> /\ stack = <<>> /\ stopped = "no"
    BY <2>3, WholeWalk DEF IInv
  <2> QED
    BY <2>1, <2>2, <2>3 DEF Settled
<1> QED
  BY <1>1, SpecIInv, PTL

(* "A caller must not read an empty finding list under this as an absence of *)
(* findings": the hook says nothing only when every string was checked       *)
(* against every selected rule, every match is in the log, and none is above *)
(* RECORD but those of DENY rules in output that was withheld already.       *)
THEOREM SilenceIsChecked == Spec => []SilenceMeansChecked
<1>1. IInv => SilenceMeansChecked
  <2> SUFFICES ASSUME IInv, pc \in {"answered", "failed"}, event \in {"IN", "OUT"},
                      ev.selected # {}, response = Silent
               PROVE  /\ \A x \in InLanes(Lanes) : x \in records /\ logged
                      /\ \A x \in InLanes({"ADVISE", "DENY"}) :
                           event = "OUT" /\ ev.lane[x[1]] = "DENY" /\ x[2] \in ev.already
    BY DEF SilenceMeansChecked, Answered
  <2>0. TypeOK /\ Walk /\ Known /\ Scanned /\ IsEvent(ev)
    BY EventTree DEF IInv
  <2>1. Settled /\ response = Reply
    BY DegradedFields DEF IInv, Told, Early
  <2>2. /\ ~response.updated /\ response.decision = "none"
        /\ response.context = "none" /\ response.message = "none"
    BY DEF Silent
  <2>3. ~incomplete /\ logged /\ ~Advised /\ Decision = "none" /\ ~(event = "OUT" /\ Changed)
    BY <2>1, <2>2, ReplyFields
  <2>4. "ADVISE" \notin fired
    BY <2>3 DEF Advised
  <2>5. stack = <<>> /\ stopped = "no"
    BY <2>1, <2>3 DEF Settled
  <2>6. ASSUME NEW x \in ev.matches, x[1] \in ev.selected
        PROVE  \E f \in Found : f[1] = x[1] /\ texts[f[2]] = x[2]
    <3>1. x = <<x[1], x[2]>> /\ x[2] \in Texts
      BY <2>0 DEF IsEvent, Texts, Nodes
    <3>2. PICK p \in 1 .. Len(texts) : texts[p] = x[2]
      BY <2>0, <2>5, <3>1, WholeWalk
    <3>3. scan = "answered" /\ batch.complete /\ wired = ev.selected
      BY <2>1, <2>3, <3>2 DEF Settled
    <3>4. Found = Truth
      BY <2>0, <3>3 DEF Scanned, Promise!Keeps, Found
    <3>5. <<x[1], p>> \in Truth
      BY <2>6, <3>1, <3>2, <3>3 DEF Truth
    <3> QED
      BY <3>2, <3>4, <3>5
  <2>7. fired = {ev.lane[f[1]] : f \in Found} /\ records = {<<f[1], texts[f[2]]>> : f \in Found}
    BY <2>1 DEF Settled
  <2>8. \A x \in ev.matches : x[1] \in ev.selected =>
          ev.lane[x[1]] \in fired /\ <<x[1], x[2]>> \in records
    BY <2>6, <2>7
  <2>9. \A x \in ev.matches : x[1] \in ev.selected /\ ev.lane[x[1]] = "DENY" =>
          event = "OUT" /\ x[2] \in ev.already
    <3>1. CASE event = "IN"
      BY <2>3, <2>8, <3>1, DecisionCases
    <3>2. CASE event = "OUT"
      <4>1. Withheld \subseteq ev.already
        BY <2>1, <2>3, <3>2 DEF Settled, Changed
      <4>2. \A f \in Found : ev.lane[f[1]] = "DENY" => texts[f[2]] \in ev.already
        BY <3>2, <4>1, WithheldIsDenied
      <4> QED
        BY <2>6, <3>2, <4>2
    <3> QED
      BY <3>1, <3>2
  <2>10. ASSUME NEW x \in InLanes({"ADVISE", "DENY"})
         PROVE  event = "OUT" /\ ev.lane[x[1]] = "DENY" /\ x[2] \in ev.already
    <3>1. x \in ev.matches /\ x[1] \in ev.selected /\ ev.lane[x[1]] \in {"ADVISE", "DENY"}
      BY <2>10 DEF InLanes
    <3> QED
      BY <2>4, <2>8, <2>9, <3>1
  <2>11. ASSUME NEW x \in InLanes(Lanes) PROVE x \in records /\ logged
    <3>1. x \in ev.matches /\ x[1] \in ev.selected
      BY <2>11 DEF InLanes
    <3>2. x = <<x[1], x[2]>>
      BY <2>0, <3>1 DEF IsEvent
    <3> QED
      BY <2>3, <2>8, <3>1, <3>2
  <2> QED
    BY <2>10, <2>11
<1> QED
  BY <1>1, SpecIInv, PTL
=============================================================================
