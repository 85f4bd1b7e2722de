------------------------------ MODULE MCHookEvent ------------------------------
(***************************************************************************)
(* Small events for TLC: two rules, payloads of up to five nodes, caps that *)
(* bite.                                                                    *)
(***************************************************************************)
EXTENDS HookEventProps

Tree(kind, children, depth) == [kind |-> kind, children |-> children, depth |-> depth]
Bare == Tree(<<"text">>, << <<>> >>, <<0>>)
Pair == Tree(<<"container", "text", "text">>, << <<2, 3>>, <<>>, <<>> >>, <<0, 1, 1>>)
(* A string, a nested list of an empty and a full string, a number. *)
Deep == Tree(<<"container", "text", "container", "empty", "text", "scalar">>,
             << <<2, 3, 6>>, <<>>, <<4, 5>>, <<>>, <<>>, <<>> >>, <<0, 1, 1, 2, 2, 1>>)
(* A list too deep to enter, with a string behind it. *)
Hole == Tree(<<"container", "container", "text", "text">>,
             << <<2, 4>>, <<3>>, <<>>, <<>> >>, <<0, 1, 2, 1>>)
(* Wide enough for the node cap. *)
Wide == Tree(<<"container", "text", "scalar", "scalar", "text">>,
             << <<2, 3, 4, 5>>, <<>>, <<>>, <<>>, <<>> >>, <<0, 1, 1, 1, 1>>)
(* A payload that is the one token NaN. *)
Lonely == Tree(<<"nan">>, << <<>> >>, <<0>>)
Blank == Tree(<<"container", "empty">>, << <<2>>, <<>> >>, <<0, 1>>)

TextsOf(t) == {n \in DOMAIN t.kind : t.kind[n] = "text"}
EventsOf(t, surfaces, laneSets) ==
  UNION {{[surface |-> s, present |-> TRUE, tree |-> t, selected |-> Rules, lane |-> l,
           matches |-> m, already |-> {}] : m \in SUBSET (Rules \X TextsOf(t))} :
         s \in surfaces, l \in laneSets}
(* The same with strings another hook has withheld. *)
WithWithheld(es, S) ==
  {f \in {[e EXCEPT !.already = S] : e \in es} :
     \A m, n \in S, r \in Rules : <<r, m>> \in f.matches => <<r, n>> \in f.matches}
AllLanes == [Rules -> Lanes]
Corners ==
  { [surface |-> s, present |-> p, tree |-> Bare, selected |-> sel,
     lane |-> [r \in Rules |-> "DENY"], matches |-> {}, already |-> {}] :
      s \in {"IN", "OUT", "other"}, p \in BOOLEAN, sel \in {{}, Rules} }

DenyAndOther == {[r \in Rules |-> IF r = 1 THEN "DENY" ELSE k] : k \in {"ADVISE", "RECORD"}}
SomeEvents == Corners \cup UNION {EventsOf(t, {"IN", "OUT"}, AllLanes) : t \in {Bare, Pair, Blank, Lonely}}
                      \cup UNION {WithWithheld(EventsOf(Pair, {"IN", "OUT"}, DenyAndOther), S) :
                                  S \in {{2}, {2, 3}}}
                      \cup UNION {EventsOf(t, {"IN", "OUT"}, {[r \in Rules |-> IF r = 1 THEN "DENY" ELSE "ADVISE"]}) :
                                  t \in {Deep, Wide, Hole}}
AdviceEvents == EventsOf(Pair, {"IN"}, {[r \in Rules |-> "ADVISE"]})
=============================================================================
