---------------------------- MODULE MCSourceCache ----------------------------
(***************************************************************************)
(* A small cache for TLC: one source with declared inputs, one without, and *)
(* archives with an excluded directory, links across its border, names that *)
(* differ in case and members of every kind.                                *)
(***************************************************************************)
EXTENDS SourceCacheProps

TheLock == <<"atr", "ave">>
TheFold == [c \in {"rules", "Rules", "data", "a", "b", "bad", "LICENSE"} |->
              IF c = "Rules" THEN "rules" ELSE c]
Rules == <<"rules">>   Capital == <<"Rules">>   Data == <<"data">>   Bad == <<"data", "bad">>
RulesA == <<"rules", "a">>  RulesB == <<"rules", "b">>  CapitalB == <<"Rules", "b">>
DataA == <<"data", "a">>    BadA == <<"data", "bad", "a">>   Licence == <<"LICENSE">>
ThePath == {Rules, Capital, Data, Bad, RulesA, RulesB, CapitalB, DataA, BadA, Licence}
TheNever == {Bad}
TheDeclared == [n \in {"atr"} |-> [under |-> {Rules}, exact |-> {}]]
TheLicense == [n \in {"atr", "ave"} |-> Licence]

F(p) == [path |-> p, kind |-> "file", target |-> p]
D(p) == [path |-> p, kind |-> "dir", target |-> p]
L(p, t) == [path |-> p, kind |-> "link", target |-> t]
Odd(p) == [path |-> p, kind |-> "odd", target |-> p]

Good == { {F(RulesA), F(Licence), F(DataA)},
          {F(RulesA), L(RulesB, BadA), F(BadA)},
          {F(RulesA), L(RulesB, DataA), F(DataA)},
          {D(Data), D(Bad), F(BadA), L(DataA, RulesA), F(RulesA)} }
Refused == { {F(RulesA), F(CapitalB)}, {F(Rules), F(RulesB)}, {L(RulesB, BadA), F(RulesA)},
             {Odd(RulesB), F(RulesA)}, {D(Rules)} }
TheArchives == {[n \in {"atr", "ave"} |-> A] : A \in Good \cup Refused}
=============================================================================
