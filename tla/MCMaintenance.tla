---------------------------- MODULE MCMaintenance ----------------------------
(***************************************************************************)
(* Small inputs for the three tools of Maintenance.                          *)
(***************************************************************************)
EXTENDS Maintenance

-----------------------------------------------------------------------------
(* Release: conditions of every kind the screen and the port tell apart.      *)
(* Three high and three low surrogates encode the points 20 to 28.            *)
Plain   == <<Raw(1)>>
Other   == <<Raw(2)>>
Blank   == <<Raw(0)>>
Nested  == <<Raw(1), Raw(2)>>
Crosses == <<Raw(3)>>
Sibling == <<Raw(3), Raw(3)>>
Missed  == <<Raw(4)>>
Pairs   == <<Class(<< <<10, 11>> >>), Class(<< <<14, 15>> >>)>>
Whole   == <<Class(<< <<11, 12>> >>), Class(<< <<13, 15>> >>)>>
Many    == <<Class(<< <<10, 12>> >>), Unit(14)>>
Lows    == <<Unit(10), Unit(13), Star>>

Cond(atom) == [kind |-> "regex", field |-> "content", atom |-> atom]
File(id, logic, atoms) ==
  [ id |-> id, logic |-> logic, conds |-> [i \in DOMAIN atoms |-> Cond(atoms[i])],
    method |-> "pattern", status |-> "stable", maturity |-> "stable", target |-> "none",
    source |-> "other", category |-> "other", suppress |-> FALSE, restricted |-> FALSE, readable |-> TRUE,
    examples |-> { <<1>>, <<22>> } ]
Skill(id, logic, atoms) == [File(id, logic, atoms) EXCEPT !.target = "skill"]

SmallCheckouts ==
  { << File(1, "any", <<Plain, Pairs>>), Skill(2, "any", <<Crosses, Sibling, Plain>>) >>,
    << File(1, "all", <<Plain, Other, Nested>>), File(2, "any", <<Missed>>),
       File(2, "any", <<Nested, Plain>>) >>,
    << File(1, "all", <<Lows, Whole>>), Skill(2, "any", <<Many, Plain, Whole>>) >>,
    << [File(1, "any", <<Plain>>) EXCEPT !.readable = FALSE], File(1, "all", <<Plain, Pairs>>),
       [Skill(2, "any", <<Blank>>) EXCEPT !.examples = {}] >> }

SmallPayloads ==
  { <<p>> : p \in (0..4) \cup (20..28) } \cup { <<2, 1>>, <<1, 2>>, <<3, 3>>, <<20, 1>>, <<1, 24>>, <<21, 27>> }

NestedOnes == {Nested}
BlankTexts == {<<0>>}
SlowTexts   == { <<Crosses>>, <<Sibling>> }
ReplayTexts == SlowTexts \cup { <<Missed>>, <<Plain, Other>> }

-----------------------------------------------------------------------------
(* Bench: corpora that are quiet, loud, at the ceiling, incomplete in one way  *)
(* each; the bounds are the real ones, in percent, but for <<2, 1>>, which is  *)
(* made the one double precision cannot place.                              *)
BenchRule(id, surface, matches, examples) ==
  [id |-> id, surface |-> surface, runnable |-> TRUE, matches |-> matches, examples |-> examples]
WholeUnit(surface, prose, text) ==
  [surface |-> surface, type |-> "md", prose |-> prose, text |-> text, leafwise |-> FALSE, parts |-> <<>>]
LeafUnit(surface, prose, text, parts) ==
  [surface |-> surface, type |-> "json", prose |-> prose, text |-> text, leafwise |-> TRUE, parts |-> parts]
BenchCorpus(identity, units) == [identity |-> identity, units |-> units, required |-> {}, intact |-> TRUE]

QuietCorpus == BenchCorpus("quiet",
  << WholeUnit("OUT", "ordinary", "u1"), WholeUnit("OUT", "security-adjacent", "u2"),
     WholeUnit("OUT", "ordinary", "u3"), WholeUnit("OUT", "security-adjacent", "u4") >>)
LoudCorpus == BenchCorpus("loud",
  << WholeUnit("OUT", "ordinary", "x"), WholeUnit("OUT", "security-adjacent", "u2"),
     WholeUnit("OUT", "ordinary", "u3"), WholeUnit("OUT", "security-adjacent", "u4") >>)
EdgeCorpus == BenchCorpus("edge",
  << WholeUnit("OUT", "ordinary", "x"), WholeUnit("OUT", "ordinary", "u1"),
     WholeUnit("OUT", "ordinary", "u3"), WholeUnit("OUT", "security-adjacent", "u4") >>)
CallCorpus == BenchCorpus("calls",
  << LeafUnit("IN", "ordinary", "u5", <<"", "u1">>), LeafUnit("IN", "security-adjacent", "u6", <<"u2">>) >>)
FiveCorpus == BenchCorpus("five",
  << WholeUnit("OUT", "ordinary", "u1"), WholeUnit("OUT", "security-adjacent", "u2"), WholeUnit("OUT", "ordinary", "u3"),
     WholeUnit("OUT", "security-adjacent", "u4"), WholeUnit("OUT", "ordinary", "u7") >>)
TwiceCorpus == BenchCorpus("twice", << WholeUnit("OUT", "ordinary", "u1"), WholeUnit("OUT", "security-adjacent", "u2"), WholeUnit("OUT", "ordinary", "u1") >>)
HalfCorpus == BenchCorpus("half", << WholeUnit("OUT", "ordinary", "u1"), WholeUnit("OUT", "ordinary", "u3") >>)
MixedCorpus == BenchCorpus("mixed", << WholeUnit("OUT", "ordinary", "u1"), LeafUnit("OUT", "security-adjacent", "u2", <<"u2">>) >>)
DamagedCorpus == [QuietCorpus EXCEPT !.intact = FALSE]

RuleA == BenchRule("a", "OUT", {"x"}, {"x"})
RuleB == BenchRule("b", "IN", {"y", ""}, {"y"})
TheRuleLists == { <<RuleA, RuleB>>, << [RuleA EXCEPT !.matches = {"x", "u1", "u2"}], RuleB >>,
                  << BenchRule("a", "OUT", {"u2"}, {"x"}), [RuleB EXCEPT !.runnable = FALSE], BenchRule("c", "OUT", {"u4"}, {"u4"}) >> ,
                  << RuleA, BenchRule("c", "OUT", {"u3"}, {"u3"}) >>, << RuleA >> }
TheCorpusLists == { <<QuietCorpus, CallCorpus>>, <<LoudCorpus, CallCorpus>>, <<EdgeCorpus>>, <<FiveCorpus>>, <<TwiceCorpus, CallCorpus>>, <<HalfCorpus, CallCorpus>>, <<MixedCorpus>>,
                    <<DamagedCorpus>>, <<QuietCorpus, QuietCorpus>>, <<CallCorpus, QuietCorpus>>, <<QuietCorpus, EdgeCorpus>> }

(* Percentages of the real bounds.                                            *)
TheExact ==
  [ x \in (0 .. 5) \X (0 .. 5) |->
      CASE x = <<4, 0>> -> 53 [] x = <<3, 0>> -> 63 [] x = <<4, 1>> -> 75 [] x = <<2, 0>> -> 78
        [] x = <<3, 1>> -> 86 [] x = <<4, 2>> -> 90 [] x = <<1, 0>> -> 95 [] x = <<2, 1>> -> 98
        [] x = <<5, 0>> -> 45 [] x = <<5, 1>> -> 66 [] OTHER -> 100 ]

TheUnresolved == { <<2, 1>> }
TheU95 == [TheExact EXCEPT ![<<2, 1>>] = 97]

-----------------------------------------------------------------------------
(* CalibrationGate: three figures on two revisions.                          *)
TheFigures == << [rev |-> "r1", corpus |-> "self", claims |-> <<50>>],
                 [rev |-> "r1", corpus |-> "pint", claims |-> <<60, 90>>],
                 [rev |-> "r2", corpus |-> "skill", claims |-> <<97>>] >>
World(net, win, scores) == [network |-> net, windows |-> win, scores |-> scores]
Two == << <<54>>, <<60, 80>>, <<97>> >>
One == << <<54>>, <<60, 80>>, <<10>> >>
TheWorlds == { World(TRUE, FALSE, Two), World(TRUE, FALSE, One), World(FALSE, FALSE, Two), World(TRUE, TRUE, Two) }
TheRevs == <<"r1", "r2">>
TheRuleFiles == <<"rules/a", "rules/b">>
TheCorpusFiles == <<"pint", "skill">>
TheScores == { <<54, 54>>, <<97, 97>> }
=============================================================================
