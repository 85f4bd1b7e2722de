----------------------------- MODULE MCHookConfig -----------------------------
(***************************************************************************)
(* Small configs for TLC: two sources, a rule on each surface, one of them  *)
(* in two versions, and populations on which the versions differ.           *)
(***************************************************************************)
EXTENDS HookConfigProps

A1 == [id |-> "a", source |-> "atr", surface |-> "OUT", version |-> 1]
A2 == [id |-> "a", source |-> "atr", surface |-> "OUT", version |-> 2]
B1 == [id |-> "b", source |-> "ave", surface |-> "IN", version |-> 1]

TheSources == {"atr", "ave"}
TheRules == {A1, A2, B1}
TheBundles == {{A1, B1}, {A2, B1}}

(* Two trials say DENY when nothing fires, ADVISE when one does; a single     *)
(* trial or two hits say RECORD.                                              *)
TheMaxCount == 2
TheU95 == [x \in (0 .. 2) \X (0 .. 2) |->
             CASE x = <<2, 0>> -> 1 [] x = <<2, 1>> -> 2 [] OTHER -> 3]

Quiet == << {}, {} >>
LoudOnA2 == << {A2}, {A2} >>
OnceOnB == << {B1}, {} >>
TheDirectories == {Quiet, LoudOnA2, OnceOnB}
TheCorpora == { [IN |-> Quiet, OUT |-> LoudOnA2], [IN |-> OnceOnB, OUT |-> Quiet],
                [IN |-> Quiet, OUT |-> <<>>] }
=============================================================================
