----------------------------- MODULE MCInstaller -----------------------------
(***************************************************************************)
(* Small settings files for TLC: every way merge tells groups and containers*)
(* apart, with handlers of two installations.                               *)
(***************************************************************************)
EXTENDS InstallerProps, TLC

Group(kind, hooks) == [kind |-> kind, hooks |-> hooks]
Pre(groups) == Doc("present", [e \in {"PreToolUse"} |-> groups])
Both(pre, post) ==
  Doc("present", [e \in Events |-> IF e = "PreToolUse" THEN pre ELSE post])

MixDocs ==
  { Absent, Invalid, Pre(<<>>),
    Both(<<Group("plain", <<"guard", "v1">>)>>, <<Group("extra", <<"v1">>)>>),
    Pre(<<Group("star", <<"v1">>), Group("plain", <<"v2", "v1">>)>>) }
=============================================================================
