----------------------------- MODULE MCSupervisor -----------------------------
(***************************************************************************)
(* Small instances of Supervisor for TLC.                                   *)
(***************************************************************************)
EXTENDS SupervisorProps, TLC

CONSTANTS c1, c2

Symmetry == Permutations(Calls)
=============================================================================
