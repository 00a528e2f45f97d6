-------------------------- MODULE MCCommandLedger --------------------------
(***************************************************************************)
(* CommandLedger for TLC: two interchangeable calls on one command.        *)
(***************************************************************************)
EXTENDS CommandLedger, TLC

CallerSymmetry == Permutations(Callers)
=============================================================================
