-------------------------- MODULE MCCheckerStartup --------------------------
(***************************************************************************)
(* Small instances of CheckerStartup for TLC.                              *)
(***************************************************************************)
EXTENDS CheckerStartup, TLC

Symmetric == Permutations(Processes)
=============================================================================
