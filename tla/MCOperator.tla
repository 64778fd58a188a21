----------------------------- MODULE MCOperator -----------------------------
(***************************************************************************)
(* The small instances of ResourceLimiterController, with the checker.     *)
(***************************************************************************)
EXTENDS Operator, MCResourceLimiterController
=============================================================================
