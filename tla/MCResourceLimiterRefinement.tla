-------------------- MODULE MCResourceLimiterRefinement --------------------
(***************************************************************************)
(* The small instances of ResourceLimiterController, with histories.       *)
(***************************************************************************)
EXTENDS ResourceLimiterRefinement, MCResourceLimiterController
=============================================================================
