-------------------------- MODULE MCTwoControllers --------------------------
(***************************************************************************)
(* Small instances of TwoControllers for TLC.                              *)
(***************************************************************************)
EXTENDS TwoControllersRefinement

CONSTANTS a,         \* a namespace
          r1,        \* a ResourceLimiter
          lo         \* a limit

\* One CR over one namespace, which may be switched on and off.
OneTarget == [n \in Names |-> {<<[ns |-> a, hard |-> h]>> : h \in Hards}]
=============================================================================
