------------------------------ MODULE Operator ------------------------------
(***************************************************************************)
(* The reconciler together with the checker. Both webhook configurations   *)
(* match every creation and update of a ResourceLimiter and fail closed:   *)
(* while the checker the API server trusts does not serve, these writes    *)
(* are refused, whoever makes them. Their rules match neither the status   *)
(* nor deletions, nor namespaces and quotas.                               *)
(*                                                                         *)
(* Of the checker only that is kept: CheckerStartup says when it is out.   *)
(***************************************************************************)
EXTENDS ResourceLimiterController

VARIABLE closed    \* some configuration's CA belongs to nobody who serves

operatorVars == <<vars, closed>>

OperatorInit == Init /\ closed = FALSE

\* The checker goes out, or one that is trusted serves again.
Toggle == closed' = ~closed /\ UNCHANGED vars

-----------------------------------------------------------------------------
\* What the reconciler patches are the finalizers.
Patching == wk.pc \in {"register", "release"}

\* Mutant: a patch that the webhooks refuse is given up for good.
WorkGivesUp ==
  \/ ~(closed /\ Patching) /\ (WorkerStep \/ Panic)
  \/ /\ closed /\ Patching /\ Proceed(Idle)
     /\ UNCHANGED <<stored, spent, caches, uids>>

Work ==
  \/ ~(closed /\ Patching) /\ (WorkerStep \/ Panic)
  \/ /\ closed /\ Patching /\ Requeue
     /\ UNCHANGED <<stored, spent, caches, uids>>

\* Of the writes of others to ResourceLimiters only the first of a deletion
\* goes through when they are closed.
Admitted ==
  closed => \A n \in Names : crs'[n] # crs[n] =>
    /\ crs[n] # Absent /\ ~crs[n].deleting
    /\ crs'[n] # Absent => crs'[n].deleting

OperatorNext ==
  \/ Toggle
  \/ /\ \/ (\E n \in Names : Start(n)) \/ Work \/ Crash
        \/ Outside /\ Admitted
     /\ UNCHANGED closed

OperatorSpec == OperatorInit /\ [][OperatorNext]_operatorVars

(***************************************************************************)
(* As in ResourceLimiterController. Nothing is assumed of the checker: it  *)
(* may go out and come back again and again, or stay out.                  *)
(***************************************************************************)
OperatorFairness ==
  /\ WF_operatorVars(Work /\ UNCHANGED closed)
  /\ \A n \in Names :
       /\ SF_operatorVars(Start(n) /\ UNCHANGED closed)
       /\ WF_operatorVars(DeliverCR(n) /\ wk' = Outdated /\ UNCHANGED closed)
       /\ WF_operatorVars(EndForeground(n) /\ wk' = Outdated /\ Admitted /\ UNCHANGED closed)
  /\ \A s \in Namespaces :
       /\ WF_operatorVars(DeliverNamespace(s) /\ wk' = Outdated /\ UNCHANGED closed)
       /\ WF_operatorVars(DeliverQuota(s) /\ wk' = Outdated /\ UNCHANGED closed)
       /\ WF_operatorVars(CollectQuota(s) /\ wk' = Outdated /\ UNCHANGED closed)

FairOperatorSpec == OperatorSpec /\ OperatorFairness

-----------------------------------------------------------------------------
\* A reconcile of n needs no patch, or the patch goes through.
Patchable(n) == closed => Finalizer \in crs[n].finalizers

Served(n) == Healthy(n) /\ Patchable(n)

(***************************************************************************)
(* The operator converges and comes to rest: once users leave a CR alone   *)
(* with all its namespaces there, the cluster and the status become what   *)
(* it asks for, stay so, and the worker has nothing left to do for it; its *)
(* own writes, each of which is an event to it, do not keep it busy. The   *)
(* checker may have been out for any time before, and may stay out for a   *)
(* CR that has its finalizer.                                              *)
(***************************************************************************)
ConvergesAndRests ==
  \A n \in Names : <>[]Served(n) =>
    <>[](Healthy(n) /\ Converged(n) /\ ~Busy(n) /\ ~Alarm(n))

(***************************************************************************)
(* Every namespace limited by an applied CR ends up labelled, so that the  *)
(* webhooks look at it, if nobody takes the labels away.                   *)
(***************************************************************************)
EndsLabelled ==
  \A n \in Names :
    <>[](Served(n) /\ crs[n].applied) =>
    <>[](Healthy(n) => \A t \in Wanted(crs[n]) : nss[t.ns] = "labelled")
=============================================================================
