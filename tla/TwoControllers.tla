--------------------------- MODULE TwoControllers ---------------------------
(***************************************************************************)
(* Two processes of the controller at once. Leader election is off unless  *)
(* a flag asks for it, so in a rollout the old process and the new one     *)
(* reconcile the same CRs, each by caches and a workqueue of its own,      *)
(* until the old one is stopped.                                           *)
(*                                                                         *)
(* Each is a ResourceLimiterController. A step of one is to the other like *)
(* a step of anybody else: its informers owe an event for what changed.    *)
(***************************************************************************)
EXTENDS Integers, Sequences, FiniteSets

CONSTANTS
  Names, Namespaces, Ignored, Hards, BadHards, Usage, Absent, Choices, UserOps,
  MaxOps, MaxFaults, MaxCrashes    \* as in Cluster

VARIABLES
  crs, nss, quotas, uids, spent,   \* the API server's
  ccrs1, cnss1, cquotas1, crLag1, nsLag1, quotaEvents1, queue1, wk1,   \* old
  ccrs2, cnss2, cquotas2, crLag2, nsLag2, quotaEvents2, queue2, wk2    \* new

Old == INSTANCE ResourceLimiterController WITH
  ccrs <- ccrs1, cnss <- cnss1, cquotas <- cquotas1, crLag <- crLag1,
  nsLag <- nsLag1, quotaEvents <- quotaEvents1, queue <- queue1, wk <- wk1

New == INSTANCE ResourceLimiterController WITH
  ccrs <- ccrs2, cnss <- cnss2, cquotas <- cquotas2, crLag <- crLag2,
  nsLag <- nsLag2, quotaEvents <- quotaEvents2, queue <- queue2, wk <- wk2

ASSUME NamesAssumption ==
  /\ Ignored \subseteq Namespaces /\ BadHards \subseteq Hards /\ 0 \in Usage
  /\ Choices \in [Names -> SUBSET Seq(Old!Target)]
ASSUME BoundsAssumption ==
  MaxOps \in Nat /\ MaxFaults \in Nat /\ MaxCrashes \in Nat
ASSUME AbsentAssumption ==
  Absent \notin Names /\ Absent \notin Old!CR /\ Absent \notin Old!Quota

vars == <<Old!vars, New!vars>>

TypeOK == Old!TypeOK /\ New!TypeOK

Init == Old!Init /\ New!Init

-----------------------------------------------------------------------------
(* What one process makes of a step of the other. *)

ChangedCRs == {n \in Names : crs'[n] # crs[n]}
\* Another resourceVersion, whatever was written: lag is the nsLag of the other.
Rewritten(lag) == {s \in Namespaces : nss'[s] # nss[s] \/ s \in lag' \ lag}

\* The owners whom the event of a quota that changed names.
Notified(s) ==
  IF quotas'[s] = quotas[s] THEN {} ELSE New!Owners({quotas[s], quotas'[s]})

OldNotices ==
  /\ crLag1' = crLag1 \cup ChangedCRs
  /\ nsLag1' = nsLag1 \cup Rewritten(nsLag2)
  /\ quotaEvents1' = [s \in Namespaces |-> quotaEvents1[s] \cup Notified(s)]
  /\ wk1' = Old!Outdated
  /\ UNCHANGED <<ccrs1, cnss1, cquotas1, queue1>>

NewNotices ==
  /\ crLag2' = crLag2 \cup ChangedCRs
  /\ nsLag2' = nsLag2 \cup Rewritten(nsLag1)
  /\ quotaEvents2' = [s \in Namespaces |-> quotaEvents2[s] \cup Notified(s)]
  /\ wk2' = New!Outdated
  /\ UNCHANGED <<ccrs2, cnss2, cquotas2, queue2>>

-----------------------------------------------------------------------------
\* A reconcile, an event, or a new start of one of the processes.
OldStep ==
  /\ \/ \E n \in Names : Old!Start(n)
     \/ Old!WorkerStep \/ Old!Panic \/ Old!Crash
     \/ Old!Deliver /\ wk1' = Old!Outdated
  /\ NewNotices

NewWorks == (New!WorkerStep \/ New!Panic) /\ OldNotices

NewStep ==
  /\ \/ \E n \in Names : New!Start(n)
     \/ New!WorkerStep \/ New!Panic \/ New!Crash
     \/ New!Deliver /\ wk2' = New!Outdated
  /\ OldNotices

\* Users and the garbage collector, whom both take notice of.
Others(Step) == Step /\ wk1' = Old!Outdated /\ NewNotices

\* A namespace that the new process has read, and the old one has not, is
\* written to again.
TouchAgain(s) ==
  /\ s \in nsLag1 /\ New!TouchNamespace(s) /\ wk2' = New!Outdated
  /\ OldNotices

Next ==
  \/ OldStep \/ NewStep \/ Others(Old!Collect) \/ Others(Old!User)
  \/ \E s \in Namespaces : TouchAgain(s)

Spec == Init /\ [][Next]_vars

(***************************************************************************)
(* The new process runs; the old one may stop wherever it is, but what its *)
(* caches still show while it runs catches up. The garbage collector is    *)
(* the one of a single controller.                                         *)
(***************************************************************************)
Fairness ==
  /\ WF_vars(NewWorks)
  /\ \A n \in Names :
       /\ SF_vars(New!Start(n) /\ OldNotices)
       /\ WF_vars(New!DeliverCR(n) /\ wk2' = New!Outdated /\ OldNotices)
       /\ WF_vars(Old!DeliverCR(n) /\ wk1' = Old!Outdated /\ NewNotices)
       /\ WF_vars(Others(Old!EndForeground(n)))
  /\ \A s \in Namespaces :
       /\ WF_vars(New!DeliverNamespace(s) /\ wk2' = New!Outdated /\ OldNotices)
       /\ WF_vars(Old!DeliverNamespace(s) /\ wk1' = Old!Outdated /\ NewNotices)
       /\ WF_vars(New!DeliverQuota(s) /\ wk2' = New!Outdated /\ OldNotices)
       /\ WF_vars(Old!DeliverQuota(s) /\ wk1' = Old!Outdated /\ NewNotices)
       /\ WF_vars(Others(Old!CollectQuota(s)))

FairSpec == Spec /\ Fairness

-----------------------------------------------------------------------------
(***************************************************************************)
(* The new process misses no wakeup for what the old one writes, or fails  *)
(* to: a CR that differs from the cluster or its status is being           *)
(* reconciled by it or will be, even when the old one stops for good in    *)
(* the middle of a reconcile that made the writes of the new one conflict. *)
(***************************************************************************)
NoMissedWakeup == New!NoMissedWakeup

(***************************************************************************)
(* The two do not keep each other busy: though each write of one is an     *)
(* event to the other, and conflicts make either of them try again, a CR   *)
(* that users leave alone ends up as it asks for, and the new process at   *)
(* rest, whether the old one runs on or stops anywhere.                    *)
(***************************************************************************)
RolloutSettles ==
  \A n \in Names : <>[]New!Healthy(n) =>
    <>[](New!Healthy(n) /\ New!Converged(n) /\ ~New!Busy(n) /\ ~New!Alarm(n))
=============================================================================
