--------------------- MODULE ResourceLimiterController ---------------------
(***************************************************************************)
(* The reconciler of ResourceLimiters: one worker takes a name from the    *)
(* workqueue, reads the CR from the cache and walks over its targets,      *)
(* labelling each namespace and limiting (or freeing) it by a quota; for a *)
(* CR under deletion it undoes that and gives up the finalizer.            *)
(*                                                                         *)
(* A step is one call to the API server with the reads of the cache that   *)
(* lead to it. Any call may be refused, fail, or succeed with its reply    *)
(* lost; an error puts the name back into the queue.                       *)
(***************************************************************************)
EXTENDS Cluster

VARIABLE wk    \* what the worker is doing

vars == <<clusterVars, wk>>

Idle == [pc |-> "idle", name |-> Absent, rl |-> Absent, stale |-> FALSE,
         idx |-> 0, entries |-> {}]

Steps == {"register", "refetch", "delete", "unlabel", "release",
          "label", "limit", "stop", "status"}

Reconciling ==
  [pc : Steps, name : Names, rl : CR, stale : BOOLEAN, idx : Nat,
   entries : SUBSET Entry]

TypeOK == ClusterTypeOK /\ (wk = Idle \/ wk \in Reconciling)

Init == ClusterInit /\ wk = Idle

-----------------------------------------------------------------------------
(* How a reconcile goes on and ends. *)

Proceed(w) == wk' = w /\ UNCHANGED queue

Requeue == wk' = Idle /\ queue' = queue \cup {wk.name}

Fault ==
  /\ spent.faults < MaxFaults
  /\ spent' = [spent EXCEPT !.faults = @ + 1]

Call(accepted, effect, w) ==
  \/ accepted /\ effect /\ Proceed(w) /\ UNCHANGED spent
  \/ accepted /\ effect /\ Requeue /\ Fault                  \* reply lost
  \/ ~accepted /\ Requeue /\ UNCHANGED <<stored, spent>>     \* refused
  \/ Requeue /\ Fault /\ UNCHANGED stored                    \* never arrived

\* Where the loop over the targets stands at its i-th turn.
Turn(rl, i) ==
  IF i <= Len(rl.targets)
  THEN IF rl.deleting THEN "delete" ELSE "label"
  ELSE IF rl.deleting THEN "release" ELSE "status"

Visit(w, i) == [w EXCEPT !.idx = i, !.pc = Turn(w.rl, i)]

NextTarget == Visit(wk, wk.idx + 1)

target == wk.rl.targets[wk.idx]

Fetched(n, pc) ==
  [pc |-> pc, name |-> n, rl |-> ccrs[n], stale |-> n \in crLag,
   idx |-> 0, entries |-> {}]

\* reconcileDelete has nothing to undo for a CR that is stopped.
Dispatched(n) ==
  IF ccrs[n].deleting /\ ccrs[n].state = "stopped"
  THEN Fetched(n, "release") ELSE Visit(Fetched(n, "label"), 1)

\* A merge patch made from two copies: it says what differs between them.
Patched(rl, from, to) ==
  IF from.finalizers = to.finalizers THEN rl
  ELSE Reap([rl EXCEPT !.finalizers = to.finalizers])

PatchAccepted(rl, from, to) ==
  /\ rl # Absent
  /\ rl.deleting /\ from.finalizers # to.finalizers =>
       to.finalizers \subseteq rl.finalizers

-----------------------------------------------------------------------------
(* Reconcile. A CR that is not found is an error like any other. *)

Reconcile(n) ==
  /\ wk = Idle /\ n \in queue
  /\ \/ ccrs[n] = Absent /\ UNCHANGED <<wk, queue>>
     \/ /\ ccrs[n] # Absent
        /\ wk' = IF Finalizer \in ccrs[n].finalizers THEN Dispatched(n)
                 ELSE Fetched(n, "register")
        /\ queue' = queue \ {n}
  /\ UNCHANGED <<stored, spent>>

\* MergeFrom keeps the very object the finalizer is then added to.
RegisterFinalizer ==
  /\ wk.pc = "register"
  /\ LET newrl == [wk.rl EXCEPT !.finalizers = @ \cup {Finalizer}] IN
     Call(PatchAccepted(crs[wk.name], newrl, newrl),
          CRWritten(wk.name, Patched(crs[wk.name], newrl, newrl)),
          [wk EXCEPT !.pc = "refetch"])

Refetch ==
  /\ wk.pc = "refetch"
  /\ IF \/ ccrs[wk.name] = Absent
        \/ ccrs[wk.name].deleting /\ Finalizer \notin ccrs[wk.name].finalizers
     THEN Requeue
     ELSE Proceed(Dispatched(wk.name))
  /\ UNCHANGED <<stored, spent>>

-----------------------------------------------------------------------------
(* reconcileDelete *)

\* Mutant: a namespace that is gone ends the loop.
DeleteQuotaBreaks ==
  /\ wk.pc = "delete"
  /\ \/ cnss[target.ns] = "absent" /\ Proceed([wk EXCEPT !.pc = "release"])
        /\ UNCHANGED <<stored, spent>>
     \/ cnss[target.ns] # "absent" /\ cquotas[target.ns] = Absent /\ Requeue
        /\ UNCHANGED <<stored, spent>>
     \/ /\ cnss[target.ns] # "absent" /\ cquotas[target.ns] # Absent
        /\ Call(quotas[target.ns] # Absent, QuotaWritten(target.ns, Absent),
                [wk EXCEPT !.pc = "unlabel"])

DeleteQuota ==
  /\ wk.pc = "delete"
  /\ \/ cnss[target.ns] = "absent" /\ Proceed(NextTarget)
        /\ UNCHANGED <<stored, spent>>
     \/ cnss[target.ns] # "absent" /\ cquotas[target.ns] = Absent /\ Requeue
        /\ UNCHANGED <<stored, spent>>
     \/ /\ cnss[target.ns] # "absent" /\ cquotas[target.ns] # Absent
        /\ Call(quotas[target.ns] # Absent, QuotaWritten(target.ns, Absent),
                [wk EXCEPT !.pc = "unlabel"])

RemoveLabels ==
  /\ wk.pc = "unlabel"
  /\ \/ cnss[target.ns] = "absent" /\ Requeue /\ UNCHANGED <<stored, spent>>
     \/ /\ cnss[target.ns] # "absent"
        /\ Call(target.ns \notin nsLag, NSWritten(target.ns, "plain"), NextTarget)

ReleaseFinalizer ==
  /\ wk.pc = "release"
  /\ LET newrl == [wk.rl EXCEPT !.finalizers = @ \ {Finalizer}] IN
     Call(PatchAccepted(crs[wk.name], wk.rl, newrl),
          CRWritten(wk.name, Patched(crs[wk.name], wk.rl, newrl)), Idle)

-----------------------------------------------------------------------------
(* reconcile *)

\* Mutant: kube-system and kube-public are not skipped.
LabelNamespaceAll ==
  /\ wk.pc = "label"
  /\ \/ cnss[target.ns] = "absent" /\ Requeue
        /\ UNCHANGED <<stored, spent>>
     \/ /\ cnss[target.ns] # "absent"
        /\ Call(target.ns \notin nsLag, NSWritten(target.ns, "labelled"),
                [wk EXCEPT !.pc = IF wk.rl.applied THEN "limit" ELSE "stop"])

\* Mutant: a missing namespace is no error.
LabelNamespaceLenient ==
  /\ wk.pc = "label"
  /\ \/ target.ns \in Ignored /\ Proceed(NextTarget)
        /\ UNCHANGED <<stored, spent>>
     \/ target.ns \notin Ignored /\ cnss[target.ns] = "absent" /\ Proceed(Idle)
        /\ UNCHANGED <<stored, spent>>
     \/ /\ target.ns \notin Ignored /\ cnss[target.ns] # "absent"
        /\ Call(target.ns \notin nsLag, NSWritten(target.ns, "labelled"),
                [wk EXCEPT !.pc = IF wk.rl.applied THEN "limit" ELSE "stop"])

\* Mutant: a CR that is ready is taken to have its namespaces labelled.
LabelNamespaceOnce ==
  /\ wk.pc = "label"
  /\ \/ target.ns \in Ignored /\ Proceed(NextTarget)
        /\ UNCHANGED <<stored, spent>>
     \/ target.ns \notin Ignored /\ cnss[target.ns] = "absent" /\ Requeue
        /\ UNCHANGED <<stored, spent>>
     \/ /\ target.ns \notin Ignored /\ cnss[target.ns] # "absent"
        /\ Call(target.ns \notin nsLag,
                NSWritten(target.ns, IF wk.rl.state = "ready" THEN nss[target.ns]
                                     ELSE "labelled"),
                [wk EXCEPT !.pc = IF wk.rl.applied THEN "limit" ELSE "stop"])

\* Mutant: a conflict over a namespace is left to who won it.
LabelNamespaceYields ==
  /\ wk.pc = "label"
  /\ \/ target.ns \in Ignored /\ Proceed(NextTarget)
        /\ UNCHANGED <<stored, spent>>
     \/ target.ns \notin Ignored /\ cnss[target.ns] = "absent" /\ Requeue
        /\ UNCHANGED <<stored, spent>>
     \/ /\ target.ns \notin Ignored /\ cnss[target.ns] # "absent"
        /\ target.ns \in nsLag /\ Proceed(Idle) /\ UNCHANGED <<stored, spent>>
     \/ /\ target.ns \notin Ignored /\ cnss[target.ns] # "absent"
        /\ target.ns \notin nsLag
        /\ Call(TRUE, NSWritten(target.ns, "labelled"),
                [wk EXCEPT !.pc = IF wk.rl.applied THEN "limit" ELSE "stop"])

LabelNamespace ==
  /\ wk.pc = "label"
  /\ \/ target.ns \in Ignored /\ Proceed(NextTarget)
        /\ UNCHANGED <<stored, spent>>
     \/ target.ns \notin Ignored /\ cnss[target.ns] = "absent" /\ Requeue
        /\ UNCHANGED <<stored, spent>>
     \/ /\ target.ns \notin Ignored /\ cnss[target.ns] # "absent"
        /\ Call(target.ns \notin nsLag, NSWritten(target.ns, "labelled"),
                [wk EXCEPT !.pc = IF wk.rl.applied THEN "limit" ELSE "stop"])

\* Mutant: no SetControllerReference.
CreateQuotaUnowned ==
  /\ wk.pc = "limit" /\ target.hard \notin BadHards
  /\ cquotas[target.ns] = Absent
  /\ Call(quotas[target.ns] = Absent /\ nss[target.ns] # "absent",
          QuotaWritten(target.ns, [owner |-> Absent, uid |-> 0,
                                   hard |-> target.hard, used |-> 0]),
          Idle)

\* The reconcile ends here: the event of the new quota starts the next.
CreateQuota ==
  /\ wk.pc = "limit" /\ target.hard \notin BadHards
  /\ cquotas[target.ns] = Absent
  /\ Call(quotas[target.ns] = Absent /\ nss[target.ns] # "absent",
          QuotaWritten(target.ns, [owner |-> wk.name, uid |-> wk.rl.uid,
                                   hard |-> target.hard, used |-> 0]),
          Idle)

\* Mutant: a quota that exists keeps its limits.
UpdateQuotaKeeps ==
  /\ wk.pc = "limit" /\ target.hard \notin BadHards
  /\ cquotas[target.ns] # Absent
  /\ Call(quotaEvents[target.ns] = {},
          QuotaWritten(target.ns, cquotas[target.ns]),
          [NextTarget EXCEPT !.entries = @ \cup
             {[ns |-> target.ns, used |-> cquotas[target.ns].used,
               hard |-> target.hard]}])

\* Mutant: the reconciler makes itself the owner of a quota it updates.
UpdateQuotaTakes ==
  /\ wk.pc = "limit" /\ target.hard \notin BadHards
  /\ cquotas[target.ns] # Absent
  /\ Call(quotaEvents[target.ns] = {},
          QuotaWritten(target.ns, [cquotas[target.ns] EXCEPT !.hard = target.hard,
                                     !.owner = wk.name, !.uid = wk.rl.uid]),
          [NextTarget EXCEPT !.entries = @ \cup
             {[ns |-> target.ns, used |-> cquotas[target.ns].used,
               hard |-> target.hard]}])

UpdateQuota ==
  /\ wk.pc = "limit" /\ target.hard \notin BadHards
  /\ cquotas[target.ns] # Absent
  /\ Call(quotaEvents[target.ns] = {},
          QuotaWritten(target.ns, [cquotas[target.ns] EXCEPT !.hard = target.hard]),
          [NextTarget EXCEPT !.entries = @ \cup
             {[ns |-> target.ns, used |-> cquotas[target.ns].used,
               hard |-> target.hard]}])

\* Mutant: a quota that is gone already ends the reconcile.
StopQuotaReturns ==
  /\ wk.pc = "stop"
  /\ \/ cquotas[target.ns] = Absent /\ Proceed(Idle)
        /\ UNCHANGED <<stored, spent>>
     \/ /\ cquotas[target.ns] # Absent
        /\ Call(quotas[target.ns] # Absent, QuotaWritten(target.ns, Absent), NextTarget)

StopQuota ==
  /\ wk.pc = "stop"
  /\ \/ cquotas[target.ns] = Absent /\ Proceed(NextTarget)
        /\ UNCHANGED <<stored, spent>>
     \/ /\ cquotas[target.ns] # Absent
        /\ Call(quotas[target.ns] # Absent, QuotaWritten(target.ns, Absent), NextTarget)

\* Mutant: the status has the time of its update.
UpdateStatusTimed ==
  /\ wk.pc = "status"
  /\ Call(~wk.stale,
          /\ crs' = [crs EXCEPT ![wk.name] = [wk.rl EXCEPT
               !.state = IF wk.rl.applied THEN "ready" ELSE "stopped",
               !.quotas = wk.entries]]
          /\ crLag' = crLag \cup {wk.name}
          /\ UNCHANGED <<nss, nsLag, quotas, quotaEvents>>,
          Idle)

\* Mutant: the status is patched, whatever the CR has become.
UpdateStatusPatches ==
  /\ wk.pc = "status"
  /\ Call(crs[wk.name] # Absent,
          CRWritten(wk.name, [crs[wk.name] EXCEPT
            !.state = IF wk.rl.applied THEN "ready" ELSE "stopped",
            !.quotas = wk.entries]),
          Idle)

UpdateStatus ==
  /\ wk.pc = "status"
  /\ Call(~wk.stale,
          CRWritten(wk.name, [wk.rl EXCEPT
            !.state = IF wk.rl.applied THEN "ready" ELSE "stopped",
            !.quotas = wk.entries]),
          Idle)

-----------------------------------------------------------------------------
(* The process dies, by itself or of a limit that is not a quantity. *)

Panic ==
  /\ wk.pc = "limit" /\ target.hard \in BadHards
  /\ wk' = Idle /\ Relist /\ UNCHANGED spent

Crash ==
  /\ spent.crashes < MaxCrashes
  /\ spent' = [spent EXCEPT !.crashes = @ + 1]
  /\ wk' = Idle /\ Relist

-----------------------------------------------------------------------------
WorkerStep ==
  /\ \/ RegisterFinalizer \/ Refetch
     \/ DeleteQuota \/ RemoveLabels \/ ReleaseFinalizer
     \/ LabelNamespace \/ CreateQuota \/ UpdateQuota \/ StopQuota
     \/ UpdateStatus
  /\ UNCHANGED <<caches, uids>>

Start(n) == Reconcile(n) /\ UNCHANGED <<caches, uids>>

\* A write by anybody else outdates the copy that the worker holds.
Outdated ==
  IF wk = Idle \/ crs' = crs \/ crs'[wk.name] = crs[wk.name]
  THEN wk ELSE [wk EXCEPT !.stale = TRUE]

Outside == (Deliver \/ Collect \/ User) /\ wk' = Outdated

Next == (\E n \in Names : Start(n)) \/ WorkerStep \/ Panic \/ Crash \/ Outside

Spec == Init /\ [][Next]_vars

(***************************************************************************)
(* The worker goes on; the workqueue is first in, first out, so a name     *)
(* that stays in it is taken whenever others are; informers catch up and   *)
(* the garbage collector collects. Users, faults and crashes owe nothing.  *)
(***************************************************************************)
Fairness ==
  /\ WF_vars(WorkerStep \/ Panic)
  /\ \A n \in Names : /\ SF_vars(Start(n))
                      /\ WF_vars(DeliverCR(n) /\ wk' = Outdated)
                      /\ WF_vars(EndForeground(n) /\ wk' = Outdated)
  /\ \A s \in Namespaces : /\ WF_vars(DeliverNamespace(s) /\ wk' = Outdated)
                           /\ WF_vars(DeliverQuota(s) /\ wk' = Outdated)
                           /\ WF_vars(CollectQuota(s) /\ wk' = Outdated)

FairSpec == Spec /\ Fairness

-----------------------------------------------------------------------------
(* What the properties speak of. *)

Busy(n) == wk # Idle /\ wk.name = n

\* Something will make the worker take n (again).
Alarm(n) ==
  n \in queue \/ n \in crLag \/ \E s \in Namespaces : n \in quotaEvents[s]

Wanted(rl) ==
  {t \in Target : t.ns \notin Ignored /\ \E i \in 1..Len(rl.targets) : rl.targets[i] = t}

Report(t) == [ns |-> t.ns, used |-> quotas[t.ns].used, hard |-> t.hard]

\* The targets T are as rl wants them, and reported so.
Met(rl, T, entries) ==
  IF rl.applied
  THEN /\ \A t \in T : quotas[t.ns] # Absent /\ quotas[t.ns].hard = t.hard
       /\ entries = {Report(t) : t \in T}
  ELSE (\A t \in T : quotas[t.ns] = Absent) /\ entries = {}

\* The cluster and the status are what the spec of n asks for.
Converged(n) ==
  /\ Met(crs[n], Wanted(crs[n]), crs[n].quotas)
  /\ crs[n].state = IF crs[n].applied THEN "ready" ELSE "stopped"

\* The namespaces that n may be given as targets, and that no two CRs share any.
Home(n) == {t.ns : t \in UNION {{l[i] : i \in 1..Len(l)} : l \in Choices[n]}}

Exclusive == \A n, m \in Names : n # m => Home(n) \cap Home(m) = {}

\* Nothing that users did stands in the way of a reconcile of n.
Healthy(n) ==
  /\ crs[n] # Absent /\ ~crs[n].deleting
  /\ \A t \in Wanted(crs[n]) : nss[t.ns] # "absent" /\ t.hard \notin BadHards

\* No CR kills the process, and with it what others are waiting for.
Harmless ==
  \A n \in Names : crs[n] # Absent =>
    \A t \in Wanted(crs[n]) : t.hard \notin BadHards

(***************************************************************************)
(* kube-system and kube-public are never labelled and never given a quota, *)
(* whatever the CRs name: the two names skipped at the head of reconcile's *)
(* loop. It does not say that nobody writes to them: reconcileDelete skips *)
(* no name, but what it takes away is not there to be taken.               *)
(***************************************************************************)
IgnoredUnlimited ==
  \A s \in Ignored : nss[s] # "labelled" /\ quotas[s] = Absent

(***************************************************************************)
(* No wakeup is missed: whenever a CR differs from what the cluster or its *)
(* status says, the worker is on it or something will make it take it. It  *)
(* is what reconcile relies on when it returns right after creating a      *)
(* quota, when it reads caches that lag, and when it gives up on an error. *)
(* A CR under deletion always has work left.                               *)
(***************************************************************************)
NoMissedWakeup ==
  Exclusive => \A n \in Names :
    crs[n] # Absent => \/ Busy(n) \/ Alarm(n)
                       \/ ~crs[n].deleting /\ Converged(n)

(***************************************************************************)
(* reconcileDelete gives the finalizer up only after the quotas are gone:  *)
(* when a CR that was not stopped loses it, no namespace in the spec the   *)
(* worker went through has a quota of that name left, in spite of requeues *)
(* halfway, lagging caches and namespaces that go. (One that goes and      *)
(* comes back within a reconcile defeats it: the quota of the new one is   *)
(* left to the garbage collector.)                                         *)
(***************************************************************************)
ReleasedClean ==
  [][\A n \in Names :
       /\ "create namespace" \notin UserOps
       /\ crs[n] # Absent /\ Finalizer \in crs[n].finalizers
       /\ crs'[n] = Absent \/ Finalizer \notin crs'[n].finalizers
       => \/ wk.rl.state = "stopped"
          \/ \A i \in 1..Len(wk.rl.targets) : LET s == wk.rl.targets[i].ns IN
               quotas[s] = Absent \/ quotas[s].owner # n]_vars

(***************************************************************************)
(* The reconciler comes to rest: its own writes, each of which is an event *)
(* to it, do not keep it busy for ever, nor do those of CRs that share a   *)
(* namespace keep each other busy. Only a CR with a limit that is not a    *)
(* quantity does, for all of them: it kills every process that takes it.   *)
(***************************************************************************)
Settles ==
  \A n \in Names : <>[](Healthy(n) /\ Harmless) => <>[](~Busy(n) /\ ~Alarm(n))

(***************************************************************************)
(* Quotas do not outlive the CRs, not even one that the worker made for a  *)
(* CR which was gone by then: the owner reference has them collected.      *)
(***************************************************************************)
NoQuotaLeak ==
  <>[](\A n \in Names : crs[n] = Absent) =>
  <>[](\A s \in Namespaces : quotas[s] = Absent)

(***************************************************************************)
(* CRs that share a namespace fight over its one quota, but not for ever   *)
(* and not without an order: updates wake the owner, so a CR that is at    *)
(* rest and owns the quota of a target has it as it wants it, whatever the *)
(* other CRs wrote to it (the owner reference set at creation, which later *)
(* updates keep, and the watch on owned quotas).                           *)
(***************************************************************************)
OwnerPrevails ==
  \A n \in Names : crs[n] # Absent /\ ~crs[n].deleting /\ ~Busy(n) /\ ~Alarm(n) =>
    \A t \in Wanted(crs[n]) :
      t.ns \in Dependents(n) => crs[n].applied /\ quotas[t.ns].hard = t.hard

-----------------------------------------------------------------------------
(* What the code or its tests say, and does not hold. *)

(***************************************************************************)
(* "Add our finalizer if it does not exist": a CR that has been reconciled *)
(* carries the finalizer.                                                  *)
(***************************************************************************)
FinalizerRegistered ==
  \A n \in Names :
    crs[n] # Absent /\ crs[n].state = "ready" => Finalizer \in crs[n].finalizers

(***************************************************************************)
(* The controller test deletes a CR and waits for it to be gone: a CR      *)
(* under deletion goes away, the finalizer in its manifest or not.         *)
(***************************************************************************)
DeletionCompletes ==
  \A n \in Names :
    (crs[n] # Absent /\ crs[n].deleting) ~> (crs[n] = Absent)

=============================================================================
