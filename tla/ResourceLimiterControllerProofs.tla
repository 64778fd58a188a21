------------------ MODULE ResourceLimiterControllerProofs ------------------
(***************************************************************************)
(* TypeOK, IgnoredUnlimited, NoMissedWakeup, OwnerPrevails, ReleasedClean  *)
(* for every set of names, namespaces, limits and choices of targets and   *)
(* for every bound: an inductive invariant for the first two, and three    *)
(* more on top of it for one each of the others.                           *)
(***************************************************************************)
EXTENDS ResourceLimiterController, TLAPS

-----------------------------------------------------------------------------
(* What a write to the API server preserves. *)

(***************************************************************************)
(* A CR written is a CR, or its absence, among CRs (SetupWithManager's     *)
(* For: every write to one is an event of it).                             *)
(***************************************************************************)
LEMMA CRWrittenType ==
  ASSUME StoredTypeOK, NEW n \in Names, NEW rl \in CR \cup {Absent},
         CRWritten(n, rl)
  PROVE  StoredTypeOK'
BY DEF StoredTypeOK, CRWritten

(***************************************************************************)
(* A namespace written is a namespace.                                     *)
(***************************************************************************)
LEMMA NSWrittenType ==
  ASSUME StoredTypeOK, NEW s \in Namespaces,
         NEW ns \in {"absent", "plain", "labelled"}, NSWritten(s, ns)
  PROVE  StoredTypeOK'
BY DEF StoredTypeOK, NSWritten

(***************************************************************************)
(* The owners that the events of quotas name are names of CRs.             *)
(***************************************************************************)
LEMMA OwnersType ==
  ASSUME NEW Q \in SUBSET (Quota \cup {Absent})
  PROVE  Owners(Q) \subseteq Names
BY AbsentAssumption DEF Owners, Quota

(***************************************************************************)
(* A quota written is a quota.                                             *)
(***************************************************************************)
LEMMA QuotaWrittenType ==
  ASSUME StoredTypeOK, NEW s \in Namespaces, NEW q \in Quota \cup {Absent},
         QuotaWritten(s, q)
  PROVE  StoredTypeOK'
<1>1. Owners({quotas[s], q}) \subseteq Names
  BY OwnersType DEF StoredTypeOK
<1>2. QED
  BY <1>1 DEF StoredTypeOK, QuotaWritten

(***************************************************************************)
(* A finished deletion leaves a CR or nothing.                             *)
(***************************************************************************)
LEMMA ReapType ==
  ASSUME NEW rl \in CR
  PROVE  Reap(rl) \in CR \cup {Absent}
BY DEF Reap

-----------------------------------------------------------------------------
(* The invariant for types.                                                *)

\* In the loop the worker is at a target, and writes only if it may.
GoodWorker(w) ==
  /\ w = Idle \/ w \in Reconciling
  /\ w.pc \in {"delete", "unlabel", "label", "limit", "stop"} =>
       w.idx \in 1..Len(w.rl.targets)
  /\ w.pc \in {"limit", "stop"} => w.rl.targets[w.idx].ns \notin Ignored

Inv == ClusterTypeOK /\ GoodWorker(wk)

(***************************************************************************)
(* Going on to a target, or leaving the loop (reconcile's and              *)
(* reconcileDelete's range over the spec's quotas).                        *)
(***************************************************************************)
LEMMA VisitOK ==
  ASSUME NEW w \in Reconciling, NEW i \in Nat \ {0}
  PROVE  Visit(w, i) \in Reconciling /\ GoodWorker(Visit(w, i))
<1>1. w.rl \in CR
  BY DEF Reconciling
<1>2. w.rl.targets \in Seq(Target)
  BY <1>1 DEF CR
<1>3. Len(w.rl.targets) \in Nat
  BY <1>2
<1>4. /\ Turn(w.rl, i) \in {"delete", "label", "release", "status"}
      /\ Turn(w.rl, i) \in {"delete", "label"} => i \in 1..Len(w.rl.targets)
  BY <1>3 DEF Turn
<1>5. Turn(w.rl, i) \in Steps
  BY <1>4 DEF Steps
<1>6. Visit(w, i) \in Reconciling
  BY <1>5 DEF Visit, Reconciling
<1>7. /\ Visit(w, i).idx = i /\ Visit(w, i).pc = Turn(w.rl, i)
      /\ Visit(w, i).rl = w.rl
  BY DEF Visit, Reconciling
<1>8. QED
  BY <1>4, <1>6, <1>7 DEF GoodWorker

(***************************************************************************)
(* What a reconcile starts with (Reconcile's choice between reconcile and  *)
(* reconcileDelete).                                                       *)
(***************************************************************************)
LEMMA FetchedOK ==
  ASSUME CachesTypeOK, NEW n \in Names, ccrs[n] # Absent,
         NEW pc \in {"register", "release", "label"}
  PROVE  Fetched(n, pc) \in Reconciling /\ Fetched(n, pc).pc = pc
BY DEF CachesTypeOK, Fetched, Reconciling, Steps

(***************************************************************************)
(* The loop begins at a target, if it has one (Reconcile's dispatch).      *)
(***************************************************************************)
LEMMA DispatchedOK ==
  ASSUME CachesTypeOK, NEW n \in Names, ccrs[n] # Absent
  PROVE  GoodWorker(Dispatched(n))
<1>1. /\ Fetched(n, "release") \in Reconciling
      /\ Fetched(n, "label") \in Reconciling
      /\ Fetched(n, "release").pc = "release"
  BY FetchedOK
<1>2. GoodWorker(Visit(Fetched(n, "label"), 1))
  BY <1>1, VisitOK
<1>3. GoodWorker(Fetched(n, "release"))
  BY <1>1 DEF GoodWorker
<1>4. QED
  BY <1>2, <1>3 DEF Dispatched

(***************************************************************************)
(* In the loop there is a target, and a next turn.                         *)
(***************************************************************************)
LEMMA TargetOK ==
  ASSUME GoodWorker(wk),
         wk.pc \in {"delete", "unlabel", "label", "limit", "stop"}
  PROVE  /\ wk \in Reconciling
         /\ target \in Target /\ target.ns \in Namespaces
         /\ target.hard \in Hards
         /\ GoodWorker(NextTarget)
         /\ NextTarget \in Reconciling
         /\ wk.name \in Names /\ wk.rl \in CR
<1>1. wk \in Reconciling
  BY DEF GoodWorker, Idle
<1>2. wk.rl \in CR /\ wk.idx \in 1..Len(wk.rl.targets) /\ wk.idx \in Nat
  BY <1>1 DEF Reconciling, GoodWorker
<1>3. wk.rl.targets \in Seq(Target)
  BY <1>2 DEF CR
<1>4. target \in Target
  BY <1>2, <1>3 DEF target
<1>5. wk.idx + 1 \in Nat \ {0}
  BY <1>2
<1>6. QED
  BY <1>1, <1>2, <1>4, <1>5, VisitOK DEF NextTarget, Target, Reconciling

(***************************************************************************)
(* What a step of the worker has to show to preserve the invariant: the    *)
(* rest it does by Proceed, Requeue and Fault.                             *)
(***************************************************************************)
Going(w) ==
  /\ \/ wk' = w /\ queue' = queue
     \/ wk' = Idle /\ queue' = queue \cup {wk.name}
  /\ UNCHANGED spent \/ Fault
  /\ UNCHANGED <<caches, uids>>

(***************************************************************************)
(* A step of the worker that goes on as said keeps the invariant (Proceed, *)
(* Requeue, Fault).                                                        *)
(***************************************************************************)
LEMMA GoingOK ==
  ASSUME Inv, wk \in Reconciling, NEW w, GoodWorker(w), Going(w), StoredTypeOK'
  PROVE  Inv'
<1>1. wk.name \in Names
  BY DEF Reconciling
<1>2. GoodWorker(Idle)
  BY DEF GoodWorker, Idle
<1>3. GoodWorker(wk')
  BY <1>2 DEF Going
<1>4. queue' \subseteq Names
  BY <1>1 DEF Going, Inv, ClusterTypeOK
<1>5. spent' \in [ops : Nat, faults : Nat, crashes : Nat]
  BY DEF Going, Fault, Inv, ClusterTypeOK
<1>6. CachesTypeOK' /\ uids' \in Nat
  BY DEF Going, caches, CachesTypeOK, Inv, ClusterTypeOK
<1>7. QED
  BY <1>3, <1>4, <1>5, <1>6 DEF Inv, ClusterTypeOK

(***************************************************************************)
(* The steps of reconcileDelete.                                           *)
(***************************************************************************)
LEMMA DeleteQuotaOK ==
  ASSUME Inv, DeleteQuota, UNCHANGED <<caches, uids>>
  PROVE  Inv'
<1> DEFINE w == [wk EXCEPT !.pc = "unlabel"]
<1>1. wk \in Reconciling /\ target.ns \in Namespaces /\ GoodWorker(NextTarget)
  BY TargetOK DEF DeleteQuota, Inv
<1>2. GoodWorker(w)
  BY <1>1 DEF Inv, GoodWorker, DeleteQuota, Reconciling, Steps
<1>3. Going(NextTarget) \/ Going(w)
  BY DEF DeleteQuota, Call, Proceed, Requeue, Going
<1>4. UNCHANGED stored \/ QuotaWritten(target.ns, Absent)
  BY DEF DeleteQuota, Call
<1>5. StoredTypeOK'
  BY <1>1, <1>4, QuotaWrittenType DEF StoredTypeOK, stored, Inv, ClusterTypeOK
<1>6. QED
  BY <1>1, <1>2, <1>3, <1>5, GoingOK

(***************************************************************************)
(* reconcileDelete taking the labels off a namespace.                      *)
(***************************************************************************)
LEMMA RemoveLabelsOK ==
  ASSUME Inv, RemoveLabels, UNCHANGED <<caches, uids>>
  PROVE  Inv'
<1>1. wk \in Reconciling /\ target.ns \in Namespaces /\ GoodWorker(NextTarget)
  BY TargetOK DEF RemoveLabels, Inv
<1>2. Going(NextTarget)
  BY DEF RemoveLabels, Call, Proceed, Requeue, Going
<1>3. UNCHANGED stored \/ NSWritten(target.ns, "plain")
  BY DEF RemoveLabels, Call
<1>4. StoredTypeOK'
  BY <1>1, <1>3, NSWrittenType DEF StoredTypeOK, stored, Inv, ClusterTypeOK
<1>5. QED
  BY <1>1, <1>2, <1>4, GoingOK

(***************************************************************************)
(* A CR patched is a CR or, its deletion finished, absent (the patches of  *)
(* the finalizer).                                                         *)
(***************************************************************************)
LEMMA PatchedOK ==
  ASSUME NEW rl \in CR, NEW from \in CR, NEW to \in CR
  PROVE  Patched(rl, from, to) \in CR \cup {Absent}
<1>1. [rl EXCEPT !.finalizers = to.finalizers] \in CR
  BY DEF CR
<1>2. QED
  BY <1>1, ReapType DEF Patched

(***************************************************************************)
(* The patch that gives the finalizer up, which may end the CR.            *)
(***************************************************************************)
LEMMA ReleaseFinalizerOK ==
  ASSUME Inv, ReleaseFinalizer, UNCHANGED <<caches, uids>>
  PROVE  Inv'
<1> DEFINE newrl == [wk.rl EXCEPT !.finalizers = @ \ {Finalizer}]
<1>1. wk \in Reconciling
  BY DEF ReleaseFinalizer, Inv, GoodWorker, Idle
<1>2. wk.name \in Names /\ wk.rl \in CR
  BY <1>1 DEF Reconciling
<1>3. newrl \in CR
  BY <1>2 DEF CR
<1>4. GoodWorker(Idle)
  BY DEF GoodWorker, Idle
<1>5. Going(Idle)
  BY DEF ReleaseFinalizer, Call, Proceed, Requeue, Going
<1>6. \/ UNCHANGED stored
      \/ /\ crs[wk.name] # Absent
         /\ CRWritten(wk.name, Patched(crs[wk.name], wk.rl, newrl))
  BY DEF ReleaseFinalizer, Call, PatchAccepted
<1>7. StoredTypeOK /\ crs[wk.name] \in CR \cup {Absent}
  BY <1>2 DEF Inv, ClusterTypeOK, StoredTypeOK
<1>8. StoredTypeOK'
  <2>1. CASE UNCHANGED stored
    BY <1>7, <2>1 DEF StoredTypeOK, stored
  <2>2. CASE /\ crs[wk.name] # Absent
             /\ CRWritten(wk.name, Patched(crs[wk.name], wk.rl, newrl))
    <3> HIDE DEF newrl
    <3>1. Patched(crs[wk.name], wk.rl, newrl) \in CR \cup {Absent}
      BY <1>2, <1>3, <1>7, <2>2, PatchedOK
    <3>2. QED
      BY <1>2, <1>7, <2>2, <3>1, CRWrittenType
  <2>3. QED
    BY <1>6, <2>1, <2>2
<1>9. QED
  BY <1>1, <1>4, <1>5, <1>8, GoingOK

(***************************************************************************)
(* The steps of Reconcile before it goes either way.                       *)
(***************************************************************************)
LEMMA RegisterFinalizerOK ==
  ASSUME Inv, RegisterFinalizer, UNCHANGED <<caches, uids>>
  PROVE  Inv'
<1> DEFINE newrl == [wk.rl EXCEPT !.finalizers = @ \cup {Finalizer}]
           w == [wk EXCEPT !.pc = "refetch"]
<1>1. wk \in Reconciling
  BY DEF RegisterFinalizer, Inv, GoodWorker, Idle
<1>2. wk.name \in Names /\ wk.rl \in CR
  BY <1>1 DEF Reconciling
<1>3. newrl \in CR
  BY <1>2 DEF CR
<1>4. GoodWorker(w)
  BY <1>1 DEF GoodWorker, Reconciling, Steps
<1>5. Going(w)
  BY DEF RegisterFinalizer, Call, Proceed, Requeue, Going
<1>6. \/ UNCHANGED stored
      \/ /\ crs[wk.name] # Absent
         /\ CRWritten(wk.name, Patched(crs[wk.name], newrl, newrl))
  BY DEF RegisterFinalizer, Call, PatchAccepted
<1>7. StoredTypeOK /\ crs[wk.name] \in CR \cup {Absent}
  BY <1>2 DEF Inv, ClusterTypeOK, StoredTypeOK
<1>8. StoredTypeOK'
  <2>1. CASE UNCHANGED stored
    BY <1>7, <2>1 DEF StoredTypeOK, stored
  <2>2. CASE /\ crs[wk.name] # Absent
             /\ CRWritten(wk.name, Patched(crs[wk.name], newrl, newrl))
    <3> HIDE DEF newrl
    <3>1. Patched(crs[wk.name], newrl, newrl) \in CR \cup {Absent}
      BY <1>3, <1>7, <2>2, PatchedOK
    <3>2. QED
      BY <1>2, <1>7, <2>2, <3>1, CRWrittenType
  <2>3. QED
    BY <1>6, <2>1, <2>2
<1> HIDE DEF w
<1>9. QED
  BY <1>1, <1>4, <1>5, <1>8, GoingOK

(***************************************************************************)
(* Reconcile reading the CR again after it registered the finalizer.       *)
(***************************************************************************)
LEMMA RefetchOK ==
  ASSUME Inv, Refetch, UNCHANGED <<caches, uids>>
  PROVE  Inv'
<1>1. wk \in Reconciling
  BY DEF Refetch, Inv, GoodWorker, Idle
<1>2. wk.name \in Names
  BY <1>1 DEF Reconciling
<1>3. StoredTypeOK'
  BY DEF Refetch, Inv, ClusterTypeOK, StoredTypeOK, stored
<1>4. CASE Requeue
  <2>1. Going(Idle) /\ GoodWorker(Idle)
    BY <1>4 DEF Refetch, Requeue, Going, GoodWorker, Idle
  <2>2. QED
    BY <1>1, <1>3, <2>1, GoingOK
<1>5. CASE ccrs[wk.name] # Absent /\ Proceed(Dispatched(wk.name))
  <2>1. Going(Dispatched(wk.name))
    BY <1>5 DEF Refetch, Proceed, Going
  <2>2. GoodWorker(Dispatched(wk.name))
    BY <1>2, <1>5, DispatchedOK DEF Inv, ClusterTypeOK
  <2>3. QED
    BY <1>1, <1>3, <2>1, <2>2, GoingOK
<1>6. QED
  BY <1>4, <1>5 DEF Refetch

(***************************************************************************)
(* The steps of reconcile.                                                 *)
(***************************************************************************)
LEMMA LabelNamespaceOK ==
  ASSUME Inv, LabelNamespace, UNCHANGED <<caches, uids>>
  PROVE  Inv'
<1> DEFINE w == [wk EXCEPT !.pc = IF wk.rl.applied THEN "limit" ELSE "stop"]
<1>1. /\ wk \in Reconciling /\ target.ns \in Namespaces
      /\ GoodWorker(NextTarget)
  BY TargetOK DEF LabelNamespace, Inv
<1>2. ASSUME target.ns \notin Ignored
      PROVE  GoodWorker(w)
  <2>1. w \in Reconciling
    BY <1>1 DEF Reconciling, Steps
  <2>2. w.rl = wk.rl /\ w.idx = wk.idx /\ w.pc \in {"limit", "stop"}
    BY <1>1 DEF Reconciling
  <2>3. wk.idx \in 1..Len(wk.rl.targets)
    BY DEF LabelNamespace, Inv, GoodWorker
  <2> HIDE DEF w
  <2>4. QED
    BY <1>2, <2>1, <2>2, <2>3 DEF GoodWorker, target
<1>3. Going(NextTarget) \/ (target.ns \notin Ignored /\ Going(w))
  BY DEF LabelNamespace, Call, Proceed, Requeue, Going
<1>4. UNCHANGED stored \/ NSWritten(target.ns, "labelled")
  BY DEF LabelNamespace, Call
<1>5. StoredTypeOK'
  BY <1>1, <1>4, NSWrittenType DEF StoredTypeOK, stored, Inv, ClusterTypeOK
<1> HIDE DEF w
<1>6. QED
  BY <1>1, <1>2, <1>3, <1>5, GoingOK

(***************************************************************************)
(* reconcile creating the quota of a namespace.                            *)
(***************************************************************************)
LEMMA CreateQuotaOK ==
  ASSUME Inv, CreateQuota, UNCHANGED <<caches, uids>>
  PROVE  Inv'
<1> DEFINE q == [owner |-> wk.name, uid |-> wk.rl.uid,
                 hard |-> target.hard, used |-> 0]
<1>1. /\ wk \in Reconciling /\ target.ns \in Namespaces
      /\ target.hard \in Hards /\ wk.name \in Names /\ wk.rl \in CR
  BY TargetOK DEF CreateQuota, Inv
<1>2. q \in Quota
  BY <1>1, NamesAssumption DEF CreateQuota, Quota, CR
<1>3. GoodWorker(Idle)
  BY DEF GoodWorker, Idle
<1>4. Going(Idle)
  BY DEF CreateQuota, Call, Proceed, Requeue, Going
<1>5. UNCHANGED stored \/ QuotaWritten(target.ns, q)
  BY DEF CreateQuota, Call
<1> HIDE DEF q
<1>6. StoredTypeOK'
  BY <1>1, <1>2, <1>5, QuotaWrittenType
  DEF StoredTypeOK, stored, Inv, ClusterTypeOK
<1>7. QED
  BY <1>1, <1>3, <1>4, <1>6, GoingOK

(***************************************************************************)
(* reconcile updating a quota, and the status entry for it.                *)
(***************************************************************************)
LEMMA UpdateQuotaOK ==
  ASSUME Inv, UpdateQuota, UNCHANGED <<caches, uids>>
  PROVE  Inv'
<1> DEFINE q == [cquotas[target.ns] EXCEPT !.hard = target.hard]
           e == [ns |-> target.ns, used |-> cquotas[target.ns].used,
                 hard |-> target.hard]
           w == [NextTarget EXCEPT !.entries = @ \cup {e}]
<1>1. /\ wk \in Reconciling /\ target.ns \in Namespaces
      /\ target.hard \in Hards /\ NextTarget \in Reconciling
      /\ GoodWorker(NextTarget)
  BY TargetOK DEF UpdateQuota, Inv
<1>2. cquotas[target.ns] \in Quota
  BY <1>1 DEF UpdateQuota, Inv, ClusterTypeOK, CachesTypeOK
<1>3. q \in Quota /\ e \in Entry
  BY <1>1, <1>2 DEF UpdateQuota, Quota, Entry
<1>4. GoodWorker(w)
  <2> HIDE DEF e
  <2>1. w \in Reconciling
    BY <1>1, <1>3 DEF Reconciling
  <2>2. w.rl = NextTarget.rl /\ w.idx = NextTarget.idx /\ w.pc = NextTarget.pc
    BY <1>1 DEF Reconciling
  <2> HIDE DEF w
  <2>3. QED
    BY <1>1, <2>1, <2>2 DEF GoodWorker
<1>5. Going(w)
  BY DEF UpdateQuota, Call, Proceed, Requeue, Going
<1>6. UNCHANGED stored \/ QuotaWritten(target.ns, q)
  BY DEF UpdateQuota, Call
<1> HIDE DEF q, w
<1>7. StoredTypeOK'
  BY <1>1, <1>3, <1>6, QuotaWrittenType
  DEF StoredTypeOK, stored, Inv, ClusterTypeOK
<1>8. QED
  BY <1>1, <1>4, <1>5, <1>7, GoingOK

(***************************************************************************)
(* reconcile freeing a namespace of a CR that is not applied.              *)
(***************************************************************************)
LEMMA StopQuotaOK ==
  ASSUME Inv, StopQuota, UNCHANGED <<caches, uids>>
  PROVE  Inv'
<1>1. /\ wk \in Reconciling /\ target.ns \in Namespaces
      /\ GoodWorker(NextTarget)
  BY TargetOK DEF StopQuota, Inv
<1>2. Going(NextTarget)
  BY DEF StopQuota, Call, Proceed, Requeue, Going
<1>3. UNCHANGED stored \/ QuotaWritten(target.ns, Absent)
  BY DEF StopQuota, Call
<1>4. StoredTypeOK'
  BY <1>1, <1>3, QuotaWrittenType DEF StoredTypeOK, stored, Inv, ClusterTypeOK
<1>5. QED
  BY <1>1, <1>2, <1>4, GoingOK

(***************************************************************************)
(* The status update at the end of reconcile.                              *)
(***************************************************************************)
LEMMA UpdateStatusOK ==
  ASSUME Inv, UpdateStatus, UNCHANGED <<caches, uids>>
  PROVE  Inv'
<1> DEFINE rl == [wk.rl EXCEPT
                    !.state = IF wk.rl.applied THEN "ready" ELSE "stopped",
                    !.quotas = wk.entries]
<1>1. wk \in Reconciling
  BY DEF UpdateStatus, Inv, GoodWorker, Idle
<1>2. wk.name \in Names /\ wk.rl \in CR /\ wk.entries \in SUBSET Entry
  BY <1>1 DEF Reconciling
<1>3. rl \in CR
  BY <1>2 DEF CR
<1>4. GoodWorker(Idle)
  BY DEF GoodWorker, Idle
<1>5. Going(Idle)
  BY DEF UpdateStatus, Call, Proceed, Requeue, Going
<1>6. UNCHANGED stored \/ CRWritten(wk.name, rl)
  BY DEF UpdateStatus, Call
<1> HIDE DEF rl
<1>7. StoredTypeOK'
  BY <1>2, <1>3, <1>6, CRWrittenType DEF StoredTypeOK, stored, Inv, ClusterTypeOK
<1>8. QED
  BY <1>1, <1>4, <1>5, <1>7, GoingOK

(***************************************************************************)
(* The start of a reconcile, and of the process.                           *)
(***************************************************************************)
LEMMA StartOK ==
  ASSUME Inv, NEW n \in Names, Start(n)
  PROVE  Inv'
<1>1. GoodWorker(wk')
  <2>1. CASE wk' = wk
    BY <2>1 DEF Inv
  <2>2. CASE ccrs[n] # Absent /\ wk' = Dispatched(n)
    BY <2>2, DispatchedOK DEF Inv, ClusterTypeOK
  <2>3. CASE ccrs[n] # Absent /\ wk' = Fetched(n, "register")
    BY <2>3, FetchedOK DEF Inv, ClusterTypeOK, GoodWorker
  <2>4. QED
    BY <2>1, <2>2, <2>3 DEF Start, Reconcile
<1>2. queue' \subseteq Names
  BY DEF Start, Reconcile, Inv, ClusterTypeOK
<1>3. UNCHANGED <<stored, spent, caches, uids>>
  BY DEF Start, Reconcile
<1>4. QED
  BY <1>1, <1>2, <1>3
  DEF Inv, ClusterTypeOK, StoredTypeOK, CachesTypeOK, stored, caches

(***************************************************************************)
(* A new process, its caches filled and every owner enqueued.              *)
(***************************************************************************)
LEMMA RelistOK ==
  ASSUME Inv, Relist, wk' = Idle,
         spent' \in [ops : Nat, faults : Nat, crashes : Nat]
  PROVE  Inv'
<1>1. {quotas[s] : s \in Namespaces} \subseteq Quota \cup {Absent}
  BY DEF Inv, ClusterTypeOK, StoredTypeOK
<1>2. Owners({quotas[s] : s \in Namespaces}) \subseteq Names
  BY <1>1, OwnersType
<1>3. queue' \subseteq Names
  BY <1>2 DEF Relist
<1>4. StoredTypeOK' /\ CachesTypeOK' /\ uids' \in Nat
  BY DEF Relist, Inv, ClusterTypeOK, StoredTypeOK, CachesTypeOK
<1>5. GoodWorker(wk')
  BY DEF GoodWorker, Idle
<1>6. QED
  BY <1>3, <1>4, <1>5 DEF Inv, ClusterTypeOK

(***************************************************************************)
(* The process that dies of a limit that is not a quantity (MustParse).    *)
(***************************************************************************)
LEMMA PanicOK ==
  ASSUME Inv, Panic
  PROVE  Inv'
BY RelistOK DEF Panic, Inv, ClusterTypeOK

(***************************************************************************)
(* The process that dies of itself.                                        *)
(***************************************************************************)
LEMMA CrashOK ==
  ASSUME Inv, Crash
  PROVE  Inv'
<1>1. spent' \in [ops : Nat, faults : Nat, crashes : Nat]
  BY DEF Crash, Inv, ClusterTypeOK
<1>2. QED
  BY <1>1, RelistOK DEF Crash

(***************************************************************************)
(* The informers, the garbage collector and the users keep the types.      *)
(***************************************************************************)
LEMMA DeliverOK ==
  ASSUME ClusterTypeOK, Deliver
  PROVE  ClusterTypeOK'
<1>1. ASSUME NEW n \in Names, DeliverCR(n) PROVE ClusterTypeOK'
  BY <1>1 DEF DeliverCR, ClusterTypeOK, StoredTypeOK, CachesTypeOK
<1>2. ASSUME NEW s \in Namespaces, DeliverNamespace(s) PROVE ClusterTypeOK'
  BY <1>2 DEF DeliverNamespace, ClusterTypeOK, StoredTypeOK, CachesTypeOK
<1>3. ASSUME NEW s \in Namespaces, DeliverQuota(s) PROVE ClusterTypeOK'
  BY <1>3 DEF DeliverQuota, ClusterTypeOK, StoredTypeOK, CachesTypeOK
<1>4. QED
  BY <1>1, <1>2, <1>3 DEF Deliver

(***************************************************************************)
(* The garbage collector deletes quotas and lets CRs under foreground      *)
(* deletion go.                                                            *)
(***************************************************************************)
LEMMA CollectOK ==
  ASSUME ClusterTypeOK, Collect
  PROVE  ClusterTypeOK'
<1>1. ASSUME NEW s \in Namespaces, CollectQuota(s) PROVE ClusterTypeOK'
  BY <1>1, QuotaWrittenType
  DEF CollectQuota, ClusterTypeOK, CachesTypeOK, caches
<1>2. ASSUME NEW n \in Names, EndForeground(n) PROVE ClusterTypeOK'
  <2> DEFINE rl == [crs[n] EXCEPT !.finalizers = @ \ {Foreground}]
  <2>1. crs[n] \in CR
    BY <1>2 DEF EndForeground, ClusterTypeOK, StoredTypeOK
  <2>2. rl \in CR
    BY <2>1 DEF CR
  <2>3. CRWritten(n, Reap(rl)) /\ UNCHANGED <<caches, queue, uids, spent>>
    BY <1>2 DEF EndForeground
  <2> HIDE DEF rl
  <2>4. QED
    BY <2>2, <2>3, ReapType, CRWrittenType
    DEF ClusterTypeOK, CachesTypeOK, caches
<1>3. QED
  BY <1>1, <1>2 DEF Collect

(***************************************************************************)
(* What users do, but for the writes themselves.                           *)
(***************************************************************************)
LEMMA ByOK ==
  ASSUME ClusterTypeOK, NEW op, By(op), StoredTypeOK', uids' \in Nat
  PROVE  ClusterTypeOK'
<1>1. spent' \in [ops : Nat, faults : Nat, crashes : Nat]
  BY DEF By, ClusterTypeOK
<1>2. CachesTypeOK' /\ queue' \subseteq Names
  BY DEF By, ClusterTypeOK, CachesTypeOK, caches
<1>3. QED
  BY <1>1, <1>2 DEF ClusterTypeOK

(***************************************************************************)
(* Users create, change and delete CRs of the right type.                  *)
(***************************************************************************)
LEMMA UserOnCROK ==
  ASSUME ClusterTypeOK, NEW n \in Names, UserOnCR(n)
  PROVE  ClusterTypeOK'
<1>1. StoredTypeOK /\ uids \in Nat /\ crs[n] \in CR \cup {Absent}
  BY DEF ClusterTypeOK, StoredTypeOK
<1>2. ASSUME NEW targets \in Choices[n], NEW applied \in BOOLEAN,
             NEW f \in SUBSET {Finalizer, Foreground},
             CreateCR(n, targets, applied, f)
      PROVE  ClusterTypeOK'
  <2> DEFINE rl == [uid |-> uids', targets |-> targets, applied |-> applied,
                    deleting |-> FALSE, finalizers |-> f,
                    state |-> "", quotas |-> {}]
  <2> HIDE DEF rl
  <2>0. uids' = uids + 1
    BY <1>2 DEF CreateCR
  <2>1. uids' \in Nat
    BY <1>1, <2>0
  <2>2. targets \in Seq(Target)
    BY NamesAssumption
  <2>3. rl \in CR
    BY <2>1, <2>2 DEF CR, rl
  <2>4. CRWritten(n, rl)
    BY <1>2 DEF CreateCR, rl
  <2>5. StoredTypeOK'
    BY <1>1, <2>3, <2>4, CRWrittenType
  <2>6. QED
    BY <1>2, <2>1, <2>5, ByOK DEF CreateCR
<1>3. ASSUME NEW targets \in Choices[n], NEW applied \in BOOLEAN,
             ChangeSpec(n, targets, applied)
      PROVE  ClusterTypeOK'
  <2> DEFINE rl == [crs[n] EXCEPT !.targets = targets, !.applied = applied]
  <2>1. targets \in Seq(Target)
    BY NamesAssumption
  <2>2. rl \in CR
    BY <1>1, <1>3, <2>1 DEF CR, ChangeSpec
  <2>3. CRWritten(n, rl)
    BY <1>3 DEF ChangeSpec
  <2> HIDE DEF rl
  <2>4. StoredTypeOK'
    BY <1>1, <2>2, <2>3, CRWrittenType
  <2>5. QED
    BY <1>1, <1>3, <2>4, ByOK DEF ChangeSpec
<1>4. ASSUME NEW f \in SUBSET {Finalizer, Foreground}, DeleteCR(n, f)
      PROVE  ClusterTypeOK'
  <2> DEFINE rl == [crs[n] EXCEPT !.deleting = TRUE,
                                  !.finalizers = @ \cup f]
  <2>1. rl \in CR
    BY <1>1, <1>4 DEF CR, DeleteCR
  <2>2. CRWritten(n, Reap(rl))
    BY <1>4 DEF DeleteCR
  <2> HIDE DEF rl
  <2>3. StoredTypeOK'
    BY <1>1, <2>1, <2>2, ReapType, CRWrittenType
  <2>4. QED
    BY <1>1, <1>4, <2>3, ByOK DEF DeleteCR
<1>5. QED
  BY <1>2, <1>3, <1>4 DEF UserOnCR

(***************************************************************************)
(* Users write namespaces and quotas of the right type.                    *)
(***************************************************************************)
LEMMA UserOnNamespaceOK ==
  ASSUME ClusterTypeOK, NEW s \in Namespaces, UserOnNamespace(s)
  PROVE  ClusterTypeOK'
<1>1. StoredTypeOK /\ uids \in Nat /\ quotas[s] \in Quota \cup {Absent}
  BY DEF ClusterTypeOK, StoredTypeOK
<1>2. CASE CreateNamespace(s) \/ StripLabels(s)
  BY <1>1, <1>2, NSWrittenType, ByOK DEF CreateNamespace, StripLabels
<1>3. CASE DeleteNamespace(s)
  <2>1. Owners({quotas[s]}) \subseteq Names
    BY <1>1, OwnersType
  <2>2. StoredTypeOK'
    BY <1>1, <1>3, <2>1 DEF DeleteNamespace, StoredTypeOK
  <2>3. QED
    BY <1>1, <1>3, <2>2, ByOK DEF DeleteNamespace
<1>4. CASE TouchNamespace(s)
  <2>1. StoredTypeOK'
    BY <1>1, <1>4 DEF TouchNamespace, StoredTypeOK
  <2>2. QED
    BY <1>1, <1>4, <2>1, ByOK DEF TouchNamespace
<1>5. ASSUME NEW hard \in Hards \ BadHards, EditQuota(s, hard)
      PROVE  ClusterTypeOK'
  <2> DEFINE q == [quotas[s] EXCEPT !.hard = hard]
  <2>1. q \in Quota
    BY <1>1, <1>5 DEF Quota, EditQuota
  <2>2. QuotaWritten(s, q)
    BY <1>5 DEF EditQuota
  <2> HIDE DEF q
  <2>3. QED
    BY <1>1, <1>5, <2>1, <2>2, QuotaWrittenType, ByOK DEF EditQuota
<1>6. CASE RemoveQuota(s)
  BY <1>1, <1>6, QuotaWrittenType, ByOK DEF RemoveQuota
<1>7. ASSUME NEW used \in Usage, UseQuota(s, used)
      PROVE  ClusterTypeOK'
  <2> DEFINE q == [quotas[s] EXCEPT !.used = used]
  <2>1. q \in Quota
    BY <1>1, <1>7 DEF Quota, UseQuota
  <2>2. QuotaWritten(s, q)
    BY <1>7 DEF UseQuota
  <2> HIDE DEF q
  <2>3. QED
    BY <1>1, <1>7, <2>1, <2>2, QuotaWrittenType, ByOK DEF UseQuota
<1>8. QED
  BY <1>2, <1>3, <1>4, <1>5, <1>6, <1>7 DEF UserOnNamespace

(***************************************************************************)
(* A write by others at most outdates the copy that the worker holds.      *)
(***************************************************************************)
LEMMA OutdatedOK ==
  ASSUME GoodWorker(wk), wk' = Outdated
  PROVE  GoodWorker(wk')
<1>1. CASE wk' = wk
  BY <1>1
<1>2. CASE wk # Idle /\ wk' = [wk EXCEPT !.stale = TRUE]
  <2>1. wk \in Reconciling
    BY <1>2 DEF GoodWorker
  <2>2. wk' \in Reconciling
    BY <1>2, <2>1 DEF Reconciling
  <2>3. wk'.pc = wk.pc /\ wk'.idx = wk.idx /\ wk'.rl = wk.rl
    BY <1>2, <2>1 DEF Reconciling
  <2>4. QED
    BY <2>2, <2>3 DEF GoodWorker
<1>3. QED
  BY <1>1, <1>2 DEF Outdated

(***************************************************************************)
(* Everything that others do.                                              *)
(***************************************************************************)
LEMMA OutsideOK ==
  ASSUME Inv, Outside
  PROVE  Inv'
<1>1. ClusterTypeOK'
  BY DeliverOK, CollectOK, UserOnCROK, UserOnNamespaceOK DEF Outside, User, Inv
<1>2. QED
  BY <1>1, OutdatedOK DEF Outside, Inv

-----------------------------------------------------------------------------
(* The theorems. *)

(***************************************************************************)
(* The invariant holds at the start of the process and after every step of *)
(* the worker, the informers, the garbage collector and the users.         *)
(***************************************************************************)
LEMMA InvInit == Init => Inv
BY BoundsAssumption
DEF Init, ClusterInit, Inv, ClusterTypeOK, StoredTypeOK, CachesTypeOK,
    GoodWorker, Idle

(***************************************************************************)
(* Every step keeps the invariant.                                         *)
(***************************************************************************)
LEMMA InvStep == Inv /\ [Next]_vars => Inv'
<1> SUFFICES ASSUME Inv, [Next]_vars PROVE Inv'
  OBVIOUS
<1>1. CASE \E n \in Names : Start(n)
  BY <1>1, StartOK
<1>2. CASE WorkerStep
  BY <1>2, RegisterFinalizerOK, RefetchOK, DeleteQuotaOK, RemoveLabelsOK,
     ReleaseFinalizerOK, LabelNamespaceOK, CreateQuotaOK, UpdateQuotaOK,
     StopQuotaOK, UpdateStatusOK DEF WorkerStep
<1>3. CASE Panic \/ Crash
  BY <1>3, PanicOK, CrashOK
<1>4. CASE Outside
  BY <1>4, OutsideOK
<1>5. CASE UNCHANGED vars
  BY <1>5 DEF vars, clusterVars, stored, caches, Inv, ClusterTypeOK,
              StoredTypeOK, CachesTypeOK
<1>6. QED
  BY <1>1, <1>2, <1>3, <1>4, <1>5 DEF Next

(***************************************************************************)
(* Everything keeps its type: the worker holds a CR and stands at one of   *)
(* its targets, the caches and the server hold objects of their kind.      *)
(***************************************************************************)
THEOREM TypeCorrect == Spec => []TypeOK
<1>1. Inv => TypeOK
  BY DEF Inv, TypeOK, GoodWorker
<1>2. QED
  BY <1>1, InvInit, InvStep, PTL DEF Spec

(***************************************************************************)
(* No step labels kube-system or kube-public, or gives them a quota.       *)
(***************************************************************************)
LEMMA IgnoredStep ==
  ASSUME Inv, IgnoredUnlimited, [Next]_vars
  PROVE  IgnoredUnlimited'
<1> SUFFICES ASSUME NEW s \in Ignored
             PROVE  nss'[s] # "labelled" /\ quotas'[s] = Absent
  BY DEF IgnoredUnlimited
<1>1. s \in Namespaces /\ nss[s] # "labelled" /\ quotas[s] = Absent
  BY NamesAssumption DEF IgnoredUnlimited
<1>2. nss \in [Namespaces -> {"absent", "plain", "labelled"}]
      /\ quotas \in [Namespaces -> Quota \cup {Absent}]
  BY DEF Inv, ClusterTypeOK, StoredTypeOK
<1>3. wk.pc \in {"limit", "stop"} => target.ns \notin Ignored
  BY DEF Inv, GoodWorker, target
<1>4. ASSUME UNCHANGED <<nss, quotas>>
      PROVE  nss'[s] # "labelled" /\ quotas'[s] = Absent
  BY <1>1, <1>4
<1>5. ASSUME NEW r, NEW ns, NSWritten(r, ns), ns = "labelled" => r # s
      PROVE  nss'[s] # "labelled" /\ quotas'[s] = Absent
  BY <1>1, <1>2, <1>5 DEF NSWritten
<1>6. ASSUME NEW r, NEW q, QuotaWritten(r, q), q # Absent => r # s
      PROVE  nss'[s] # "labelled" /\ quotas'[s] = Absent
  BY <1>1, <1>2, <1>6 DEF QuotaWritten
<1>7. ASSUME NEW n, NEW rl, CRWritten(n, rl)
      PROVE  nss'[s] # "labelled" /\ quotas'[s] = Absent
  BY <1>1, <1>7 DEF CRWritten
<1>8. CASE WorkerStep
  <2>1. CASE RegisterFinalizer \/ ReleaseFinalizer \/ UpdateStatus
    BY <2>1, <1>4, <1>7
    DEF RegisterFinalizer, ReleaseFinalizer, UpdateStatus, Call, stored
  <2>2. CASE Refetch
    BY <2>2, <1>4 DEF Refetch, stored
  <2>3. CASE DeleteQuota \/ StopQuota
    BY <2>3, <1>4, <1>6 DEF DeleteQuota, StopQuota, Call, stored
  <2>4. CASE RemoveLabels
    BY <2>4, <1>4, <1>5 DEF RemoveLabels, Call, stored
  <2>5. CASE LabelNamespace
    BY <2>5, <1>4, <1>5 DEF LabelNamespace, Call, stored
  <2>6. CASE CreateQuota
    BY <2>6, <1>3, <1>4, <1>6 DEF CreateQuota, Call, stored
  <2>7. CASE UpdateQuota
    BY <2>7, <1>3, <1>4, <1>6 DEF UpdateQuota, Call, stored
  <2>8. QED
    BY <1>8, <2>1, <2>2, <2>3, <2>4, <2>5, <2>6, <2>7 DEF WorkerStep
<1>9. CASE Deliver
  BY <1>9, <1>4 DEF Deliver, DeliverCR, DeliverNamespace, DeliverQuota
<1>10. CASE Collect
  BY <1>10, <1>6, <1>7 DEF Collect, CollectQuota, EndForeground
<1>11. CASE User
  <2>1. ASSUME NEW n \in Names, UserOnCR(n)
        PROVE  nss'[s] # "labelled" /\ quotas'[s] = Absent
    BY <2>1, <1>7 DEF UserOnCR, CreateCR, ChangeSpec, DeleteCR
  <2>2. ASSUME NEW r \in Namespaces, UserOnNamespace(r)
        PROVE  nss'[s] # "labelled" /\ quotas'[s] = Absent
    <3>1. CASE CreateNamespace(r) \/ StripLabels(r)
      BY <3>1, <1>5 DEF CreateNamespace, StripLabels
    <3>2. CASE DeleteNamespace(r)
      BY <3>2, <1>1, <1>2 DEF DeleteNamespace
    <3>3. CASE TouchNamespace(r)
      BY <3>3, <1>4 DEF TouchNamespace
    <3>4. CASE \/ \E hard \in Hards \ BadHards : EditQuota(r, hard)
               \/ \E used \in Usage : UseQuota(r, used)
               \/ RemoveQuota(r)
      BY <3>4, <1>1, <1>6 DEF EditQuota, UseQuota, RemoveQuota
    <3>5. QED
      BY <2>2, <3>1, <3>2, <3>3, <3>4 DEF UserOnNamespace
  <2>3. QED
    BY <1>11, <2>1, <2>2 DEF User
<1>12. CASE (\E n \in Names : Start(n)) \/ Panic \/ Crash \/ UNCHANGED vars
  BY <1>12, <1>4 DEF Start, Reconcile, Panic, Crash, Relist,
                     vars, clusterVars, stored
<1>13. QED
  BY <1>8, <1>9, <1>10, <1>11, <1>12 DEF Next, Outside

(***************************************************************************)
(* kube-system and kube-public are never labelled and never given a quota, *)
(* whatever CRs name them: the two names skipped at the head of            *)
(* reconcile's loop are enough, in every interleaving.                     *)
(***************************************************************************)
THEOREM IgnoredSafe == Spec => []IgnoredUnlimited
<1>1. Init => IgnoredUnlimited
  BY NamesAssumption DEF Init, ClusterInit, IgnoredUnlimited
<1>2. Inv /\ IgnoredUnlimited /\ [Next]_vars => IgnoredUnlimited'
  BY IgnoredStep
<1>3. QED
  BY <1>1, <1>2, InvInit, InvStep, PTL DEF Spec

-----------------------------------------------------------------------------
(* No wakeup is missed: the invariant.                                     *)

\* Where no event is pending, a copy is what the server stores.
Synced ==
  /\ \A n \in Names : n \notin crLag => ccrs[n] = crs[n]
  /\ \A s \in Namespaces : quotaEvents[s] = {} => cquotas[s] = quotas[s]

\* CRs name, and own quotas in, the namespaces that they are given.
Housed ==
  /\ \A n \in Names : crs[n] # Absent => crs[n].targets \in Choices[n]
  /\ \A s \in Namespaces : quotas[s] # Absent => s \in Home(quotas[s].owner)
  /\ \A s \in Namespaces : \A n \in quotaEvents[s] : s \in Home(n)

HousedCopies ==
  /\ \A n \in Names : ccrs[n] # Absent => ccrs[n].targets \in Choices[n]
  /\ wk # Idle => wk.rl.targets \in Choices[wk.name]

\* Work on an old copy will be done again.
Copied ==
  wk # Idle => IF wk.stale THEN wk.name \in crLag \cup queue
               ELSE crs[wk.name] = wk.rl

\* The targets that the loop has dealt with at its i-th turn.
Behind(rl, i) ==
  {t \in Target : t.ns \notin Ignored /\
     \E j \in 1..Len(rl.targets) : j < i /\ rl.targets[j] = t}

\* Met, the quotas being those of Q.
Suits(Q, rl, T, entries) ==
  IF rl.applied
  THEN /\ \A t \in T : Q[t.ns] # Absent /\ Q[t.ns].hard = t.hard
       /\ entries = {[ns |-> t.ns, used |-> Q[t.ns].used, hard |-> t.hard] : t \in T}
  ELSE (\A t \in T : Q[t.ns] = Absent) /\ entries = {}

\* Which half of Reconcile the worker is in.
Placed(w) ==
  /\ w.pc \in {"label", "limit", "stop", "status"} => ~w.rl.deleting
  /\ w.pc = "limit" => w.rl.applied
  /\ w.pc = "stop" => ~w.rl.applied
  /\ w.pc = "status" => w.idx > Len(w.rl.targets)
  /\ w.pc \in {"delete", "unlabel", "release"} =>
       w.rl.deleting /\ Finalizer \in w.rl.finalizers

\* What reconcile has gone past is as it should be, or it will come again.
Passed ==
  wk.pc \in {"label", "limit", "stop", "status"} =>
    Alarm(wk.name) \/ Suits(quotas, wk.rl, Behind(wk.rl, wk.idx), wk.entries)

Awake(n) ==
  crs[n] # Absent => \/ Busy(n) \/ Alarm(n)
                     \/ ~crs[n].deleting /\ Converged(n)

WakeupInv ==
  /\ Synced /\ Housed /\ HousedCopies /\ Copied /\ Placed(wk) /\ Passed
  /\ \A n \in Names : Awake(n)

-----------------------------------------------------------------------------
(* Every write is announced to those whom it may concern. *)

Announced ==
  /\ crLag \subseteq crLag'
  /\ \A n \in Names : crs'[n] = crs[n] \/ n \in crLag'
  /\ \A s \in Namespaces :
       /\ quotaEvents[s] \subseteq quotaEvents'[s]
       /\ quotas'[s] = quotas[s] \/ quotaEvents'[s] # {}

(***************************************************************************)
(* A write to a CR is an event of the CR (SetupWithManager's For).         *)
(***************************************************************************)
LEMMA CRAnnounced ==
  ASSUME StoredTypeOK, Housed, NEW n \in Names, NEW rl,
         rl # Absent => rl.targets \in Choices[n], CRWritten(n, rl)
  PROVE  Announced /\ Housed'
<1>1. crs \in [Names -> CR \cup {Absent}]
  BY DEF StoredTypeOK
<1>2. UNCHANGED <<quotas, quotaEvents>>
  BY DEF CRWritten
<1>3. /\ crLag \subseteq crLag'
      /\ \A m \in Names : crs'[m] = crs[m] \/ (m = n /\ m \in crLag')
      /\ crs'[n] = rl
  BY <1>1 DEF CRWritten
<1>4. Announced
  BY <1>2, <1>3 DEF Announced
<1>5. Housed'
  BY <1>2, <1>3 DEF Housed
<1>6. QED
  BY <1>4, <1>5

(***************************************************************************)
(* A write to a namespace concerns no CR.                                  *)
(***************************************************************************)
LEMMA QuietAnnounced ==
  ASSUME Housed, crLag \subseteq crLag', UNCHANGED <<crs, quotas, quotaEvents>>
  PROVE  Announced /\ Housed'
BY DEF Housed, Announced

(***************************************************************************)
(* A write to a quota is an event of its owner (SetupWithManager's Owns).  *)
(***************************************************************************)
LEMMA QuotaAnnounced ==
  ASSUME StoredTypeOK, Housed, NEW s \in Namespaces,
         NEW q \in Quota \cup {Absent}, q # Absent => s \in Home(q.owner),
         crLag \subseteq crLag', crs' = crs,
         quotas' = [quotas EXCEPT ![s] = q],
         quotaEvents' = IF q = quotas[s] THEN quotaEvents
           ELSE [quotaEvents EXCEPT ![s] = @ \cup Owners({quotas[s], q})]
  PROVE  Announced /\ Housed'
<1>1. /\ quotas \in [Namespaces -> Quota \cup {Absent}]
      /\ quotaEvents \in [Namespaces -> SUBSET Names]
  BY DEF StoredTypeOK
<1>2. /\ \A r \in Namespaces : r # s =>
           quotas'[r] = quotas[r] /\ quotaEvents'[r] = quotaEvents[r]
      /\ quotas'[s] = q
  BY <1>1
<1>3. \A n \in Owners({quotas[s], q}) : s \in Home(n)
  BY DEF Owners, Housed
<1>4. q # quotas[s] => Owners({quotas[s], q}) # {}
  BY DEF Owners
<1>5. \/ q = quotas[s] /\ quotaEvents'[s] = quotaEvents[s]
      \/ /\ q # quotas[s]
         /\ quotaEvents'[s] = quotaEvents[s] \cup Owners({quotas[s], q})
  BY <1>1
<1>6. Announced
  BY <1>2, <1>4, <1>5 DEF Announced
<1>7. Housed'
  <2>1. \A r \in Namespaces : quotas'[r] # Absent => r \in Home(quotas'[r].owner)
    BY <1>2 DEF Housed
  <2>2. \A r \in Namespaces : \A n \in quotaEvents'[r] : r \in Home(n)
    BY <1>2, <1>3, <1>5 DEF Housed
  <2>3. QED
    BY <2>1, <2>2 DEF Housed
<1>8. QED
  BY <1>6, <1>7

-----------------------------------------------------------------------------
(* What an announced step leaves as it was. *)

(***************************************************************************)
(* Writes that are announced leave no copy wrong unnoticed.                *)
(***************************************************************************)
LEMMA SyncedKept ==
  ASSUME Synced, Announced, UNCHANGED <<ccrs, cquotas>>
  PROVE  Synced'
<1>1. ASSUME NEW n \in Names, n \notin crLag' PROVE ccrs'[n] = crs'[n]
  BY <1>1 DEF Synced, Announced
<1>2. ASSUME NEW s \in Namespaces, quotaEvents'[s] = {}
      PROVE  cquotas'[s] = quotas'[s]
  BY <1>2 DEF Synced, Announced
<1>3. QED
  BY <1>1, <1>2 DEF Synced

(***************************************************************************)
(* An event that is pending stays so, and so does a name in the queue.     *)
(***************************************************************************)
LEMMA AlarmKept ==
  ASSUME Announced, queue \subseteq queue', NEW n, Alarm(n)
  PROVE  Alarm(n)'
BY DEF Announced, Alarm

(***************************************************************************)
(* A namespace that a CR wants is one of those that it is given.           *)
(***************************************************************************)
LEMMA WantedHome ==
  ASSUME NEW n \in Names, NEW rl, rl.targets \in Choices[n],
         NEW t \in Wanted(rl)
  PROVE  t.ns \in Home(n) /\ t.ns \in Namespaces
BY DEF Wanted, Home, Target

(***************************************************************************)
(* Whoever has a namespace hears of the events of its quota, and so of     *)
(* every change: the owner that they name can be nobody else.              *)
(***************************************************************************)
LEMMA EventHeard ==
  ASSUME Exclusive, Housed, StoredTypeOK, NEW n \in Names,
         NEW s \in Namespaces, s \in Home(n), quotaEvents[s] # {}
  PROVE  Alarm(n)
<1>1. PICK m \in quotaEvents[s] : TRUE
  OBVIOUS
<1>2. m \in Names /\ s \in Home(m)
  BY <1>1 DEF Housed, StoredTypeOK
<1>3. m = n
  BY <1>2 DEF Exclusive
<1>4. QED
  BY <1>1, <1>3 DEF Alarm

(***************************************************************************)
(* A change of the quota is such an event.                                 *)
(***************************************************************************)
LEMMA QuotaHeard ==
  ASSUME Exclusive, Announced, Housed', StoredTypeOK', NEW n \in Names,
         NEW s \in Namespaces, s \in Home(n), quotas'[s] # quotas[s]
  PROVE  Alarm(n)'
<1>1. PICK m \in quotaEvents'[s] : TRUE
  BY DEF Announced
<1>2. m \in Names /\ s \in Home(m)
  BY <1>1 DEF Housed, StoredTypeOK
<1>3. m = n
  BY <1>2 DEF Exclusive
<1>4. QED
  BY <1>1, <1>3 DEF Alarm

(***************************************************************************)
(* Targets that were met stay so, or the CR hears of it.                   *)
(***************************************************************************)
LEMMA SuitsKept ==
  ASSUME Exclusive, Announced, Housed', StoredTypeOK', NEW n \in Names,
         NEW rl, rl.targets \in Choices[n], NEW T \in SUBSET Wanted(rl),
         NEW entries, Suits(quotas, rl, T, entries)
  PROVE  Alarm(n)' \/ Suits(quotas', rl, T, entries)
<1>1. ASSUME NEW t \in T, quotas'[t.ns] # quotas[t.ns] PROVE Alarm(n)'
  BY <1>1, WantedHome, QuotaHeard
<1>2. CASE \A t \in T : quotas'[t.ns] = quotas[t.ns]
  <2>1. {[ns |-> t.ns, used |-> quotas'[t.ns].used, hard |-> t.hard] : t \in T}
        = {[ns |-> t.ns, used |-> quotas[t.ns].used, hard |-> t.hard] : t \in T}
    BY <1>2
  <2>2. QED
    BY <1>2, <2>1 DEF Suits
<1>3. QED
  BY <1>1, <1>2

(***************************************************************************)
(* A CR that is at rest stays so or hears of what changed.                 *)
(***************************************************************************)
LEMMA RestKept ==
  ASSUME Exclusive, Housed, Announced, Housed', StoredTypeOK',
         queue \subseteq queue', NEW n \in Names,
         crs[n] # Absent => Alarm(n) \/ (~crs[n].deleting /\ Converged(n))
  PROVE  crs'[n] # Absent =>
           Alarm(n)' \/ (~crs'[n].deleting /\ Converged(n)')
<1>1. CASE crs'[n] # crs[n]
  BY <1>1 DEF Announced, Alarm
<1>2. CASE Alarm(n)
  BY <1>2, AlarmKept
<1>3. CASE crs'[n] = crs[n] /\ crs[n] # Absent /\ ~crs[n].deleting /\ Converged(n)
  <2>1. crs[n].targets \in Choices[n]
    BY <1>3 DEF Housed
  <2>2. Suits(quotas, crs[n], Wanted(crs[n]), crs[n].quotas)
    BY <1>3 DEF Converged, Met, Report, Suits
  <2>3. Alarm(n)' \/ Suits(quotas', crs[n], Wanted(crs[n]), crs[n].quotas)
    BY <2>1, <2>2, SuitsKept
  <2>4. Suits(quotas', crs[n], Wanted(crs[n]), crs[n].quotas) => Converged(n)'
    BY <1>3 DEF Converged, Met, Report, Suits
  <2>5. QED
    BY <1>3, <2>3, <2>4
<1>4. QED
  BY <1>1, <1>2, <1>3

-----------------------------------------------------------------------------
(* How far the loop has got. *)

(***************************************************************************)
(* A worker that is at something is not idle.                              *)
(***************************************************************************)
LEMMA NotIdle ==
  ASSUME NEW w \in Reconciling
  PROVE  w # Idle
<1>1. w.pc # "idle"
  BY DEF Reconciling, Steps
<1>2. Idle.pc = "idle"
  BY DEF Idle
<1>3. QED
  BY <1>1, <1>2

(***************************************************************************)
(* One turn of the loop puts one target behind, or none that is ignored.   *)
(***************************************************************************)
LEMMA BehindNext ==
  ASSUME NEW rl \in CR, NEW i \in 1..Len(rl.targets)
  PROVE  Behind(rl, i + 1) =
           IF rl.targets[i].ns \in Ignored THEN Behind(rl, i)
           ELSE Behind(rl, i) \cup {rl.targets[i]}
<1>0. rl.targets \in Seq(Target)
  BY DEF CR
<1>1. rl.targets \in Seq(Target) /\ Len(rl.targets) \in Nat
  BY <1>0
<1>2. rl.targets[i] \in Target
  BY <1>1
<1>3. \A j \in 1..Len(rl.targets) : j < i + 1 <=> j < i \/ j = i
  BY <1>1
<1>4. QED
  BY <1>2, <1>3 DEF Behind

(***************************************************************************)
(* What is behind is wanted, and at the end of the loop all of it is.      *)
(***************************************************************************)
LEMMA BehindWanted ==
  ASSUME NEW rl \in CR, NEW i \in Nat
  PROVE  /\ Behind(rl, i) \subseteq Wanted(rl)
         /\ i > Len(rl.targets) => Behind(rl, i) = Wanted(rl)
<1>0. rl.targets \in Seq(Target)
  BY DEF CR
<1>1. rl.targets \in Seq(Target) /\ Len(rl.targets) \in Nat
  BY <1>0
<1>2. i > Len(rl.targets) => \A j \in 1..Len(rl.targets) : j < i
  BY <1>1
<1>3. QED
  BY <1>2 DEF Behind, Wanted

(***************************************************************************)
(* Nothing is behind at the first turn.                                    *)
(***************************************************************************)
LEMMA BehindNothing ==
  ASSUME NEW rl \in CR
  PROVE  Behind(rl, 1) = {}
<1>1. rl.targets \in Seq(Target)
  BY DEF CR
<1>2. Len(rl.targets) \in Nat
  BY <1>1
<1>3. \A j \in 1..Len(rl.targets) : ~(j < 1)
  BY <1>2
<1>4. QED
  BY <1>3 DEF Behind

(***************************************************************************)
(* A turn of the loop leaves the worker in the half it was in.             *)
(***************************************************************************)
LEMMA VisitPlaced ==
  ASSUME NEW w \in Reconciling, NEW i \in Nat \ {0},
         w.rl.deleting => Finalizer \in w.rl.finalizers
  PROVE  /\ Placed(Visit(w, i))
         /\ Visit(w, i) \in Reconciling
         /\ Visit(w, i).name = w.name /\ Visit(w, i).rl = w.rl
         /\ Visit(w, i).stale = w.stale /\ Visit(w, i).idx = i
         /\ Visit(w, i).entries = w.entries
         /\ w.rl.deleting => Visit(w, i).pc \in {"delete", "release"}
<1>1. /\ Visit(w, i).idx = i /\ Visit(w, i).pc = Turn(w.rl, i)
      /\ Visit(w, i).rl = w.rl /\ Visit(w, i).name = w.name
      /\ Visit(w, i).stale = w.stale /\ Visit(w, i).entries = w.entries
  BY DEF Visit, Reconciling
<1>2. Len(w.rl.targets) \in Nat
  <2>1. w.rl \in CR
    BY DEF Reconciling
  <2>2. w.rl.targets \in Seq(Target)
    BY <2>1 DEF CR
  <2>3. QED
    BY <2>2
<1>3. Placed(Visit(w, i))
  BY <1>1, <1>2 DEF Placed, Turn
<1>4. w.rl.deleting => Visit(w, i).pc \in {"delete", "release"}
  BY <1>1 DEF Turn
<1>5. QED
  BY <1>1, <1>3, <1>4, VisitOK

(***************************************************************************)
(* What was met behind the worker stays so, or its CR will come again.     *)
(***************************************************************************)
LEMMA PassedKept ==
  ASSUME Exclusive, Inv, WakeupInv, Announced, Housed', StoredTypeOK',
         queue \subseteq queue', wk \in Reconciling,
         wk.pc \in {"label", "limit", "stop", "status"}
  PROVE  \E n \in Names :
           /\ n = wk.name
           /\ \/ Alarm(n)'
              \/ Suits(quotas', wk.rl, Behind(wk.rl, wk.idx), wk.entries)
<1>1. PICK n \in Names : n = wk.name
  BY DEF Reconciling
<1>2. /\ wk.rl \in CR /\ wk.rl.targets \in Choices[n] /\ wk.idx \in Nat
  BY <1>1, NotIdle DEF WakeupInv, HousedCopies, Reconciling
<1>3. Behind(wk.rl, wk.idx) \subseteq Wanted(wk.rl)
  BY <1>2, BehindWanted
<1>4. Alarm(n) \/ Suits(quotas, wk.rl, Behind(wk.rl, wk.idx), wk.entries)
  BY <1>1 DEF WakeupInv, Passed
<1>5. CASE Alarm(n)
  BY <1>1, <1>5, AlarmKept
<1>6. CASE Suits(quotas, wk.rl, Behind(wk.rl, wk.idx), wk.entries)
  BY <1>1, <1>2, <1>3, <1>6, SuitsKept
<1>7. QED
  BY <1>4, <1>5, <1>6

-----------------------------------------------------------------------------
(* How a step may leave the worker. *)

(***************************************************************************)
(* The worker goes on with its CR.                                         *)
(***************************************************************************)
LEMMA Ongoing ==
  ASSUME Exclusive, Inv, WakeupInv, Announced, Housed', StoredTypeOK',
         UNCHANGED <<caches, queue>>, wk \in Reconciling, wk' \in Reconciling,
         wk'.name = wk.name, wk'.rl = wk.rl, wk'.stale = wk.stale,
         crs'[wk.name] = crs[wk.name], Placed(wk'), Passed'
  PROVE  WakeupInv'
<1>1. wk # Idle /\ wk' # Idle
  BY NotIdle
<1>2. Synced'
  BY SyncedKept DEF WakeupInv, caches
<1>3. HousedCopies'
  BY <1>1 DEF WakeupInv, HousedCopies, caches
<1>4. Copied'
  BY <1>1 DEF WakeupInv, Copied, Announced
<1>5. ASSUME NEW n \in Names PROVE Awake(n)'
  <2>1. CASE n = wk.name
    BY <1>1, <2>1 DEF Awake, Busy
  <2>2. CASE n # wk.name
    <3>1. crs[n] # Absent => Alarm(n) \/ (~crs[n].deleting /\ Converged(n))
      BY <2>2 DEF WakeupInv, Awake, Busy
    <3>2. QED
      BY <3>1, RestKept DEF WakeupInv, Awake
  <2>3. QED
    BY <2>1, <2>2
<1>6. QED
  BY <1>2, <1>3, <1>4, <1>5 DEF WakeupInv

(***************************************************************************)
(* The worker is done with its CR, which is at rest or will come again.    *)
(***************************************************************************)
LEMMA Ended ==
  ASSUME Exclusive, Inv, WakeupInv, Announced, Housed', StoredTypeOK',
         UNCHANGED caches, queue \subseteq queue', wk' = Idle,
         NEW n \in Names, wk.name = n,
         crs'[n] # Absent => Alarm(n)' \/ (~crs'[n].deleting /\ Converged(n)')
  PROVE  WakeupInv'
<1>1. Synced'
  BY SyncedKept DEF WakeupInv, caches
<1>2. HousedCopies' /\ Copied'
  BY DEF WakeupInv, HousedCopies, Copied, caches
<1>3. Placed(wk') /\ Passed'
  BY DEF Placed, Passed, Idle
<1>4. ASSUME NEW m \in Names PROVE Awake(m)'
  <2>1. CASE m = n
    BY <2>1 DEF Awake
  <2>2. CASE m # n
    <3>1. crs[m] # Absent => Alarm(m) \/ (~crs[m].deleting /\ Converged(m))
      BY <2>2 DEF WakeupInv, Awake, Busy
    <3>2. QED
      BY <3>1, RestKept DEF WakeupInv, Awake
  <2>3. QED
    BY <2>1, <2>2
<1>5. QED
  BY <1>1, <1>2, <1>3, <1>4 DEF WakeupInv

(***************************************************************************)
(* The worker gives up on an error, and the CR comes again.                *)
(***************************************************************************)
LEMMA Requeued ==
  ASSUME Exclusive, Inv, WakeupInv, Announced, Housed', StoredTypeOK',
         UNCHANGED caches, wk \in Reconciling, Requeue
  PROVE  WakeupInv'
<1>1. PICK n \in Names : wk.name = n
  BY DEF Reconciling
<1>2. Alarm(n)' /\ queue \subseteq queue' /\ wk' = Idle
  BY <1>1 DEF Requeue, Alarm
<1>3. QED
  BY <1>1, <1>2, Ended

(***************************************************************************)
(* Somebody else writes to the cluster.                                    *)
(***************************************************************************)
LEMMA Overtaken ==
  ASSUME Exclusive, Inv, WakeupInv, Announced, Housed', StoredTypeOK',
         UNCHANGED <<caches, queue>>, wk' = Outdated
  PROVE  WakeupInv'
<1>1. CASE wk = Idle
  <2>1. wk' = Idle
    BY <1>1 DEF Outdated
  <2>2. Synced'
    BY SyncedKept DEF WakeupInv, caches
  <2>3. HousedCopies' /\ Copied'
    BY <2>1 DEF WakeupInv, HousedCopies, Copied, caches
  <2>4. Placed(wk') /\ Passed'
    BY <2>1 DEF Placed, Passed, Idle
  <2>5. ASSUME NEW n \in Names PROVE Awake(n)'
    <3>1. crs[n] # Absent => Alarm(n) \/ (~crs[n].deleting /\ Converged(n))
      BY <1>1 DEF WakeupInv, Awake, Busy
    <3>2. QED
      BY <3>1, RestKept DEF WakeupInv, Awake
  <2>6. QED
    BY <2>2, <2>3, <2>4, <2>5 DEF WakeupInv
<1>2. CASE wk # Idle
  <2>1. wk \in Reconciling /\ wk.name \in Names
    BY <1>2 DEF Inv, GoodWorker, Reconciling
  <2>2. /\ wk' \in Reconciling
        /\ wk'.name = wk.name /\ wk'.rl = wk.rl /\ wk'.pc = wk.pc
        /\ wk'.idx = wk.idx /\ wk'.entries = wk.entries
        /\ wk'.stale = wk.stale \/ wk'.stale
        /\ crs'[wk.name] # crs[wk.name] => wk'.stale
        /\ wk'.stale /\ ~wk.stale => crs'[wk.name] # crs[wk.name]
    <3>1. CASE wk' = wk /\ crs'[wk.name] = crs[wk.name]
      BY <2>1, <3>1
    <3>2. CASE wk' = [wk EXCEPT !.stale = TRUE] /\ crs'[wk.name] # crs[wk.name]
      BY <2>1, <3>2 DEF Reconciling
    <3>3. QED
      BY <1>2, <3>1, <3>2 DEF Outdated
  <2>3. wk' # Idle
    BY <2>2, NotIdle
  <2>4. Synced'
    BY SyncedKept DEF WakeupInv, caches
  <2>5. HousedCopies'
    BY <1>2, <2>2 DEF WakeupInv, HousedCopies, caches
  <2>6. Copied'
    <3>1. crs'[wk.name] = crs[wk.name] \/ wk.name \in crLag'
      BY <2>1 DEF Announced
    <3>2. QED
      BY <1>2, <2>2, <3>1 DEF WakeupInv, Copied, Announced
  <2>7. Placed(wk')
    BY <2>2 DEF WakeupInv, Placed
  <2>8. Passed'
    BY <2>1, <2>2, PassedKept DEF Passed
  <2>9. ASSUME NEW n \in Names PROVE Awake(n)'
    <3>1. CASE n = wk.name
      BY <2>2, <2>3, <3>1 DEF Awake, Busy
    <3>2. CASE n # wk.name
      <4>1. crs[n] # Absent => Alarm(n) \/ (~crs[n].deleting /\ Converged(n))
        BY <3>2 DEF WakeupInv, Awake, Busy
      <4>2. QED
        BY <4>1, RestKept DEF WakeupInv, Awake
    <3>3. QED
      BY <3>1, <3>2
  <2>10. QED
    BY <2>4, <2>5, <2>6, <2>7, <2>8, <2>9 DEF WakeupInv
<1>3. QED
  BY <1>1, <1>2

-----------------------------------------------------------------------------
(* The steps of the worker. *)

\* What every step of the worker is proved from.
Working ==
  /\ Exclusive /\ Inv /\ Inv' /\ WakeupInv /\ UNCHANGED <<caches, uids>>

(***************************************************************************)
(* What is known in the middle of a reconcile.                             *)
(***************************************************************************)
LEMMA AtWork ==
  ASSUME Inv, WakeupInv, wk.pc \in Steps
  PROVE  /\ wk \in Reconciling /\ wk # Idle
         /\ wk.name \in Names /\ wk.rl \in CR
         /\ wk.rl.targets \in Choices[wk.name]
         /\ StoredTypeOK /\ Housed
<1>1. wk # Idle
  BY DEF Idle, Steps
<1>2. wk \in Reconciling
  BY <1>1 DEF Inv, GoodWorker
<1>3. QED
  BY <1>1, <1>2
  DEF Reconciling, WakeupInv, HousedCopies, Inv, ClusterTypeOK

(***************************************************************************)
(* A step that reads only.                                                 *)
(***************************************************************************)
LEMMA ReadAnnounced ==
  ASSUME Housed, UNCHANGED stored
  PROVE  Announced /\ Housed'
BY QuietAnnounced DEF stored

(***************************************************************************)
(* reconcileDelete's loop, the half where nothing is to be met.            *)
(***************************************************************************)
LEMMA DeleteQuotaWakes ==
  ASSUME Working, DeleteQuota
  PROVE  WakeupInv'
<1>1. wk.pc = "delete" /\ wk.pc \in Steps
  BY DEF DeleteQuota, Steps
<1>2. /\ wk \in Reconciling /\ wk.name \in Names /\ target.ns \in Namespaces
      /\ StoredTypeOK /\ Housed /\ StoredTypeOK'
  BY <1>1, AtWork, TargetOK DEF Working, Inv, ClusterTypeOK
<1>3. \/ UNCHANGED stored
      \/ QuotaWritten(target.ns, Absent)
  BY DEF DeleteQuota, Call
<1>4. Announced /\ Housed'
  BY <1>2, <1>3, ReadAnnounced, QuotaAnnounced DEF QuotaWritten
<1>5. crs' = crs
  BY <1>3 DEF stored, QuotaWritten
<1>6. wk.rl.deleting /\ Finalizer \in wk.rl.finalizers
  BY <1>1 DEF Working, WakeupInv, Placed
<1>7. CASE Requeue
  BY <1>2, <1>4, <1>7, Requeued DEF Working
<1>8. CASE Proceed(NextTarget)
  <2>1. wk.idx + 1 \in Nat \ {0}
    BY <1>2 DEF Reconciling
  <2>2. /\ wk' \in Reconciling /\ wk'.name = wk.name /\ wk'.rl = wk.rl
        /\ wk'.stale = wk.stale /\ Placed(wk')
        /\ wk'.pc \in {"delete", "release"}
    BY <1>2, <1>6, <1>8, <2>1, VisitPlaced DEF Proceed, NextTarget
  <2>3. Passed'
    BY <2>2 DEF Passed
  <2>4. QED
    BY <1>2, <1>4, <1>5, <1>8, <2>2, <2>3, Ongoing DEF Working, Proceed
<1>9. CASE Proceed([wk EXCEPT !.pc = "unlabel"])
  <2>1. /\ wk' \in Reconciling /\ wk'.name = wk.name /\ wk'.rl = wk.rl
        /\ wk'.stale = wk.stale /\ wk'.pc = "unlabel"
    BY <1>2, <1>9 DEF Proceed, Reconciling, Steps
  <2>2. Placed(wk') /\ Passed'
    BY <1>6, <2>1 DEF Placed, Passed
  <2>3. QED
    BY <1>2, <1>4, <1>5, <1>9, <2>1, <2>2, Ongoing DEF Working, Proceed
<1>10. QED
  BY <1>7, <1>8, <1>9 DEF DeleteQuota, Call

(***************************************************************************)
(* The labels taken off, which is no event to the CR.                      *)
(***************************************************************************)
LEMMA RemoveLabelsWakes ==
  ASSUME Working, RemoveLabels
  PROVE  WakeupInv'
<1>1. wk.pc = "unlabel" /\ wk.pc \in Steps
  BY DEF RemoveLabels, Steps
<1>2. /\ wk \in Reconciling /\ wk.name \in Names /\ target.ns \in Namespaces
      /\ StoredTypeOK /\ Housed /\ StoredTypeOK'
  BY <1>1, AtWork, TargetOK DEF Working, Inv, ClusterTypeOK
<1>3. UNCHANGED stored \/ NSWritten(target.ns, "plain")
  BY DEF RemoveLabels, Call
<1>4. UNCHANGED <<crs, quotas, quotaEvents, crLag>>
  BY <1>3 DEF stored, NSWritten
<1>5. Announced /\ Housed'
  BY <1>2, <1>4, QuietAnnounced
<1>6. wk.rl.deleting /\ Finalizer \in wk.rl.finalizers
  BY <1>1 DEF Working, WakeupInv, Placed
<1>7. CASE Requeue
  BY <1>2, <1>5, <1>7, Requeued DEF Working
<1>8. CASE Proceed(NextTarget)
  <2>1. wk.idx + 1 \in Nat \ {0}
    BY <1>2 DEF Reconciling
  <2>2. /\ wk' \in Reconciling /\ wk'.name = wk.name /\ wk'.rl = wk.rl
        /\ wk'.stale = wk.stale /\ Placed(wk')
        /\ wk'.pc \in {"delete", "release"}
    BY <1>2, <1>6, <1>8, <2>1, VisitPlaced DEF Proceed, NextTarget
  <2>3. Passed'
    BY <2>2 DEF Passed
  <2>4. QED
    BY <1>2, <1>4, <1>5, <1>8, <2>2, <2>3, Ongoing DEF Working, Proceed
<1>9. QED
  BY <1>7, <1>8 DEF RemoveLabels, Call

(***************************************************************************)
(* The finalizer given up: if that changes nothing, the worker's copy was  *)
(* an old one.                                                             *)
(***************************************************************************)
LEMMA ReleaseFinalizerWakes ==
  ASSUME Working, ReleaseFinalizer
  PROVE  WakeupInv'
<1> DEFINE newrl == [wk.rl EXCEPT !.finalizers = @ \ {Finalizer}]
           rl == Patched(crs[wk.name], wk.rl, newrl)
<1>1. wk.pc = "release" /\ wk.pc \in Steps
  BY DEF ReleaseFinalizer, Steps
<1>2. /\ wk \in Reconciling /\ wk # Idle /\ wk.name \in Names /\ wk.rl \in CR
      /\ StoredTypeOK /\ Housed /\ StoredTypeOK'
      /\ crs[wk.name] \in CR \cup {Absent}
  BY <1>1, AtWork DEF Working, Inv, ClusterTypeOK, StoredTypeOK
<1>3. Finalizer \in wk.rl.finalizers
  BY <1>1 DEF Working, WakeupInv, Placed
<1>4. /\ newrl.finalizers # wk.rl.finalizers
      /\ Finalizer \notin newrl.finalizers
  BY <1>2, <1>3 DEF CR
<1>5. \/ UNCHANGED stored
      \/ crs[wk.name] # Absent /\ CRWritten(wk.name, rl)
  BY DEF ReleaseFinalizer, Call, PatchAccepted
<1>6. crs[wk.name] # Absent =>
        rl = Absent \/ (rl.targets = crs[wk.name].targets
                        /\ rl.finalizers = newrl.finalizers)
  <2> HIDE DEF newrl
  <2>1. crs[wk.name] # Absent =>
          [crs[wk.name] EXCEPT !.finalizers = newrl.finalizers].targets
            = crs[wk.name].targets
    BY <1>2 DEF CR
  <2>2. crs[wk.name] # Absent =>
          [crs[wk.name] EXCEPT !.finalizers = newrl.finalizers].finalizers
            = newrl.finalizers
    BY <1>2 DEF CR
  <2>3. QED
    BY <1>4, <2>1, <2>2 DEF Patched, Reap
<1> HIDE DEF rl
<1>7. Announced /\ Housed'
  <2>1. CASE UNCHANGED stored
    BY <1>2, <2>1, ReadAnnounced
  <2>2. CASE crs[wk.name] # Absent /\ CRWritten(wk.name, rl)
    <3>1. rl # Absent => rl.targets \in Choices[wk.name]
      BY <1>2, <1>6, <2>2 DEF Housed
    <3>2. QED
      BY <1>2, <2>2, <3>1, CRAnnounced
  <2>3. QED
    BY <1>5, <2>1, <2>2
<1>8. CASE Requeue
  BY <1>2, <1>7, <1>8, Requeued DEF Working
<1>9. CASE /\ crs[wk.name] # Absent /\ CRWritten(wk.name, rl)
           /\ wk' = Idle /\ UNCHANGED queue
  <2>1. wk.name \in crLag' \cup queue'
    <3>1. CASE rl = crs[wk.name]
      <4>1. crs[wk.name] # wk.rl
        BY <1>4, <1>6, <1>9, <3>1
      <4>2. wk.name \in crLag \cup queue
        BY <1>2, <4>1 DEF Working, WakeupInv, Copied
      <4>3. QED
        BY <1>7, <1>9, <4>2 DEF Announced
    <3>2. CASE rl # crs[wk.name]
      BY <1>9, <3>2 DEF CRWritten
    <3>3. QED
      BY <3>1, <3>2
  <2>2. PICK n \in Names : wk.name = n
    BY <1>2
  <2>3. Alarm(n)'
    BY <2>1, <2>2 DEF Alarm
  <2>4. QED
    BY <1>2, <1>7, <1>9, <2>2, <2>3, Ended DEF Working
<1>10. QED
  BY <1>8, <1>9 DEF ReleaseFinalizer, Call, Proceed, PatchAccepted, rl

(***************************************************************************)
(* The finalizer's registration: a patch between an object and itself.     *)
(***************************************************************************)
LEMMA RegisterFinalizerWakes ==
  ASSUME Working, RegisterFinalizer
  PROVE  WakeupInv'
<1>1. wk.pc = "register" /\ wk.pc \in Steps
  BY DEF RegisterFinalizer, Steps
<1>2. /\ wk \in Reconciling /\ wk.name \in Names
      /\ StoredTypeOK /\ Housed /\ StoredTypeOK'
  BY <1>1, AtWork DEF Working, Inv, ClusterTypeOK
<1>3. \/ UNCHANGED stored
      \/ CRWritten(wk.name, crs[wk.name])
  BY DEF RegisterFinalizer, Call, Patched
<1>4. UNCHANGED <<crs, quotas, quotaEvents, crLag>>
  BY <1>2, <1>3 DEF stored, CRWritten, StoredTypeOK
<1>5. Announced /\ Housed'
  BY <1>2, <1>4, QuietAnnounced
<1>6. CASE Requeue
  BY <1>2, <1>5, <1>6, Requeued DEF Working
<1>7. CASE Proceed([wk EXCEPT !.pc = "refetch"])
  <2>1. /\ wk' \in Reconciling /\ wk'.name = wk.name /\ wk'.rl = wk.rl
        /\ wk'.stale = wk.stale /\ wk'.pc = "refetch"
    BY <1>2, <1>7 DEF Proceed, Reconciling, Steps
  <2>2. Placed(wk') /\ Passed'
    BY <2>1 DEF Placed, Passed
  <2>3. QED
    BY <1>2, <1>4, <1>5, <1>7, <2>1, <2>2, Ongoing DEF Working, Proceed
<1>8. QED
  BY <1>6, <1>7 DEF RegisterFinalizer, Call

(***************************************************************************)
(* A reconcile begins, or begins again after a refetch: nothing is behind  *)
(* the worker, and its copy is old only while an event is on the way.      *)
(***************************************************************************)
LEMMA DispatchedPlaced ==
  ASSUME Inv, NEW n \in Names, ccrs[n] # Absent,
         ccrs[n].deleting => Finalizer \in ccrs[n].finalizers
  PROVE  /\ Dispatched(n) \in Reconciling /\ Placed(Dispatched(n))
         /\ Dispatched(n).name = n /\ Dispatched(n).rl = ccrs[n]
         /\ Dispatched(n).stale = (n \in crLag)
         /\ Dispatched(n).pc \in {"label", "limit", "stop", "status"} =>
              \A Q : Suits(Q, ccrs[n],
                           Behind(ccrs[n], Dispatched(n).idx),
                           Dispatched(n).entries)
<1> DEFINE f == Fetched(n, "label")
           g == Fetched(n, "release")
<1>1. /\ f \in Reconciling /\ f.name = n /\ f.rl = ccrs[n]
      /\ f.stale = (n \in crLag) /\ f.entries = {}
  BY FetchedOK DEF Inv, ClusterTypeOK, Fetched
<1>2. /\ g \in Reconciling /\ g.name = n /\ g.rl = ccrs[n]
      /\ g.stale = (n \in crLag) /\ g.pc = "release"
  BY FetchedOK DEF Inv, ClusterTypeOK, Fetched
<1>3. ccrs[n] \in CR
  BY DEF Inv, ClusterTypeOK, CachesTypeOK
<1>4. CASE ccrs[n].deleting /\ ccrs[n].state = "stopped"
  <2>1. Dispatched(n) = g
    BY <1>4 DEF Dispatched
  <2>2. Placed(g)
    BY <1>2, <1>4 DEF Placed
  <2> HIDE DEF g
  <2>3. QED
    BY <1>2, <2>1, <2>2
<1>5. CASE ~(ccrs[n].deleting /\ ccrs[n].state = "stopped")
  <2>1. Dispatched(n) = Visit(f, 1)
    BY <1>5 DEF Dispatched
  <2> HIDE DEF f
  <2>2. /\ Placed(Visit(f, 1)) /\ Visit(f, 1) \in Reconciling
        /\ Visit(f, 1).name = n /\ Visit(f, 1).rl = ccrs[n]
        /\ Visit(f, 1).stale = (n \in crLag) /\ Visit(f, 1).idx = 1
        /\ Visit(f, 1).entries = {}
    BY <1>1, VisitPlaced
  <2>3. \A Q : Suits(Q, ccrs[n], {}, {})
    BY DEF Suits
  <2>4. QED
    BY <1>3, <2>1, <2>2, <2>3, BehindNothing
<1>6. QED
  BY <1>4, <1>5

(***************************************************************************)
(* Reconcile reading the CR again: the copy it had is forgotten.           *)
(***************************************************************************)
LEMMA RefetchWakes ==
  ASSUME Working, Refetch
  PROVE  WakeupInv'
<1>1. wk.pc = "refetch" /\ wk.pc \in Steps
  BY DEF Refetch, Steps
<1>2. /\ wk \in Reconciling /\ wk.name \in Names
      /\ StoredTypeOK /\ Housed /\ StoredTypeOK'
  BY <1>1, AtWork DEF Working, Inv, ClusterTypeOK
<1>3. Announced /\ Housed' /\ UNCHANGED stored
  BY <1>2, ReadAnnounced DEF Refetch
<1>4. CASE Requeue
  BY <1>2, <1>3, <1>4, Requeued DEF Working
<1>5. CASE /\ ccrs[wk.name] # Absent
           /\ ccrs[wk.name].deleting => Finalizer \in ccrs[wk.name].finalizers
           /\ Proceed(Dispatched(wk.name))
  <2>1. PICK n \in Names : wk.name = n
    BY <1>2
  <2>2. /\ wk' \in Reconciling /\ Placed(wk') /\ wk'.name = n
        /\ wk'.rl = ccrs[n] /\ wk'.stale = (n \in crLag)
        /\ Passed'
    BY <1>5, <2>1, DispatchedPlaced DEF Working, Proceed, Passed
  <2>3. wk' # Idle
    BY <2>2, NotIdle
  <2>4. Synced'
    BY <1>3, SyncedKept DEF Working, WakeupInv, caches
  <2>5. HousedCopies'
    BY <1>5, <2>1, <2>2 DEF Working, WakeupInv, HousedCopies, caches
  <2>6. Copied'
    BY <1>3, <2>2 DEF Working, WakeupInv, Copied, Synced, stored
  <2>7. ASSUME NEW m \in Names PROVE Awake(m)'
    <3>1. CASE m = n
      BY <2>2, <2>3, <3>1 DEF Awake, Busy
    <3>2. CASE m # n
      <4>1. crs[m] # Absent => Alarm(m) \/ (~crs[m].deleting /\ Converged(m))
        BY <2>1, <3>2 DEF Working, WakeupInv, Awake, Busy
      <4>2. queue \subseteq queue'
        BY <1>5 DEF Proceed
      <4>3. QED
        BY <1>2, <1>3, <4>1, <4>2, RestKept DEF Working, Awake
    <3>3. QED
      BY <3>1, <3>2
  <2>8. QED
    BY <1>3, <2>2, <2>4, <2>5, <2>6, <2>7 DEF WakeupInv
<1>6. QED
  BY <1>4, <1>5 DEF Refetch

(***************************************************************************)
(* A name taken from the queue: the CR is in the worker's hands instead.   *)
(***************************************************************************)
LEMMA StartWakes ==
  ASSUME Working, NEW n \in Names, Start(n)
  PROVE  WakeupInv'
<1>1. /\ StoredTypeOK /\ Housed /\ StoredTypeOK'
  BY DEF Working, Inv, ClusterTypeOK, WakeupInv
<1>2. Announced /\ Housed' /\ UNCHANGED stored /\ wk = Idle
  BY <1>1, ReadAnnounced DEF Start, Reconcile
<1>3. CASE UNCHANGED <<wk, queue>>
  BY <1>1, <1>2, <1>3, Overtaken DEF Working, Outdated
<1>4. CASE /\ ccrs[n] # Absent
           /\ wk' = IF Finalizer \in ccrs[n].finalizers THEN Dispatched(n)
                    ELSE Fetched(n, "register")
           /\ queue' = queue \ {n}
  <2>1. /\ wk' \in Reconciling /\ Placed(wk') /\ wk'.name = n
        /\ wk'.rl = ccrs[n] /\ wk'.stale = (n \in crLag)
        /\ Passed'
    <3>1. CASE Finalizer \in ccrs[n].finalizers
      BY <1>4, <3>1, DispatchedPlaced DEF Working, Passed
    <3>2. CASE Finalizer \notin ccrs[n].finalizers
      <4>1. wk' \in Reconciling /\ wk'.pc = "register"
        BY <1>4, <3>2, FetchedOK DEF Working, Inv, ClusterTypeOK
      <4>2. wk'.name = n /\ wk'.rl = ccrs[n] /\ wk'.stale = (n \in crLag)
        BY <1>4, <3>2 DEF Fetched
      <4>3. QED
        BY <4>1, <4>2 DEF Placed, Passed
    <3>3. QED
      BY <3>1, <3>2
  <2>2. wk' # Idle
    BY <2>1, NotIdle
  <2>3. Synced'
    BY <1>2, SyncedKept DEF Working, WakeupInv, caches
  <2>4. HousedCopies'
    BY <1>4, <2>1 DEF Working, WakeupInv, HousedCopies, caches
  <2>5. Copied'
    BY <1>2, <2>1 DEF Working, WakeupInv, Copied, Synced, stored
  <2>6. ASSUME NEW m \in Names PROVE Awake(m)'
    <3>1. CASE m = n
      BY <2>1, <2>2, <3>1 DEF Awake, Busy
    <3>2. CASE m # n
      <4>1. crs[m] # Absent => Alarm(m) \/ (~crs[m].deleting /\ Converged(m))
        BY <1>2 DEF Working, WakeupInv, Awake, Busy
      <4>2. Alarm(m) => Alarm(m)'
        BY <1>2, <1>4, <3>2 DEF Alarm, stored
      <4>3. crs'[m] = crs[m] /\ (Converged(m) => Converged(m)')
        BY <1>2 DEF stored, Converged, Met, Report
      <4>4. QED
        BY <4>1, <4>2, <4>3 DEF Awake
    <3>3. QED
      BY <3>1, <3>2
  <2>7. QED
    BY <1>2, <2>1, <2>3, <2>4, <2>5, <2>6 DEF WakeupInv
<1>5. QED
  BY <1>3, <1>4 DEF Start, Reconcile

(***************************************************************************)
(* The loop of reconcile goes on to the next target, with what is behind.  *)
(***************************************************************************)
LEMMA NextWakes ==
  ASSUME Working, Announced, Housed', UNCHANGED <<queue, crs>>,
         wk.pc \in {"label", "limit", "stop"}, NEW entries \in SUBSET Entry,
         wk' = [NextTarget EXCEPT !.entries = entries],
         NEW n \in Names, wk.name = n,
         Alarm(n)' \/ Suits(quotas', wk.rl, Behind(wk.rl, wk.idx + 1), entries)
  PROVE  WakeupInv'
<1>1. /\ wk \in Reconciling /\ StoredTypeOK'
  BY AtWork DEF Working, Inv, ClusterTypeOK, Steps
<1>2. ~wk.rl.deleting
  BY DEF Working, WakeupInv, Placed
<1>3. wk.idx + 1 \in Nat \ {0}
  BY <1>1 DEF Reconciling
<1>4. /\ NextTarget \in Reconciling /\ Placed(NextTarget)
      /\ NextTarget.name = n /\ NextTarget.rl = wk.rl
      /\ NextTarget.stale = wk.stale /\ NextTarget.idx = wk.idx + 1
  BY <1>1, <1>2, <1>3, VisitPlaced DEF NextTarget
<1>5. /\ wk' \in Reconciling /\ wk'.pc = NextTarget.pc /\ wk'.name = n
      /\ wk'.rl = wk.rl /\ wk'.stale = wk.stale /\ wk'.idx = wk.idx + 1
      /\ wk'.entries = entries
  BY <1>4 DEF Reconciling
<1>6. Placed(wk')
  BY <1>4, <1>5 DEF Placed
<1>7. Passed'
  BY <1>5 DEF Passed
<1>8. QED
  BY <1>1, <1>5, <1>6, <1>7, Ongoing DEF Working

(***************************************************************************)
(* The namespace labelled or skipped: what is behind stays as it was.      *)
(***************************************************************************)
LEMMA LabelNamespaceWakes ==
  ASSUME Working, LabelNamespace
  PROVE  WakeupInv'
<1>1. wk.pc = "label" /\ wk.pc \in Steps
  BY DEF LabelNamespace, Steps
<1>2. /\ wk \in Reconciling /\ wk.name \in Names /\ wk.rl \in CR
      /\ StoredTypeOK /\ Housed /\ StoredTypeOK'
      /\ NextTarget \in Reconciling
  BY <1>1, AtWork, TargetOK DEF Working, Inv, ClusterTypeOK
<1>3. UNCHANGED stored \/ NSWritten(target.ns, "labelled")
  BY DEF LabelNamespace, Call
<1>4. UNCHANGED <<crs, quotas, quotaEvents, crLag>>
  BY <1>3 DEF stored, NSWritten
<1>5. Announced /\ Housed'
  BY <1>2, <1>4, QuietAnnounced
<1>6. ~wk.rl.deleting
  BY <1>1 DEF Working, WakeupInv, Placed
<1>7. CASE Requeue
  BY <1>2, <1>5, <1>7, Requeued DEF Working
<1>8. ASSUME UNCHANGED queue
      PROVE  \E n \in Names :
               /\ n = wk.name
               /\ \/ Alarm(n)'
                  \/ Suits(quotas', wk.rl, Behind(wk.rl, wk.idx), wk.entries)
  BY <1>1, <1>2, <1>5, <1>8, PassedKept DEF Working
<1>9. CASE target.ns \in Ignored /\ Proceed(NextTarget)
  <2>1. wk.idx \in 1..Len(wk.rl.targets)
    BY <1>1 DEF Working, Inv, GoodWorker
  <2>2. Behind(wk.rl, wk.idx + 1) = Behind(wk.rl, wk.idx)
    BY <1>2, <1>9, <2>1, BehindNext DEF target
  <2>3. PICK n \in Names :
          /\ n = wk.name
          /\ \/ Alarm(n)'
             \/ Suits(quotas', wk.rl, Behind(wk.rl, wk.idx), wk.entries)
    BY <1>8, <1>9 DEF Proceed
  <2>4. wk.entries \in SUBSET Entry
    BY <1>2 DEF Reconciling
  <2>5. wk' = [NextTarget EXCEPT !.entries = wk.entries]
    BY <1>2, <1>9 DEF Proceed, NextTarget, Visit, Reconciling
  <2>6. QED
    BY <1>1, <1>4, <1>5, <1>9, <2>2, <2>3, <2>4, <2>5, NextWakes DEF Proceed
<1>10. CASE Proceed([wk EXCEPT !.pc = IF wk.rl.applied THEN "limit" ELSE "stop"])
  <2>1. /\ wk' \in Reconciling /\ wk'.name = wk.name /\ wk'.rl = wk.rl
        /\ wk'.stale = wk.stale /\ wk'.idx = wk.idx /\ wk'.entries = wk.entries
        /\ wk'.pc = IF wk.rl.applied THEN "limit" ELSE "stop"
    BY <1>2, <1>10 DEF Proceed, Reconciling, Steps
  <2>2. Placed(wk')
    BY <1>6, <2>1 DEF Placed
  <2>3. Passed'
    BY <1>8, <1>10, <2>1 DEF Passed, Proceed
  <2>4. QED
    BY <1>2, <1>4, <1>5, <1>10, <2>1, <2>2, <2>3, Ongoing DEF Working, Proceed
<1>11. QED
  BY <1>7, <1>9, <1>10 DEF LabelNamespace, Call

(***************************************************************************)
(* The quota created: reconcile returns, counting on the event.            *)
(***************************************************************************)
LEMMA CreateQuotaWakes ==
  ASSUME Working, CreateQuota
  PROVE  WakeupInv'
<1> DEFINE q == [owner |-> wk.name, uid |-> wk.rl.uid,
                 hard |-> target.hard, used |-> 0]
<1>1. wk.pc = "limit" /\ wk.pc \in Steps
  BY DEF CreateQuota, Steps
<1>2. /\ wk \in Reconciling /\ wk.name \in Names /\ wk.rl \in CR
      /\ wk.rl.targets \in Choices[wk.name]
      /\ StoredTypeOK /\ Housed /\ StoredTypeOK'
      /\ target \in Target /\ target.ns \in Namespaces
      /\ wk.idx \in 1..Len(wk.rl.targets)
  BY <1>1, AtWork, TargetOK DEF Working, Inv, ClusterTypeOK, GoodWorker
<1>3. q \in Quota
  BY <1>2, NamesAssumption DEF CreateQuota, Quota, CR, Target
<1>4. target.ns \in Home(wk.name)
  BY <1>2 DEF target, Home
<1>5. q.owner = wk.name
  OBVIOUS
<1>6. \/ UNCHANGED stored
      \/ quotas[target.ns] = Absent /\ QuotaWritten(target.ns, q)
  BY DEF CreateQuota, Call
<1> HIDE DEF q
<1>7. Announced /\ Housed'
  BY <1>2, <1>3, <1>4, <1>5, <1>6, ReadAnnounced, QuotaAnnounced DEF QuotaWritten
<1>8. CASE Requeue
  BY <1>2, <1>7, <1>8, Requeued DEF Working
<1>9. CASE /\ quotas[target.ns] = Absent /\ QuotaWritten(target.ns, q)
           /\ Proceed(Idle)
  <2>1. q # Absent
    BY <1>3, AbsentAssumption
  <2>2. wk.name \in Owners({quotas[target.ns], q})
    BY <1>5, <2>1 DEF Owners
  <2>3. wk.name \in quotaEvents'[target.ns]
    BY <1>2, <1>9, <2>1, <2>2 DEF QuotaWritten, StoredTypeOK
  <2>4. PICK n \in Names : wk.name = n
    BY <1>2
  <2>5. Alarm(n)'
    BY <1>2, <2>3, <2>4 DEF Alarm
  <2>6. QED
    BY <1>2, <1>7, <1>9, <2>4, <2>5, Ended DEF Working, Proceed
<1>10. QED
  BY <1>8, <1>9 DEF CreateQuota, Call, q

(***************************************************************************)
(* The quota updated: if that changes it, there is an event; if not, it is *)
(* as wanted, and the copy from which the status is made is no old one.    *)
(***************************************************************************)
LEMMA UpdateQuotaWakes ==
  ASSUME Working, UpdateQuota
  PROVE  WakeupInv'
<1> DEFINE s == target.ns
           q == [cquotas[s] EXCEPT !.hard = target.hard]
           e == [ns |-> s, used |-> cquotas[s].used, hard |-> target.hard]
<1>1. wk.pc = "limit" /\ wk.pc \in Steps
  BY DEF UpdateQuota, Steps
<1>2. /\ wk \in Reconciling /\ wk.name \in Names /\ wk.rl \in CR
      /\ wk.rl.targets \in Choices[wk.name] /\ wk.entries \in SUBSET Entry
      /\ StoredTypeOK /\ Housed /\ StoredTypeOK' /\ Synced
      /\ target \in Target /\ s \in Namespaces /\ target.hard \in Hards
      /\ NextTarget \in Reconciling
      /\ wk.idx \in 1..Len(wk.rl.targets)
      /\ target.ns \notin Ignored /\ wk.rl.applied
  BY <1>1, AtWork, TargetOK
  DEF Working, Inv, ClusterTypeOK, GoodWorker, Reconciling, WakeupInv, Placed, target
<1>3. cquotas[s] \in Quota
  BY <1>2 DEF UpdateQuota, Working, Inv, ClusterTypeOK, CachesTypeOK
<1>4. q \in Quota /\ q.hard = target.hard /\ q.owner = cquotas[s].owner
      /\ q.used = cquotas[s].used /\ e \in Entry
  BY <1>2, <1>3 DEF UpdateQuota, Quota, Entry
<1>5. s \in Home(wk.name)
  BY <1>2 DEF target, Home
<1>6. \/ UNCHANGED stored
      \/ quotaEvents[s] = {} /\ QuotaWritten(s, q)
  BY DEF UpdateQuota, Call
<1>7. Requeue \/ (/\ quotaEvents[s] = {} /\ QuotaWritten(s, q)
                  /\ Proceed([NextTarget EXCEPT !.entries = @ \cup {e}]))
  BY DEF UpdateQuota, Call
<1> HIDE DEF s, q, e
<1>8. quotaEvents[s] = {} => cquotas[s] = quotas[s] /\ s \in Home(q.owner)
  BY <1>2, <1>3, <1>4, AbsentAssumption DEF Synced, Housed
<1>9. Announced /\ Housed'
  BY <1>2, <1>4, <1>6, <1>8, ReadAnnounced, QuotaAnnounced DEF QuotaWritten
<1>10. CASE Requeue
  BY <1>2, <1>9, <1>10, Requeued DEF Working
<1>11. CASE /\ quotaEvents[s] = {} /\ QuotaWritten(s, q)
            /\ Proceed([NextTarget EXCEPT !.entries = @ \cup {e}])
  <2>1. PICK n \in Names :
          /\ n = wk.name
          /\ \/ Alarm(n)'
             \/ Suits(quotas', wk.rl, Behind(wk.rl, wk.idx), wk.entries)
    BY <1>1, <1>2, <1>9, <1>11, PassedKept DEF Working, Proceed
  <2>2. Behind(wk.rl, wk.idx + 1) = Behind(wk.rl, wk.idx) \cup {target}
    BY <1>2, BehindNext DEF target
  <2>3. quotas'[s] = q
    BY <1>2, <1>11 DEF QuotaWritten, StoredTypeOK
  <2>4. \/ Alarm(n)'
        \/ Suits(quotas', wk.rl, Behind(wk.rl, wk.idx + 1), wk.entries \cup {e})
    <3>1. CASE q = quotas[s]
      <4>1. /\ quotas'[s] # Absent /\ quotas'[s].hard = target.hard
            /\ e = [ns |-> target.ns, used |-> quotas'[target.ns].used,
                    hard |-> target.hard]
        BY <1>4, <2>3, AbsentAssumption DEF e, s
      <4>2. QED
        BY <1>2, <2>1, <2>2, <4>1 DEF Suits, s
    <3>2. CASE q # quotas[s]
      BY <1>2, <1>5, <1>9, <2>1, <2>3, <3>2, QuotaHeard DEF Working
    <3>3. QED
      BY <3>1, <3>2
  <2>5. wk.entries \cup {e} \in SUBSET Entry
    BY <1>2, <1>4
  <2>6. wk' = [NextTarget EXCEPT !.entries = wk.entries \cup {e}]
    BY <1>2, <1>11 DEF Proceed, NextTarget, Visit, Reconciling
  <2>7. UNCHANGED <<queue, crs>>
    BY <1>11 DEF Proceed, QuotaWritten
  <2>8. QED
    BY <1>1, <1>9, <2>1, <2>4, <2>5, <2>6, <2>7, NextWakes
<1>12. QED
  BY <1>7, <1>10, <1>11

(***************************************************************************)
(* The quota deleted, which is an event, or found gone: then it is, or the *)
(* event of its coming is on the way.                                      *)
(***************************************************************************)
LEMMA StopQuotaWakes ==
  ASSUME Working, StopQuota
  PROVE  WakeupInv'
<1> DEFINE s == target.ns
<1>1. wk.pc = "stop" /\ wk.pc \in Steps
  BY DEF StopQuota, Steps
<1>2. /\ wk \in Reconciling /\ wk.name \in Names /\ wk.rl \in CR
      /\ wk.rl.targets \in Choices[wk.name] /\ wk.entries \in SUBSET Entry
      /\ StoredTypeOK /\ Housed /\ StoredTypeOK' /\ Synced
      /\ target \in Target /\ s \in Namespaces
      /\ NextTarget \in Reconciling
      /\ wk.idx \in 1..Len(wk.rl.targets)
      /\ target.ns \notin Ignored /\ ~wk.rl.applied
  BY <1>1, AtWork, TargetOK
  DEF Working, Inv, ClusterTypeOK, GoodWorker, Reconciling, WakeupInv, Placed, target
<1>3. s \in Home(wk.name)
  BY <1>2 DEF target, Home
<1>4. \/ Requeue /\ (UNCHANGED stored \/ QuotaWritten(s, Absent))
      \/ Proceed(NextTarget) /\ cquotas[s] = Absent /\ UNCHANGED stored
      \/ Proceed(NextTarget) /\ quotas[s] # Absent /\ QuotaWritten(s, Absent)
  BY DEF StopQuota, Call
<1>5. wk' = NextTarget => wk' = [NextTarget EXCEPT !.entries = wk.entries]
  BY <1>2 DEF NextTarget, Visit, Reconciling
<1> HIDE DEF s
<1>6. Announced /\ Housed' /\ crs' = crs
  <2>1. CASE UNCHANGED stored
    BY <1>2, <2>1, ReadAnnounced DEF stored
  <2>2. CASE QuotaWritten(s, Absent)
    BY <1>2, <2>2, QuotaAnnounced DEF QuotaWritten
  <2>3. QED
    BY <1>4, <2>1, <2>2
<1>7. CASE Requeue
  BY <1>2, <1>6, <1>7, Requeued DEF Working
<1>8. CASE /\ Proceed(NextTarget)
           /\ \/ cquotas[s] = Absent /\ UNCHANGED stored
              \/ quotas[s] # Absent /\ QuotaWritten(s, Absent)
  <2>1. PICK n \in Names :
          /\ n = wk.name
          /\ \/ Alarm(n)'
             \/ Suits(quotas', wk.rl, Behind(wk.rl, wk.idx), wk.entries)
    BY <1>1, <1>2, <1>6, <1>8, PassedKept DEF Working, Proceed
  <2>2. Behind(wk.rl, wk.idx + 1) = Behind(wk.rl, wk.idx) \cup {target}
    BY <1>2, BehindNext DEF target
  <2>3. Alarm(n)' \/ quotas'[s] = Absent
    <3>1. CASE QuotaWritten(s, Absent)
      BY <1>2, <3>1 DEF QuotaWritten, StoredTypeOK
    <3>2. CASE UNCHANGED stored /\ quotaEvents[s] = {} /\ cquotas[s] = Absent
      BY <1>2, <3>2 DEF Synced, stored
    <3>3. CASE UNCHANGED stored /\ quotaEvents[s] # {}
      <4>1. Alarm(n)
        BY <1>2, <1>3, <2>1, <3>3, EventHeard DEF Working
      <4>2. QED
        BY <1>6, <1>8, <4>1, AlarmKept DEF Proceed
    <3>4. QED
      BY <1>8, <3>1, <3>2, <3>3
  <2>4. \/ Alarm(n)'
        \/ Suits(quotas', wk.rl, Behind(wk.rl, wk.idx + 1), wk.entries)
    BY <1>2, <2>1, <2>2, <2>3 DEF Suits, s
  <2>5. QED
    BY <1>1, <1>2, <1>5, <1>6, <1>8, <2>1, <2>4, NextWakes DEF Proceed
<1>9. QED
  BY <1>4, <1>7, <1>8

(***************************************************************************)
(* The status updated from a copy that is the latest: it says what is, or  *)
(* the CR comes again.                                                     *)
(***************************************************************************)
LEMMA UpdateStatusWakes ==
  ASSUME Working, UpdateStatus
  PROVE  WakeupInv'
<1> DEFINE rl == [wk.rl EXCEPT
                    !.state = IF wk.rl.applied THEN "ready" ELSE "stopped",
                    !.quotas = wk.entries]
<1>1. wk.pc = "status" /\ wk.pc \in Steps
  BY DEF UpdateStatus, Steps
<1>2. /\ wk \in Reconciling /\ wk # Idle /\ wk.name \in Names /\ wk.rl \in CR
      /\ wk.rl.targets \in Choices[wk.name] /\ wk.entries \in SUBSET Entry
      /\ StoredTypeOK /\ Housed /\ StoredTypeOK'
      /\ wk.idx \in Nat /\ wk.idx > Len(wk.rl.targets) /\ ~wk.rl.deleting
  BY <1>1, AtWork DEF Working, Inv, ClusterTypeOK, Reconciling, WakeupInv, Placed
<1>3. /\ rl.targets = wk.rl.targets /\ rl.applied = wk.rl.applied
      /\ rl.deleting = wk.rl.deleting /\ rl.quotas = wk.entries
      /\ rl.state = IF wk.rl.applied THEN "ready" ELSE "stopped"
  BY <1>2 DEF CR
<1>4. UNCHANGED stored \/ CRWritten(wk.name, rl)
  BY DEF UpdateStatus, Call
<1>5. Requeue \/ (CRWritten(wk.name, rl) /\ Proceed(Idle))
  BY DEF UpdateStatus, Call
<1> HIDE DEF rl
<1>6. Announced /\ Housed'
  BY <1>2, <1>3, <1>4, ReadAnnounced, CRAnnounced
<1>7. CASE Requeue
  BY <1>2, <1>6, <1>7, Requeued DEF Working
<1>8. CASE CRWritten(wk.name, rl) /\ Proceed(Idle)
  <2>1. PICK n \in Names :
          /\ n = wk.name
          /\ \/ Alarm(n)'
             \/ Suits(quotas', wk.rl, Behind(wk.rl, wk.idx), wk.entries)
    BY <1>1, <1>2, <1>6, <1>8, PassedKept DEF Working, Proceed
  <2>2. Behind(wk.rl, wk.idx) = Wanted(wk.rl)
    BY <1>2, BehindWanted
  <2>3. crs'[n] = rl
    BY <1>2, <1>8, <2>1 DEF CRWritten, StoredTypeOK
  <2>4. Wanted(rl) = Wanted(wk.rl)
    BY <1>3 DEF Wanted
  <2>5. Suits(quotas', wk.rl, Wanted(wk.rl), wk.entries) => Converged(n)'
    BY <1>3, <2>3, <2>4 DEF Suits, Converged, Met, Report
  <2>6. Alarm(n)' \/ (~crs'[n].deleting /\ Converged(n)')
    BY <1>2, <1>3, <2>1, <2>2, <2>3, <2>5
  <2>7. QED
    BY <1>2, <1>6, <1>8, <2>1, <2>6, Ended DEF Working, Proceed
<1>9. QED
  BY <1>5, <1>7, <1>8

-----------------------------------------------------------------------------
(* Everybody else. *)

(***************************************************************************)
(* A new process lists everything and takes every CR.                      *)
(***************************************************************************)
LEMMA RelistWakes ==
  ASSUME WakeupInv, Relist, wk' = Idle
  PROVE  WakeupInv'
<1>1. Synced'
  BY DEF Relist, Synced
<1>2. Housed'
  <2>1. \A s \in Namespaces : quotaEvents'[s] = {}
    BY DEF Relist
  <2>2. QED
    BY <2>1 DEF Relist, Housed, WakeupInv
<1>3. HousedCopies' /\ Copied'
  BY DEF Relist, Housed, HousedCopies, Copied, WakeupInv
<1>4. Placed(wk') /\ Passed'
  BY DEF Placed, Passed, Idle
<1>5. ASSUME NEW n \in Names PROVE Awake(n)'
  BY DEF Relist, Awake, Alarm
<1>6. QED
  BY <1>1, <1>2, <1>3, <1>4, <1>5 DEF WakeupInv

(***************************************************************************)
(* An event handled leaves its CR in the queue, and the copy up to date.   *)
(***************************************************************************)
LEMMA DeliverWakes ==
  ASSUME Inv, WakeupInv, Deliver, wk' = Outdated
  PROVE  WakeupInv'
<1>1. UNCHANGED <<crs, quotas, wk>>
  BY DEF Deliver, DeliverCR, DeliverNamespace, DeliverQuota, Outdated
<1>2. /\ crLag \subseteq Names /\ ccrs \in [Names -> CR \cup {Absent}]
      /\ cquotas \in [Namespaces -> Quota \cup {Absent}]
      /\ quotaEvents \in [Namespaces -> SUBSET Names]
  BY DEF Inv, ClusterTypeOK, StoredTypeOK, CachesTypeOK
<1>3. /\ queue \subseteq queue' /\ crLag \subseteq crLag' \cup queue'
      /\ \A s \in Namespaces : /\ quotaEvents'[s] \subseteq quotaEvents[s]
                               /\ quotaEvents[s] \subseteq quotaEvents'[s] \cup queue'
  BY <1>2 DEF Deliver, DeliverCR, DeliverNamespace, DeliverQuota
<1>4. Synced'
  <2>1. ASSUME NEW n \in Names, DeliverCR(n) PROVE Synced'
    BY <1>2, <2>1 DEF DeliverCR, Synced, WakeupInv
  <2>2. ASSUME NEW s \in Namespaces, DeliverNamespace(s) PROVE Synced'
    BY <2>2 DEF DeliverNamespace, Synced, WakeupInv
  <2>3. ASSUME NEW s \in Namespaces, DeliverQuota(s) PROVE Synced'
    BY <1>2, <2>3 DEF DeliverQuota, Synced, WakeupInv
  <2>4. QED
    BY <2>1, <2>2, <2>3 DEF Deliver
<1>5. Housed'
  BY <1>1, <1>3 DEF Housed, WakeupInv
<1>6. HousedCopies'
  <2>1. \A n \in Names : ccrs'[n] = ccrs[n] \/ ccrs'[n] = crs[n]
    BY <1>2 DEF Deliver, DeliverCR, DeliverNamespace, DeliverQuota
  <2>2. QED
    BY <1>1, <2>1 DEF HousedCopies, Housed, WakeupInv
<1>7. Copied'
  BY <1>1, <1>3 DEF Copied, WakeupInv
<1>8. \A n \in Names : Alarm(n) => Alarm(n)'
  BY <1>3 DEF Alarm
<1>9. Placed(wk')
  BY <1>1 DEF WakeupInv
<1>10. Passed'
  <2>1. CASE wk = Idle
    BY <1>1, <2>1 DEF Passed, Idle
  <2>2. CASE wk # Idle
    <3>1. PICK n \in Names : wk.name = n
      BY <2>2 DEF Inv, GoodWorker, Reconciling
    <3>2. QED
      BY <1>1, <1>8, <3>1 DEF Passed, WakeupInv
  <2>3. QED
    BY <2>1, <2>2
<1>11. ASSUME NEW n \in Names PROVE Awake(n)'
  <2>1. Converged(n) => Converged(n)'
    BY <1>1 DEF Converged, Met, Report
  <2>2. QED
    BY <1>1, <1>8, <2>1 DEF Awake, Busy, WakeupInv
<1>12. QED
  BY <1>4, <1>5, <1>6, <1>7, <1>9, <1>10, <1>11 DEF WakeupInv

(***************************************************************************)
(* The garbage collector's writes are announced like any other.            *)
(***************************************************************************)
LEMMA CollectAnnounced ==
  ASSUME StoredTypeOK, Housed, Collect
  PROVE  Announced /\ Housed' /\ UNCHANGED <<caches, queue>>
<1>1. ASSUME NEW s \in Namespaces, CollectQuota(s)
      PROVE  Announced /\ Housed' /\ UNCHANGED <<caches, queue>>
  BY <1>1, QuotaAnnounced DEF CollectQuota, QuotaWritten
<1>2. ASSUME NEW n \in Names, EndForeground(n)
      PROVE  Announced /\ Housed' /\ UNCHANGED <<caches, queue>>
  <2> DEFINE rl == Reap([crs[n] EXCEPT !.finalizers = @ \ {Foreground}])
  <2>1. crs[n] \in CR /\ crs[n].targets \in Choices[n]
    BY <1>2 DEF EndForeground, StoredTypeOK, Housed
  <2>2. rl # Absent => rl.targets \in Choices[n]
    BY <2>1 DEF Reap, CR
  <2>3. CRWritten(n, rl) /\ UNCHANGED <<caches, queue>>
    BY <1>2 DEF EndForeground
  <2> HIDE DEF rl
  <2>4. QED
    BY <2>2, <2>3, CRAnnounced
<1>3. QED
  BY <1>1, <1>2 DEF Collect

(***************************************************************************)
(* So are those of users, and they give CRs no targets but their own.      *)
(***************************************************************************)
LEMMA UserOnCRAnnounced ==
  ASSUME StoredTypeOK, Housed, NEW n \in Names, UserOnCR(n)
  PROVE  Announced /\ Housed' /\ UNCHANGED <<caches, queue>>
<1>1. ASSUME NEW rl, CRWritten(n, rl), UNCHANGED <<caches, queue>>,
             rl # Absent => rl.targets \in Choices[n]
      PROVE  Announced /\ Housed' /\ UNCHANGED <<caches, queue>>
  BY <1>1, CRAnnounced
<1>2. crs[n] # Absent => crs[n] \in CR /\ crs[n].targets \in Choices[n]
  BY DEF StoredTypeOK, Housed
<1>3. ASSUME NEW targets \in Choices[n], NEW applied \in BOOLEAN,
             NEW f, CreateCR(n, targets, applied, f)
      PROVE  \E rl : /\ CRWritten(n, rl) /\ UNCHANGED <<caches, queue>>
                     /\ rl # Absent => rl.targets \in Choices[n]
  <2> DEFINE rl == [uid |-> uids', targets |-> targets, applied |-> applied,
                    deleting |-> FALSE, finalizers |-> f,
                    state |-> "", quotas |-> {}]
  <2>1. rl.targets = targets
    OBVIOUS
  <2>2. CRWritten(n, rl) /\ UNCHANGED <<caches, queue>>
    BY <1>3 DEF CreateCR, By
  <2> HIDE DEF rl
  <2>3. QED
    BY <2>1, <2>2
<1>4. ASSUME NEW targets \in Choices[n], NEW applied \in BOOLEAN,
             ChangeSpec(n, targets, applied)
      PROVE  \E rl : /\ CRWritten(n, rl) /\ UNCHANGED <<caches, queue>>
                     /\ rl # Absent => rl.targets \in Choices[n]
  <2> DEFINE rl == [crs[n] EXCEPT !.targets = targets, !.applied = applied]
  <2>1. rl.targets = targets
    BY <1>2, <1>4 DEF ChangeSpec, CR
  <2>2. CRWritten(n, rl) /\ UNCHANGED <<caches, queue>>
    BY <1>4 DEF ChangeSpec, By
  <2> HIDE DEF rl
  <2>3. QED
    BY <2>1, <2>2
<1>5. ASSUME NEW f, DeleteCR(n, f)
      PROVE  \E rl : /\ CRWritten(n, rl) /\ UNCHANGED <<caches, queue>>
                     /\ rl # Absent => rl.targets \in Choices[n]
  <2> DEFINE rl == Reap([crs[n] EXCEPT !.deleting = TRUE,
                                       !.finalizers = @ \cup f])
  <2>1. rl # Absent => rl.targets = crs[n].targets
    BY <1>2, <1>5 DEF DeleteCR, Reap, CR
  <2>2. CRWritten(n, rl) /\ UNCHANGED <<caches, queue>>
    BY <1>5 DEF DeleteCR, By
  <2> HIDE DEF rl
  <2>3. QED
    BY <1>2, <1>5, <2>1, <2>2 DEF DeleteCR
<1>6. QED
  BY <1>1, <1>3, <1>4, <1>5 DEF UserOnCR

(***************************************************************************)
(* Users' writes to quotas are announced to the owner, the deletion of a   *)
(* namespace with its quota included.                                      *)
(***************************************************************************)
LEMMA UserOnNamespaceAnnounced ==
  ASSUME StoredTypeOK, Housed, NEW s \in Namespaces, UserOnNamespace(s)
  PROVE  Announced /\ Housed' /\ UNCHANGED <<caches, queue>>
<1>1. CASE CreateNamespace(s) \/ TouchNamespace(s) \/ StripLabels(s)
  BY <1>1, QuietAnnounced
  DEF CreateNamespace, TouchNamespace, StripLabels, NSWritten, By
<1>2. CASE DeleteNamespace(s)
  <2>1. Owners({quotas[s]}) = Owners({quotas[s], Absent})
    BY DEF Owners
  <2>2. quotas[s] = Absent => Owners({quotas[s]}) = {}
    BY DEF Owners
  <2>3. quotaEvents' = IF Absent = quotas[s] THEN quotaEvents
          ELSE [quotaEvents EXCEPT ![s] = @ \cup Owners({quotas[s], Absent})]
    BY <1>2, <2>1, <2>2 DEF DeleteNamespace, StoredTypeOK
  <2>4. /\ quotas' = [quotas EXCEPT ![s] = Absent] /\ crs' = crs
        /\ crLag' = crLag /\ UNCHANGED <<caches, queue>>
    BY <1>2 DEF DeleteNamespace, By
  <2>5. QED
    BY <2>3, <2>4, QuotaAnnounced
<1>3. ASSUME NEW q \in Quota \cup {Absent}, QuotaWritten(s, q),
             q # Absent => quotas[s] # Absent /\ q.owner = quotas[s].owner,
             UNCHANGED <<caches, queue>>
      PROVE  Announced /\ Housed' /\ UNCHANGED <<caches, queue>>
  <2>1. q # Absent => s \in Home(q.owner)
    BY <1>3 DEF Housed
  <2>2. QED
    BY <1>3, <2>1, QuotaAnnounced DEF QuotaWritten
<1>4. quotas[s] # Absent => quotas[s] \in Quota
  BY DEF StoredTypeOK
<1>5. ASSUME NEW hard \in Hards \ BadHards, EditQuota(s, hard)
      PROVE  Announced /\ Housed' /\ UNCHANGED <<caches, queue>>
  <2> DEFINE q == [quotas[s] EXCEPT !.hard = hard]
  <2>1. q \in Quota /\ q.owner = quotas[s].owner
    BY <1>4, <1>5 DEF EditQuota, Quota
  <2>2. QuotaWritten(s, q) /\ quotas[s] # Absent /\ UNCHANGED <<caches, queue>>
    BY <1>5 DEF EditQuota, By
  <2> HIDE DEF q
  <2>3. QED
    BY <1>3, <2>1, <2>2
<1>6. CASE RemoveQuota(s)
  BY <1>3, <1>6 DEF RemoveQuota, By
<1>7. ASSUME NEW used \in Usage, UseQuota(s, used)
      PROVE  Announced /\ Housed' /\ UNCHANGED <<caches, queue>>
  <2> DEFINE q == [quotas[s] EXCEPT !.used = used]
  <2>1. q \in Quota /\ q.owner = quotas[s].owner
    BY <1>4, <1>7 DEF UseQuota, Quota
  <2>2. QuotaWritten(s, q) /\ quotas[s] # Absent /\ UNCHANGED <<caches, queue>>
    BY <1>7 DEF UseQuota, By
  <2> HIDE DEF q
  <2>3. QED
    BY <1>3, <2>1, <2>2
<1>8. QED
  BY <1>1, <1>2, <1>5, <1>6, <1>7 DEF UserOnNamespace

(***************************************************************************)
(* Nothing done by others goes unnoticed.                                  *)
(***************************************************************************)
LEMMA OutsideWakes ==
  ASSUME Exclusive, Inv, Inv', WakeupInv, Outside
  PROVE  WakeupInv'
<1>1. StoredTypeOK /\ StoredTypeOK' /\ Housed
  BY DEF Inv, ClusterTypeOK, WakeupInv
<1>2. CASE Deliver
  BY <1>2, DeliverWakes DEF Outside
<1>3. CASE Collect \/ User
  <2>1. Announced /\ Housed' /\ UNCHANGED <<caches, queue>>
    BY <1>1, <1>3, CollectAnnounced, UserOnCRAnnounced, UserOnNamespaceAnnounced
    DEF User
  <2>2. QED
    BY <1>1, <2>1, Overtaken DEF Outside
<1>4. QED
  BY <1>2, <1>3 DEF Outside

-----------------------------------------------------------------------------
(* The theorem. *)

(***************************************************************************)
(* When no two CRs are given a namespace in common, the invariant holds at *)
(* the start and after every step of the worker, the process, the          *)
(* informers, the garbage collector and the users.                         *)
(***************************************************************************)
LEMMA WakeupInit == Init => WakeupInv
<1> SUFFICES ASSUME Init PROVE WakeupInv
  OBVIOUS
<1>1. Synced /\ Housed /\ HousedCopies /\ Copied
  BY DEF Init, ClusterInit, Synced, Housed, HousedCopies, Copied
<1>2. Placed(wk) /\ Passed
  BY DEF Init, Placed, Passed, Idle
<1>3. \A n \in Names : Awake(n)
  BY DEF Init, ClusterInit, Awake
<1>4. QED
  BY <1>1, <1>2, <1>3 DEF WakeupInv

(***************************************************************************)
(* Every step keeps the invariant.                                         *)
(***************************************************************************)
LEMMA WakeupStep ==
  ASSUME Exclusive, Inv, WakeupInv, [Next]_vars
  PROVE  WakeupInv'
<1>1. Inv'
  BY InvStep
<1>2. CASE \E n \in Names : Start(n)
  BY <1>1, <1>2, StartWakes DEF Working, Start
<1>3. CASE WorkerStep
  <2>1. Working
    BY <1>1, <1>3 DEF Working, WorkerStep
  <2>2. QED
    BY <1>3, <2>1, RegisterFinalizerWakes, RefetchWakes, DeleteQuotaWakes,
       RemoveLabelsWakes, ReleaseFinalizerWakes, LabelNamespaceWakes,
       CreateQuotaWakes, UpdateQuotaWakes, StopQuotaWakes, UpdateStatusWakes
    DEF WorkerStep
<1>4. CASE Panic \/ Crash
  BY <1>4, RelistWakes DEF Panic, Crash
<1>5. CASE Outside
  BY <1>1, <1>5, OutsideWakes
<1>6. CASE UNCHANGED vars
  <2>1. /\ StoredTypeOK /\ StoredTypeOK' /\ Housed /\ wk' = wk
        /\ UNCHANGED <<stored, caches, queue>>
    BY <1>1, <1>6 DEF vars, clusterVars, Inv, ClusterTypeOK, WakeupInv
  <2>2. Announced /\ Housed'
    BY <2>1, ReadAnnounced
  <2>3. wk' = Outdated
    BY <2>1 DEF Outdated, stored
  <2>4. QED
    BY <2>1, <2>2, <2>3, Overtaken
<1>7. QED
  BY <1>2, <1>3, <1>4, <1>5, <1>6 DEF Next

(***************************************************************************)
(* No wakeup is missed: a CR that differs from what the cluster or its     *)
(* status says is being reconciled or will be, through every interleaving  *)
(* of the worker with lagging caches, merged events, lost replies, crashes *)
(* and other writers.                                                      *)
(***************************************************************************)
THEOREM WakeupSafe == Spec => []NoMissedWakeup
<1>1. Init => (Exclusive => WakeupInv)
  BY WakeupInit
<1>2. Inv /\ (Exclusive => WakeupInv) /\ [Next]_vars => (Exclusive => WakeupInv)'
  <2> SUFFICES ASSUME Inv, Exclusive => WakeupInv, [Next]_vars, Exclusive
               PROVE  WakeupInv'
    BY DEF Exclusive, Home
  <2>1. QED
    BY WakeupStep
<1>3. (Exclusive => WakeupInv) => NoMissedWakeup
  BY DEF WakeupInv, Awake, NoMissedWakeup
<1>4. QED
  BY <1>1, <1>2, <1>3, InvInit, InvStep, PTL DEF Spec

-----------------------------------------------------------------------------
(* Who owns a quota has it as it wants it, CRs that share namespaces or    *)
(* name one twice included.                                                *)

\* A copy differs from what is stored only while an event for the owners of
\* both is on its way.
Told ==
  /\ \A n \in Names : n \notin crLag => ccrs[n] = crs[n]
  /\ \A s \in Namespaces :
       cquotas[s] = quotas[s] \/ Owners({quotas[s], cquotas[s]}) \subseteq quotaEvents[s]

\* Those quotas of the targets T that are rl's are as it wants them.
Obeyed(Q, n, rl, T) ==
  \A t \in T : Q[t.ns] # Absent /\ Q[t.ns].owner = n /\ Q[t.ns].uid = rl.uid =>
    rl.applied /\ Q[t.ns].hard = t.hard

\* What reconcile has gone past obeys, or it will come again.
Gone ==
  wk.pc \in {"label", "limit", "stop", "status"} =>
    Alarm(wk.name) \/ Obeyed(quotas, wk.name, wk.rl, Behind(wk.rl, wk.idx))

Content(n) ==
  crs[n] # Absent /\ ~crs[n].deleting =>
    Alarm(n) \/ Obeyed(quotas, n, crs[n], Wanted(crs[n]))

OwnerInv ==
  /\ Told /\ Copied /\ Placed(wk) /\ Gone
  /\ \A n \in Names : Busy(n) \/ Content(n)

\* Every write is announced to the owners of what it changes.
Informed ==
  /\ crLag \subseteq crLag'
  /\ \A n \in Names : crs'[n] = crs[n] \/ n \in crLag'
  /\ \A s \in Namespaces :
       /\ quotaEvents[s] \subseteq quotaEvents'[s]
       /\ \/ quotas'[s] = quotas[s]
          \/ Owners({quotas[s], quotas'[s]}) \subseteq quotaEvents'[s]

(***************************************************************************)
(* A write to a CR is an event of the CR.                                  *)
(***************************************************************************)
LEMMA CRInformed ==
  ASSUME StoredTypeOK, NEW n \in Names, NEW rl, CRWritten(n, rl)
  PROVE  Informed
<1>1. crs \in [Names -> CR \cup {Absent}]
  BY DEF StoredTypeOK
<1>2. crLag \subseteq crLag' /\ \A m \in Names : crs'[m] = crs[m] \/ m \in crLag'
  BY <1>1 DEF CRWritten
<1>3. QED
  BY <1>2 DEF CRWritten, Informed

(***************************************************************************)
(* A step that writes neither CRs nor quotas concerns no CR.               *)
(***************************************************************************)
LEMMA QuietInformed ==
  ASSUME UNCHANGED <<crs, crLag, quotas, quotaEvents>>
  PROVE  Informed
BY DEF Informed

(***************************************************************************)
(* A write to a quota is an event of the owners before and after it.       *)
(***************************************************************************)
LEMMA QuotaInformed ==
  ASSUME StoredTypeOK, NEW s \in Namespaces, NEW q, UNCHANGED <<crs, crLag>>,
         quotas' = [quotas EXCEPT ![s] = q],
         quotaEvents' = IF q = quotas[s] THEN quotaEvents
           ELSE [quotaEvents EXCEPT ![s] = @ \cup Owners({quotas[s], q})]
  PROVE  Informed
<1>1. /\ quotas \in [Namespaces -> Quota \cup {Absent}]
      /\ quotaEvents \in [Namespaces -> SUBSET Names]
  BY DEF StoredTypeOK
<1>2. ASSUME NEW r \in Namespaces
      PROVE  /\ quotaEvents[r] \subseteq quotaEvents'[r]
             /\ \/ quotas'[r] = quotas[r]
                \/ Owners({quotas[r], quotas'[r]}) \subseteq quotaEvents'[r]
  BY <1>1
<1>3. QED
  BY <1>2 DEF Informed

(***************************************************************************)
(* Writes of which the owners are informed leave no copy wrong unnoticed.  *)
(***************************************************************************)
LEMMA ToldKept ==
  ASSUME Told, Informed, UNCHANGED <<ccrs, cquotas>>
  PROVE  Told'
<1>1. ASSUME NEW n \in Names, n \notin crLag' PROVE ccrs'[n] = crs'[n]
  BY <1>1 DEF Told, Informed
<1>2. ASSUME NEW s \in Namespaces
      PROVE  \/ cquotas'[s] = quotas'[s]
             \/ Owners({quotas'[s], cquotas'[s]}) \subseteq quotaEvents'[s]
  <2>1. \/ cquotas[s] = quotas[s]
        \/ Owners({quotas[s], cquotas[s]}) \subseteq quotaEvents'[s]
    BY DEF Told, Informed
  <2>2. \/ quotas'[s] = quotas[s]
        \/ Owners({quotas[s], quotas'[s]}) \subseteq quotaEvents'[s]
    BY DEF Informed
  <2>3. QED
    BY <2>1, <2>2 DEF Owners
<1>3. QED
  BY <1>1, <1>2 DEF Told

(***************************************************************************)
(* An event that is pending stays so, and so does a name in the queue.     *)
(***************************************************************************)
LEMMA AlarmInformed ==
  ASSUME Informed, queue \subseteq queue', NEW n, Alarm(n)
  PROVE  Alarm(n)'
BY DEF Informed, Alarm

(***************************************************************************)
(* Quotas that obey go on to, or their owner hears of it.                  *)
(***************************************************************************)
LEMMA ObeyedKept ==
  ASSUME Informed, NEW n, NEW rl, NEW T \in SUBSET Target,
         Obeyed(quotas, n, rl, T)
  PROVE  Alarm(n)' \/ Obeyed(quotas', n, rl, T)
<1> SUFFICES ASSUME NEW t \in T, quotas'[t.ns] # Absent, quotas'[t.ns].owner = n,
                    quotas'[t.ns].uid = rl.uid, ~Alarm(n)'
             PROVE  rl.applied /\ quotas'[t.ns].hard = t.hard
  BY DEF Obeyed
<1>1. t.ns \in Namespaces
  BY DEF Target
<1>2. n \in Owners({quotas[t.ns], quotas'[t.ns]})
  BY DEF Owners
<1>3. quotas'[t.ns] = quotas[t.ns]
  BY <1>1, <1>2 DEF Informed, Alarm
<1>4. QED
  BY <1>3 DEF Obeyed

(***************************************************************************)
(* A CR that is content stays so or hears of what changed.                 *)
(***************************************************************************)
LEMMA ContentKept ==
  ASSUME Informed, queue \subseteq queue', NEW n \in Names, Content(n)
  PROVE  Content(n)'
<1>1. CASE crs'[n] # crs[n]
  BY <1>1 DEF Informed, Content, Alarm
<1>2. CASE Alarm(n)
  BY <1>2, AlarmInformed DEF Content
<1>3. CASE crs'[n] = crs[n] /\ Obeyed(quotas, n, crs[n], Wanted(crs[n]))
  <2>1. Wanted(crs[n]) \subseteq Target
    BY DEF Wanted
  <2>2. Alarm(n)' \/ Obeyed(quotas', n, crs[n], Wanted(crs[n]))
    BY <1>3, <2>1, ObeyedKept
  <2>3. QED
    BY <1>3, <2>2 DEF Content
<1>4. QED
  BY <1>1, <1>2, <1>3 DEF Content

(***************************************************************************)
(* What the worker has gone past stays as it was, or its CR hears of it.   *)
(***************************************************************************)
LEMMA GoneKept ==
  ASSUME OwnerInv, Informed, queue \subseteq queue', NEW n, wk.name = n,
         wk.pc \in {"label", "limit", "stop", "status"}
  PROVE  Alarm(n)' \/ Obeyed(quotas', n, wk.rl, Behind(wk.rl, wk.idx))
<1>1. Behind(wk.rl, wk.idx) \subseteq Target
  BY DEF Behind
<1>2. Alarm(n) \/ Obeyed(quotas, n, wk.rl, Behind(wk.rl, wk.idx))
  BY DEF OwnerInv, Gone
<1>3. CASE Alarm(n)
  BY <1>3, AlarmInformed
<1>4. CASE Obeyed(quotas, n, wk.rl, Behind(wk.rl, wk.idx))
  <2>1. \A rl, T : T \in SUBSET Target /\ Obeyed(quotas, n, rl, T) =>
          Alarm(n)' \/ Obeyed(quotas', n, rl, T)
    BY ObeyedKept
  <2>2. QED
    BY <1>1, <1>4, <2>1
<1>5. QED
  BY <1>2, <1>3, <1>4

(***************************************************************************)
(* The worker goes on with its CR.                                         *)
(***************************************************************************)
LEMMA OwnerOngoing ==
  ASSUME OwnerInv, Informed, UNCHANGED <<caches, queue>>,
         wk \in Reconciling, wk' \in Reconciling,
         wk'.name = wk.name, wk'.rl = wk.rl, wk'.stale = wk.stale,
         crs'[wk.name] = crs[wk.name], Placed(wk'), Gone'
  PROVE  OwnerInv'
<1>1. wk # Idle /\ wk' # Idle
  BY NotIdle
<1>2. Told'
  BY ToldKept DEF OwnerInv, caches
<1>3. Copied'
  BY <1>1 DEF OwnerInv, Copied, Informed
<1>4. ASSUME NEW n \in Names PROVE Busy(n)' \/ Content(n)'
  BY <1>1, ContentKept DEF OwnerInv, Busy
<1>5. QED
  BY <1>2, <1>3, <1>4 DEF OwnerInv

(***************************************************************************)
(* The worker is done with its CR, which is content.                       *)
(***************************************************************************)
LEMMA OwnerEnded ==
  ASSUME OwnerInv, Informed, UNCHANGED caches, queue \subseteq queue', wk' = Idle,
         NEW n \in Names, wk.name = n, Content(n)'
  PROVE  OwnerInv'
<1>1. Told'
  BY ToldKept DEF OwnerInv, caches
<1>2. Copied' /\ Placed(wk') /\ Gone'
  BY DEF Copied, Placed, Gone, Idle
<1>3. ASSUME NEW m \in Names PROVE Content(m)'
  <2>1. CASE m = n
    BY <2>1
  <2>2. CASE m # n
    BY <2>2, ContentKept DEF OwnerInv, Busy
  <2>3. QED
    BY <2>1, <2>2
<1>4. QED
  BY <1>1, <1>2, <1>3 DEF OwnerInv

(***************************************************************************)
(* The worker gives up on an error, and the CR comes again.                *)
(***************************************************************************)
LEMMA OwnerRequeued ==
  ASSUME OwnerInv, Informed, UNCHANGED caches, wk \in Reconciling, Requeue
  PROVE  OwnerInv'
<1>1. PICK n \in Names : wk.name = n
  BY DEF Reconciling
<1>2. Content(n)' /\ queue \subseteq queue' /\ wk' = Idle
  BY <1>1 DEF Requeue, Content, Alarm
<1>3. QED
  BY <1>1, <1>2, OwnerEnded

(***************************************************************************)
(* Somebody else writes to the cluster.                                    *)
(***************************************************************************)
LEMMA OwnerOvertaken ==
  ASSUME Inv, OwnerInv, Informed, UNCHANGED <<caches, queue>>, wk' = Outdated
  PROVE  OwnerInv'
<1>1. Told'
  BY ToldKept DEF OwnerInv, caches
<1>2. CASE wk = Idle
  <2>1. wk' = Idle
    BY <1>2 DEF Outdated
  <2>2. Copied' /\ Placed(wk') /\ Gone'
    BY <2>1 DEF Copied, Placed, Gone, Idle
  <2>3. ASSUME NEW n \in Names PROVE Content(n)'
    BY <1>2, ContentKept DEF OwnerInv, Busy
  <2>4. QED
    BY <1>1, <2>2, <2>3 DEF OwnerInv
<1>3. CASE wk # Idle
  <2>1. wk \in Reconciling
    BY <1>3 DEF Inv, GoodWorker
  <2>2. PICK n \in Names : wk.name = n
    BY <2>1 DEF Reconciling
  <2>3. /\ wk' \in Reconciling
        /\ wk'.name = wk.name /\ wk'.rl = wk.rl /\ wk'.pc = wk.pc
        /\ wk'.idx = wk.idx
        /\ wk'.stale = wk.stale \/ wk'.stale
        /\ crs'[wk.name] # crs[wk.name] => wk'.stale
        /\ wk'.stale /\ ~wk.stale => crs'[wk.name] # crs[wk.name]
    <3>1. CASE wk' = wk /\ crs'[wk.name] = crs[wk.name]
      BY <2>1, <3>1
    <3>2. CASE wk' = [wk EXCEPT !.stale = TRUE] /\ crs'[wk.name] # crs[wk.name]
      BY <2>1, <3>2 DEF Reconciling
    <3>3. QED
      BY <1>3, <3>1, <3>2 DEF Outdated
  <2>4. wk' # Idle
    BY <2>3, NotIdle
  <2>5. Copied'
    <3>1. crs'[wk.name] = crs[wk.name] \/ wk.name \in crLag'
      BY <2>2 DEF Informed
    <3>2. QED
      BY <1>3, <2>3, <3>1 DEF OwnerInv, Copied, Informed
  <2>6. Placed(wk')
    BY <2>3 DEF OwnerInv, Placed
  <2>7. Gone'
    BY <2>2, <2>3, GoneKept DEF Gone
  <2>8. ASSUME NEW m \in Names PROVE Busy(m)' \/ Content(m)'
    BY <2>3, <2>4, ContentKept DEF OwnerInv, Busy
  <2>9. QED
    BY <1>1, <2>5, <2>6, <2>7, <2>8 DEF OwnerInv
<1>4. QED
  BY <1>2, <1>3

-----------------------------------------------------------------------------
(* The owner's steps of the worker. *)

\* What every step of the worker is proved from.
OwnerWorking ==
  /\ Inv /\ Inv' /\ OwnerInv /\ UNCHANGED <<caches, uids>>

(***************************************************************************)
(* What is known in the middle of a reconcile.                             *)
(***************************************************************************)
LEMMA OwnerAtWork ==
  ASSUME Inv, wk.pc \in Steps
  PROVE  /\ wk \in Reconciling /\ wk # Idle
         /\ wk.name \in Names /\ wk.rl \in CR /\ wk.idx \in Nat
         /\ wk.entries \in SUBSET Entry /\ StoredTypeOK
<1>1. wk # Idle
  BY DEF Idle, Steps
<1>2. wk \in Reconciling
  BY <1>1 DEF Inv, GoodWorker
<1>3. QED
  BY <1>1, <1>2 DEF Reconciling, Inv, ClusterTypeOK

(***************************************************************************)
(* The worker's turn in reconcileDelete's loop, where quotas only go.      *)
(***************************************************************************)
LEMMA DeleteStepOwner ==
  ASSUME OwnerWorking, DeleteQuota \/ RemoveLabels
  PROVE  OwnerInv'
<1>1. wk.pc \in {"delete", "unlabel"} /\ wk.pc \in Steps
  BY DEF DeleteQuota, RemoveLabels, Steps
<1>2. /\ wk \in Reconciling /\ wk.name \in Names /\ target.ns \in Namespaces
      /\ StoredTypeOK
  <2>1. wk \in Reconciling /\ wk.name \in Names /\ StoredTypeOK
    BY <1>1, OwnerAtWork DEF OwnerWorking
  <2>2. target.ns \in Namespaces
    BY <1>1, TargetOK DEF OwnerWorking, Inv
  <2>3. QED
    BY <2>1, <2>2
<1>3. \/ UNCHANGED stored
      \/ QuotaWritten(target.ns, Absent)
      \/ NSWritten(target.ns, "plain")
  BY DEF DeleteQuota, RemoveLabels, Call
<1>4. Informed /\ crs' = crs
  <2>1. CASE UNCHANGED stored \/ NSWritten(target.ns, "plain")
    BY <2>1, QuietInformed DEF stored, NSWritten
  <2>2. CASE QuotaWritten(target.ns, Absent)
    BY <1>2, <2>2, QuotaInformed DEF QuotaWritten
  <2>3. QED
    BY <1>3, <2>1, <2>2
<1>5. wk.rl.deleting /\ Finalizer \in wk.rl.finalizers
  BY <1>1 DEF OwnerWorking, OwnerInv, Placed
<1>6. CASE Requeue
  BY <1>2, <1>4, <1>6, OwnerRequeued DEF OwnerWorking
<1>7. CASE Proceed(NextTarget)
  <2>1. wk.idx + 1 \in Nat \ {0}
    BY <1>2 DEF Reconciling
  <2>2. /\ wk' \in Reconciling /\ wk'.name = wk.name /\ wk'.rl = wk.rl
        /\ wk'.stale = wk.stale /\ Placed(wk')
        /\ wk'.pc \in {"delete", "release"}
    BY <1>2, <1>5, <1>7, <2>1, VisitPlaced DEF Proceed, NextTarget
  <2>3. Gone'
    BY <2>2 DEF Gone
  <2>4. QED
    BY <1>2, <1>4, <1>7, <2>2, <2>3, OwnerOngoing DEF OwnerWorking, Proceed
<1>8. CASE Proceed([wk EXCEPT !.pc = "unlabel"])
  <2>1. /\ wk' \in Reconciling /\ wk'.name = wk.name /\ wk'.rl = wk.rl
        /\ wk'.stale = wk.stale /\ wk'.pc = "unlabel"
    BY <1>2, <1>8 DEF Proceed, Reconciling, Steps
  <2>2. Placed(wk') /\ Gone'
    BY <1>5, <2>1 DEF Placed, Gone
  <2>3. QED
    BY <1>2, <1>4, <1>8, <2>1, <2>2, OwnerOngoing DEF OwnerWorking, Proceed
<1>9. QED
  BY <1>6, <1>7, <1>8 DEF DeleteQuota, RemoveLabels, Call

(***************************************************************************)
(* The finalizer given up: if that changes nothing, the worker's copy was  *)
(* an old one.                                                             *)
(***************************************************************************)
LEMMA ReleaseFinalizerOwner ==
  ASSUME OwnerWorking, ReleaseFinalizer
  PROVE  OwnerInv'
<1> DEFINE newrl == [wk.rl EXCEPT !.finalizers = @ \ {Finalizer}]
           rl == Patched(crs[wk.name], wk.rl, newrl)
<1>1. wk.pc = "release" /\ wk.pc \in Steps
  BY DEF ReleaseFinalizer, Steps
<1>2. /\ wk \in Reconciling /\ wk # Idle /\ wk.name \in Names /\ wk.rl \in CR
      /\ StoredTypeOK /\ crs[wk.name] \in CR \cup {Absent}
  BY <1>1, OwnerAtWork DEF OwnerWorking, StoredTypeOK
<1>3. Finalizer \in wk.rl.finalizers
  BY <1>1 DEF OwnerWorking, OwnerInv, Placed
<1>4. /\ newrl.finalizers # wk.rl.finalizers
      /\ Finalizer \notin newrl.finalizers
  BY <1>2, <1>3 DEF CR
<1>5. \/ Requeue /\ UNCHANGED stored
      \/ /\ crs[wk.name] # Absent /\ CRWritten(wk.name, rl)
         /\ Requeue \/ Proceed(Idle)
  BY DEF ReleaseFinalizer, Call, PatchAccepted
<1>6. crs[wk.name] # Absent => rl = Absent \/ rl.finalizers = newrl.finalizers
  <2> HIDE DEF newrl
  <2>1. crs[wk.name] # Absent =>
          [crs[wk.name] EXCEPT !.finalizers = newrl.finalizers].finalizers
            = newrl.finalizers
    BY <1>2 DEF CR
  <2>2. QED
    BY <1>4, <2>1 DEF Patched, Reap
<1> HIDE DEF rl
<1>7. Informed
  BY <1>2, <1>5, QuietInformed, CRInformed DEF stored
<1>8. CASE Requeue
  BY <1>2, <1>7, <1>8, OwnerRequeued DEF OwnerWorking
<1>9. CASE /\ crs[wk.name] # Absent /\ CRWritten(wk.name, rl)
           /\ wk' = Idle /\ UNCHANGED queue
  <2>1. wk.name \in crLag' \cup queue'
    <3>1. CASE rl = crs[wk.name]
      <4>1. crs[wk.name] # wk.rl
        BY <1>4, <1>6, <1>9, <3>1
      <4>2. wk.name \in crLag \cup queue
        BY <1>2, <4>1 DEF OwnerWorking, OwnerInv, Copied
      <4>3. QED
        BY <1>7, <1>9, <4>2 DEF Informed
    <3>2. CASE rl # crs[wk.name]
      BY <1>9, <3>2 DEF CRWritten
    <3>3. QED
      BY <3>1, <3>2
  <2>2. PICK n \in Names : wk.name = n
    BY <1>2
  <2>3. Content(n)'
    BY <2>1, <2>2 DEF Content, Alarm
  <2>4. QED
    BY <1>7, <1>9, <2>2, <2>3, OwnerEnded DEF OwnerWorking
<1>10. QED
  BY <1>5, <1>8, <1>9 DEF Proceed

(***************************************************************************)
(* The finalizer's registration changes nothing.                           *)
(***************************************************************************)
LEMMA RegisterFinalizerOwner ==
  ASSUME OwnerWorking, RegisterFinalizer
  PROVE  OwnerInv'
<1>1. wk.pc = "register" /\ wk.pc \in Steps
  BY DEF RegisterFinalizer, Steps
<1>2. wk \in Reconciling /\ wk.name \in Names /\ StoredTypeOK
  BY <1>1, OwnerAtWork DEF OwnerWorking
<1>3. \/ UNCHANGED stored
      \/ CRWritten(wk.name, crs[wk.name])
  BY DEF RegisterFinalizer, Call, Patched
<1>4. UNCHANGED <<crs, quotas, quotaEvents, crLag>>
  BY <1>2, <1>3 DEF stored, CRWritten, StoredTypeOK
<1>5. Informed
  BY <1>4, QuietInformed
<1>6. CASE Requeue
  BY <1>2, <1>5, <1>6, OwnerRequeued DEF OwnerWorking
<1>7. CASE Proceed([wk EXCEPT !.pc = "refetch"])
  <2>1. /\ wk' \in Reconciling /\ wk'.name = wk.name /\ wk'.rl = wk.rl
        /\ wk'.stale = wk.stale /\ wk'.pc = "refetch"
    BY <1>2, <1>7 DEF Proceed, Reconciling, Steps
  <2>2. Placed(wk') /\ Gone'
    BY <2>1 DEF Placed, Gone
  <2>3. QED
    BY <1>2, <1>4, <1>5, <1>7, <2>1, <2>2, OwnerOngoing DEF OwnerWorking, Proceed
<1>8. QED
  BY <1>6, <1>7 DEF RegisterFinalizer, Call

(***************************************************************************)
(* A reconcile begins, or begins again after a refetch, with nothing that  *)
(* it has gone past and the CR as the cache has it.                        *)
(***************************************************************************)
LEMMA BeginOwner ==
  ASSUME Inv, Inv', OwnerInv, UNCHANGED <<stored, caches>>, NEW n \in Names, ccrs[n] # Absent,
         wk = Idle \/ wk.name = n, queue \ {n} \subseteq queue',
         \/ /\ wk' = Dispatched(n)
            /\ ccrs[n].deleting => Finalizer \in ccrs[n].finalizers
         \/ wk' = Fetched(n, "register")
  PROVE  OwnerInv'
<1>1. /\ wk' \in Reconciling /\ Placed(wk') /\ wk'.name = n
      /\ wk'.rl = ccrs[n] /\ wk'.stale = (n \in crLag)
      /\ Gone'
  <2>1. CASE wk' = Fetched(n, "register")
    <3>1. wk' \in Reconciling /\ wk'.pc = "register"
      BY <2>1, FetchedOK DEF Inv, ClusterTypeOK
    <3>2. wk'.name = n /\ wk'.rl = ccrs[n] /\ wk'.stale = (n \in crLag)
      BY <2>1 DEF Fetched
    <3>3. QED
      BY <3>1, <3>2 DEF Placed, Gone
  <2>2. CASE /\ wk' = Dispatched(n)
             /\ ccrs[n].deleting => Finalizer \in ccrs[n].finalizers
    <3>1. /\ wk' \in Reconciling /\ Placed(wk') /\ wk'.name = n
          /\ wk'.rl = ccrs[n] /\ wk'.stale = (n \in crLag)
      BY <2>2, DispatchedPlaced
    <3>2. Behind(ccrs[n], 1) = {}
      BY BehindNothing DEF Inv, ClusterTypeOK, CachesTypeOK
    <3>3. wk'.pc \in {"label", "limit", "stop", "status"} => wk'.idx = 1
      <4>1. /\ Fetched(n, "label") \in Reconciling
            /\ Fetched(n, "release").pc = "release"
        BY FetchedOK DEF Inv, ClusterTypeOK
      <4>2. Visit(Fetched(n, "label"), 1).idx = 1
        BY <4>1 DEF Visit, Reconciling
      <4>3. QED
        BY <2>2, <4>1, <4>2 DEF Dispatched
    <3>4. Gone'
      BY <3>1, <3>2, <3>3 DEF Gone, Obeyed
    <3>5. QED
      BY <3>1, <3>4
  <2>3. QED
    BY <2>1, <2>2
<1>2. wk' # Idle
  BY <1>1, NotIdle
<1>3. Told'
  BY DEF OwnerInv, Told, stored, caches
<1>4. Copied'
  BY <1>1, <1>2 DEF OwnerInv, Told, Copied, stored
<1>5. ASSUME NEW m \in Names PROVE Busy(m)' \/ Content(m)'
  <2>1. CASE m = n
    BY <1>1, <1>2, <2>1 DEF Busy
  <2>2. CASE m # n
    <3>1. Content(m)
      BY <2>2 DEF OwnerInv, Busy
    <3>2. Alarm(m) => Alarm(m)'
      BY <2>2 DEF Alarm, stored
    <3>3. QED
      BY <3>1, <3>2 DEF Content, stored
  <2>3. QED
    BY <2>1, <2>2
<1>6. QED
  BY <1>1, <1>3, <1>4, <1>5 DEF OwnerInv

(***************************************************************************)
(* Reconcile reading the CR again: the copy it had is forgotten.           *)
(***************************************************************************)
LEMMA RefetchOwner ==
  ASSUME OwnerWorking, Refetch
  PROVE  OwnerInv'
<1>1. wk.pc \in Steps
  BY DEF Refetch, Steps
<1>2. wk \in Reconciling /\ wk.name \in Names
  BY <1>1, OwnerAtWork DEF OwnerWorking
<1>3. Informed /\ UNCHANGED stored
  BY QuietInformed DEF Refetch, stored
<1>4. CASE Requeue
  BY <1>2, <1>3, <1>4, OwnerRequeued DEF OwnerWorking
<1>5. CASE /\ ccrs[wk.name] # Absent
           /\ ccrs[wk.name].deleting => Finalizer \in ccrs[wk.name].finalizers
           /\ Proceed(Dispatched(wk.name))
  <2>1. PICK n \in Names : wk.name = n
    BY <1>2
  <2>2. QED
    BY <1>3, <1>5, <2>1, BeginOwner DEF OwnerWorking, Proceed
<1>6. QED
  BY <1>4, <1>5 DEF Refetch

(***************************************************************************)
(* A name taken from the queue: the CR is in the worker's hands instead.   *)
(***************************************************************************)
LEMMA StartOwner ==
  ASSUME OwnerWorking, NEW n \in Names, Start(n)
  PROVE  OwnerInv'
<1>1. Informed /\ UNCHANGED stored /\ wk = Idle
  BY QuietInformed DEF Start, Reconcile, stored
<1>2. CASE UNCHANGED <<wk, queue>>
  BY <1>1, <1>2, OwnerOvertaken DEF OwnerWorking, Outdated
<1>3. CASE /\ ccrs[n] # Absent
           /\ wk' = IF Finalizer \in ccrs[n].finalizers THEN Dispatched(n)
                    ELSE Fetched(n, "register")
           /\ queue' = queue \ {n}
  BY <1>1, <1>3, BeginOwner DEF OwnerWorking
<1>4. QED
  BY <1>2, <1>3 DEF Start, Reconcile

(***************************************************************************)
(* The loop of reconcile goes on to the next target, with what is behind.  *)
(***************************************************************************)
LEMMA NextOwner ==
  ASSUME OwnerWorking, Informed, UNCHANGED <<queue, crs>>,
         wk.pc \in {"label", "limit", "stop"}, NEW entries \in SUBSET Entry,
         wk' = [NextTarget EXCEPT !.entries = entries],
         NEW n \in Names, wk.name = n,
         Alarm(n)' \/ Obeyed(quotas', n, wk.rl, Behind(wk.rl, wk.idx + 1))
  PROVE  OwnerInv'
<1>1. wk \in Reconciling
  BY OwnerAtWork DEF OwnerWorking, Steps
<1>2. ~wk.rl.deleting
  BY DEF OwnerWorking, OwnerInv, Placed
<1>3. wk.idx + 1 \in Nat \ {0}
  BY <1>1 DEF Reconciling
<1>4. /\ NextTarget \in Reconciling /\ Placed(NextTarget)
      /\ NextTarget.name = n /\ NextTarget.rl = wk.rl
      /\ NextTarget.stale = wk.stale /\ NextTarget.idx = wk.idx + 1
  BY <1>1, <1>2, <1>3, VisitPlaced DEF NextTarget
<1>5. /\ wk' \in Reconciling /\ wk'.pc = NextTarget.pc /\ wk'.name = n
      /\ wk'.rl = wk.rl /\ wk'.stale = wk.stale /\ wk'.idx = wk.idx + 1
  BY <1>4 DEF Reconciling
<1>6. Placed(wk')
  BY <1>4, <1>5 DEF Placed
<1>7. Gone'
  BY <1>5 DEF Gone
<1>8. QED
  BY <1>1, <1>5, <1>6, <1>7, OwnerOngoing DEF OwnerWorking

(***************************************************************************)
(* The namespace labelled or skipped: what is behind stays as it was.      *)
(***************************************************************************)
LEMMA LabelNamespaceOwner ==
  ASSUME OwnerWorking, LabelNamespace
  PROVE  OwnerInv'
<1>1. wk.pc = "label" /\ wk.pc \in Steps
  BY DEF LabelNamespace, Steps
<1>2. /\ wk \in Reconciling /\ wk.name \in Names /\ wk.rl \in CR
      /\ wk.entries \in SUBSET Entry /\ NextTarget \in Reconciling
      /\ wk.idx \in 1..Len(wk.rl.targets)
  BY <1>1, OwnerAtWork, TargetOK DEF OwnerWorking, Inv, GoodWorker
<1>3. UNCHANGED stored \/ NSWritten(target.ns, "labelled")
  BY DEF LabelNamespace, Call
<1>4. UNCHANGED <<crs, quotas, quotaEvents, crLag>>
  BY <1>3 DEF stored, NSWritten
<1>5. Informed
  BY <1>4, QuietInformed
<1>6. ~wk.rl.deleting
  BY <1>1 DEF OwnerWorking, OwnerInv, Placed
<1>7. CASE Requeue
  BY <1>2, <1>5, <1>7, OwnerRequeued DEF OwnerWorking
<1>8. PICK n \in Names : wk.name = n
  BY <1>2
<1>9. UNCHANGED queue =>
        Alarm(n)' \/ Obeyed(quotas', n, wk.rl, Behind(wk.rl, wk.idx))
  BY <1>1, <1>5, <1>8, GoneKept DEF OwnerWorking
<1>10. CASE target.ns \in Ignored /\ Proceed(NextTarget)
  <2>1. Behind(wk.rl, wk.idx + 1) = Behind(wk.rl, wk.idx)
    BY <1>2, <1>10, BehindNext DEF target
  <2>2. wk' = [NextTarget EXCEPT !.entries = wk.entries]
    BY <1>2, <1>10 DEF Proceed, NextTarget, Visit, Reconciling
  <2>3. QED
    BY <1>1, <1>2, <1>4, <1>5, <1>8, <1>9, <1>10, <2>1, <2>2, NextOwner DEF Proceed
<1>11. CASE Proceed([wk EXCEPT !.pc = IF wk.rl.applied THEN "limit" ELSE "stop"])
  <2>1. /\ wk' \in Reconciling /\ wk'.name = wk.name /\ wk'.rl = wk.rl
        /\ wk'.stale = wk.stale /\ wk'.idx = wk.idx
        /\ wk'.pc = IF wk.rl.applied THEN "limit" ELSE "stop"
    BY <1>2, <1>11 DEF Proceed, Reconciling, Steps
  <2>2. Placed(wk')
    BY <1>6, <2>1 DEF Placed
  <2>3. Gone'
    BY <1>8, <1>9, <1>11, <2>1 DEF Gone, Proceed
  <2>4. QED
    BY <1>2, <1>4, <1>5, <1>11, <2>1, <2>2, <2>3, OwnerOngoing DEF OwnerWorking, Proceed
<1>12. QED
  BY <1>7, <1>10, <1>11 DEF LabelNamespace, Call

(***************************************************************************)
(* The quota created: reconcile returns, counting on the event.            *)
(***************************************************************************)
LEMMA CreateQuotaOwner ==
  ASSUME OwnerWorking, CreateQuota
  PROVE  OwnerInv'
<1> DEFINE q == [owner |-> wk.name, uid |-> wk.rl.uid,
                 hard |-> target.hard, used |-> 0]
<1>1. wk.pc = "limit" /\ wk.pc \in Steps
  BY DEF CreateQuota, Steps
<1>2. /\ wk \in Reconciling /\ wk.name \in Names /\ wk.rl \in CR /\ StoredTypeOK
      /\ target.ns \in Namespaces /\ target.hard \in Hards
  BY <1>1, OwnerAtWork, TargetOK DEF OwnerWorking, Inv
<1>3. q \in Quota /\ q # Absent
  <2>1. target.hard \in Hards \ BadHards /\ wk.rl.uid \in Nat /\ 0 \in Usage
    BY <1>2, NamesAssumption DEF CreateQuota, CR
  <2>2. q \in Quota
    BY <1>2, <2>1 DEF Quota
  <2>3. QED
    BY <2>2, AbsentAssumption
<1>4. q.owner = wk.name
  OBVIOUS
<1>5. \/ Requeue /\ (UNCHANGED stored \/ QuotaWritten(target.ns, q))
      \/ /\ quotas[target.ns] = Absent /\ QuotaWritten(target.ns, q)
         /\ Proceed(Idle)
  BY DEF CreateQuota, Call
<1> HIDE DEF q
<1>6. Informed
  BY <1>2, <1>5, QuietInformed, QuotaInformed DEF QuotaWritten, stored
<1>7. CASE Requeue
  BY <1>2, <1>6, <1>7, OwnerRequeued DEF OwnerWorking
<1>8. CASE /\ quotas[target.ns] = Absent /\ QuotaWritten(target.ns, q)
           /\ Proceed(Idle)
  <2>1. PICK n \in Names : wk.name = n
    BY <1>2
  <2>2. n \in Owners({quotas[target.ns], q})
    BY <1>3, <1>4, <2>1 DEF Owners
  <2>3. n \in quotaEvents'[target.ns]
    BY <1>2, <1>3, <1>8, <2>2 DEF QuotaWritten, StoredTypeOK
  <2>4. Content(n)'
    BY <1>2, <2>3 DEF Content, Alarm
  <2>5. QED
    BY <1>6, <1>8, <2>1, <2>4, OwnerEnded DEF OwnerWorking, Proceed
<1>9. QED
  BY <1>5, <1>7, <1>8

(***************************************************************************)
(* The quota updated: it is as wanted, whoever owns it.                    *)
(***************************************************************************)
LEMMA UpdateQuotaOwner ==
  ASSUME OwnerWorking, UpdateQuota
  PROVE  OwnerInv'
<1> DEFINE s == target.ns
           q == [cquotas[s] EXCEPT !.hard = target.hard]
           e == [ns |-> s, used |-> cquotas[s].used, hard |-> target.hard]
<1>1. wk.pc = "limit" /\ wk.pc \in Steps
  BY DEF UpdateQuota, Steps
<1>2. /\ wk \in Reconciling /\ wk.name \in Names /\ wk.rl \in CR
      /\ wk.entries \in SUBSET Entry /\ StoredTypeOK
      /\ target \in Target /\ s \in Namespaces /\ target.hard \in Hards
      /\ NextTarget \in Reconciling
      /\ wk.idx \in 1..Len(wk.rl.targets)
      /\ target.ns \notin Ignored /\ wk.rl.applied
  BY <1>1, OwnerAtWork, TargetOK
  DEF OwnerWorking, Inv, GoodWorker, OwnerInv, Placed, target
<1>3. cquotas[s] \in Quota
  BY <1>2 DEF UpdateQuota, OwnerWorking, Inv, ClusterTypeOK, CachesTypeOK
<1>4. q \in Quota /\ q.hard = target.hard /\ e \in Entry
  BY <1>2, <1>3 DEF UpdateQuota, Quota, Entry
<1>5. \/ Requeue /\ (UNCHANGED stored \/ QuotaWritten(s, q))
      \/ /\ QuotaWritten(s, q)
         /\ Proceed([NextTarget EXCEPT !.entries = @ \cup {e}])
  BY DEF UpdateQuota, Call
<1> HIDE DEF s, q, e
<1>6. Informed
  BY <1>2, <1>5, QuietInformed, QuotaInformed DEF QuotaWritten, stored
<1>7. CASE Requeue
  BY <1>2, <1>6, <1>7, OwnerRequeued DEF OwnerWorking
<1>8. CASE /\ QuotaWritten(s, q)
           /\ Proceed([NextTarget EXCEPT !.entries = @ \cup {e}])
  <2>1. PICK n \in Names : wk.name = n
    BY <1>2
  <2>2. Alarm(n)' \/ Obeyed(quotas', n, wk.rl, Behind(wk.rl, wk.idx))
    BY <1>1, <1>6, <1>8, <2>1, GoneKept DEF OwnerWorking, Proceed
  <2>3. Behind(wk.rl, wk.idx + 1) = Behind(wk.rl, wk.idx) \cup {target}
    BY <1>2, BehindNext DEF target
  <2>4. quotas'[target.ns].hard = target.hard
    BY <1>2, <1>4, <1>8 DEF QuotaWritten, StoredTypeOK, s
  <2>5. Alarm(n)' \/ Obeyed(quotas', n, wk.rl, Behind(wk.rl, wk.idx + 1))
    BY <1>2, <2>2, <2>3, <2>4 DEF Obeyed
  <2>6. wk.entries \cup {e} \in SUBSET Entry
    BY <1>2, <1>4
  <2>7. wk' = [NextTarget EXCEPT !.entries = wk.entries \cup {e}]
    BY <1>2, <1>8 DEF Proceed, NextTarget, Visit, Reconciling
  <2>8. UNCHANGED <<queue, crs>>
    BY <1>8 DEF Proceed, QuotaWritten
  <2>9. QED
    BY <1>1, <1>6, <2>1, <2>5, <2>6, <2>7, <2>8, NextOwner
<1>9. QED
  BY <1>5, <1>7, <1>8

(***************************************************************************)
(* The quota deleted, or found gone: then it is, or its owner will hear.   *)
(***************************************************************************)
LEMMA StopQuotaOwner ==
  ASSUME OwnerWorking, StopQuota
  PROVE  OwnerInv'
<1> DEFINE s == target.ns
<1>1. wk.pc = "stop" /\ wk.pc \in Steps
  BY DEF StopQuota, Steps
<1>2. /\ wk \in Reconciling /\ wk.name \in Names /\ wk.rl \in CR
      /\ wk.entries \in SUBSET Entry /\ StoredTypeOK
      /\ target \in Target /\ s \in Namespaces /\ target.ns \notin Ignored
      /\ NextTarget \in Reconciling
      /\ wk.idx \in 1..Len(wk.rl.targets)
  BY <1>1, OwnerAtWork, TargetOK DEF OwnerWorking, Inv, GoodWorker, target
<1>3. \/ Requeue /\ (UNCHANGED stored \/ QuotaWritten(s, Absent))
      \/ Proceed(NextTarget) /\ cquotas[s] = Absent /\ UNCHANGED stored
      \/ Proceed(NextTarget) /\ QuotaWritten(s, Absent)
  BY DEF StopQuota, Call
<1>4. wk' = NextTarget => wk' = [NextTarget EXCEPT !.entries = wk.entries]
  BY <1>2 DEF NextTarget, Visit, Reconciling
<1> HIDE DEF s
<1>5. Informed /\ crs' = crs
  BY <1>2, <1>3, QuietInformed, QuotaInformed DEF QuotaWritten, stored
<1>6. CASE Requeue
  BY <1>2, <1>5, <1>6, OwnerRequeued DEF OwnerWorking
<1>7. CASE /\ Proceed(NextTarget)
           /\ (cquotas[s] = Absent /\ UNCHANGED stored) \/ QuotaWritten(s, Absent)
  <2>1. PICK n \in Names : wk.name = n
    BY <1>2
  <2>2. Alarm(n)' \/ Obeyed(quotas', n, wk.rl, Behind(wk.rl, wk.idx))
    BY <1>1, <1>5, <1>7, <2>1, GoneKept DEF OwnerWorking, Proceed
  <2>3. Behind(wk.rl, wk.idx + 1) = Behind(wk.rl, wk.idx) \cup {target}
    BY <1>2, BehindNext DEF target
  <2>4. Alarm(n)' \/ quotas'[s] = Absent \/ quotas'[s].owner # n
    <3>1. CASE QuotaWritten(s, Absent)
      BY <1>2, <3>1 DEF QuotaWritten, StoredTypeOK
    <3>2. CASE cquotas[s] = Absent /\ UNCHANGED stored
      <4>1. quotas[s] = Absent \/ quotas[s].owner \in quotaEvents[s]
        BY <1>2, <3>2 DEF OwnerWorking, OwnerInv, Told, Owners
      <4>2. QED
        BY <1>2, <3>2, <4>1 DEF Alarm, stored
    <3>3. QED
      BY <1>7, <3>1, <3>2
  <2>5. Alarm(n)' \/ Obeyed(quotas', n, wk.rl, Behind(wk.rl, wk.idx + 1))
    BY <1>2, <2>2, <2>3, <2>4 DEF Obeyed, s
  <2>6. QED
    BY <1>1, <1>2, <1>4, <1>5, <1>7, <2>1, <2>5, NextOwner DEF Proceed
<1>8. QED
  BY <1>3, <1>6, <1>7

(***************************************************************************)
(* The status updated at the end of the loop: all targets are behind.      *)
(***************************************************************************)
LEMMA UpdateStatusOwner ==
  ASSUME OwnerWorking, UpdateStatus
  PROVE  OwnerInv'
<1> DEFINE rl == [wk.rl EXCEPT
                    !.state = IF wk.rl.applied THEN "ready" ELSE "stopped",
                    !.quotas = wk.entries]
<1>1. wk.pc = "status" /\ wk.pc \in Steps
  BY DEF UpdateStatus, Steps
<1>2. /\ wk \in Reconciling /\ wk.name \in Names /\ wk.rl \in CR /\ StoredTypeOK
      /\ wk.idx \in Nat /\ wk.idx > Len(wk.rl.targets)
  BY <1>1, OwnerAtWork DEF OwnerWorking, OwnerInv, Placed
<1>3. /\ rl.targets = wk.rl.targets /\ rl.applied = wk.rl.applied
      /\ rl.uid = wk.rl.uid
  BY <1>2 DEF CR
<1>4. \/ Requeue /\ (UNCHANGED stored \/ CRWritten(wk.name, rl))
      \/ CRWritten(wk.name, rl) /\ Proceed(Idle)
  BY DEF UpdateStatus, Call
<1> HIDE DEF rl
<1>5. Informed
  BY <1>2, <1>4, QuietInformed, CRInformed DEF stored
<1>6. CASE Requeue
  BY <1>2, <1>5, <1>6, OwnerRequeued DEF OwnerWorking
<1>7. CASE CRWritten(wk.name, rl) /\ Proceed(Idle)
  <2>1. PICK n \in Names : wk.name = n
    BY <1>2
  <2>2. Alarm(n)' \/ Obeyed(quotas', n, wk.rl, Behind(wk.rl, wk.idx))
    BY <1>1, <1>5, <1>7, <2>1, GoneKept DEF OwnerWorking, Proceed
  <2>3. Behind(wk.rl, wk.idx) = Wanted(wk.rl) /\ Wanted(rl) = Wanted(wk.rl)
    BY <1>2, <1>3, BehindWanted DEF Wanted
  <2>4. crs'[n] = rl
    BY <1>2, <1>7, <2>1 DEF CRWritten, StoredTypeOK
  <2>5. Content(n)'
    BY <1>3, <2>2, <2>3, <2>4 DEF Content, Obeyed
  <2>6. QED
    BY <1>5, <1>7, <2>1, <2>5, OwnerEnded DEF OwnerWorking, Proceed
<1>8. QED
  BY <1>4, <1>6, <1>7

-----------------------------------------------------------------------------
(* Everybody else. *)

(***************************************************************************)
(* A new process lists everything and takes every CR.                      *)
(***************************************************************************)
LEMMA RelistOwner ==
  ASSUME Relist, wk' = Idle
  PROVE  OwnerInv'
<1>1. Told'
  BY DEF Relist, Told
<1>2. Copied' /\ Placed(wk') /\ Gone'
  BY DEF Copied, Placed, Gone, Idle
<1>3. ASSUME NEW n \in Names PROVE Content(n)'
  BY DEF Relist, Content, Alarm
<1>4. QED
  BY <1>1, <1>2, <1>3 DEF OwnerInv

(***************************************************************************)
(* An event handled leaves its CR in the queue, and the copy up to date.   *)
(***************************************************************************)
LEMMA DeliverOwner ==
  ASSUME Inv, OwnerInv, Deliver, wk' = Outdated
  PROVE  OwnerInv'
<1>1. UNCHANGED <<crs, quotas, wk>>
  BY DEF Deliver, DeliverCR, DeliverNamespace, DeliverQuota, Outdated
<1>2. /\ crLag \subseteq Names /\ ccrs \in [Names -> CR \cup {Absent}]
      /\ cquotas \in [Namespaces -> Quota \cup {Absent}]
      /\ quotaEvents \in [Namespaces -> SUBSET Names]
  BY DEF Inv, ClusterTypeOK, StoredTypeOK, CachesTypeOK
<1>3. /\ queue \subseteq queue' /\ crLag \subseteq crLag' \cup queue'
      /\ \A s \in Namespaces : quotaEvents[s] \subseteq quotaEvents'[s] \cup queue'
  BY <1>2 DEF Deliver, DeliverCR, DeliverNamespace, DeliverQuota
<1>4. Told'
  <2>1. ASSUME NEW n \in Names, DeliverCR(n) PROVE Told'
    BY <1>2, <2>1 DEF DeliverCR, Told, OwnerInv
  <2>2. ASSUME NEW s \in Namespaces, DeliverNamespace(s) PROVE Told'
    BY <2>2 DEF DeliverNamespace, Told, OwnerInv
  <2>3. ASSUME NEW s \in Namespaces, DeliverQuota(s) PROVE Told'
    BY <1>2, <2>3 DEF DeliverQuota, Told, OwnerInv
  <2>4. QED
    BY <2>1, <2>2, <2>3 DEF Deliver
<1>5. Copied'
  BY <1>1, <1>3 DEF Copied, OwnerInv
<1>6. \A n : Alarm(n) => Alarm(n)'
  BY <1>3 DEF Alarm
<1>7. Placed(wk')
  BY <1>1 DEF OwnerInv
<1>8. Gone'
  BY <1>1, <1>6 DEF Gone, OwnerInv
<1>9. ASSUME NEW n \in Names PROVE Busy(n)' \/ Content(n)'
  BY <1>1, <1>6 DEF Content, Busy, OwnerInv
<1>10. QED
  BY <1>4, <1>5, <1>7, <1>8, <1>9 DEF OwnerInv

(***************************************************************************)
(* Everybody else's writes inform those whom they concern.                 *)
(***************************************************************************)
LEMMA CollectInformed ==
  ASSUME StoredTypeOK, Collect
  PROVE  Informed /\ UNCHANGED <<caches, queue>>
<1>1. ASSUME NEW s \in Namespaces, CollectQuota(s)
      PROVE  Informed /\ UNCHANGED <<caches, queue>>
  BY <1>1, QuotaInformed DEF CollectQuota, QuotaWritten
<1>2. ASSUME NEW n \in Names, EndForeground(n)
      PROVE  Informed /\ UNCHANGED <<caches, queue>>
  BY <1>2, CRInformed DEF EndForeground
<1>3. QED
  BY <1>1, <1>2 DEF Collect

(***************************************************************************)
(* Users' writes too.                                                      *)
(***************************************************************************)
LEMMA UserInformed ==
  ASSUME StoredTypeOK, User
  PROVE  Informed /\ UNCHANGED <<caches, queue>>
<1>1. ASSUME NEW n \in Names, UserOnCR(n)
      PROVE  Informed /\ UNCHANGED <<caches, queue>>
  <2>1. ASSUME NEW targets, NEW applied, NEW f, CreateCR(n, targets, applied, f)
        PROVE  Informed /\ UNCHANGED <<caches, queue>>
    BY <2>1, CRInformed DEF CreateCR, By
  <2>2. ASSUME NEW targets, NEW applied, ChangeSpec(n, targets, applied)
        PROVE  Informed /\ UNCHANGED <<caches, queue>>
    BY <2>2, CRInformed DEF ChangeSpec, By
  <2>3. ASSUME NEW f, DeleteCR(n, f)
        PROVE  Informed /\ UNCHANGED <<caches, queue>>
    BY <2>3, CRInformed DEF DeleteCR, By
  <2>4. QED
    BY <1>1, <2>1, <2>2, <2>3 DEF UserOnCR
<1>2. ASSUME NEW s \in Namespaces, UserOnNamespace(s)
      PROVE  Informed /\ UNCHANGED <<caches, queue>>
  <2>1. CASE CreateNamespace(s) \/ TouchNamespace(s) \/ StripLabels(s)
    BY <2>1, QuietInformed
    DEF CreateNamespace, TouchNamespace, StripLabels, NSWritten, By
  <2>2. CASE DeleteNamespace(s)
    <3>1. Owners({quotas[s]}) = Owners({quotas[s], Absent})
      BY DEF Owners
    <3>2. quotas[s] = Absent => Owners({quotas[s]}) = {}
      BY DEF Owners
    <3>3. quotaEvents' = IF Absent = quotas[s] THEN quotaEvents
            ELSE [quotaEvents EXCEPT ![s] = @ \cup Owners({quotas[s], Absent})]
      BY <2>2, <3>1, <3>2 DEF DeleteNamespace, StoredTypeOK
    <3>4. /\ quotas' = [quotas EXCEPT ![s] = Absent] /\ crs' = crs
          /\ crLag' = crLag /\ UNCHANGED <<caches, queue>>
      BY <2>2 DEF DeleteNamespace, By
    <3>5. QED
      BY <3>3, <3>4, QuotaInformed
  <2>3. ASSUME NEW hard, EditQuota(s, hard)
        PROVE  Informed /\ UNCHANGED <<caches, queue>>
    BY <2>3, QuotaInformed DEF EditQuota, QuotaWritten, By
  <2>4. CASE RemoveQuota(s)
    BY <2>4, QuotaInformed DEF RemoveQuota, QuotaWritten, By
  <2>5. ASSUME NEW used, UseQuota(s, used)
        PROVE  Informed /\ UNCHANGED <<caches, queue>>
    BY <2>5, QuotaInformed DEF UseQuota, QuotaWritten, By
  <2>6. QED
    BY <1>2, <2>1, <2>2, <2>3, <2>4, <2>5 DEF UserOnNamespace
<1>3. QED
  BY <1>1, <1>2 DEF User

(***************************************************************************)
(* Nobody owns anything at first.                                          *)
(***************************************************************************)
LEMMA OwnerInit == Init => OwnerInv
<1> SUFFICES ASSUME Init PROVE OwnerInv
  OBVIOUS
<1>1. Told /\ Copied /\ Placed(wk) /\ Gone
  BY DEF Init, ClusterInit, Told, Copied, Placed, Gone, Idle
<1>2. \A n \in Names : Content(n)
  BY DEF Init, ClusterInit, Content
<1>3. QED
  BY <1>1, <1>2 DEF OwnerInv

(***************************************************************************)
(* Every step keeps the invariant, whatever namespaces the CRs share.      *)
(***************************************************************************)
LEMMA OwnerStep ==
  ASSUME Inv, OwnerInv, [Next]_vars
  PROVE  OwnerInv'
<1>1. Inv' /\ StoredTypeOK
  BY InvStep DEF Inv, ClusterTypeOK
<1>2. CASE \E n \in Names : Start(n)
  BY <1>1, <1>2, StartOwner DEF OwnerWorking, Start
<1>3. CASE WorkerStep
  <2>1. OwnerWorking
    BY <1>1, <1>3 DEF OwnerWorking, WorkerStep
  <2>2. QED
    BY <1>3, <2>1, RegisterFinalizerOwner, RefetchOwner, DeleteStepOwner,
       ReleaseFinalizerOwner, LabelNamespaceOwner, CreateQuotaOwner,
       UpdateQuotaOwner, StopQuotaOwner, UpdateStatusOwner
    DEF WorkerStep
<1>4. CASE Panic \/ Crash
  BY <1>4, RelistOwner DEF Panic, Crash
<1>5. CASE Outside
  BY <1>1, <1>5, DeliverOwner, CollectInformed, UserInformed, OwnerOvertaken
  DEF Outside
<1>6. CASE UNCHANGED vars
  <2>1. Informed /\ UNCHANGED <<caches, queue>> /\ wk' = Outdated
    BY <1>6, QuietInformed DEF vars, clusterVars, stored, Outdated
  <2>2. QED
    BY <2>1, OwnerOvertaken
<1>7. QED
  BY <1>2, <1>3, <1>4, <1>5, <1>6 DEF Next

(***************************************************************************)
(* A CR at rest that owns the quota of a target has it as it wants it,     *)
(* whatever other CRs, users, faults, crashes and lagging caches did to it *)
(* and however many CRs share the namespace.                               *)
(***************************************************************************)
THEOREM OwnersPrevail == Spec => []OwnerPrevails
<1>1. OwnerInv => OwnerPrevails
  BY DEF OwnerInv, Content, Obeyed, OwnerPrevails, Dependents
<1>2. Inv /\ OwnerInv /\ [Next]_vars => OwnerInv'
  BY OwnerStep
<1>3. QED
  BY <1>1, <1>2, InvInit, InvStep, OwnerInit, PTL DEF Spec

-----------------------------------------------------------------------------
(* The finalizer is given up after the quotas are gone.                    *)

\* No namespace that is gone has a quota, and the copies of namespaces say
\* what is there, or something is on its way.
Rooted ==
  /\ \A s \in Namespaces : nss[s] = "absent" => quotas[s] = Absent
  /\ \A s \in Namespaces : s \notin nsLag => cnss[s] = nss[s]
  /\ \A s \in Namespaces : cnss[s] = "absent" => nss[s] = "absent"

\* The quotas of the targets that reconcileDelete has gone past are gone.
Cleared(w, Q) ==
  w.pc \in {"delete", "unlabel", "release"} /\ w.rl.state # "stopped" =>
    /\ \A i \in 1..Len(w.rl.targets) :
         i < w.idx \/ (w.pc = "unlabel" /\ i = w.idx) => Q[w.rl.targets[i].ns] = Absent
    /\ w.pc = "release" => w.idx > Len(w.rl.targets)

ReleaseInv == Rooted /\ Cleared(wk, quotas)

(***************************************************************************)
(* No quota appears where there is no namespace, and namespaces stay as    *)
(* they are.                                                               *)
(***************************************************************************)
LEMMA RootedKept ==
  ASSUME Rooted, UNCHANGED <<nss, nsLag, cnss>>,
         \A s \in Namespaces :
           nss[s] = "absent" /\ quotas[s] = Absent => quotas'[s] = Absent
  PROVE  Rooted'
BY DEF Rooted

(***************************************************************************)
(* A namespace that is there is written to.                                *)
(***************************************************************************)
LEMMA RootedWritten ==
  ASSUME StoredTypeOK, Rooted, NEW s \in Namespaces, NEW ns,
         nss[s] # "absent", ns # "absent", NSWritten(s, ns), UNCHANGED cnss
  PROVE  Rooted'
<1>1. /\ nss'[s] = ns /\ \A r \in Namespaces \ {s} : nss'[r] = nss[r]
      /\ nsLag \subseteq nsLag' /\ (nss'[s] = nss[s] \/ s \in nsLag')
      /\ quotas' = quotas
  BY DEF StoredTypeOK, NSWritten
<1>2. QED
  BY <1>1 DEF Rooted

(***************************************************************************)
(* The quota of a namespace that is there, or a quota's end.               *)
(***************************************************************************)
LEMMA RootedQuota ==
  ASSUME StoredTypeOK, Rooted, NEW s \in Namespaces, NEW q,
         nss[s] # "absent" \/ q = Absent, QuotaWritten(s, q), UNCHANGED cnss
  PROVE  Rooted'
<1>1. quotas'[s] = q /\ \A r \in Namespaces \ {s} : quotas'[r] = quotas[r]
  BY DEF StoredTypeOK, QuotaWritten
<1>2. UNCHANGED <<nss, nsLag>>
  BY DEF QuotaWritten
<1>3. QED
  BY <1>1, <1>2, RootedKept

(***************************************************************************)
(* A reconcile begins with nothing gone past (the call of reconcileDelete, *)
(* and its return for a CR that is stopped).                               *)
(***************************************************************************)
LEMMA DispatchedCleared ==
  ASSUME CachesTypeOK, NEW n \in Names, ccrs[n] # Absent, NEW Q
  PROVE  Cleared(Dispatched(n), Q)
<1> DEFINE f == Fetched(n, "label")
<1>1. /\ f \in Reconciling /\ f.rl = ccrs[n]
      /\ Fetched(n, "release").rl = ccrs[n]
  BY FetchedOK DEF Fetched
<1>2. ccrs[n] \in CR
  BY DEF CachesTypeOK
<1>3. Len(ccrs[n].targets) \in Nat
  <2>1. ccrs[n].targets \in Seq(Target)
    BY <1>2 DEF CR
  <2>2. QED
    BY <2>1
<1>4. CASE ccrs[n].deleting /\ ccrs[n].state = "stopped"
  BY <1>1, <1>4 DEF Dispatched, Cleared
<1>5. CASE ~(ccrs[n].deleting /\ ccrs[n].state = "stopped")
  <2>1. Dispatched(n) = Visit(f, 1)
    BY <1>5 DEF Dispatched
  <2> HIDE DEF f
  <2>2. /\ Visit(f, 1).rl = ccrs[n] /\ Visit(f, 1).idx = 1
        /\ Visit(f, 1).pc = Turn(ccrs[n], 1)
    BY <1>1 DEF Visit, Reconciling
  <2>3. Visit(f, 1).pc # "unlabel"
        /\ (Visit(f, 1).pc = "release" => 1 > Len(ccrs[n].targets))
    BY <1>3, <2>2 DEF Turn
  <2>4. QED
    BY <1>3, <2>1, <2>2, <2>3 DEF Cleared
<1>6. QED
  BY <1>4, <1>5

(***************************************************************************)
(* Outside the half of reconcileDelete there is nothing to have gone past. *)
(***************************************************************************)
LEMMA ElsewhereCleared ==
  ASSUME NEW w, w.pc \notin {"delete", "unlabel", "release"}, NEW Q
  PROVE  Cleared(w, Q)
BY DEF Cleared

(***************************************************************************)
(* The next turn of reconcile's loop stays in reconcile.                   *)
(***************************************************************************)
LEMMA NextElsewhere ==
  ASSUME wk \in Reconciling, ~wk.rl.deleting, NEW E
  PROVE  [NextTarget EXCEPT !.entries = E].pc \in {"label", "status"}
BY DEF NextTarget, Visit, Turn, Reconciling

(***************************************************************************)
(* One more target gone past, its quota gone.                              *)
(***************************************************************************)
LEMMA NextCleared ==
  ASSUME wk \in Reconciling, wk.rl.deleting, wk.pc \in {"delete", "unlabel"},
         wk.idx \in 1..Len(wk.rl.targets), Cleared(wk, quotas), quotas' = quotas,
         quotas[target.ns] = Absent \/ wk.pc = "unlabel", wk' = NextTarget
  PROVE  Cleared(wk, quotas)'
<1>1. Len(wk.rl.targets) \in Nat /\ wk.idx \in Nat
  <2>1. wk.rl \in CR
    BY DEF Reconciling
  <2>2. wk.rl.targets \in Seq(Target)
    BY <2>1 DEF CR
  <2>3. QED
    BY <2>2
<1>2. /\ wk'.rl = wk.rl /\ wk'.idx = wk.idx + 1
      /\ wk'.pc = Turn(wk.rl, wk.idx + 1)
  BY DEF NextTarget, Visit, Reconciling
<1>3. /\ wk'.pc \in {"delete", "release"}
      /\ wk'.pc = "release" => wk'.idx > Len(wk.rl.targets)
  BY <1>1, <1>2 DEF Turn
<1>4. ASSUME wk.rl.state # "stopped", NEW i \in 1..Len(wk.rl.targets), i < wk.idx + 1
      PROVE  quotas[wk.rl.targets[i].ns] = Absent
  <2>1. CASE i < wk.idx
    BY <1>4, <2>1 DEF Cleared
  <2>2. CASE i = wk.idx
    BY <1>4, <2>2 DEF Cleared, target
  <2>3. QED
    BY <1>1, <1>4, <2>1, <2>2
<1>5. QED
  BY <1>2, <1>3, <1>4 DEF Cleared

-----------------------------------------------------------------------------
(* The steps. *)

\* What every step is proved from.
Releasing ==
  /\ "create namespace" \notin UserOps
  /\ Inv /\ OwnerInv /\ ReleaseInv

(***************************************************************************)
(* A namespace that is cached, and whose copy is the latest, is there.     *)
(***************************************************************************)
LEMMA CachedThere ==
  ASSUME Rooted, NEW s \in Namespaces, s \notin nsLag, cnss[s] # "absent"
  PROVE  nss[s] # "absent"
BY DEF Rooted

(***************************************************************************)
(* The quota deleted, or passed over with its namespace.                   *)
(***************************************************************************)
LEMMA DeleteQuotaClears ==
  ASSUME Releasing, DeleteQuota, UNCHANGED caches
  PROVE  ReleaseInv'
<1>1. wk.pc = "delete"
  BY DEF DeleteQuota
<1>2. /\ wk \in Reconciling /\ target.ns \in Namespaces
      /\ wk.idx \in 1..Len(wk.rl.targets) /\ StoredTypeOK /\ wk.rl.deleting
  BY <1>1, TargetOK
  DEF Releasing, Inv, GoodWorker, ClusterTypeOK, OwnerInv, Placed, Idle
<1>3. Rooted /\ Cleared(wk, quotas) /\ UNCHANGED cnss
  BY DEF Releasing, ReleaseInv, caches
<1>4. UNCHANGED stored \/ QuotaWritten(target.ns, Absent)
  BY DEF DeleteQuota, Call
<1>5. Rooted'
  BY <1>2, <1>3, <1>4, RootedQuota, RootedKept DEF stored
<1>6. CASE Requeue
  BY <1>5, <1>6, ElsewhereCleared DEF Requeue, Idle, ReleaseInv, Cleared
<1>7. CASE /\ cnss[target.ns] = "absent" /\ Proceed(NextTarget)
           /\ UNCHANGED stored
  <2>1. quotas[target.ns] = Absent /\ quotas' = quotas
    BY <1>2, <1>3, <1>7 DEF Rooted, stored
  <2>2. QED
    BY <1>1, <1>2, <1>3, <1>5, <1>7, <2>1, NextCleared DEF Proceed, ReleaseInv
<1>8. CASE QuotaWritten(target.ns, Absent) /\ Proceed([wk EXCEPT !.pc = "unlabel"])
  <2>1. wk'.pc = "unlabel" /\ wk'.rl = wk.rl /\ wk'.idx = wk.idx
    BY <1>2, <1>8 DEF Proceed, Reconciling
  <2>2. quotas' = [quotas EXCEPT ![target.ns] = Absent]
    BY <1>8 DEF QuotaWritten
  <2>3. quotas'[target.ns] = Absent
        /\ \A s : quotas[s] = Absent => quotas'[s] = Absent \/ s \notin Namespaces
    BY <1>2, <2>2 DEF StoredTypeOK
  <2>4. \A i \in 1..Len(wk.rl.targets) : wk.rl.targets[i].ns \in Namespaces
    <3>1. wk.rl \in CR
      BY <1>2 DEF Reconciling
    <3>2. wk.rl.targets \in Seq(Target)
      BY <3>1 DEF CR
    <3>3. \A i \in 1..Len(wk.rl.targets) : wk.rl.targets[i] \in Target
      BY <3>2
    <3>4. QED
      BY <3>3 DEF Target
  <2>5. ASSUME wk.rl.state # "stopped", NEW i \in 1..Len(wk.rl.targets),
               i < wk.idx \/ i = wk.idx
        PROVE  quotas'[wk.rl.targets[i].ns] = Absent
    BY <1>1, <1>3, <2>3, <2>4, <2>5 DEF Cleared, target
  <2>6. Cleared(wk', quotas')
    BY <2>1, <2>5 DEF Cleared
  <2>7. QED
    BY <1>5, <2>6 DEF ReleaseInv, Cleared
<1>9. QED
  BY <1>6, <1>7, <1>8 DEF DeleteQuota, Call

(***************************************************************************)
(* The labels removed from a namespace whose quota is gone.                *)
(***************************************************************************)
LEMMA RemoveLabelsClears ==
  ASSUME Releasing, RemoveLabels, UNCHANGED caches
  PROVE  ReleaseInv'
<1>1. wk.pc = "unlabel"
  BY DEF RemoveLabels
<1>2. /\ wk \in Reconciling /\ target.ns \in Namespaces
      /\ wk.idx \in 1..Len(wk.rl.targets) /\ StoredTypeOK /\ wk.rl.deleting
  BY <1>1, TargetOK
  DEF Releasing, Inv, GoodWorker, ClusterTypeOK, OwnerInv, Placed, Idle
<1>3. Rooted /\ Cleared(wk, quotas) /\ UNCHANGED cnss
  BY DEF Releasing, ReleaseInv, caches
<1>4. \/ UNCHANGED stored
      \/ /\ target.ns \notin nsLag /\ cnss[target.ns] # "absent"
         /\ NSWritten(target.ns, "plain")
  BY DEF RemoveLabels, Call
<1>5. Rooted'
  BY <1>2, <1>3, <1>4, RootedWritten, CachedThere, RootedKept DEF stored
<1>6. quotas' = quotas
  BY <1>4 DEF stored, NSWritten
<1>7. CASE Requeue
  BY <1>5, <1>7 DEF Requeue, Idle, ReleaseInv, Cleared
<1>8. CASE Proceed(NextTarget)
  BY <1>1, <1>2, <1>3, <1>5, <1>6, <1>8, NextCleared DEF Proceed, ReleaseInv
<1>9. QED
  BY <1>7, <1>8 DEF RemoveLabels, Call

(***************************************************************************)
(* Steps of the worker that touch neither namespaces nor quotas.           *)
(***************************************************************************)
LEMMA CRStepClears ==
  ASSUME Releasing, UNCHANGED caches,
         RegisterFinalizer \/ Refetch \/ ReleaseFinalizer \/ UpdateStatus
  PROVE  ReleaseInv'
<1>1. UNCHANGED <<nss, nsLag, quotas>>
  BY DEF RegisterFinalizer, Refetch, ReleaseFinalizer, UpdateStatus, Call,
         CRWritten, stored
<1>2. Rooted'
  BY <1>1, RootedKept DEF Releasing, ReleaseInv, caches
<1>3. CASE wk' = Idle
  BY <1>2, <1>3 DEF Idle, ReleaseInv, Cleared
<1>4. CASE wk.pc = "register" /\ wk' = [wk EXCEPT !.pc = "refetch"]
  <2>1. wk # Idle
    BY <1>4 DEF Idle
  <2>2. wk'.pc = "refetch"
    BY <1>4, <2>1 DEF Releasing, Inv, GoodWorker, Reconciling
  <2>3. QED
    BY <1>2, <2>2 DEF ReleaseInv, Cleared
<1>5. CASE wk.pc = "refetch" /\ ccrs[wk.name] # Absent /\ wk' = Dispatched(wk.name)
  <2>1. wk # Idle
    BY <1>5 DEF Idle
  <2>2. wk.name \in Names /\ CachesTypeOK
    BY <2>1 DEF Releasing, Inv, GoodWorker, Reconciling, ClusterTypeOK
  <2>3. Cleared(wk', quotas')
    BY <1>5, <2>2, DispatchedCleared
  <2>4. QED
    BY <1>2, <2>3 DEF ReleaseInv, Cleared
<1>6. QED
  BY <1>3, <1>4, <1>5
  DEF RegisterFinalizer, Refetch, ReleaseFinalizer, UpdateStatus, Call, Requeue,
      Proceed

(***************************************************************************)
(* Steps of reconcile: a quota is made or changed where there is a         *)
(* namespace, and nothing is gone past.                                    *)
(***************************************************************************)
LEMMA ReconcileClears ==
  ASSUME Releasing, UNCHANGED caches,
         LabelNamespace \/ CreateQuota \/ UpdateQuota \/ StopQuota
  PROVE  ReleaseInv'
<1> DEFINE s == target.ns
<1>1. wk.pc \in {"label", "limit", "stop"}
  BY DEF LabelNamespace, CreateQuota, UpdateQuota, StopQuota
<1>2. /\ wk \in Reconciling /\ s \in Namespaces /\ StoredTypeOK
      /\ ~wk.rl.deleting
  BY <1>1, TargetOK DEF Releasing, Inv, ClusterTypeOK, OwnerInv, Placed
<1>3. Rooted /\ Told /\ UNCHANGED cnss
  BY DEF Releasing, ReleaseInv, OwnerInv, caches
<1>4. \/ UNCHANGED <<nss, nsLag, quotas>>
      \/ \E ns : /\ s \notin nsLag /\ cnss[s] # "absent" /\ ns # "absent"
                 /\ NSWritten(s, ns)
      \/ \E q : (nss[s] # "absent" \/ q = Absent) /\ QuotaWritten(s, q)
  <2> DEFINE there == nss[s] # "absent"
  <2>1. CASE LabelNamespace
    BY <2>1 DEF LabelNamespace, Call, stored
  <2>2. CASE CreateQuota
    BY <2>2 DEF CreateQuota, Call, stored
  <2>3. CASE UpdateQuota
    <3>1. quotaEvents[s] = {} => nss[s] # "absent"
      <4>1. ASSUME quotaEvents[s] = {} PROVE quotas[s] # Absent
        <5>1. cquotas[s] # Absent
          BY <2>3 DEF UpdateQuota
        <5>2. cquotas[s] = quotas[s] \/ Owners({quotas[s], cquotas[s]}) = {}
          BY <1>2, <1>3, <4>1 DEF Told
        <5>3. Owners({quotas[s], cquotas[s]}) # {}
          BY <5>1 DEF Owners
        <5>4. QED
          BY <5>1, <5>2, <5>3
      <4>2. QED
        BY <1>2, <1>3, <4>1 DEF Rooted
    <3>2. QED
      BY <2>3, <3>1 DEF UpdateQuota, Call, stored
  <2>4. CASE StopQuota
    BY <2>4 DEF StopQuota, Call, stored
  <2>5. QED
    BY <2>1, <2>2, <2>3, <2>4
<1> HIDE DEF s
<1>5. Rooted'
  BY <1>2, <1>3, <1>4, RootedWritten, RootedQuota, CachedThere, RootedKept
<1>6. wk'.pc \notin {"delete", "unlabel", "release"}
  <2>1. Idle.pc = "idle"
    BY DEF Idle
  <2>2. NextTarget.pc \in {"label", "status"}
    BY <1>2 DEF NextTarget, Visit, Turn, Reconciling
  <2>3. \A E : [NextTarget EXCEPT !.entries = E].pc \in {"label", "status"}
    BY <1>2, NextElsewhere
  <2>4. \A pc \in {"limit", "stop"} : [wk EXCEPT !.pc = pc].pc = pc
    BY <1>2 DEF Reconciling
  <2>5. \/ wk' = Idle \/ wk' = NextTarget
        \/ \E E : wk' = [NextTarget EXCEPT !.entries = E]
        \/ \E pc \in {"limit", "stop"} : wk' = [wk EXCEPT !.pc = pc]
    BY DEF LabelNamespace, CreateQuota, UpdateQuota, StopQuota, Call, Proceed,
           Requeue
  <2>6. QED
    BY <2>1, <2>2, <2>3, <2>4, <2>5
<1>7. QED
  BY <1>5, <1>6 DEF ReleaseInv, Cleared

(***************************************************************************)
(* Everybody else: quotas only go, but for those that are there, and       *)
(* namespaces do not come.                                                 *)
(***************************************************************************)
LEMMA OutsideRooted ==
  ASSUME Releasing, Deliver \/ Collect \/ User
  PROVE  Rooted' /\ \A s \in Namespaces : quotas[s] = Absent => quotas'[s] = Absent
<1>1. Rooted /\ StoredTypeOK /\ CachesTypeOK
  BY DEF Releasing, ReleaseInv, Inv, ClusterTypeOK
<1>2. CASE UNCHANGED <<nss, nsLag, quotas, cnss>>
  BY <1>1, <1>2, RootedKept
<1>3. ASSUME NEW s \in Namespaces, DeliverNamespace(s)
      PROVE  Rooted' /\ quotas' = quotas
  <2>1. /\ cnss' = [cnss EXCEPT ![s] = nss[s]] /\ nsLag' = nsLag \ {s}
        /\ nss' = nss /\ quotas' = quotas
    BY <1>3 DEF DeliverNamespace
  <2>2. QED
    BY <1>1, <2>1 DEF Rooted, CachesTypeOK
<1>4. ASSUME NEW s \in Namespaces, NEW q, QuotaWritten(s, q), UNCHANGED cnss,
             quotas[s] # Absent \/ q = Absent
      PROVE  /\ Rooted'
             /\ \A r \in Namespaces : quotas[r] = Absent => quotas'[r] = Absent
  <2>1. nss[s] # "absent" \/ q = Absent
    BY <1>1, <1>4 DEF Rooted
  <2>2. QED
    BY <1>1, <1>4, <2>1, RootedQuota DEF QuotaWritten, StoredTypeOK
<1>5. CASE Deliver
  BY <1>2, <1>3, <1>5 DEF Deliver, DeliverCR, DeliverQuota
<1>6. CASE Collect
  <2>1. ASSUME NEW s \in Namespaces, CollectQuota(s)
        PROVE  QuotaWritten(s, Absent) /\ UNCHANGED cnss
    BY <2>1 DEF CollectQuota, caches
  <2>2. ASSUME NEW n \in Names, EndForeground(n)
        PROVE  UNCHANGED <<nss, nsLag, quotas, cnss>>
    BY <2>2 DEF EndForeground, CRWritten, caches
  <2>3. QED
    BY <1>2, <1>4, <1>6, <2>1, <2>2 DEF Collect
<1>7. ASSUME NEW n \in Names, UserOnCR(n)
      PROVE  UNCHANGED <<nss, nsLag, quotas, cnss>>
  BY <1>7 DEF UserOnCR, CreateCR, ChangeSpec, DeleteCR, CRWritten, By, caches
<1>8. ASSUME NEW s \in Namespaces, UserOnNamespace(s)
      PROVE  /\ Rooted'
             /\ \A r \in Namespaces : quotas[r] = Absent => quotas'[r] = Absent
  <2>1. ~CreateNamespace(s)
    BY DEF CreateNamespace, By, Releasing
  <2>2. CASE DeleteNamespace(s)
    <3>1. /\ nss' = [nss EXCEPT ![s] = "absent"] /\ nsLag' = nsLag \cup {s}
          /\ quotas' = [quotas EXCEPT ![s] = Absent] /\ cnss' = cnss
      BY <2>2 DEF DeleteNamespace, By, caches
    <3>2. QED
      BY <1>1, <3>1 DEF Rooted, StoredTypeOK
  <2>3. CASE TouchNamespace(s)
    <3>1. UNCHANGED <<nss, quotas, cnss>> /\ nsLag \subseteq nsLag'
      BY <2>3 DEF TouchNamespace, By, caches
    <3>2. QED
      BY <1>1, <3>1 DEF Rooted
  <2>4. CASE StripLabels(s)
    <3>1. nss[s] # "absent" /\ NSWritten(s, "plain") /\ UNCHANGED cnss
      BY <2>4 DEF StripLabels, By, caches
    <3>2. QED
      BY <1>1, <3>1, RootedWritten DEF NSWritten
  <2>5. ASSUME NEW hard, EditQuota(s, hard)
        PROVE  quotas[s] # Absent /\ UNCHANGED cnss
               /\ QuotaWritten(s, [quotas[s] EXCEPT !.hard = hard])
    BY <2>5 DEF EditQuota, By, caches
  <2>6. ASSUME RemoveQuota(s)
        PROVE  QuotaWritten(s, Absent) /\ UNCHANGED cnss
    BY <2>6 DEF RemoveQuota, By, caches
  <2>7. ASSUME NEW used, UseQuota(s, used)
        PROVE  quotas[s] # Absent /\ UNCHANGED cnss
               /\ QuotaWritten(s, [quotas[s] EXCEPT !.used = used])
    BY <2>7 DEF UseQuota, By, caches
  <2>8. QED
    BY <1>4, <1>8, <2>1, <2>2, <2>3, <2>4, <2>5, <2>6, <2>7 DEF UserOnNamespace
<1>9. QED
  BY <1>2, <1>5, <1>6, <1>7, <1>8 DEF User

(***************************************************************************)
(* What others do leaves the worker where it was.                          *)
(***************************************************************************)
LEMMA OutsideClears ==
  ASSUME Releasing, Outside
  PROVE  ReleaseInv'
<1>1. Rooted' /\ \A s \in Namespaces : quotas[s] = Absent => quotas'[s] = Absent
  BY OutsideRooted DEF Outside
<1>2. Cleared(wk, quotas)
  BY DEF Releasing, ReleaseInv
<1>3. CASE wk = Idle
  BY <1>1, <1>3 DEF Outside, Outdated, Idle, ReleaseInv, Cleared
<1>4. CASE wk # Idle
  <2>1. wk \in Reconciling /\ wk.rl \in CR
    BY <1>4 DEF Releasing, Inv, GoodWorker, Reconciling
  <2>2. wk'.pc = wk.pc /\ wk'.rl = wk.rl /\ wk'.idx = wk.idx
    BY <2>1 DEF Outside, Outdated, Reconciling
  <2>3. \A i \in 1..Len(wk.rl.targets) : wk.rl.targets[i].ns \in Namespaces
    <3>1. wk.rl.targets \in Seq(Target)
      BY <2>1 DEF CR
    <3>2. \A i \in 1..Len(wk.rl.targets) : wk.rl.targets[i] \in Target
      BY <3>1
    <3>3. QED
      BY <3>2 DEF Target
  <2>4. Cleared(wk', quotas')
    BY <1>1, <1>2, <2>2, <2>3 DEF Cleared
  <2>5. QED
    BY <1>1, <2>4 DEF ReleaseInv, Cleared
<1>5. QED
  BY <1>3, <1>4

(***************************************************************************)
(* The whole cluster at first is what the caches say.                      *)
(***************************************************************************)
LEMMA ReleaseInit == Init => ReleaseInv
BY DEF Init, ClusterInit, Idle, ReleaseInv, Rooted, Cleared

(***************************************************************************)
(* Every step.                                                             *)
(***************************************************************************)
LEMMA ReleaseStep ==
  ASSUME Releasing, [Next]_vars
  PROVE  ReleaseInv'
<1>1. ASSUME NEW n \in Names, Start(n) PROVE ReleaseInv'
  <2>1. Rooted'
    BY <1>1, RootedKept
    DEF Start, Reconcile, stored, caches, Releasing, ReleaseInv
  <2>2. Cleared(wk', quotas')
    <3>1. CASE wk' = wk
      BY <1>1, <3>1 DEF Start, Reconcile, Idle, Cleared
    <3>2. CASE ccrs[n] # Absent /\ wk' = Dispatched(n)
      BY <3>2, DispatchedCleared DEF Releasing, Inv, ClusterTypeOK
    <3>3. CASE ccrs[n] # Absent /\ wk' = Fetched(n, "register")
      BY <3>3 DEF Fetched, Cleared
    <3>4. QED
      BY <1>1, <3>1, <3>2, <3>3 DEF Start, Reconcile
  <2>3. QED
    BY <2>1, <2>2 DEF ReleaseInv, Cleared
<1>2. CASE WorkerStep
  <2>1. UNCHANGED caches
    BY <1>2 DEF WorkerStep, caches
  <2>2. QED
    BY <1>2, <2>1, DeleteQuotaClears, RemoveLabelsClears, CRStepClears,
       ReconcileClears DEF WorkerStep
<1>3. CASE Panic \/ Crash
  <2>1. wk' = Idle /\ UNCHANGED <<nss, quotas>> /\ cnss' = nss
    BY <1>3 DEF Panic, Crash, Relist
  <2>2. Rooted'
    BY <2>1 DEF Releasing, ReleaseInv, Rooted
  <2>3. QED
    BY <2>1, <2>2 DEF Idle, ReleaseInv, Cleared
<1>4. CASE Outside
  BY <1>4, OutsideClears
<1>5. CASE UNCHANGED vars
  BY <1>5 DEF vars, clusterVars, stored, caches, Releasing, ReleaseInv, Rooted,
              Cleared
<1>6. QED
  BY <1>1, <1>2, <1>3, <1>4, <1>5 DEF Next

-----------------------------------------------------------------------------
(* Who takes the finalizer. *)

\* A CR that has the finalizer keeps it, and with it stays.
Held ==
  \A n \in Names : crs[n] # Absent /\ Finalizer \in crs[n].finalizers =>
    crs'[n] # Absent /\ Finalizer \in crs'[n].finalizers

(***************************************************************************)
(* A write to a CR that leaves the finalizer on it.                        *)
(***************************************************************************)
LEMMA HeldWritten ==
  ASSUME StoredTypeOK, NEW m \in Names, NEW rl, CRWritten(m, rl),
         crs[m] # Absent /\ Finalizer \in crs[m].finalizers =>
           rl # Absent /\ Finalizer \in rl.finalizers
  PROVE  Held
<1>1. crs'[m] = rl /\ \A n \in Names \ {m} : crs'[n] = crs[n]
  BY DEF StoredTypeOK, CRWritten
<1>2. QED
  BY <1>1 DEF Held

(***************************************************************************)
(* The registration of the finalizer and the status leave it on the CR.    *)
(***************************************************************************)
LEMMA CRStepHolds ==
  ASSUME Inv, OwnerInv, RegisterFinalizer \/ UpdateStatus
  PROVE  Held
<1>1. wk.pc \in Steps
  BY DEF RegisterFinalizer, UpdateStatus, Steps
<1>2. /\ wk \in Reconciling /\ wk # Idle /\ wk.name \in Names /\ wk.rl \in CR
      /\ wk.entries \in SUBSET Entry /\ StoredTypeOK
  BY <1>1, OwnerAtWork
<1>3. CASE crs' = crs
  BY <1>3 DEF Held
<1>4. CASE RegisterFinalizer
  <2>1. crs' = crs \/ CRWritten(wk.name, crs[wk.name])
    BY <1>4 DEF RegisterFinalizer, Call, Patched, stored
  <2>2. QED
    BY <1>2, <1>3, <2>1, HeldWritten
<1>5. CASE UpdateStatus
  <2> DEFINE rl == [wk.rl EXCEPT
               !.state = IF wk.rl.applied THEN "ready" ELSE "stopped",
               !.quotas = wk.entries]
  <2>1. crs' = crs \/ (~wk.stale /\ CRWritten(wk.name, rl))
    BY <1>5 DEF UpdateStatus, Call, stored
  <2>2. rl \in CR /\ rl.finalizers = wk.rl.finalizers
    BY <1>2 DEF CR
  <2>3. ~wk.stale => crs[wk.name] = wk.rl
    BY <1>2 DEF OwnerInv, Copied
  <2> HIDE DEF rl
  <2>4. QED
    BY <1>2, <1>3, <2>1, <2>2, <2>3, HeldWritten, AbsentAssumption
<1>6. QED
  BY <1>4, <1>5

(***************************************************************************)
(* The garbage collector takes its own finalizer off and no other.         *)
(***************************************************************************)
LEMMA CollectHolds ==
  ASSUME StoredTypeOK, Collect
  PROVE  Held
<1>1. CASE crs' = crs
  BY <1>1 DEF Held
<1>2. ASSUME NEW m \in Names, EndForeground(m)
      PROVE  Held
  <2> DEFINE rl == [crs[m] EXCEPT !.finalizers = @ \ {Foreground}]
  <2>1. crs[m] \in CR /\ CRWritten(m, Reap(rl))
    BY <1>2 DEF EndForeground, StoredTypeOK
  <2>2. rl \in CR /\ rl.finalizers = crs[m].finalizers \ {Foreground}
    BY <2>1 DEF CR
  <2> HIDE DEF rl
  <2>3. Finalizer \in crs[m].finalizers =>
          Reap(rl) = rl /\ Finalizer \in rl.finalizers
    BY <2>2 DEF Reap, Finalizer, Foreground
  <2>4. QED
    BY <2>1, <2>2, <2>3, HeldWritten, AbsentAssumption
<1>3. QED
  BY <1>1, <1>2 DEF Collect, CollectQuota, QuotaWritten

(***************************************************************************)
(* Users change specs and delete, which leaves the finalizers alone.       *)
(***************************************************************************)
LEMMA UserHolds ==
  ASSUME StoredTypeOK, User
  PROVE  Held
<1>1. CASE crs' = crs
  BY <1>1 DEF Held
<1>2. ASSUME NEW m \in Names, UserOnCR(m)
      PROVE  Held
  <2>1. ASSUME NEW targets, NEW applied, NEW f, CreateCR(m, targets, applied, f)
        PROVE  Held
    BY <2>1, HeldWritten DEF CreateCR
  <2>2. ASSUME NEW targets \in Choices[m], NEW applied \in BOOLEAN,
               ChangeSpec(m, targets, applied)
        PROVE  Held
    <3> DEFINE rl == [crs[m] EXCEPT !.targets = targets, !.applied = applied]
    <3>1. crs[m] \in CR /\ CRWritten(m, rl)
      BY <2>2 DEF ChangeSpec, StoredTypeOK
    <3>2. targets \in Seq(Target)
      BY NamesAssumption
    <3>3. rl \in CR /\ rl.finalizers = crs[m].finalizers
      BY <3>1, <3>2 DEF CR
    <3> HIDE DEF rl
    <3>4. QED
      BY <3>1, <3>3, HeldWritten, AbsentAssumption
  <2>3. ASSUME NEW extra \in {{}, {Foreground}}, DeleteCR(m, extra)
        PROVE  Held
    <3> DEFINE rl == [crs[m] EXCEPT !.deleting = TRUE, !.finalizers = @ \cup extra]
    <3>1. crs[m] \in CR /\ CRWritten(m, Reap(rl))
      BY <2>3 DEF DeleteCR, StoredTypeOK
    <3>2. rl \in CR /\ rl.finalizers = crs[m].finalizers \cup extra
      BY <3>1 DEF CR
    <3> HIDE DEF rl
    <3>3. Finalizer \in crs[m].finalizers =>
            Reap(rl) = rl /\ Finalizer \in rl.finalizers
      BY <3>2 DEF Reap
    <3>4. QED
      BY <3>1, <3>2, <3>3, HeldWritten, AbsentAssumption
  <2>4. QED
    BY <1>2, <2>1, <2>2, <2>3 DEF UserOnCR
<1>3. ASSUME NEW s \in Namespaces, UserOnNamespace(s)
      PROVE  crs' = crs
  BY <1>3
  DEF UserOnNamespace, CreateNamespace, DeleteNamespace, TouchNamespace,
      StripLabels, EditQuota, RemoveQuota, UseQuota, NSWritten, QuotaWritten
<1>4. QED
  BY <1>1, <1>2, <1>3 DEF User

(***************************************************************************)
(* Only the release at the end of reconcileDelete takes the finalizer, and *)
(* its own CR's only.                                                      *)
(***************************************************************************)
LEMMA OnlyRelease ==
  ASSUME Inv, OwnerInv, [Next]_vars, NEW n \in Names,
         crs[n] # Absent, Finalizer \in crs[n].finalizers,
         crs'[n] = Absent \/ Finalizer \notin crs'[n].finalizers
  PROVE  wk.pc = "release" /\ wk.name = n
<1>1. ~Held /\ crs' # crs
  BY DEF Held
<1>2. StoredTypeOK
  BY DEF Inv, ClusterTypeOK
<1>3. CASE ReleaseFinalizer
  <2>1. PICK rl : UNCHANGED stored \/ CRWritten(wk.name, rl)
    BY <1>3 DEF ReleaseFinalizer, Call
  <2>2. crs' = [crs EXCEPT ![wk.name] = rl]
    BY <1>1, <2>1 DEF stored, CRWritten
  <2>3. QED
    BY <1>2, <1>3, <2>2 DEF StoredTypeOK, ReleaseFinalizer
<1>4. CASE WorkerStep /\ ~ReleaseFinalizer
  <2>1. ~RegisterFinalizer /\ ~UpdateStatus
    BY <1>1, CRStepHolds
  <2>2. UNCHANGED crs
    BY <1>4, <2>1
    DEF WorkerStep, Refetch, DeleteQuota, RemoveLabels, LabelNamespace,
        CreateQuota, UpdateQuota, StopQuota, Call, stored, NSWritten,
        QuotaWritten
  <2>3. QED
    BY <1>1, <2>2
<1>5. CASE (\E m \in Names : Start(m)) \/ Panic \/ Crash \/ UNCHANGED vars
  BY <1>1, <1>5
  DEF Start, Reconcile, Panic, Crash, Relist, vars, clusterVars, stored
<1>6. CASE Outside
  BY <1>1, <1>2, <1>6, CollectHolds, UserHolds
  DEF Outside, Deliver, DeliverCR, DeliverNamespace, DeliverQuota
<1>7. QED
  BY <1>3, <1>4, <1>5, <1>6 DEF Next

(***************************************************************************)
(* At the release every target is behind, and its quota gone.              *)
(***************************************************************************)
LEMMA AllCleared ==
  ASSUME Releasing, wk.pc = "release", wk.rl.state # "stopped",
         NEW i \in 1..Len(wk.rl.targets)
  PROVE  quotas[wk.rl.targets[i].ns] = Absent
<1>1. wk.rl \in CR /\ wk.idx \in Nat
  BY OwnerAtWork DEF Releasing, Steps
<1>2. wk.rl.targets \in Seq(Target)
  BY <1>1 DEF CR
<1>3. Len(wk.rl.targets) \in Nat
  BY <1>2
<1>4. Cleared(wk, quotas)
  BY DEF Releasing, ReleaseInv
<1>5. wk.idx > Len(wk.rl.targets)
  BY <1>4 DEF Cleared
<1>6. i < wk.idx
  BY <1>1, <1>3, <1>5
<1>7. QED
  BY <1>4, <1>6 DEF Cleared

(***************************************************************************)
(* When a CR that was not stopped loses the finalizer, the quotas of the   *)
(* namespaces in the spec the worker went through are gone: reconcileDelete*)
(* gets to the patch only past every target, in spite of lagging caches,   *)
(* faults, crashes and users, as long as no namespace comes back.          *)
(***************************************************************************)
THEOREM ReleaseIsClean == Spec => ReleasedClean
<1> DEFINE RInv == "create namespace" \notin UserOps => ReleaseInv
           Clean == \A n \in Names :
             /\ "create namespace" \notin UserOps
             /\ crs[n] # Absent /\ Finalizer \in crs[n].finalizers
             /\ crs'[n] = Absent \/ Finalizer \notin crs'[n].finalizers
             => \/ wk.rl.state = "stopped"
                \/ \A i \in 1..Len(wk.rl.targets) : LET s == wk.rl.targets[i].ns IN
                     quotas[s] = Absent \/ quotas[s].owner # n
<1>1. Init => RInv
  BY ReleaseInit
<1>2. Inv /\ OwnerInv /\ RInv /\ [Next]_vars => RInv'
  BY ReleaseStep DEF Releasing
<1>3. Inv /\ OwnerInv /\ RInv /\ [Next]_vars => Clean
  <2> SUFFICES ASSUME Inv, OwnerInv, RInv, [Next]_vars, NEW n \in Names,
                      "create namespace" \notin UserOps,
                      crs[n] # Absent, Finalizer \in crs[n].finalizers,
                      crs'[n] = Absent \/ Finalizer \notin crs'[n].finalizers,
                      wk.rl.state # "stopped", NEW i \in 1..Len(wk.rl.targets)
               PROVE  quotas[wk.rl.targets[i].ns] = Absent
    OBVIOUS
  <2>1. wk.pc = "release"
    BY OnlyRelease
  <2>2. QED
    BY <2>1, AllCleared DEF Releasing
<1>4. Clean => [Clean]_vars
  OBVIOUS
<1>5. ReleasedClean <=> [][Clean]_vars
  BY DEF ReleasedClean
<1> HIDE DEF RInv, Clean
<1>6. QED
  BY <1>1, <1>2, <1>3, <1>5, InvInit, InvStep, OwnerInit, OwnerStep, PTL DEF Spec

-----------------------------------------------------------------------------
(* A second process of the controller: what it writes reaches the informers*)
(* of this one, and nothing else of it does.                               *)

Noticed ==
  /\ crLag' = crLag \cup {n \in Names : crs'[n] # crs[n]}
  /\ \E written \in SUBSET Namespaces : nsLag' = nsLag \cup written
  /\ quotaEvents' = [s \in Namespaces |-> quotaEvents[s] \cup
       IF quotas'[s] = quotas[s] THEN {} ELSE Owners({quotas[s], quotas'[s]})]
  /\ wk' = Outdated
  /\ UNCHANGED <<ccrs, cnss, cquotas, queue>>

\* What the API server stores has its type.
ServedOK ==
  /\ crs \in [Names -> CR \cup {Absent}]
  /\ nss \in [Namespaces -> {"absent", "plain", "labelled"}]
  /\ quotas \in [Namespaces -> Quota \cup {Absent}]
  /\ uids \in Nat /\ spent \in [ops : Nat, faults : Nat, crashes : Nat]

\* CRs name, and own quotas in, the namespaces that they are given.
ServedHoused ==
  /\ \A n \in Names : crs[n] # Absent => crs[n].targets \in Choices[n]
  /\ \A s \in Namespaces : quotas[s] # Absent => s \in Home(quotas[s].owner)

(***************************************************************************)
(* A step of the other process leaves this one's types right.              *)
(***************************************************************************)
LEMMA NoticedOK ==
  ASSUME Inv, ServedOK', Noticed
  PROVE  Inv'
<1>1. ClusterTypeOK /\ GoodWorker(wk)
  BY DEF Inv
<1>2. crLag' \subseteq Names /\ nsLag' \subseteq Namespaces /\ queue' \subseteq Names
  BY <1>1 DEF Noticed, ClusterTypeOK, StoredTypeOK
<1>3. ASSUME NEW s \in Namespaces
      PROVE  quotaEvents[s] \cup
               (IF quotas'[s] = quotas[s] THEN {} ELSE Owners({quotas[s], quotas'[s]}))
             \in SUBSET Names
  BY <1>1 DEF ServedOK, ClusterTypeOK, StoredTypeOK, Owners, Quota
<1>4. quotaEvents' \in [Namespaces -> SUBSET Names]
  BY <1>3 DEF Noticed
<1>5. CachesTypeOK'
  BY <1>1 DEF Noticed, ClusterTypeOK, CachesTypeOK
<1>6. ClusterTypeOK'
  BY <1>2, <1>4, <1>5 DEF ServedOK, ClusterTypeOK, StoredTypeOK
<1>7. GoodWorker(wk')
  BY <1>1, OutdatedOK DEF Noticed
<1>8. QED
  BY <1>6, <1>7 DEF Inv

(***************************************************************************)
(* What the other process writes is announced to whom it may concern.      *)
(***************************************************************************)
LEMMA NoticedInforms ==
  ASSUME Noticed
  PROVE  /\ Informed
         /\ \A n \in Names : crs'[n] = crs[n] \/ n \in crLag'
         /\ \A s \in Namespaces : quotas'[s] = quotas[s] \/ quotaEvents'[s] # {}
<1>1. crLag \subseteq crLag' /\ \A n \in Names : crs'[n] = crs[n] \/ n \in crLag'
  BY DEF Noticed
<1>2. ASSUME NEW s \in Namespaces
      PROVE  /\ quotaEvents[s] \subseteq quotaEvents'[s]
             /\ \/ quotas'[s] = quotas[s]
                \/ /\ Owners({quotas[s], quotas'[s]}) \subseteq quotaEvents'[s]
                   /\ Owners({quotas[s], quotas'[s]}) # {}
  <2>1. quotas'[s] # quotas[s] => Owners({quotas[s], quotas'[s]}) # {}
    BY DEF Owners
  <2>2. QED
    BY <2>1 DEF Noticed
<1>3. QED
  BY <1>1, <1>2 DEF Informed

(***************************************************************************)
(* Its events name nobody but those whose namespaces it writes to.         *)
(***************************************************************************)
LEMMA NoticedHoused ==
  ASSUME Housed, ServedHoused', Noticed
  PROVE  Housed'
<1>1. ASSUME NEW s \in Namespaces, NEW n \in quotaEvents'[s]
      PROVE  s \in Home(n)
  <2>1. CASE n \in quotaEvents[s]
    BY <2>1 DEF Housed
  <2>2. CASE n \in Owners({quotas[s], quotas'[s]})
    BY <2>2 DEF Housed, ServedHoused, Owners
  <2>3. QED
    BY <1>1, <2>1, <2>2 DEF Noticed
<1>2. QED
  BY <1>1 DEF ServedHoused, Housed

(***************************************************************************)
(* Nothing that the other process writes goes unnoticed.                   *)
(***************************************************************************)
LEMMA NoticedWakes ==
  ASSUME Exclusive, Inv, WakeupInv, ServedOK', ServedHoused', Noticed
  PROVE  WakeupInv'
<1>1. StoredTypeOK' /\ Housed /\ StoredTypeOK
  BY NoticedOK DEF Inv, ClusterTypeOK, WakeupInv
<1>2. Announced
  BY NoticedInforms DEF Informed, Announced
<1>3. Housed'
  BY <1>1, NoticedHoused
<1>4. QED
  BY <1>1, <1>2, <1>3, Overtaken DEF Noticed, caches

(***************************************************************************)
(* Nor does what it does to a quota of a CR that is at rest here.          *)
(***************************************************************************)
LEMMA NoticedOwner ==
  ASSUME Inv, OwnerInv, Noticed
  PROVE  OwnerInv'
BY NoticedInforms, OwnerOvertaken DEF Noticed, caches

=============================================================================
