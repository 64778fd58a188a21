------------------ MODULE ResourceLimiterRefinementProofs ------------------
(***************************************************************************)
(* The reconciler implements LimiterPromise, for every value of the        *)
(* constants: CRs may share namespaces here.                               *)
(***************************************************************************)
EXTENDS ResourceLimiterRefinement, ResourceLimiterControllerProofs

-----------------------------------------------------------------------------
(* The invariant. *)

\* The histories are functions of names, and know the present.
Recorded ==
  /\ asked = [n \in Names |-> asked[n]] /\ met = [n \in Names |-> met[n]]
  /\ \A n \in Names : wanted[n] # Absent => wanted[n] \in asked[n]
  /\ \A n \in Names :
       IF wanted[n] = Absent THEN met[n] = {}
       ELSE /\ met[n] \subseteq Promise!Limited(wanted[n])
            /\ \A t \in Promise!Limited(wanted[n]) : Promise!Holds(t) => t \in met[n]

\* A copy of a CR says what was asked for once.
Known ==
  /\ \A n \in Names : ccrs[n] # Absent => SpecOf(ccrs[n]) \in asked[n]
  /\ wk # Idle => SpecOf(wk.rl) \in asked[wk.name]

\* The worker's copy is the latest unless it knows better.
Fresh == wk # Idle /\ ~wk.stale => crs[wk.name] = wk.rl

\* What an entry of the status says of the limits.
Limits(entries) == {[ns |-> e.ns, hard |-> e.hard] : e \in entries}

\* What reconcile has gone past was limited under the spec it goes by.
Done ==
  wk.pc \in {"label", "limit", "stop", "status"} =>
    IF wk.rl.applied
    THEN /\ Limits(wk.entries) = Behind(wk.rl, wk.idx)
         /\ ~wk.stale => Behind(wk.rl, wk.idx) \subseteq met[wk.name]
    ELSE Limits(wk.entries) = {}

PromiseInv ==
  /\ Synced /\ Housed /\ HousedCopies /\ Placed(wk)
  /\ Recorded /\ Known /\ Fresh /\ Done

-----------------------------------------------------------------------------
(* What the histories say after a step. *)

(***************************************************************************)
(* The mapped variables, name by name and namespace by namespace.          *)
(***************************************************************************)
LEMMA Mapped ==
  /\ \A n \in Names :
       wanted[n] = IF crs[n] = Absent THEN Absent ELSE SpecOf(crs[n])
  /\ \A s \in Namespaces :
       have[s] = IF quotas[s] = Absent THEN Absent
                 ELSE [owner |-> quotas[s].owner, uid |-> quotas[s].uid,
                       hard |-> quotas[s].hard]
  /\ \A n \in Names :
       said[n] = IF crs[n] = Absent THEN [state |-> "", limits |-> {}]
                 ELSE [state |-> crs[n].state, limits |-> Limits(crs[n].quotas)]
BY DEF wanted, have, said, Limits

(***************************************************************************)
(* The same after a step.                                                  *)
(***************************************************************************)
LEMMA MappedNext ==
  /\ \A n \in Names :
       wanted'[n] = IF crs'[n] = Absent THEN Absent ELSE SpecOf(crs'[n])
  /\ \A s \in Namespaces :
       have'[s] = IF quotas'[s] = Absent THEN Absent
                  ELSE [owner |-> quotas'[s].owner, uid |-> quotas'[s].uid,
                        hard |-> quotas'[s].hard]
  /\ \A n \in Names :
       said'[n] = IF crs'[n] = Absent THEN [state |-> "", limits |-> {}]
                  ELSE [state |-> crs'[n].state, limits |-> Limits(crs'[n].quotas)]
BY DEF wanted, have, said, Limits

(***************************************************************************)
(* The histories are right after every step, and forget nothing of a CR    *)
(* whose spec stays.                                                       *)
(***************************************************************************)
LEMMA Remembering ==
  ASSUME Recorded, Promise!Remember
  PROVE  /\ Recorded'
         /\ \A n \in Names : asked[n] \subseteq asked'[n]
         /\ \A n \in Names : wanted'[n] # Absent => wanted'[n] \in asked'[n]
         /\ \A n \in Names : wanted'[n] = wanted[n] => met[n] \subseteq met'[n]
<1>1. /\ asked' = [n \in Names |-> asked[n] \cup ({wanted'[n]} \ {Absent})]
      /\ met' = [n \in Names |->
           IF wanted'[n] = Absent THEN {}
           ELSE {t \in Promise!Limited(wanted'[n]) :
                   Promise!Holds(t)' \/ (wanted'[n] = wanted[n] /\ t \in met[n])}]
  BY DEF Promise!Remember
<1>2. Recorded'
  <2>1. asked' = [n \in Names |-> asked'[n]] /\ met' = [n \in Names |-> met'[n]]
    BY <1>1
  <2>2. ASSUME NEW n \in Names, wanted'[n] # Absent PROVE wanted'[n] \in asked'[n]
    BY <1>1, <2>2
  <2>3. ASSUME NEW n \in Names
        PROVE  IF wanted'[n] = Absent THEN met'[n] = {}
               ELSE /\ met'[n] \subseteq Promise!Limited(wanted'[n])
                    /\ \A t \in Promise!Limited(wanted'[n]) :
                         Promise!Holds(t)' => t \in met'[n]
    BY <1>1
  <2>4. QED
    BY <2>1, <2>2, <2>3 DEF Recorded
<1>3. \A n \in Names : wanted'[n] = wanted[n] => met[n] \subseteq met'[n]
  BY <1>1 DEF Recorded
<1>4. QED
  BY <1>1, <1>2, <1>3

(***************************************************************************)
(* A step that changes nothing which is promised is a stuttering one.      *)
(***************************************************************************)
LEMMA Stuttering ==
  ASSUME Recorded, Promise!Remember, UNCHANGED <<wanted, said, have>>,
         spent'.ops = spent.ops
  PROVE  UNCHANGED Promise!promised
<1>1. /\ asked' = [n \in Names |-> asked[n] \cup ({wanted'[n]} \ {Absent})]
      /\ met' = [n \in Names |->
           IF wanted'[n] = Absent THEN {}
           ELSE {t \in Promise!Limited(wanted'[n]) :
                   Promise!Holds(t)' \/ (wanted'[n] = wanted[n] /\ t \in met[n])}]
  BY DEF Promise!Remember
<1>2. \A t : Promise!Holds(t)' <=> Promise!Holds(t)
  BY DEF Promise!Holds
<1>3. ASSUME NEW n \in Names PROVE asked'[n] = asked[n]
  BY <1>1 DEF Recorded
<1>4. ASSUME NEW n \in Names PROVE met'[n] = met[n]
  BY <1>1, <1>2 DEF Recorded
<1>5. asked' = asked
  BY <1>1, <1>3 DEF Recorded
<1>6. met' = met
  BY <1>1, <1>4 DEF Recorded
<1>7. QED
  BY <1>5, <1>6 DEF Promise!promised

-----------------------------------------------------------------------------
(* How a step may leave the worker. *)

\* What every step is proved from: it is announced to those it concerns.
Heard ==
  /\ Inv /\ Inv' /\ PromiseInv /\ Promise!Remember
  /\ Announced /\ Housed' /\ UNCHANGED caches

(***************************************************************************)
(* What does not depend on the worker.                                     *)
(***************************************************************************)
LEMMA HeardKept ==
  ASSUME Heard
  PROVE  /\ Synced' /\ Recorded'
         /\ \A n \in Names : asked[n] \subseteq asked'[n]
         /\ \A n \in Names : ccrs'[n] # Absent => SpecOf(ccrs'[n]) \in asked'[n]
         /\ \A n \in Names : ccrs'[n] # Absent => ccrs'[n].targets \in Choices[n]
         /\ \A n \in Names : crs'[n] = crs[n] => met[n] \subseteq met'[n]
<1>1. Synced' /\ Recorded'
  BY SyncedKept, Remembering DEF Heard, PromiseInv, caches
<1>2. \A n \in Names : asked[n] \subseteq asked'[n]
  BY Remembering DEF Heard, PromiseInv
<1>3. ccrs' = ccrs
  BY DEF Heard, caches
<1>4. ASSUME NEW n \in Names, crs'[n] = crs[n] PROVE met[n] \subseteq met'[n]
  <2>1. wanted'[n] = wanted[n]
    BY <1>4, Mapped, MappedNext
  <2>2. QED
    BY <2>1, Remembering DEF Heard, PromiseInv
<1>5. QED
  BY <1>1, <1>2, <1>3, <1>4 DEF Heard, PromiseInv, Known, HousedCopies

(***************************************************************************)
(* The worker lets go of its CR.                                           *)
(***************************************************************************)
LEMMA PromiseEnded ==
  ASSUME Heard, wk' = Idle
  PROVE  PromiseInv'
<1>1. Placed(wk') /\ Done' /\ Fresh'
  BY DEF Placed, Done, Fresh, Idle
<1>2. Known' /\ HousedCopies'
  BY HeardKept DEF Known, HousedCopies
<1>3. QED
  BY <1>1, <1>2, HeardKept DEF PromiseInv, Heard

(***************************************************************************)
(* The worker goes on with its CR.                                         *)
(***************************************************************************)
LEMMA PromiseOngoing ==
  ASSUME Heard, wk \in Reconciling, wk' \in Reconciling,
         wk'.name = wk.name, wk'.rl = wk.rl, wk'.stale = wk.stale,
         crs'[wk.name] = crs[wk.name], Placed(wk'), Done'
  PROVE  PromiseInv'
<1>1. wk # Idle /\ wk.name \in Names
  BY NotIdle DEF Reconciling
<1>2. Fresh'
  BY <1>1 DEF Fresh, Heard, PromiseInv
<1>3. Known' /\ HousedCopies'
  BY <1>1, HeardKept DEF Known, HousedCopies, Heard, PromiseInv
<1>4. QED
  BY <1>2, <1>3, HeardKept DEF PromiseInv, Heard

(***************************************************************************)
(* The worker reads a CR anew.                                             *)
(***************************************************************************)
LEMMA PromiseRead ==
  ASSUME Heard, UNCHANGED stored, wk' \in Reconciling, NEW n \in Names,
         ccrs[n] # Absent, wk'.name = n, wk'.rl = ccrs[n],
         wk'.stale = (n \in crLag), Placed(wk'), Done'
  PROVE  PromiseInv'
<1>1. wk' # Idle
  BY NotIdle
<1>2. UNCHANGED <<crs, ccrs>>
  BY DEF stored, Heard, caches
<1>3. Fresh'
  BY <1>1, <1>2 DEF Fresh, Heard, PromiseInv, Synced
<1>4. Known' /\ HousedCopies'
  BY <1>1, <1>2, HeardKept DEF Known, HousedCopies
<1>5. QED
  BY <1>3, <1>4, HeardKept DEF PromiseInv, Heard

(***************************************************************************)
(* Somebody else writes to the cluster.                                    *)
(***************************************************************************)
LEMMA PromiseOvertaken ==
  ASSUME Heard, wk' = Outdated
  PROVE  PromiseInv'
<1>1. CASE wk = Idle
  BY <1>1, PromiseEnded DEF Outdated
<1>2. CASE wk # Idle
  <2>1. wk \in Reconciling /\ wk.name \in Names
    BY <1>2 DEF Heard, Inv, GoodWorker, Reconciling
  <2>2. /\ wk' \in Reconciling
        /\ wk'.name = wk.name /\ wk'.rl = wk.rl /\ wk'.pc = wk.pc
        /\ wk'.idx = wk.idx /\ wk'.entries = wk.entries
        /\ ~wk'.stale => ~wk.stale /\ crs'[wk.name] = crs[wk.name]
    <3>1. CASE wk' = wk /\ crs'[wk.name] = crs[wk.name]
      BY <2>1, <3>1
    <3>2. CASE wk' = [wk EXCEPT !.stale = TRUE]
      BY <2>1, <3>2 DEF Reconciling
    <3>3. QED
      BY <1>2, <3>1, <3>2 DEF Outdated
  <2>3. wk' # Idle
    BY <2>2, NotIdle
  <2>4. Fresh'
    BY <1>2, <2>2 DEF Fresh, Heard, PromiseInv
  <2>5. Placed(wk')
    BY <2>2 DEF Heard, PromiseInv, Placed
  <2>6. Known' /\ HousedCopies'
    BY <1>2, <2>1, <2>2, HeardKept DEF Known, HousedCopies, Heard, PromiseInv
  <2>7. Done'
    BY <2>1, <2>2, HeardKept DEF Done, Heard, PromiseInv
  <2>8. QED
    BY <2>4, <2>5, <2>6, <2>7, HeardKept DEF PromiseInv, Heard
<1>3. QED
  BY <1>1, <1>2

-----------------------------------------------------------------------------
(* What a step of the promise is seen from. *)

\* A step of the worker, and what it has to be.
Acting ==
  /\ Inv /\ Inv' /\ PromiseInv /\ Promise!Remember
  /\ UNCHANGED caches /\ spent'.ops = spent.ops

Promised == [Promise!Next]_(Promise!promised)

(***************************************************************************)
(* Faults are no doing of the users.                                       *)
(***************************************************************************)
LEMMA FaultsOnly ==
  ASSUME Inv, UNCHANGED spent \/ Fault
  PROVE  spent'.ops = spent.ops
BY DEF Inv, ClusterTypeOK, Fault

(***************************************************************************)
(* Neither namespaces nor caches nor the worker are promised anything.     *)
(***************************************************************************)
LEMMA QuietPromised ==
  ASSUME Recorded, Promise!Remember, UNCHANGED <<crs, quotas>>,
         spent'.ops = spent.ops
  PROVE  Promised
<1>1. UNCHANGED <<wanted, said, have>>
  BY DEF wanted, said, have
<1>2. QED
  BY <1>1, Stuttering DEF Promised

(***************************************************************************)
(* A CR has a spec, and a quota is one, as the promise sees them.          *)
(***************************************************************************)
LEMMA SpecThere ==
  ASSUME NEW rl \in CR
  PROVE  SpecOf(rl) # Absent
<1>1. /\ rl.uid \in Nat /\ rl.targets \in Seq(Target)
      /\ rl.applied \in BOOLEAN /\ rl.deleting \in BOOLEAN
  BY DEF CR
<1>2. SpecOf(rl) \in [uid : Nat, targets : Seq(Target),
                      applied : BOOLEAN, deleting : BOOLEAN]
  BY <1>1 DEF SpecOf
<1>3. QED
  BY <1>2, PromiseAssumption

(***************************************************************************)
(* The same of quotas.                                                     *)
(***************************************************************************)
LEMMA QuotaThere ==
  ASSUME NEW q \in Quota
  PROVE  [owner |-> q.owner, uid |-> q.uid, hard |-> q.hard] # Absent
BY PromiseAssumption DEF Quota

(***************************************************************************)
(* What a spec asks to limit is what the reconciler takes it to want.      *)
(***************************************************************************)
LEMMA LimitedWanted ==
  ASSUME NEW rl \in CR
  PROVE  /\ Promise!Limited(SpecOf(rl)) = Wanted(rl)
         /\ \A i \in 1..Len(rl.targets) :
              rl.targets[i] \in Promise!Targets(SpecOf(rl))
<1>1. rl.targets \in Seq(Target) /\ SpecOf(rl).targets = rl.targets
  BY DEF CR, SpecOf
<1>2. \A i \in 1..Len(rl.targets) : rl.targets[i] \in Target
  BY <1>1
<1>3. QED
  BY <1>1, <1>2 DEF Promise!Limited, Promise!Targets, Wanted

(***************************************************************************)
(* A quota written is the only thing that differs.                         *)
(***************************************************************************)
LEMMA QuotaSaid ==
  ASSUME StoredTypeOK, NEW s \in Namespaces, NEW q, QuotaWritten(s, q)
  PROVE  /\ UNCHANGED <<wanted, said>> /\ Promise!OnlyIn(s)
         /\ have'[s] = IF q = Absent THEN Absent
                       ELSE [owner |-> q.owner, uid |-> q.uid, hard |-> q.hard]
<1>1. /\ crs' = crs /\ quotas'[s] = q
      /\ \A r \in Namespaces : r # s => quotas'[r] = quotas[r]
  BY DEF QuotaWritten, StoredTypeOK
<1>2. UNCHANGED <<wanted, said>>
  BY <1>1 DEF wanted, said
<1>3. ASSUME NEW r \in Namespaces, r # s PROVE have'[r] = have[r]
  <2>1. quotas'[r] = quotas[r]
    BY <1>1, <1>3
  <2>2. QED
    BY <1>3, <2>1 DEF have
<1>4. Promise!OnlyIn(s)
  BY <1>3 DEF Promise!OnlyIn
<1>5. have'[s] = IF q = Absent THEN Absent
                 ELSE [owner |-> q.owner, uid |-> q.uid, hard |-> q.hard]
  BY <1>1 DEF have
<1>6. QED
  BY <1>2, <1>4, <1>5

(***************************************************************************)
(* What is known in the middle of a reconcile.                             *)
(***************************************************************************)
LEMMA InHand ==
  ASSUME Inv, PromiseInv, wk.pc \in Steps
  PROVE  /\ wk \in Reconciling /\ wk # Idle
         /\ wk.name \in Names /\ wk.rl \in CR
         /\ wk.rl.targets \in Choices[wk.name]
         /\ StoredTypeOK /\ Housed /\ Recorded
         /\ SpecOf(wk.rl) \in asked[wk.name]
         /\ ~wk.stale => crs[wk.name] = wk.rl
<1>1. wk # Idle
  BY DEF Idle, Steps
<1>2. wk \in Reconciling
  BY <1>1 DEF Inv, GoodWorker
<1>3. QED
  BY <1>1, <1>2
  DEF Reconciling, PromiseInv, HousedCopies, Known, Fresh, Inv, ClusterTypeOK

(***************************************************************************)
(* What an announced step of the worker is.                                *)
(***************************************************************************)
LEMMA HeardActing ==
  ASSUME Acting, Announced, Housed'
  PROVE  Heard
BY DEF Acting, Heard

-----------------------------------------------------------------------------
(* Reconcile, before it goes either way. *)

(***************************************************************************)
(* The registration of the finalizer: nothing changes.                     *)
(***************************************************************************)
LEMMA RegisterFinalizerHonours ==
  ASSUME Acting, RegisterFinalizer
  PROVE  PromiseInv' /\ Promised
<1>1. wk.pc = "register" /\ wk.pc \in Steps
  BY DEF RegisterFinalizer, Steps
<1>2. /\ wk \in Reconciling /\ wk.name \in Names
      /\ StoredTypeOK /\ Housed /\ Recorded
  BY <1>1, InHand DEF Acting
<1>3. \/ UNCHANGED stored
      \/ CRWritten(wk.name, crs[wk.name])
  BY DEF RegisterFinalizer, Call, Patched
<1>4. UNCHANGED <<crs, quotas, quotaEvents, crLag>>
  BY <1>2, <1>3 DEF stored, CRWritten, StoredTypeOK
<1>5. Heard
  BY <1>2, <1>4, QuietAnnounced, HeardActing
<1>6. Promised
  BY <1>2, <1>4, QuietPromised DEF Acting
<1>7. CASE Requeue
  BY <1>5, <1>6, <1>7, PromiseEnded DEF Requeue
<1>8. CASE Proceed([wk EXCEPT !.pc = "refetch"])
  <2>1. /\ wk' \in Reconciling /\ wk'.name = wk.name /\ wk'.rl = wk.rl
        /\ wk'.stale = wk.stale /\ wk'.pc = "refetch"
    BY <1>2, <1>8 DEF Proceed, Reconciling, Steps
  <2>2. Placed(wk') /\ Done'
    BY <2>1 DEF Placed, Done
  <2>3. QED
    BY <1>2, <1>4, <1>5, <1>6, <2>1, <2>2, PromiseOngoing
<1>9. QED
  BY <1>7, <1>8 DEF RegisterFinalizer, Call

(***************************************************************************)
(* A reconcile that begins, or begins again: nothing is behind.            *)
(***************************************************************************)
LEMMA DispatchHonours ==
  ASSUME Heard, UNCHANGED stored, NEW n \in Names, ccrs[n] # Absent,
         ccrs[n].deleting => Finalizer \in ccrs[n].finalizers,
         wk' = Dispatched(n)
  PROVE  PromiseInv'
<1>1. /\ wk' \in Reconciling /\ Placed(wk') /\ wk'.name = n
      /\ wk'.rl = ccrs[n] /\ wk'.stale = (n \in crLag)
  BY DispatchedPlaced DEF Heard
<1>2. wk'.pc \in {"label", "limit", "stop", "status"} =>
        wk'.idx = 1 /\ wk'.entries = {}
  <2>1. Fetched(n, "label") \in Reconciling /\ Fetched(n, "label").entries = {}
    BY FetchedOK DEF Heard, Inv, ClusterTypeOK, Fetched
  <2>2. /\ Visit(Fetched(n, "label"), 1).idx = 1
        /\ Visit(Fetched(n, "label"), 1).entries = {}
    BY <2>1 DEF Visit, Reconciling
  <2>3. Fetched(n, "release").pc = "release"
    BY DEF Fetched
  <2>4. QED
    BY <2>2, <2>3 DEF Dispatched
<1>3. ccrs[n] \in CR
  BY DEF Heard, Inv, ClusterTypeOK, CachesTypeOK
<1>4. Done'
  <2>1. Limits({}) = {}
    BY DEF Limits
  <2>2. wk'.pc \in {"label", "limit", "stop", "status"} =>
          Behind(wk'.rl, wk'.idx) = {} /\ Limits(wk'.entries) = {}
    BY <1>1, <1>2, <1>3, <2>1, BehindNothing
  <2>3. QED
    BY <2>2 DEF Done
<1>5. QED
  BY <1>1, <1>4, PromiseRead

(***************************************************************************)
(* Reconcile reading the CR again.                                         *)
(***************************************************************************)
LEMMA RefetchHonours ==
  ASSUME Acting, Refetch
  PROVE  PromiseInv' /\ Promised
<1>1. wk.pc = "refetch" /\ wk.pc \in Steps
  BY DEF Refetch, Steps
<1>2. /\ wk \in Reconciling /\ wk.name \in Names
      /\ StoredTypeOK /\ Housed /\ Recorded
  BY <1>1, InHand DEF Acting
<1>3. UNCHANGED stored
  BY DEF Refetch
<1>4. Heard
  BY <1>2, <1>3, ReadAnnounced, HeardActing
<1>5. Promised
  BY <1>2, <1>3, QuietPromised DEF Acting, stored
<1>6. CASE Requeue
  BY <1>4, <1>5, <1>6, PromiseEnded DEF Requeue
<1>7. CASE /\ ccrs[wk.name] # Absent
           /\ ccrs[wk.name].deleting => Finalizer \in ccrs[wk.name].finalizers
           /\ Proceed(Dispatched(wk.name))
  BY <1>2, <1>3, <1>4, <1>5, <1>7, DispatchHonours DEF Proceed
<1>8. QED
  BY <1>6, <1>7 DEF Refetch

(***************************************************************************)
(* A name taken from the queue.                                            *)
(***************************************************************************)
LEMMA StartHonours ==
  ASSUME Acting, NEW n \in Names, Start(n)
  PROVE  PromiseInv' /\ Promised
<1>1. /\ StoredTypeOK /\ Housed /\ Recorded /\ UNCHANGED stored /\ wk = Idle
  BY DEF Acting, Inv, ClusterTypeOK, PromiseInv, Start, Reconcile
<1>2. Heard
  BY <1>1, ReadAnnounced, HeardActing
<1>3. Promised
  BY <1>1, QuietPromised DEF Acting, stored
<1>4. CASE wk' = wk
  BY <1>1, <1>2, <1>3, <1>4, PromiseEnded
<1>5. CASE ccrs[n] # Absent /\ Finalizer \in ccrs[n].finalizers /\ wk' = Dispatched(n)
  BY <1>1, <1>2, <1>3, <1>5, DispatchHonours
<1>6. CASE ccrs[n] # Absent /\ wk' = Fetched(n, "register")
  <2>1. wk' \in Reconciling /\ wk'.pc = "register"
    BY <1>6, FetchedOK DEF Acting, Inv, ClusterTypeOK
  <2>2. wk'.name = n /\ wk'.rl = ccrs[n] /\ wk'.stale = (n \in crLag)
    BY <1>6 DEF Fetched
  <2>3. Placed(wk') /\ Done'
    BY <2>1 DEF Placed, Done
  <2>4. QED
    BY <1>1, <1>2, <1>3, <1>6, <2>1, <2>2, <2>3, PromiseRead
<1>7. QED
  BY <1>4, <1>5, <1>6 DEF Start, Reconcile

-----------------------------------------------------------------------------
(* reconcileDelete *)

(***************************************************************************)
(* Its loop goes on: no limits are the concern of this half.               *)
(***************************************************************************)
LEMMA DeletionGoesOn ==
  ASSUME Heard, crs' = crs, wk.pc \in {"delete", "unlabel"},
         wk' = NextTarget \/ wk' = [wk EXCEPT !.pc = "unlabel"]
  PROVE  PromiseInv'
<1>1. /\ wk \in Reconciling /\ wk.rl.deleting /\ Finalizer \in wk.rl.finalizers
  BY InHand DEF Heard, PromiseInv, Placed, Steps
<1>2. CASE wk' = NextTarget
  <2>1. wk.idx + 1 \in Nat \ {0}
    BY <1>1 DEF Reconciling
  <2>2. /\ wk' \in Reconciling /\ wk'.name = wk.name /\ wk'.rl = wk.rl
        /\ wk'.stale = wk.stale /\ Placed(wk')
        /\ wk'.pc \in {"delete", "release"}
    BY <1>1, <1>2, <2>1, VisitPlaced DEF NextTarget
  <2>3. Done'
    BY <2>2 DEF Done
  <2>4. QED
    BY <1>1, <2>2, <2>3, PromiseOngoing
<1>3. CASE wk' = [wk EXCEPT !.pc = "unlabel"]
  <2>1. /\ wk' \in Reconciling /\ wk'.name = wk.name /\ wk'.rl = wk.rl
        /\ wk'.stale = wk.stale /\ wk'.pc = "unlabel"
    BY <1>1, <1>3 DEF Reconciling, Steps
  <2>2. Placed(wk') /\ Done'
    BY <1>1, <2>1 DEF Placed, Done
  <2>3. QED
    BY <1>1, <2>1, <2>2, PromiseOngoing
<1>4. QED
  BY <1>2, <1>3

(***************************************************************************)
(* A quota removed for a CR that is switched off or is to go.              *)
(***************************************************************************)
LEMMA Freeing ==
  ASSUME Acting, wk.pc \in {"delete", "stop"}, QuotaWritten(target.ns, Absent)
  PROVE  Promised
<1>1. /\ wk.name \in Names /\ wk.rl \in CR /\ StoredTypeOK
      /\ SpecOf(wk.rl) \in asked[wk.name]
  BY InHand DEF Acting, Steps
<1>2. /\ target.ns \in Namespaces /\ wk.idx \in 1..Len(wk.rl.targets)
      /\ wk.pc = "stop" => target.ns \notin Ignored
  BY TargetOK DEF Acting, Inv, GoodWorker, target
<1>3. target \in Promise!Targets(SpecOf(wk.rl))
  BY <1>1, <1>2, LimitedWanted DEF target
<1>4. /\ SpecOf(wk.rl).deleting = wk.rl.deleting
      /\ SpecOf(wk.rl).applied = wk.rl.applied
  BY DEF SpecOf
<1>5. wk.rl.deleting \/ (~wk.rl.applied /\ target.ns \notin Ignored)
  BY <1>2 DEF Acting, PromiseInv, Placed
<1>6. /\ UNCHANGED <<wanted, said>> /\ Promise!OnlyIn(target.ns)
      /\ have'[target.ns] = Absent
  BY <1>1, <1>2, QuotaSaid
<1>7. Promise!Free(wk.name)
  BY <1>1, <1>3, <1>4, <1>5, <1>6 DEF Promise!Free
<1>8. QED
  BY <1>1, <1>7 DEF Acting, Promised, Promise!Next, Promise!ByController

(***************************************************************************)
(* reconcileDelete removing a quota.                                       *)
(***************************************************************************)
LEMMA DeleteQuotaHonours ==
  ASSUME Acting, DeleteQuota
  PROVE  PromiseInv' /\ Promised
<1>1. wk.pc = "delete" /\ wk.pc \in Steps
  BY DEF DeleteQuota, Steps
<1>2. /\ target.ns \in Namespaces /\ StoredTypeOK /\ Housed /\ Recorded
  BY <1>1, InHand, TargetOK DEF Acting, Inv
<1>3. UNCHANGED stored \/ QuotaWritten(target.ns, Absent)
  BY DEF DeleteQuota, Call
<1>4. Heard
  BY <1>2, <1>3, ReadAnnounced, QuotaAnnounced, HeardActing DEF QuotaWritten
<1>5. crs' = crs
  BY <1>3 DEF stored, QuotaWritten
<1>6. Promised
  BY <1>1, <1>2, <1>3, QuietPromised, Freeing DEF Acting, stored
<1>7. wk' = Idle \/ wk' = NextTarget \/ wk' = [wk EXCEPT !.pc = "unlabel"]
  BY DEF DeleteQuota, Call, Requeue, Proceed
<1>8. QED
  BY <1>1, <1>4, <1>5, <1>6, <1>7, PromiseEnded, DeletionGoesOn

(***************************************************************************)
(* The labels taken off.                                                   *)
(***************************************************************************)
LEMMA RemoveLabelsHonours ==
  ASSUME Acting, RemoveLabels
  PROVE  PromiseInv' /\ Promised
<1>1. wk.pc = "unlabel" /\ wk.pc \in Steps
  BY DEF RemoveLabels, Steps
<1>2. StoredTypeOK /\ Housed /\ Recorded
  BY <1>1, InHand DEF Acting
<1>3. UNCHANGED stored \/ NSWritten(target.ns, "plain")
  BY DEF RemoveLabels, Call
<1>4. UNCHANGED <<crs, quotas, quotaEvents, crLag>>
  BY <1>3 DEF stored, NSWritten
<1>5. Heard
  BY <1>2, <1>4, QuietAnnounced, HeardActing
<1>6. Promised
  BY <1>2, <1>4, QuietPromised DEF Acting
<1>7. wk' = Idle \/ wk' = NextTarget
  BY DEF RemoveLabels, Call, Requeue, Proceed
<1>8. QED
  BY <1>1, <1>4, <1>5, <1>6, <1>7, PromiseEnded, DeletionGoesOn

(***************************************************************************)
(* A CR written is the only thing that differs.                            *)
(***************************************************************************)
LEMMA CRSaid ==
  ASSUME StoredTypeOK, NEW n \in Names, NEW rl, CRWritten(n, rl)
  PROVE  /\ wanted' = [wanted EXCEPT ![n] = IF rl = Absent THEN Absent ELSE SpecOf(rl)]
         /\ said' = [said EXCEPT ![n] =
              IF rl = Absent THEN [state |-> "", limits |-> {}]
              ELSE [state |-> rl.state, limits |-> Limits(rl.quotas)]]
         /\ UNCHANGED have
<1>1. /\ crs'[n] = rl /\ quotas' = quotas
      /\ \A m \in Names : m # n => crs'[m] = crs[m]
  BY DEF CRWritten, StoredTypeOK
<1>2. wanted' = [wanted EXCEPT ![n] = IF rl = Absent THEN Absent ELSE SpecOf(rl)]
  BY <1>1 DEF wanted
<1>3. said' = [said EXCEPT ![n] =
        IF rl = Absent THEN [state |-> "", limits |-> {}]
        ELSE [state |-> rl.state, limits |-> Limits(rl.quotas)]]
  BY <1>1 DEF said, Limits
<1>4. have' = have
  BY <1>1 DEF have
<1>5. QED
  BY <1>2, <1>3, <1>4

(***************************************************************************)
(* A CR that loses a finalizer stays as it is, or leaves if it was to.     *)
(***************************************************************************)
LEMMA Leaving ==
  ASSUME StoredTypeOK, Recorded, Promise!Remember, spent'.ops = spent.ops,
         NEW n \in Names, crs[n] # Absent,
         NEW finalizers \in SUBSET {Finalizer, Foreground},
         CRWritten(n, Reap([crs[n] EXCEPT !.finalizers = finalizers]))
  PROVE  Promised
<1> DEFINE rl == [crs[n] EXCEPT !.finalizers = finalizers]
<1>1. crs[n] \in CR /\ rl \in CR
  BY DEF StoredTypeOK, CR
<1>2. /\ rl.uid = crs[n].uid /\ rl.targets = crs[n].targets
      /\ rl.applied = crs[n].applied /\ rl.deleting = crs[n].deleting
      /\ rl.state = crs[n].state /\ rl.quotas = crs[n].quotas
  BY <1>1 DEF CR
<1>3. CRWritten(n, Reap(rl))
  OBVIOUS
<1> HIDE DEF rl
<1>4. /\ wanted[n] = SpecOf(crs[n]) /\ SpecOf(rl) = SpecOf(crs[n])
      /\ said[n] = [state |-> rl.state, limits |-> Limits(rl.quotas)]
  BY <1>2, Mapped DEF SpecOf
<1>5. CASE Reap(rl) = Absent
  <2>1. /\ wanted' = [wanted EXCEPT ![n] = Absent]
        /\ said' = [said EXCEPT ![n] = Promise!Silent] /\ UNCHANGED have
    BY <1>3, <1>5, CRSaid DEF Promise!Silent
  <2>2. crs[n].deleting
    BY <1>1, <1>2, <1>5, AbsentAssumption DEF Reap
  <2>3. wanted[n] # Absent /\ wanted[n].deleting
    <3>1. SpecOf(crs[n]) # Absent
      BY <1>1, SpecThere
    <3>2. QED
      BY <1>4, <2>2, <3>1 DEF SpecOf
  <2>4. Promise!Leave(n)
    BY <2>1, <2>3 DEF Promise!Leave
  <2>5. QED
    BY <2>4 DEF Promised, Promise!Next, Promise!ByController
<1>6. CASE Reap(rl) = rl
  <2>1. /\ wanted' = [wanted EXCEPT ![n] = wanted[n]]
        /\ said' = [said EXCEPT ![n] = said[n]] /\ UNCHANGED have
    <3>1. rl # Absent /\ CRWritten(n, rl)
      BY <1>1, <1>3, <1>6, AbsentAssumption
    <3>2. /\ wanted' = [wanted EXCEPT ![n] = IF rl = Absent THEN Absent ELSE SpecOf(rl)]
          /\ said' = [said EXCEPT ![n] =
               IF rl = Absent THEN [state |-> "", limits |-> {}]
               ELSE [state |-> rl.state, limits |-> Limits(rl.quotas)]]
          /\ UNCHANGED have
      BY <3>1, CRSaid
    <3>3. QED
      BY <1>4, <3>1, <3>2
  <2>2. UNCHANGED <<wanted, said, have>>
    BY <2>1 DEF wanted, said
  <2>3. QED
    BY <2>2, Stuttering DEF Promised
<1>7. QED
  BY <1>5, <1>6 DEF Reap

(***************************************************************************)
(* The finalizer given up.                                                 *)
(***************************************************************************)
LEMMA ReleaseFinalizerHonours ==
  ASSUME Acting, ReleaseFinalizer
  PROVE  PromiseInv' /\ Promised
<1> DEFINE newrl == [wk.rl EXCEPT !.finalizers = @ \ {Finalizer}]
           fin == wk.rl.finalizers \ {Finalizer}
           rl == Reap([crs[wk.name] EXCEPT !.finalizers = fin])
<1>1. wk.pc = "release" /\ wk.pc \in Steps
  BY DEF ReleaseFinalizer, Steps
<1>2. /\ wk.name \in Names /\ wk.rl \in CR
      /\ StoredTypeOK /\ Housed /\ Recorded
  BY <1>1, InHand DEF Acting
<1>3. Finalizer \in wk.rl.finalizers
  BY <1>1 DEF Acting, PromiseInv, Placed
<1>4. /\ newrl.finalizers = fin /\ fin # wk.rl.finalizers
      /\ fin \in SUBSET {Finalizer, Foreground}
  BY <1>2, <1>3 DEF CR
<1> HIDE DEF newrl, fin
<1>5. Patched(crs[wk.name], wk.rl, newrl) = rl
  BY <1>4 DEF Patched
<1>6. \/ UNCHANGED stored
      \/ /\ crs[wk.name] # Absent
         /\ CRWritten(wk.name, Patched(crs[wk.name], wk.rl, newrl))
  BY DEF ReleaseFinalizer, Call, PatchAccepted, newrl
<1>7. wk' = Idle
  BY DEF ReleaseFinalizer, Call, Proceed, Requeue
<1>8. CASE UNCHANGED stored
  <2>1. Heard
    BY <1>2, <1>8, ReadAnnounced, HeardActing
  <2>2. Promised
    BY <1>2, <1>8, QuietPromised DEF Acting, stored
  <2>3. QED
    BY <1>7, <2>1, <2>2, PromiseEnded
<1>9. CASE crs[wk.name] # Absent /\ CRWritten(wk.name, rl)
  <2>1. rl # Absent => rl.targets \in Choices[wk.name]
    <3>1. crs[wk.name] \in CR /\ crs[wk.name].targets \in Choices[wk.name]
      BY <1>2, <1>9 DEF StoredTypeOK, Housed
    <3>2. QED
      BY <3>1 DEF Reap, CR
  <2>2. Heard
    <3> HIDE DEF rl
    <3>1. QED
      BY <1>2, <1>9, <2>1, CRAnnounced, HeardActing
  <2>3. Promised
    BY <1>2, <1>4, <1>9, Leaving DEF Acting
  <2>4. QED
    BY <1>7, <2>2, <2>3, PromiseEnded
<1>10. QED
  BY <1>5, <1>6, <1>8, <1>9

-----------------------------------------------------------------------------
(* reconcile *)

(***************************************************************************)
(* Its loop goes on to the next target, with what is behind.               *)
(***************************************************************************)
LEMMA LoopGoesOn ==
  ASSUME Heard, crs' = crs, wk.pc \in {"label", "limit", "stop"},
         NEW entries \in SUBSET Entry,
         wk' = [NextTarget EXCEPT !.entries = entries],
         IF wk.rl.applied
         THEN /\ Limits(entries) = Behind(wk.rl, wk.idx + 1)
              /\ ~wk.stale => Behind(wk.rl, wk.idx + 1) \subseteq met'[wk.name]
         ELSE Limits(entries) = {}
  PROVE  PromiseInv'
<1>1. wk \in Reconciling /\ wk.name \in Names
  BY InHand DEF Heard, Steps
<1>2. ~wk.rl.deleting
  BY DEF Heard, PromiseInv, Placed
<1>3. wk.idx + 1 \in Nat \ {0}
  BY <1>1 DEF Reconciling
<1>4. /\ NextTarget \in Reconciling /\ Placed(NextTarget)
      /\ NextTarget.name = wk.name /\ NextTarget.rl = wk.rl
      /\ NextTarget.stale = wk.stale /\ NextTarget.idx = wk.idx + 1
  BY <1>1, <1>2, <1>3, VisitPlaced DEF NextTarget
<1>5. /\ wk' \in Reconciling /\ wk'.pc = NextTarget.pc /\ wk'.name = wk.name
      /\ wk'.rl = wk.rl /\ wk'.stale = wk.stale /\ wk'.idx = wk.idx + 1
      /\ wk'.entries = entries
  BY <1>4 DEF Reconciling
<1>6. Placed(wk')
  BY <1>4, <1>5 DEF Placed
<1>7. Done'
  BY <1>5 DEF Done
<1>8. QED
  BY <1>1, <1>5, <1>6, <1>7, PromiseOngoing

(***************************************************************************)
(* What was met behind the worker is not forgotten.                        *)
(***************************************************************************)
LEMMA DoneKept ==
  ASSUME Heard, crs' = crs, wk.pc \in {"label", "limit", "stop"}
  PROVE  IF wk.rl.applied
         THEN /\ Limits(wk.entries) = Behind(wk.rl, wk.idx)
              /\ ~wk.stale => Behind(wk.rl, wk.idx) \subseteq met'[wk.name]
         ELSE Limits(wk.entries) = {}
<1>1. wk.name \in Names
  BY InHand DEF Heard, Steps
<1>2. met[wk.name] \subseteq met'[wk.name]
  BY <1>1, HeardKept
<1>3. QED
  BY <1>2 DEF Heard, PromiseInv, Done

(***************************************************************************)
(* The namespace labelled or skipped.                                      *)
(***************************************************************************)
LEMMA LabelNamespaceHonours ==
  ASSUME Acting, LabelNamespace
  PROVE  PromiseInv' /\ Promised
<1>1. wk.pc = "label" /\ wk.pc \in Steps
  BY DEF LabelNamespace, Steps
<1>2. /\ wk \in Reconciling /\ wk.rl \in CR /\ NextTarget \in Reconciling
      /\ StoredTypeOK /\ Housed /\ Recorded
  BY <1>1, InHand, TargetOK DEF Acting, Inv
<1>3. UNCHANGED stored \/ NSWritten(target.ns, "labelled")
  BY DEF LabelNamespace, Call
<1>4. UNCHANGED <<crs, quotas, quotaEvents, crLag>>
  BY <1>3 DEF stored, NSWritten
<1>5. Heard
  BY <1>2, <1>4, QuietAnnounced, HeardActing
<1>6. Promised
  BY <1>2, <1>4, QuietPromised DEF Acting
<1>7. CASE Requeue
  BY <1>5, <1>6, <1>7, PromiseEnded DEF Requeue
<1>8. CASE target.ns \in Ignored /\ Proceed(NextTarget)
  <2>1. wk.idx \in 1..Len(wk.rl.targets)
    BY <1>1 DEF Acting, Inv, GoodWorker
  <2>2. Behind(wk.rl, wk.idx + 1) = Behind(wk.rl, wk.idx)
    BY <1>2, <1>8, <2>1, BehindNext DEF target
  <2>3. wk.entries \in SUBSET Entry
    BY <1>2 DEF Reconciling
  <2>4. wk' = [NextTarget EXCEPT !.entries = wk.entries]
    BY <1>2, <1>8 DEF Proceed, NextTarget, Visit, Reconciling
  <2>5. QED
    BY <1>1, <1>4, <1>5, <1>6, <2>2, <2>3, <2>4, DoneKept, LoopGoesOn
<1>9. CASE Proceed([wk EXCEPT !.pc = IF wk.rl.applied THEN "limit" ELSE "stop"])
  <2>1. /\ wk' \in Reconciling /\ wk'.name = wk.name /\ wk'.rl = wk.rl
        /\ wk'.stale = wk.stale /\ wk'.idx = wk.idx /\ wk'.entries = wk.entries
        /\ wk'.pc = IF wk.rl.applied THEN "limit" ELSE "stop"
    BY <1>2, <1>9 DEF Proceed, Reconciling, Steps
  <2>2. Placed(wk')
    BY <1>1, <2>1 DEF Acting, PromiseInv, Placed
  <2>3. Done'
    BY <1>1, <1>4, <1>5, <2>1, DoneKept DEF Done
  <2>4. QED
    BY <1>2, <1>4, <1>5, <1>6, <2>1, <2>2, <2>3, PromiseOngoing
<1>10. QED
  BY <1>7, <1>8, <1>9 DEF LabelNamespace, Call

(***************************************************************************)
(* A quota made or changed has the limits, and a new one the owner, of a   *)
(* spec that limits.                                                       *)
(***************************************************************************)
LEMMA Limiting ==
  ASSUME Acting, wk.pc = "limit", NEW q \in Quota, QuotaWritten(target.ns, q),
         q.hard = target.hard,
         IF quotas[target.ns] = Absent
         THEN q.owner = wk.name /\ q.uid = wk.rl.uid
         ELSE q.owner = quotas[target.ns].owner /\ q.uid = quotas[target.ns].uid
  PROVE  Promised
<1> DEFINE sp == SpecOf(wk.rl)
           s == target.ns
<1>1. /\ wk.name \in Names /\ wk.rl \in CR /\ StoredTypeOK
      /\ sp \in asked[wk.name]
  BY InHand DEF Acting, Steps
<1>2. /\ s \in Namespaces /\ wk.idx \in 1..Len(wk.rl.targets)
      /\ s \notin Ignored
  BY TargetOK DEF Acting, Inv, GoodWorker, target
<1>3. target \in Promise!Limited(sp)
  BY <1>1, <1>2, LimitedWanted DEF target, Promise!Limited
<1>4. sp.deleting = wk.rl.deleting /\ sp.applied = wk.rl.applied /\ sp.uid = wk.rl.uid
  BY DEF SpecOf
<1> HIDE DEF sp
<1>5. wk.rl.applied /\ ~wk.rl.deleting
  BY DEF Acting, PromiseInv, Placed
<1>6. /\ UNCHANGED <<wanted, said>> /\ Promise!OnlyIn(s)
      /\ have'[s] = [owner |-> q.owner, uid |-> q.uid, hard |-> q.hard]
  <2>1. q # Absent
    BY AbsentAssumption
  <2>2. QED
    BY <1>1, <1>2, <2>1, QuotaSaid
<1>7. have'[s] = IF have[s] = Absent
                 THEN [owner |-> wk.name, uid |-> sp.uid, hard |-> target.hard]
                 ELSE [have[s] EXCEPT !.hard = target.hard]
  <2>1. CASE quotas[s] = Absent
    <3>1. have[s] = Absent
      BY <1>2, <2>1, Mapped
    <3>2. q.owner = wk.name /\ q.uid = sp.uid
      BY <1>4, <2>1
    <3>3. QED
      BY <1>6, <3>1, <3>2
  <2>2. CASE quotas[s] # Absent
    <3>1. quotas[s] \in Quota
      BY <1>1, <1>2, <2>2 DEF StoredTypeOK
    <3>2. have[s] = [owner |-> quotas[s].owner, uid |-> quotas[s].uid,
                     hard |-> quotas[s].hard]
      BY <1>2, <2>2, Mapped
    <3>3. have[s] # Absent
      BY <3>1, <3>2, QuotaThere
    <3>4. QED
      BY <1>6, <2>2, <3>2, <3>3
  <2>3. QED
    BY <2>1, <2>2
<1>8. Promise!Limit(wk.name)
  BY <1>1, <1>3, <1>4, <1>5, <1>6, <1>7 DEF Promise!Limit
<1>9. QED
  BY <1>1, <1>8 DEF Acting, Promised, Promise!Next, Promise!ByController

(***************************************************************************)
(* The quota created.                                                      *)
(***************************************************************************)
LEMMA CreateQuotaHonours ==
  ASSUME Acting, CreateQuota
  PROVE  PromiseInv' /\ Promised
<1> DEFINE q == [owner |-> wk.name, uid |-> wk.rl.uid,
                 hard |-> target.hard, used |-> 0]
<1>1. wk.pc = "limit" /\ wk.pc \in Steps
  BY DEF CreateQuota, Steps
<1>2. /\ wk.name \in Names /\ wk.rl \in CR /\ wk.rl.targets \in Choices[wk.name]
      /\ StoredTypeOK /\ Housed /\ Recorded
      /\ target.ns \in Namespaces /\ target.hard \in Hards
      /\ wk.idx \in 1..Len(wk.rl.targets)
  BY <1>1, InHand, TargetOK DEF Acting, Inv, GoodWorker
<1>3. q \in Quota
  BY <1>2, NamesAssumption DEF CreateQuota, Quota, CR
<1>4. target.ns \in Home(wk.name)
  BY <1>2 DEF target, Home
<1>5. q.owner = wk.name /\ q.uid = wk.rl.uid /\ q.hard = target.hard
  OBVIOUS
<1>6. \/ UNCHANGED stored
      \/ quotas[target.ns] = Absent /\ QuotaWritten(target.ns, q)
  BY DEF CreateQuota, Call
<1>7. wk' = Idle
  BY DEF CreateQuota, Call, Proceed, Requeue
<1> HIDE DEF q
<1>8. Heard
  BY <1>2, <1>3, <1>4, <1>5, <1>6, ReadAnnounced, QuotaAnnounced, HeardActing
  DEF QuotaWritten
<1>9. Promised
  <2>1. CASE UNCHANGED stored
    BY <1>2, <2>1, QuietPromised DEF Acting, stored
  <2>2. CASE quotas[target.ns] = Absent /\ QuotaWritten(target.ns, q)
    BY <1>1, <1>3, <1>5, <2>2, Limiting
  <2>3. QED
    BY <1>6, <2>1, <2>2
<1>10. QED
  BY <1>7, <1>8, <1>9, PromiseEnded

(***************************************************************************)
(* The quota updated: its target is met under the spec that is gone by.    *)
(***************************************************************************)
LEMMA UpdateQuotaHonours ==
  ASSUME Acting, UpdateQuota
  PROVE  PromiseInv' /\ Promised
<1> DEFINE s == target.ns
           q == [cquotas[s] EXCEPT !.hard = target.hard]
           e == [ns |-> s, used |-> cquotas[s].used, hard |-> target.hard]
<1>1. wk.pc = "limit" /\ wk.pc \in Steps
  BY DEF UpdateQuota, Steps
<1>2. /\ wk \in Reconciling /\ wk.name \in Names /\ wk.rl \in CR
      /\ wk.rl.targets \in Choices[wk.name] /\ wk.entries \in SUBSET Entry
      /\ StoredTypeOK /\ Housed /\ Recorded /\ Synced
      /\ target \in Target /\ s \in Namespaces /\ target.hard \in Hards
      /\ NextTarget \in Reconciling
      /\ wk.idx \in 1..Len(wk.rl.targets)
      /\ target.ns \notin Ignored /\ wk.rl.applied
  BY <1>1, InHand, TargetOK
  DEF Acting, Inv, GoodWorker, Reconciling, PromiseInv, Placed, target
<1>3. cquotas[s] \in Quota
  BY <1>2 DEF UpdateQuota, Acting, Inv, ClusterTypeOK, CachesTypeOK
<1>4. /\ q \in Quota /\ q.hard = target.hard /\ q.owner = cquotas[s].owner
      /\ q.uid = cquotas[s].uid /\ e \in Entry
      /\ [ns |-> e.ns, hard |-> e.hard] = target
  BY <1>2, <1>3 DEF UpdateQuota, Quota, Entry, Target
<1>5. Requeue \/ Proceed([NextTarget EXCEPT !.entries = @ \cup {e}])
  BY DEF UpdateQuota, Call
<1>6. \/ UNCHANGED stored /\ Requeue
      \/ quotaEvents[s] = {} /\ QuotaWritten(s, q)
  BY DEF UpdateQuota, Call
<1> HIDE DEF s, q, e
<1>7. quotaEvents[s] = {} => cquotas[s] = quotas[s] /\ s \in Home(q.owner)
  BY <1>2, <1>3, <1>4, AbsentAssumption DEF Synced, Housed
<1>8. Heard
  BY <1>2, <1>4, <1>6, <1>7, ReadAnnounced, QuotaAnnounced, HeardActing
  DEF QuotaWritten
<1>9. Promised
  <2>1. CASE UNCHANGED stored
    BY <1>2, <2>1, QuietPromised DEF Acting, stored
  <2>2. CASE quotaEvents[s] = {} /\ QuotaWritten(s, q)
    <3>1. quotas[target.ns] # Absent /\ quotas[target.ns] = cquotas[s]
      BY <1>3, <1>7, <2>2, AbsentAssumption DEF s
    <3>2. QED
      BY <1>1, <1>4, <2>2, <3>1, Limiting DEF s
  <2>3. QED
    BY <1>6, <2>1, <2>2
<1>10. CASE Requeue
  BY <1>8, <1>9, <1>10, PromiseEnded DEF Requeue
<1>11. CASE /\ Proceed([NextTarget EXCEPT !.entries = @ \cup {e}])
            /\ QuotaWritten(s, q)
  <2>1. Behind(wk.rl, wk.idx + 1) = Behind(wk.rl, wk.idx) \cup {target}
    BY <1>2, BehindNext DEF target
  <2>2. Limits(wk.entries \cup {e}) = Limits(wk.entries) \cup {target}
    BY <1>4 DEF Limits
  <2>3. crs' = crs
    BY <1>11 DEF QuotaWritten
  <2>4. ASSUME ~wk.stale PROVE target \in met'[wk.name]
    <3>1. crs'[wk.name] = wk.rl /\ wk.rl # Absent
      BY <1>1, <1>2, <2>3, <2>4, InHand, AbsentAssumption DEF Acting
    <3>2. SpecOf(wk.rl) # Absent
      BY <1>2, SpecThere
    <3>3. wanted'[wk.name] = SpecOf(wk.rl)
      BY <1>2, <3>1, MappedNext
    <3>4. target \in Promise!Limited(SpecOf(wk.rl))
      BY <1>2, LimitedWanted DEF target, Promise!Limited
    <3>5. have'[s] = [owner |-> q.owner, uid |-> q.uid, hard |-> q.hard]
      <4>1. q # Absent
        BY <1>4, AbsentAssumption
      <4>2. QED
        BY <1>2, <1>11, <4>1, QuotaSaid
    <3>6. have'[s] # Absent
      BY <1>4, <3>5, QuotaThere
    <3>7. PICK t : t = target
      OBVIOUS
    <3>8. Promise!Holds(t)'
      BY <1>4, <3>5, <3>6, <3>7 DEF Promise!Holds, s
    <3>9. PICK n \in Names : n = wk.name
      BY <1>2
    <3>10. t \in met'[n]
      BY <1>8, <3>2, <3>3, <3>4, <3>7, <3>8, <3>9, HeardKept DEF Recorded
    <3>11. QED
      BY <3>7, <3>9, <3>10
  <2>5. wk.entries \cup {e} \in SUBSET Entry
    BY <1>2, <1>4
  <2>6. wk' = [NextTarget EXCEPT !.entries = wk.entries \cup {e}]
    BY <1>2, <1>11 DEF Proceed, NextTarget, Visit, Reconciling
  <2>7. QED
    BY <1>1, <1>2, <1>8, <1>9, <2>1, <2>2, <2>3, <2>4, <2>5, <2>6,
       DoneKept, LoopGoesOn
<1>12. QED
  BY <1>5, <1>6, <1>10, <1>11

(***************************************************************************)
(* The quota deleted or found gone, of which the status says nothing.      *)
(***************************************************************************)
LEMMA StopQuotaHonours ==
  ASSUME Acting, StopQuota
  PROVE  PromiseInv' /\ Promised
<1>1. wk.pc = "stop" /\ wk.pc \in Steps
  BY DEF StopQuota, Steps
<1>2. /\ wk \in Reconciling /\ wk.entries \in SUBSET Entry
      /\ StoredTypeOK /\ Housed /\ Recorded
      /\ target.ns \in Namespaces /\ NextTarget \in Reconciling
      /\ ~wk.rl.applied
  BY <1>1, InHand, TargetOK DEF Acting, Inv, Reconciling, PromiseInv, Placed
<1>3. UNCHANGED stored \/ QuotaWritten(target.ns, Absent)
  BY DEF StopQuota, Call
<1>4. wk' = Idle \/ wk' = NextTarget
  BY DEF StopQuota, Call, Requeue, Proceed
<1>5. wk' = NextTarget => wk' = [NextTarget EXCEPT !.entries = wk.entries]
  BY <1>2 DEF NextTarget, Visit, Reconciling
<1>6. Heard
  BY <1>2, <1>3, ReadAnnounced, QuotaAnnounced, HeardActing DEF QuotaWritten
<1>7. crs' = crs
  BY <1>3 DEF stored, QuotaWritten
<1>8. Promised
  BY <1>1, <1>2, <1>3, QuietPromised, Freeing DEF Acting, stored
<1>9. Limits(wk.entries) = {}
  BY <1>1, <1>2 DEF Acting, PromiseInv, Done
<1>10. QED
  BY <1>1, <1>2, <1>4, <1>5, <1>6, <1>7, <1>8, <1>9, PromiseEnded, LoopGoesOn

(***************************************************************************)
(* The status updated: from a copy that is the latest, hence of the        *)
(* present spec, each limit of which was put in place on the way here.     *)
(***************************************************************************)
LEMMA UpdateStatusHonours ==
  ASSUME Acting, UpdateStatus
  PROVE  PromiseInv' /\ Promised
<1> DEFINE rl == [wk.rl EXCEPT
                    !.state = IF wk.rl.applied THEN "ready" ELSE "stopped",
                    !.quotas = wk.entries]
           sp == SpecOf(wk.rl)
<1>1. wk.pc = "status" /\ wk.pc \in Steps
  BY DEF UpdateStatus, Steps
<1>2. /\ wk \in Reconciling /\ wk.name \in Names /\ wk.rl \in CR
      /\ wk.rl.targets \in Choices[wk.name] /\ wk.entries \in SUBSET Entry
      /\ StoredTypeOK /\ Housed /\ Recorded
      /\ wk.idx \in Nat /\ wk.idx > Len(wk.rl.targets) /\ ~wk.rl.deleting
  BY <1>1, InHand DEF Acting, Reconciling, PromiseInv, Placed
<1>3. /\ rl \in CR /\ rl.targets = wk.rl.targets /\ SpecOf(rl) = sp
      /\ rl.quotas = wk.entries
      /\ rl.state = IF wk.rl.applied THEN "ready" ELSE "stopped"
  BY <1>2 DEF CR, SpecOf
<1>4. UNCHANGED stored \/ (~wk.stale /\ CRWritten(wk.name, rl))
  BY DEF UpdateStatus, Call
<1>5. wk' = Idle
  BY DEF UpdateStatus, Call, Proceed, Requeue
<1>6. /\ sp.applied = wk.rl.applied /\ sp.deleting = wk.rl.deleting
      /\ sp.targets = wk.rl.targets
  BY DEF SpecOf
<1> HIDE DEF rl, sp
<1>7. rl # Absent /\ wk.rl # Absent /\ sp # Absent
  <2>1. sp # Absent
    BY <1>2, SpecThere DEF sp
  <2>2. QED
    BY <1>2, <1>3, <2>1, AbsentAssumption
<1>8. Heard
  <2>1. CASE UNCHANGED stored
    BY <1>2, <2>1, ReadAnnounced, HeardActing
  <2>2. CASE CRWritten(wk.name, rl)
    BY <1>2, <1>3, <2>2, CRAnnounced, HeardActing
  <2>3. QED
    BY <1>4, <2>1, <2>2
<1>9. Promised
  <2>1. CASE UNCHANGED stored
    BY <1>2, <2>1, QuietPromised DEF Acting, stored
  <2>2. CASE ~wk.stale /\ CRWritten(wk.name, rl)
    <3>1. crs[wk.name] = wk.rl
      BY <1>1, <2>2, InHand DEF Acting
    <3>2. wanted[wk.name] = sp
      BY <1>2, <1>7, <3>1, Mapped DEF sp
    <3>3. /\ wanted' = [wanted EXCEPT ![wk.name] = sp]
          /\ said' = [said EXCEPT ![wk.name] =
               [state |-> rl.state, limits |-> Limits(rl.quotas)]]
          /\ UNCHANGED have
      BY <1>2, <1>3, <1>7, <2>2, CRSaid
    <3>4. UNCHANGED wanted
      BY <3>2, <3>3 DEF wanted
    <3>5. Promise!Limited(sp) = Behind(wk.rl, wk.idx)
      BY <1>2, LimitedWanted, BehindWanted DEF sp
    <3>6. wk.rl.applied => /\ met[wk.name] = Promise!Limited(sp)
                           /\ Limits(rl.quotas) = Promise!Limited(sp)
      <4>1. met[wk.name] \subseteq Promise!Limited(sp)
        BY <1>2, <1>7, <3>2 DEF Recorded
      <4>2. wk.rl.applied => /\ Limits(wk.entries) = Behind(wk.rl, wk.idx)
                             /\ Behind(wk.rl, wk.idx) \subseteq met[wk.name]
        BY <1>1, <2>2 DEF Acting, PromiseInv, Done
      <4>3. QED
        BY <1>3, <3>5, <4>1, <4>2
    <3>7. ~wk.rl.applied => Limits(rl.quotas) = {}
      BY <1>1, <1>3 DEF Acting, PromiseInv, Done
    <3>8. [state |-> rl.state, limits |-> Limits(rl.quotas)] =
            IF sp.applied THEN Promise!Ready(sp) ELSE Promise!Stopped
      BY <1>3, <1>6, <3>6, <3>7 DEF Promise!Ready, Promise!Stopped
    <3>9. Promise!Report(wk.name)
      BY <1>2, <1>6, <1>7, <3>2, <3>3, <3>4, <3>6, <3>8 DEF Promise!Report
    <3>10. QED
      BY <1>2, <3>9 DEF Acting, Promised, Promise!Next, Promise!ByController
  <2>3. QED
    BY <1>4, <2>1, <2>2
<1>10. QED
  BY <1>5, <1>8, <1>9, PromiseEnded

-----------------------------------------------------------------------------
(* The process and everybody else. *)

(***************************************************************************)
(* A new process lists everything and knows of nothing but the present.    *)
(***************************************************************************)
LEMMA RelistHonours ==
  ASSUME Inv, PromiseInv, Promise!Remember, Relist, wk' = Idle,
         spent'.ops = spent.ops
  PROVE  PromiseInv' /\ Promised
<1>1. UNCHANGED <<crs, quotas>> /\ ccrs' = crs
  BY DEF Relist
<1>2. Synced'
  BY DEF Relist, Synced
<1>3. Housed'
  <2>1. \A s \in Namespaces : quotaEvents'[s] = {}
    BY DEF Relist
  <2>2. QED
    BY <1>1, <2>1 DEF Housed, PromiseInv
<1>4. HousedCopies'
  BY <1>1 DEF Housed, HousedCopies, PromiseInv
<1>5. Placed(wk') /\ Done' /\ Fresh'
  BY DEF Placed, Done, Fresh, Idle
<1>6. Recorded' /\ \A n \in Names : wanted'[n] # Absent => wanted'[n] \in asked'[n]
  BY Remembering DEF PromiseInv
<1>7. Known'
  <2>1. ASSUME NEW n \in Names, ccrs'[n] # Absent
        PROVE  SpecOf(ccrs'[n]) \in asked'[n]
    <3>1. crs'[n] \in CR /\ ccrs'[n] = crs'[n]
      BY <1>1, <2>1 DEF Inv, ClusterTypeOK, StoredTypeOK
    <3>2. crs'[n] # Absent /\ SpecOf(crs'[n]) # Absent
      BY <2>1, <3>1, SpecThere
    <3>3. wanted'[n] = SpecOf(crs'[n])
      BY <3>2, MappedNext
    <3>4. QED
      BY <1>6, <3>1, <3>2, <3>3
  <2>2. QED
    BY <2>1 DEF Known
<1>8. Promised
  BY <1>1, QuietPromised DEF PromiseInv
<1>9. QED
  BY <1>2, <1>3, <1>4, <1>5, <1>6, <1>7, <1>8 DEF PromiseInv

(***************************************************************************)
(* A copy that catches up is of something that was asked for.              *)
(***************************************************************************)
LEMMA DeliverHonours ==
  ASSUME Inv, PromiseInv, Promise!Remember, Deliver, wk' = Outdated
  PROVE  PromiseInv' /\ Promised
<1>1. UNCHANGED <<crs, quotas, wk>> /\ spent' = spent
  BY DEF Deliver, DeliverCR, DeliverNamespace, DeliverQuota, Outdated
<1>2. /\ crLag \subseteq Names /\ ccrs \in [Names -> CR \cup {Absent}]
      /\ cquotas \in [Namespaces -> Quota \cup {Absent}]
      /\ quotaEvents \in [Namespaces -> SUBSET Names]
  BY DEF Inv, ClusterTypeOK, StoredTypeOK, CachesTypeOK
<1>3. Synced'
  <2>1. ASSUME NEW n \in Names, DeliverCR(n) PROVE Synced'
    BY <1>2, <2>1 DEF DeliverCR, Synced, PromiseInv
  <2>2. ASSUME NEW s \in Namespaces, DeliverNamespace(s) PROVE Synced'
    BY <2>2 DEF DeliverNamespace, Synced, PromiseInv
  <2>3. ASSUME NEW s \in Namespaces, DeliverQuota(s) PROVE Synced'
    BY <1>2, <2>3 DEF DeliverQuota, Synced, PromiseInv
  <2>4. QED
    BY <2>1, <2>2, <2>3 DEF Deliver
<1>4. Housed'
  <2>1. \A s \in Namespaces : quotaEvents'[s] \subseteq quotaEvents[s]
    BY <1>2 DEF Deliver, DeliverCR, DeliverNamespace, DeliverQuota
  <2>2. QED
    BY <1>1, <2>1 DEF Housed, PromiseInv
<1>5. \A n \in Names : ccrs'[n] = ccrs[n] \/ ccrs'[n] = crs[n]
  BY <1>2 DEF Deliver, DeliverCR, DeliverNamespace, DeliverQuota
<1>6. HousedCopies'
  BY <1>1, <1>5 DEF HousedCopies, Housed, PromiseInv
<1>7. /\ Recorded' /\ \A n \in Names : asked[n] \subseteq asked'[n]
      /\ \A n \in Names : met[n] \subseteq met'[n]
  <2>1. UNCHANGED wanted
    BY <1>1 DEF wanted
  <2>2. QED
    BY <2>1, Remembering DEF PromiseInv
<1>8. Known'
  <2>1. ASSUME NEW n \in Names, ccrs'[n] # Absent
        PROVE  SpecOf(ccrs'[n]) \in asked'[n]
    <3>1. CASE ccrs'[n] = ccrs[n]
      BY <1>7, <2>1, <3>1 DEF Known, PromiseInv
    <3>2. CASE ccrs'[n] = crs[n]
      <4>1. crs[n] \in CR
        BY <2>1, <3>2 DEF Inv, ClusterTypeOK, StoredTypeOK
      <4>2. SpecOf(crs[n]) # Absent
        BY <4>1, SpecThere
      <4>3. wanted[n] = SpecOf(crs[n])
        BY <2>1, <3>2, Mapped
      <4>4. QED
        BY <1>7, <3>2, <4>2, <4>3 DEF Recorded, PromiseInv
    <3>3. QED
      BY <1>5, <3>1, <3>2
  <2>2. wk # Idle => wk.name \in Names
    BY DEF Inv, GoodWorker, Reconciling
  <2>3. QED
    BY <1>1, <1>7, <2>1, <2>2 DEF Known, PromiseInv
<1>9. Placed(wk') /\ Fresh'
  BY <1>1 DEF Fresh, PromiseInv
<1>10. Done'
  <2>1. CASE wk = Idle
    BY <1>1, <2>1 DEF Done, Idle
  <2>2. CASE wk # Idle
    <3>1. PICK n \in Names : n = wk.name
      BY <2>2 DEF Inv, GoodWorker, Reconciling
    <3>2. QED
      BY <1>1, <1>7, <3>1 DEF Done, PromiseInv
  <2>3. QED
    BY <2>1, <2>2
<1>11. Promised
  BY <1>1, QuietPromised DEF PromiseInv
<1>12. QED
  BY <1>3, <1>4, <1>6, <1>7, <1>8, <1>9, <1>10, <1>11 DEF PromiseInv

(***************************************************************************)
(* The garbage collector takes quotas without an owner, and CRs that were  *)
(* to go.                                                                  *)
(***************************************************************************)
LEMMA CollectHonours ==
  ASSUME StoredTypeOK, Recorded, Promise!Remember, Collect
  PROVE  Promised
<1>1. spent' = spent
  BY DEF Collect, CollectQuota, EndForeground
<1>2. ASSUME NEW s \in Namespaces, CollectQuota(s) PROVE Promised
  <2>1. quotas[s] \in Quota /\ Orphan(s) /\ QuotaWritten(s, Absent)
    BY <1>2 DEF CollectQuota, Orphan, StoredTypeOK
  <2>2. /\ UNCHANGED <<wanted, said>> /\ Promise!OnlyIn(s) /\ have'[s] = Absent
    BY <2>1, QuotaSaid
  <2>3. have' = [have EXCEPT ![s] = Absent]
    <3>1. /\ have = [r \in Namespaces |-> have[r]]
          /\ have' = [r \in Namespaces |-> have'[r]]
      BY DEF have
    <3>2. \A r \in Namespaces : have'[r] = [have EXCEPT ![s] = Absent][r]
      BY <2>2, <3>1 DEF Promise!OnlyIn
    <3>3. QED
      BY <3>1, <3>2
  <2>4. have[s] = [owner |-> quotas[s].owner, uid |-> quotas[s].uid,
                   hard |-> quotas[s].hard]
    BY <2>1, AbsentAssumption, Mapped
  <2>5. have[s] # Absent
    BY <2>1, <2>4, QuotaThere
  <2> DEFINE owner == wanted[have[s].owner]
  <2>6. owner # Absent /\ owner.uid = have[s].uid => owner.deleting
    <3>1. PICK m \in Names : m = quotas[s].owner
      BY <2>1 DEF Quota
    <3>2. owner = wanted[m] /\ have[s].uid = quotas[s].uid
      BY <2>4, <3>1
    <3> HIDE DEF owner
    <3>3. CASE crs[m] = Absent
      BY <3>2, <3>3, Mapped
    <3>4. CASE crs[m] # Absent
      <4>1. wanted[m] = SpecOf(crs[m])
        BY <3>4, Mapped
      <4>2. owner.uid = crs[m].uid /\ owner.deleting = crs[m].deleting
        BY <3>2, <4>1 DEF SpecOf
      <4>3. quotas[s].uid = crs[m].uid => crs[m].deleting
        BY <2>1, <3>1, <3>4, AbsentAssumption DEF Orphan, Dependents, Foregoing
      <4>4. QED
        BY <3>2, <4>2, <4>3
    <3>5. QED
      BY <3>3, <3>4
  <2>7. Promise!Collect(s)
    BY <2>2, <2>3, <2>5, <2>6 DEF Promise!Collect
  <2>8. QED
    BY <1>1, <2>7 DEF Promised, Promise!Next, Promise!ByController
<1>3. ASSUME NEW n \in Names, EndForeground(n) PROVE Promised
  <2>1. crs[n] # Absent /\ crs[n] \in CR
    BY <1>3 DEF EndForeground, StoredTypeOK
  <2>2. crs[n].finalizers \ {Foreground} \in SUBSET {Finalizer, Foreground}
    BY <2>1 DEF CR
  <2>3. CRWritten(n, Reap([crs[n] EXCEPT !.finalizers =
                             crs[n].finalizers \ {Foreground}]))
    BY <1>3 DEF EndForeground
  <2>4. QED
    BY <1>1, <2>1, <2>2, <2>3, Leaving
<1>4. QED
  BY <1>2, <1>3 DEF Collect

(***************************************************************************)
(* A CR written by users: a new one says nothing, one that stays says what *)
(* it said.                                                                *)
(***************************************************************************)
LEMMA Asking ==
  ASSUME StoredTypeOK, Promise!Remember, NEW n \in Names,
         NEW rl \in CR \cup {Absent}, CRWritten(n, rl),
         spent'.ops = spent.ops + 1,
         rl # Absent =>
           IF crs[n] = Absent THEN rl.state = "" /\ rl.quotas = {}
           ELSE rl.state = crs[n].state /\ rl.quotas = crs[n].quotas
  PROVE  Promised
<1>1. /\ wanted' = [wanted EXCEPT ![n] = IF rl = Absent THEN Absent ELSE SpecOf(rl)]
      /\ said' = [said EXCEPT ![n] =
           IF rl = Absent THEN [state |-> "", limits |-> {}]
           ELSE [state |-> rl.state, limits |-> Limits(rl.quotas)]]
      /\ UNCHANGED have
  BY CRSaid
<1>2. Promise!OnlyOf(n)
  BY <1>1 DEF wanted, said, Promise!OnlyOf
<1>3. /\ wanted[n] = IF crs[n] = Absent THEN Absent ELSE SpecOf(crs[n])
      /\ said[n] = IF crs[n] = Absent THEN [state |-> "", limits |-> {}]
                   ELSE [state |-> crs[n].state, limits |-> Limits(crs[n].quotas)]
  BY Mapped
<1>4. said'[n] = IF rl = Absent THEN [state |-> "", limits |-> {}]
                 ELSE [state |-> rl.state, limits |-> Limits(rl.quotas)]
  BY <1>1 DEF said
<1>5. wanted'[n] = IF rl = Absent THEN Absent ELSE SpecOf(rl)
  BY <1>1 DEF wanted
<1>6. /\ crs[n] # Absent => SpecOf(crs[n]) # Absent
      /\ rl # Absent => SpecOf(rl) # Absent
  BY SpecThere DEF StoredTypeOK
<1>7. Limits({}) = {}
  BY DEF Limits
<1>8. said'[n] = IF wanted[n] = Absent \/ wanted'[n] = Absent
                 THEN Promise!Silent ELSE said[n]
  BY <1>3, <1>4, <1>5, <1>6, <1>7 DEF Promise!Silent
<1>9. Promise!Ask(n)
  BY <1>1, <1>2, <1>8 DEF Promise!Ask
<1>10. QED
  BY <1>9 DEF Promised, Promise!Next, Promise!ByUser

(***************************************************************************)
(* A quota changed or taken by users was there.                            *)
(***************************************************************************)
LEMMA Meddling ==
  ASSUME StoredTypeOK, Promise!Remember, UNCHANGED crs,
         spent'.ops = spent.ops + 1,
         \A s \in Namespaces : quotas'[s] # quotas[s] => quotas[s] # Absent
  PROVE  Promised
<1>1. UNCHANGED <<wanted, said>>
  BY DEF wanted, said
<1>2. ASSUME NEW s \in Namespaces, have'[s] # have[s] PROVE have[s] # Absent
  <2>1. quotas[s] # Absent
    BY <1>2, Mapped, MappedNext
  <2>2. quotas[s] \in Quota
    BY <2>1 DEF StoredTypeOK
  <2>3. have[s] = [owner |-> quotas[s].owner, uid |-> quotas[s].uid,
                   hard |-> quotas[s].hard]
    BY <2>1, Mapped
  <2>4. QED
    BY <2>2, <2>3, QuotaThere
<1>3. Promise!Meddle
  BY <1>1, <1>2 DEF Promise!Meddle
<1>4. QED
  BY <1>3 DEF Promised, Promise!Next, Promise!ByUser

(***************************************************************************)
(* Users' deeds are counted.                                               *)
(***************************************************************************)
LEMMA Counted ==
  ASSUME Inv, NEW op, By(op)
  PROVE  spent'.ops = spent.ops + 1
BY DEF By, Inv, ClusterTypeOK

(***************************************************************************)
(* Users create, change and delete CRs.                                    *)
(***************************************************************************)
LEMMA UserOnCRHonours ==
  ASSUME Inv, Promise!Remember, NEW n \in Names, UserOnCR(n)
  PROVE  Promised
<1>1. StoredTypeOK /\ (crs[n] # Absent => crs[n] \in CR) /\ uids \in Nat
  BY DEF Inv, ClusterTypeOK, StoredTypeOK
<1>2. ASSUME NEW targets \in Choices[n], NEW applied \in BOOLEAN,
             NEW f \in SUBSET {Finalizer, Foreground},
             CreateCR(n, targets, applied, f)
      PROVE  Promised
  <2>1. targets \in Seq(Target)
    BY NamesAssumption
  <2>2. PICK u \in Nat : u = uids'
    <3>1. uids' = uids + 1
      BY <1>2 DEF CreateCR
    <3>2. QED
      BY <1>1, <3>1
  <2> DEFINE rl == [uid |-> u, targets |-> targets, applied |-> applied,
                    deleting |-> FALSE, finalizers |-> f,
                    state |-> "", quotas |-> {}]
  <2>3. rl \in CR
    BY <2>1 DEF CR
  <2>4. CRWritten(n, rl) /\ crs[n] = Absent /\ spent'.ops = spent.ops + 1
    BY <1>2, <2>2, Counted DEF CreateCR
  <2>5. rl.state = "" /\ rl.quotas = {}
    OBVIOUS
  <2> HIDE DEF rl
  <2>6. QED
    BY <1>1, <2>3, <2>4, <2>5, Asking
<1>3. ASSUME NEW targets \in Choices[n], NEW applied \in BOOLEAN,
             ChangeSpec(n, targets, applied)
      PROVE  Promised
  <2> DEFINE rl == [crs[n] EXCEPT !.targets = targets, !.applied = applied]
  <2>1. crs[n] # Absent /\ crs[n] \in CR /\ targets \in Seq(Target)
    BY <1>1, <1>3, NamesAssumption DEF ChangeSpec
  <2>2. /\ rl \in CR /\ rl.state = crs[n].state /\ rl.quotas = crs[n].quotas
    BY <2>1 DEF CR
  <2>3. CRWritten(n, rl) /\ spent'.ops = spent.ops + 1
    BY <1>3, Counted DEF ChangeSpec
  <2> HIDE DEF rl
  <2>4. QED
    BY <1>1, <2>1, <2>2, <2>3, Asking
<1>4. ASSUME NEW f \in SUBSET {Finalizer, Foreground}, DeleteCR(n, f)
      PROVE  Promised
  <2> DEFINE rl == [crs[n] EXCEPT !.deleting = TRUE, !.finalizers = @ \cup f]
  <2>1. crs[n] # Absent /\ crs[n] \in CR
    BY <1>1, <1>4 DEF DeleteCR
  <2>2. rl \in CR /\ rl.state = crs[n].state /\ rl.quotas = crs[n].quotas
    BY <2>1 DEF CR
  <2>3. CRWritten(n, Reap(rl)) /\ spent'.ops = spent.ops + 1
    BY <1>4, Counted DEF DeleteCR
  <2> HIDE DEF rl
  <2>4. Reap(rl) = rl \/ Reap(rl) = Absent
    BY DEF Reap
  <2>5. QED
    BY <1>1, <2>1, <2>2, <2>3, <2>4, Asking
<1>5. QED
  BY <1>2, <1>3, <1>4 DEF UserOnCR

(***************************************************************************)
(* Users change quotas and namespaces.                                     *)
(***************************************************************************)
LEMMA UserOnNamespaceHonours ==
  ASSUME Inv, Promise!Remember, NEW s \in Namespaces, UserOnNamespace(s)
  PROVE  Promised
<1>1. StoredTypeOK
  BY DEF Inv, ClusterTypeOK
<1>2. UNCHANGED crs
  BY DEF UserOnNamespace, CreateNamespace, DeleteNamespace, TouchNamespace,
         StripLabels, EditQuota, RemoveQuota, UseQuota, NSWritten, QuotaWritten
<1>3. spent'.ops = spent.ops + 1
  BY Counted
  DEF UserOnNamespace, CreateNamespace, DeleteNamespace, TouchNamespace,
      StripLabels, EditQuota, RemoveQuota, UseQuota
<1>4. \A r \in Namespaces : quotas'[r] # quotas[r] => quotas[r] # Absent
  <2>1. quotas' = quotas \/ (quotas[s] # Absent /\ \E q : quotas' = [quotas EXCEPT ![s] = q])
        \/ quotas' = [quotas EXCEPT ![s] = Absent]
    BY DEF UserOnNamespace, CreateNamespace, DeleteNamespace, TouchNamespace,
           StripLabels, EditQuota, RemoveQuota, UseQuota, NSWritten, QuotaWritten
  <2>2. QED
    BY <1>1, <2>1 DEF StoredTypeOK
<1>5. QED
  BY <1>1, <1>2, <1>3, <1>4, Meddling

-----------------------------------------------------------------------------
(* The theorem. *)

(***************************************************************************)
(* Nothing done by others is more than others may do.                      *)
(***************************************************************************)
LEMMA OutsideHonours ==
  ASSUME Inv, Inv', PromiseInv, Promise!Remember, Outside
  PROVE  PromiseInv' /\ Promised
<1>1. StoredTypeOK /\ Housed /\ Recorded
  BY DEF Inv, ClusterTypeOK, PromiseInv
<1>2. CASE Deliver
  BY <1>2, DeliverHonours DEF Outside
<1>3. CASE Collect \/ User
  <2>1. Announced /\ Housed' /\ UNCHANGED <<caches, queue>>
    BY <1>1, <1>3, CollectAnnounced, UserOnCRAnnounced, UserOnNamespaceAnnounced
    DEF User
  <2>2. Heard
    BY <2>1 DEF Heard
  <2>3. PromiseInv'
    BY <2>2, PromiseOvertaken DEF Outside
  <2>4. Promised
    BY <1>1, <1>3, CollectHonours, UserOnCRHonours, UserOnNamespaceHonours DEF User
  <2>5. QED
    BY <2>3, <2>4
<1>4. QED
  BY <1>2, <1>3 DEF Outside

(***************************************************************************)
(* No step of the worker spends what the users have.                       *)
(***************************************************************************)
LEMMA WorkerSpends ==
  ASSUME Inv, WorkerStep \/ \E n \in Names : Start(n)
  PROVE  spent'.ops = spent.ops /\ UNCHANGED caches
<1>1. UNCHANGED spent \/ Fault
  BY DEF WorkerStep, Start, Reconcile, RegisterFinalizer, Refetch, DeleteQuota,
         RemoveLabels, ReleaseFinalizer, LabelNamespace, CreateQuota,
         UpdateQuota, StopQuota, UpdateStatus, Call
<1>2. UNCHANGED caches
  BY DEF WorkerStep, Start
<1>3. QED
  BY <1>1, <1>2, FaultsOnly

(***************************************************************************)
(* At the start nothing is asked for, and nothing promised but that.       *)
(***************************************************************************)
LEMMA PromiseInit ==
  ASSUME RememberingInit
  PROVE  PromiseInv /\ Promise!Init
<1>1. Synced /\ Housed /\ HousedCopies /\ Known /\ Fresh
  BY DEF RememberingInit, Init, ClusterInit, Synced, Housed, HousedCopies, Known, Fresh
<1>2. Placed(wk) /\ Done
  BY DEF RememberingInit, Init, Placed, Done, Idle
<1>3. /\ \A n \in Names : crs[n] = Absent
      /\ \A s \in Namespaces : quotas[s] = Absent
  BY DEF RememberingInit, Init, ClusterInit
<1>4. /\ wanted = [n \in Names |-> Absent]
      /\ said = [n \in Names |-> [state |-> "", limits |-> {}]]
      /\ have = [s \in Namespaces |-> Absent]
  BY <1>3 DEF wanted, said, have
<1>5. Recorded
  BY <1>4 DEF Recorded, RememberingInit
<1>6. spent.ops = 0
  BY DEF RememberingInit, Init, ClusterInit
<1>7. Promise!Init
  BY <1>4, <1>6 DEF Promise!Init, Promise!Silent, RememberingInit
<1>8. QED
  BY <1>1, <1>2, <1>5, <1>7 DEF PromiseInv

(***************************************************************************)
(* Every step is one that the promise allows, or none of its concern.      *)
(***************************************************************************)
LEMMA PromiseStep ==
  ASSUME Inv, Inv', PromiseInv, RememberingNext
  PROVE  PromiseInv' /\ Promised
<1>1. Next /\ Promise!Remember
  BY DEF RememberingNext
<1>2. ASSUME NEW n \in Names, Start(n) PROVE PromiseInv' /\ Promised
  BY <1>1, <1>2, WorkerSpends, StartHonours DEF Acting
<1>3. CASE WorkerStep
  <2>1. Acting
    BY <1>1, <1>3, WorkerSpends DEF Acting
  <2>2. QED
    BY <1>3, <2>1, RegisterFinalizerHonours, RefetchHonours, DeleteQuotaHonours,
       RemoveLabelsHonours, ReleaseFinalizerHonours, LabelNamespaceHonours,
       CreateQuotaHonours, UpdateQuotaHonours, StopQuotaHonours,
       UpdateStatusHonours
    DEF WorkerStep
<1>4. CASE Panic \/ Crash
  <2>1. Relist /\ wk' = Idle
    BY <1>4 DEF Panic, Crash
  <2>2. spent'.ops = spent.ops
    BY <1>4 DEF Panic, Crash, Inv, ClusterTypeOK
  <2>3. QED
    BY <1>1, <2>1, <2>2, RelistHonours
<1>5. CASE Outside
  BY <1>1, <1>5, OutsideHonours
<1>6. QED
  BY <1>1, <1>2, <1>3, <1>4, <1>5 DEF Next

(***************************************************************************)
(* A step that changes nothing changes nothing of this either.             *)
(***************************************************************************)
LEMMA PromiseStutter ==
  ASSUME PromiseInv, UNCHANGED promiseVars
  PROVE  PromiseInv' /\ Promised
<1>1. /\ UNCHANGED <<stored, caches, queue, uids, spent, wk, asked, met>>
  BY DEF promiseVars, vars, clusterVars
<1>2. UNCHANGED <<wanted, said, have>>
  BY <1>1 DEF stored, wanted, said, have
<1>3. Promised
  BY <1>1, <1>2 DEF Promised, Promise!promised
<1>4. Synced' /\ Housed' /\ HousedCopies' /\ Placed(wk')
  BY <1>1 DEF stored, caches, PromiseInv, Synced, Housed, HousedCopies
<1>5. Recorded'
  BY <1>1, <1>2 DEF PromiseInv, Recorded, Promise!Holds
<1>6. Known' /\ Fresh' /\ Done'
  BY <1>1 DEF stored, caches, PromiseInv, Known, Fresh, Done
<1>7. QED
  BY <1>3, <1>4, <1>5, <1>6 DEF PromiseInv

(***************************************************************************)
(* The reconciler implements LimiterPromise, for any CRs over any          *)
(* namespaces, shared or not: what it acts on is some spec that was asked  *)
(* for under that name, and "ready" is only said of the present one, each  *)
(* limit of which has been in place since.                                 *)
(***************************************************************************)
THEOREM PromiseImplemented == RememberingSpec => PromiseKept
<1>1. RememberingInit => Inv /\ PromiseInv /\ Promise!Init
  BY InvInit, PromiseInit DEF RememberingInit
<1>2. Inv /\ PromiseInv /\ [RememberingNext]_promiseVars =>
        Inv' /\ PromiseInv' /\ Promised
  <2> SUFFICES ASSUME Inv, PromiseInv, [RememberingNext]_promiseVars
               PROVE  Inv' /\ PromiseInv' /\ Promised
    OBVIOUS
  <2>1. Inv'
    BY InvStep DEF RememberingNext, promiseVars
  <2>2. QED
    BY <2>1, PromiseStep, PromiseStutter
<1>3. QED
  BY <1>1, <1>2, PTL DEF RememberingSpec, PromiseKept, Promise!Spec, Promised

-----------------------------------------------------------------------------
(* The reconciler next to others.                                          *)

(***************************************************************************)
(* A step that is nothing to the cluster and leaves the worker as it is,   *)
(* or idle, is nothing to the promise.                                     *)
(***************************************************************************)
LEMMA NothingHonours ==
  ASSUME Inv, Inv', PromiseInv, Promise!Remember,
         UNCHANGED <<stored, spent, caches>>, wk' = wk \/ wk' = Idle
  PROVE  PromiseInv' /\ Promised
<1>1. UNCHANGED <<crs, crLag, quotas, quotaEvents>>
  BY DEF stored
<1>2. Announced /\ Housed'
  BY <1>1, QuietAnnounced DEF PromiseInv
<1>3. Heard
  BY <1>2 DEF Heard
<1>4. wk' = Idle \/ wk' = Outdated
  BY <1>1 DEF Outdated
<1>5. QED
  BY <1>1, <1>3, <1>4, PromiseEnded, PromiseOvertaken, QuietPromised DEF PromiseInv

(***************************************************************************)
(* What a second process of the controller writes is, to this one, as what *)
(* users write: its copy of a CR may have become an old one.               *)
(***************************************************************************)
LEMMA NoticedHonours ==
  ASSUME Inv, Inv', PromiseInv, Promise!Remember, ServedHoused', Noticed
  PROVE  PromiseInv'
<1>1. Announced
  BY NoticedInforms DEF Informed, Announced
<1>2. Housed'
  BY NoticedHoused DEF PromiseInv
<1>3. Heard
  BY <1>1, <1>2 DEF Heard, Noticed, caches
<1>4. QED
  BY <1>3, PromiseOvertaken DEF Noticed

=============================================================================
