------------------------ MODULE TwoControllersProofs ------------------------
(***************************************************************************)
(* Two processes of the controller, proved from what is proved of one: the *)
(* invariants of the one hold of each, its own steps keeping them by the   *)
(* lemmas about its steps, and those of the other because each write of it *)
(* is noticed.                                                             *)
(***************************************************************************)
EXTENDS TwoControllersRefinement, TLAPS

OldP == INSTANCE ResourceLimiterRefinementProofs WITH
  ccrs <- ccrs1, cnss <- cnss1, cquotas <- cquotas1, crLag <- crLag1,
  nsLag <- nsLag1, quotaEvents <- quotaEvents1, queue <- queue1, wk <- wk1

NewP == INSTANCE ResourceLimiterRefinementProofs WITH
  ccrs <- ccrs2, cnss <- cnss2, cquotas <- cquotas2, crLag <- crLag2,
  nsLag <- nsLag2, quotaEvents <- quotaEvents2, queue <- queue2, wk <- wk2

-----------------------------------------------------------------------------
(***************************************************************************)
(* The old process is the controller that the proofs are about: the two    *)
(* instances define the same, and so do their initial states.              *)
(***************************************************************************)
LEMMA OldIsController ==
  /\ Old!Init <=> OldP!Init
  /\ [Old!Next]_Old!vars <=> [OldP!Next]_OldP!vars
  /\ Old!Outdated = OldP!Outdated
<1>1. Old!Init <=> OldP!Init
  BY DEF Old!Init, Old!ClusterInit, Old!Idle,
         OldP!Init, OldP!ClusterInit, OldP!Idle
<1>2. [Old!Next]_Old!vars <=> [OldP!Next]_OldP!vars
  BY
  DEF Old!stored, Old!caches, Old!clusterVars, Old!Owners, Old!Reap,
      Old!CRWritten, Old!NSWritten, Old!QuotaWritten, Old!DeliverCR,
      Old!DeliverNamespace, Old!DeliverQuota, Old!Relist, Old!Dependents,
      Old!Foregoing, Old!Orphan, Old!CollectQuota, Old!EndForeground, Old!By,
      Old!CreateCR, Old!ChangeSpec, Old!DeleteCR, Old!CreateNamespace,
      Old!DeleteNamespace, Old!TouchNamespace, Old!StripLabels, Old!EditQuota,
      Old!RemoveQuota, Old!UseQuota, Old!Deliver, Old!Collect, Old!UserOnCR,
      Old!UserOnNamespace, Old!User, Old!Finalizer, Old!Foreground, Old!vars,
      Old!Idle, Old!Proceed, Old!Requeue, Old!Fault, Old!Call, Old!Turn,
      Old!Visit, Old!NextTarget, Old!target, Old!Fetched, Old!Dispatched,
      Old!Patched, Old!PatchAccepted, Old!Reconcile, Old!RegisterFinalizer,
      Old!Refetch, Old!DeleteQuota, Old!RemoveLabels, Old!ReleaseFinalizer,
      Old!LabelNamespace, Old!CreateQuota, Old!UpdateQuota, Old!StopQuota,
      Old!UpdateStatus, Old!Panic, Old!Crash, Old!WorkerStep, Old!Start,
      Old!Outdated, Old!Outside, Old!Next, OldP!stored, OldP!caches,
      OldP!clusterVars, OldP!Owners, OldP!Reap, OldP!CRWritten,
      OldP!NSWritten, OldP!QuotaWritten, OldP!DeliverCR,
      OldP!DeliverNamespace, OldP!DeliverQuota, OldP!Relist, OldP!Dependents,
      OldP!Foregoing, OldP!Orphan, OldP!CollectQuota, OldP!EndForeground,
      OldP!By, OldP!CreateCR, OldP!ChangeSpec, OldP!DeleteCR,
      OldP!CreateNamespace, OldP!DeleteNamespace, OldP!TouchNamespace,
      OldP!StripLabels, OldP!EditQuota, OldP!RemoveQuota, OldP!UseQuota,
      OldP!Deliver, OldP!Collect, OldP!UserOnCR, OldP!UserOnNamespace,
      OldP!User, OldP!Finalizer, OldP!Foreground, OldP!vars, OldP!Idle,
      OldP!Proceed, OldP!Requeue, OldP!Fault, OldP!Call, OldP!Turn,
      OldP!Visit, OldP!NextTarget, OldP!target, OldP!Fetched, OldP!Dispatched,
      OldP!Patched, OldP!PatchAccepted, OldP!Reconcile,
      OldP!RegisterFinalizer, OldP!Refetch, OldP!DeleteQuota,
      OldP!RemoveLabels, OldP!ReleaseFinalizer, OldP!LabelNamespace,
      OldP!CreateQuota, OldP!UpdateQuota, OldP!StopQuota, OldP!UpdateStatus,
      OldP!Panic, OldP!Crash, OldP!WorkerStep, OldP!Start, OldP!Outdated,
      OldP!Outside, OldP!Next
<1>3. Old!Outdated = OldP!Outdated
  BY DEF Old!Outdated, OldP!Outdated, Old!Idle, OldP!Idle
<1>4. QED
  BY <1>1, <1>2, <1>3

(***************************************************************************)
(* The new process is the controller that the proofs are about: the two    *)
(* instances define the same, and so do their initial states.              *)
(***************************************************************************)
LEMMA NewIsController ==
  /\ New!Init <=> NewP!Init
  /\ [New!Next]_New!vars <=> [NewP!Next]_NewP!vars
  /\ New!Outdated = NewP!Outdated
<1>1. New!Init <=> NewP!Init
  BY DEF New!Init, New!ClusterInit, New!Idle,
         NewP!Init, NewP!ClusterInit, NewP!Idle
<1>2. [New!Next]_New!vars <=> [NewP!Next]_NewP!vars
  BY
  DEF New!stored, New!caches, New!clusterVars, New!Owners, New!Reap,
      New!CRWritten, New!NSWritten, New!QuotaWritten, New!DeliverCR,
      New!DeliverNamespace, New!DeliverQuota, New!Relist, New!Dependents,
      New!Foregoing, New!Orphan, New!CollectQuota, New!EndForeground, New!By,
      New!CreateCR, New!ChangeSpec, New!DeleteCR, New!CreateNamespace,
      New!DeleteNamespace, New!TouchNamespace, New!StripLabels, New!EditQuota,
      New!RemoveQuota, New!UseQuota, New!Deliver, New!Collect, New!UserOnCR,
      New!UserOnNamespace, New!User, New!Finalizer, New!Foreground, New!vars,
      New!Idle, New!Proceed, New!Requeue, New!Fault, New!Call, New!Turn,
      New!Visit, New!NextTarget, New!target, New!Fetched, New!Dispatched,
      New!Patched, New!PatchAccepted, New!Reconcile, New!RegisterFinalizer,
      New!Refetch, New!DeleteQuota, New!RemoveLabels, New!ReleaseFinalizer,
      New!LabelNamespace, New!CreateQuota, New!UpdateQuota, New!StopQuota,
      New!UpdateStatus, New!Panic, New!Crash, New!WorkerStep, New!Start,
      New!Outdated, New!Outside, New!Next, NewP!stored, NewP!caches,
      NewP!clusterVars, NewP!Owners, NewP!Reap, NewP!CRWritten,
      NewP!NSWritten, NewP!QuotaWritten, NewP!DeliverCR,
      NewP!DeliverNamespace, NewP!DeliverQuota, NewP!Relist, NewP!Dependents,
      NewP!Foregoing, NewP!Orphan, NewP!CollectQuota, NewP!EndForeground,
      NewP!By, NewP!CreateCR, NewP!ChangeSpec, NewP!DeleteCR,
      NewP!CreateNamespace, NewP!DeleteNamespace, NewP!TouchNamespace,
      NewP!StripLabels, NewP!EditQuota, NewP!RemoveQuota, NewP!UseQuota,
      NewP!Deliver, NewP!Collect, NewP!UserOnCR, NewP!UserOnNamespace,
      NewP!User, NewP!Finalizer, NewP!Foreground, NewP!vars, NewP!Idle,
      NewP!Proceed, NewP!Requeue, NewP!Fault, NewP!Call, NewP!Turn,
      NewP!Visit, NewP!NextTarget, NewP!target, NewP!Fetched, NewP!Dispatched,
      NewP!Patched, NewP!PatchAccepted, NewP!Reconcile,
      NewP!RegisterFinalizer, NewP!Refetch, NewP!DeleteQuota,
      NewP!RemoveLabels, NewP!ReleaseFinalizer, NewP!LabelNamespace,
      NewP!CreateQuota, NewP!UpdateQuota, NewP!StopQuota, NewP!UpdateStatus,
      NewP!Panic, NewP!Crash, NewP!WorkerStep, NewP!Start, NewP!Outdated,
      NewP!Outside, NewP!Next
<1>3. New!Outdated = NewP!Outdated
  BY DEF New!Outdated, NewP!Outdated, New!Idle, NewP!Idle
<1>4. QED
  BY <1>1, <1>2, <1>3

(***************************************************************************)
(* The assumptions about one process, which are about constants only.      *)
(***************************************************************************)
LEMMA Assumed ==
  /\ OldP!NamesAssumption /\ OldP!BoundsAssumption /\ OldP!AbsentAssumption
  /\ NewP!NamesAssumption /\ NewP!BoundsAssumption /\ NewP!AbsentAssumption
  /\ OldP!PromiseAssumption /\ NewP!PromiseAssumption
BY NamesAssumption, BoundsAssumption, AbsentAssumption, PromiseAssumption
DEF OldP!NamesAssumption, OldP!BoundsAssumption, OldP!AbsentAssumption,
    NewP!NamesAssumption, NewP!BoundsAssumption, NewP!AbsentAssumption,
    OldP!PromiseAssumption, NewP!PromiseAssumption, Seen!Target,
    Old!Target, Old!CR, Old!Quota, Old!Entry, Old!Finalizer, Old!Foreground,
    OldP!Target, OldP!CR, OldP!Quota, OldP!Entry, OldP!Finalizer,
    OldP!Foreground,
    NewP!Target, NewP!CR, NewP!Quota, NewP!Entry, NewP!Finalizer,
    NewP!Foreground

(***************************************************************************)
(* A step is one of the old process, of the new one, or of neither, and    *)
(* who does not take it notices it.                                        *)
(***************************************************************************)
LEMMA StepOfEither ==
  ASSUME [Next]_vars
  PROVE  \/ [OldP!Next]_OldP!vars /\ NewP!Noticed
         \/ [NewP!Next]_NewP!vars /\ OldP!Noticed
         \/ [OldP!Next]_OldP!vars /\ [NewP!Next]_NewP!vars
<1>1. NewNotices => NewP!Noticed
  <2>1. Rewritten(nsLag1) \in SUBSET Namespaces
    BY DEF Rewritten
  <2>2. QED
    BY <2>1, NewIsController
    DEF NewNotices, NewP!Noticed, ChangedCRs, Notified, New!Owners, NewP!Owners
<1>2. OldNotices => OldP!Noticed
  <2>1. Rewritten(nsLag2) \in SUBSET Namespaces
    BY DEF Rewritten
  <2>2. QED
    BY <2>1, OldIsController
    DEF OldNotices, OldP!Noticed, ChangedCRs, Notified, New!Owners, OldP!Owners
<1>3. CASE OldStep \/ Others(Old!Collect) \/ Others(Old!User)
  <2>1. Old!Next /\ NewNotices
    BY <1>3 DEF OldStep, Others, Old!Next, Old!Outside
  <2>2. QED
    BY <1>1, <2>1, OldIsController
<1>4. CASE NewStep \/ \E s \in Namespaces : TouchAgain(s)
  <2>1. New!Next /\ OldNotices
    BY <1>4
    DEF NewStep, TouchAgain, New!Next, New!Outside, New!User, New!UserOnNamespace
  <2>2. QED
    BY <1>2, <2>1, NewIsController
<1>5. CASE UNCHANGED vars
  BY <1>5, OldIsController, NewIsController DEF vars
<1>6. QED
  BY <1>3, <1>4, <1>5 DEF Next

(***************************************************************************)
(* What is said of the old process is what the proofs say of one.          *)
(***************************************************************************)
LEMMA OldSays ==
  /\ Old!TypeOK <=> OldP!TypeOK
  /\ Old!NoMissedWakeup <=> OldP!NoMissedWakeup
  /\ Old!OwnerPrevails <=> OldP!OwnerPrevails
  /\ Old!IgnoredUnlimited <=> OldP!IgnoredUnlimited
<1>1. Old!TypeOK <=> OldP!TypeOK
  BY
  DEF Old!TypeOK, Old!ClusterTypeOK, Old!StoredTypeOK, Old!CachesTypeOK,
      Old!Idle, Old!Reconciling, Old!Steps, Old!CR, Old!Quota, Old!Entry,
      Old!Target, Old!Finalizer, Old!Foreground, OldP!TypeOK,
      OldP!ClusterTypeOK, OldP!StoredTypeOK, OldP!CachesTypeOK, OldP!Idle,
      OldP!Reconciling, OldP!Steps, OldP!CR, OldP!Quota, OldP!Entry,
      OldP!Target, OldP!Finalizer, OldP!Foreground
<1>2. Old!NoMissedWakeup <=> OldP!NoMissedWakeup
  BY
  DEF Old!NoMissedWakeup, Old!Exclusive, Old!Home, Old!Busy, Old!Alarm,
      Old!Converged, Old!Met, Old!Wanted, Old!Report, Old!Target, Old!Idle,
      OldP!NoMissedWakeup, OldP!Exclusive, OldP!Home, OldP!Busy, OldP!Alarm,
      OldP!Converged, OldP!Met, OldP!Wanted, OldP!Report, OldP!Target,
      OldP!Idle
<1>3. Old!OwnerPrevails <=> OldP!OwnerPrevails
  BY
  DEF Old!OwnerPrevails, Old!Dependents, Old!Busy, Old!Alarm, Old!Wanted,
      Old!Target, Old!Idle, OldP!OwnerPrevails, OldP!Dependents, OldP!Busy,
      OldP!Alarm, OldP!Wanted, OldP!Target, OldP!Idle
<1>4. Old!IgnoredUnlimited <=> OldP!IgnoredUnlimited
  BY DEF Old!IgnoredUnlimited, OldP!IgnoredUnlimited
<1>5. QED
  BY <1>1, <1>2, <1>3, <1>4

(***************************************************************************)
(* What is said of the new process is what the proofs say of one.          *)
(***************************************************************************)
LEMMA NewSays ==
  /\ New!TypeOK <=> NewP!TypeOK
  /\ New!NoMissedWakeup <=> NewP!NoMissedWakeup
  /\ New!OwnerPrevails <=> NewP!OwnerPrevails
  /\ New!IgnoredUnlimited <=> NewP!IgnoredUnlimited
<1>1. New!TypeOK <=> NewP!TypeOK
  BY
  DEF New!TypeOK, New!ClusterTypeOK, New!StoredTypeOK, New!CachesTypeOK,
      New!Idle, New!Reconciling, New!Steps, New!CR, New!Quota, New!Entry,
      New!Target, New!Finalizer, New!Foreground, NewP!TypeOK,
      NewP!ClusterTypeOK, NewP!StoredTypeOK, NewP!CachesTypeOK, NewP!Idle,
      NewP!Reconciling, NewP!Steps, NewP!CR, NewP!Quota, NewP!Entry,
      NewP!Target, NewP!Finalizer, NewP!Foreground
<1>2. New!NoMissedWakeup <=> NewP!NoMissedWakeup
  BY
  DEF New!NoMissedWakeup, New!Exclusive, New!Home, New!Busy, New!Alarm,
      New!Converged, New!Met, New!Wanted, New!Report, New!Target, New!Idle,
      NewP!NoMissedWakeup, NewP!Exclusive, NewP!Home, NewP!Busy, NewP!Alarm,
      NewP!Converged, NewP!Met, NewP!Wanted, NewP!Report, NewP!Target,
      NewP!Idle
<1>3. New!OwnerPrevails <=> NewP!OwnerPrevails
  BY
  DEF New!OwnerPrevails, New!Dependents, New!Busy, New!Alarm, New!Wanted,
      New!Target, New!Idle, NewP!OwnerPrevails, NewP!Dependents, NewP!Busy,
      NewP!Alarm, NewP!Wanted, NewP!Target, NewP!Idle
<1>4. New!IgnoredUnlimited <=> NewP!IgnoredUnlimited
  BY DEF New!IgnoredUnlimited, NewP!IgnoredUnlimited
<1>5. QED
  BY <1>1, <1>2, <1>3, <1>4

-----------------------------------------------------------------------------
(* The invariants and the theorems.                                        *)

TwoInv == OldP!Inv /\ NewP!Inv

TwoOwnerInv == OldP!OwnerInv /\ NewP!OwnerInv

\* Two CRs share no namespace: a matter of Choices only.
Apart == OldP!Exclusive

TwoWakeupInv == Apart => OldP!WakeupInv /\ NewP!WakeupInv

(***************************************************************************)
(* What the server stores, and which namespaces are whose, does not depend *)
(* on the process that looks.                                              *)
(***************************************************************************)
LEMMA SameServer ==
  /\ OldP!Exclusive <=> NewP!Exclusive
  /\ OldP!Inv' => NewP!ServedOK'
  /\ NewP!Inv' => OldP!ServedOK'
  /\ OldP!WakeupInv' => NewP!ServedHoused'
  /\ NewP!WakeupInv' => OldP!ServedHoused'
<1>1. OldP!Exclusive <=> NewP!Exclusive
  BY DEF OldP!Exclusive, OldP!Home, NewP!Exclusive, NewP!Home
<1>2. OldP!Inv' => NewP!ServedOK'
  BY DEF OldP!Inv, OldP!ClusterTypeOK, OldP!StoredTypeOK, NewP!ServedOK,
         OldP!CR, OldP!Quota, OldP!Entry, OldP!Target, OldP!Finalizer,
         OldP!Foreground, NewP!CR, NewP!Quota, NewP!Entry, NewP!Target,
         NewP!Finalizer, NewP!Foreground
<1>3. NewP!Inv' => OldP!ServedOK'
  BY DEF NewP!Inv, NewP!ClusterTypeOK, NewP!StoredTypeOK, OldP!ServedOK,
         OldP!CR, OldP!Quota, OldP!Entry, OldP!Target, OldP!Finalizer,
         OldP!Foreground, NewP!CR, NewP!Quota, NewP!Entry, NewP!Target,
         NewP!Finalizer, NewP!Foreground
<1>4. OldP!WakeupInv' => NewP!ServedHoused'
  BY DEF OldP!WakeupInv, OldP!Housed, OldP!Home, NewP!ServedHoused, NewP!Home
<1>5. NewP!WakeupInv' => OldP!ServedHoused'
  BY DEF NewP!WakeupInv, NewP!Housed, NewP!Home, OldP!ServedHoused, OldP!Home
<1>6. QED
  BY <1>1, <1>2, <1>3, <1>4, <1>5

(***************************************************************************)
(* Both processes start as one does.                                       *)
(***************************************************************************)
LEMMA TwoInit == Init => TwoInv /\ TwoOwnerInv /\ TwoWakeupInv
<1> SUFFICES ASSUME Init PROVE TwoInv /\ TwoOwnerInv /\ TwoWakeupInv
  OBVIOUS
<1>1. OldP!Init /\ NewP!Init
  BY OldIsController, NewIsController DEF Init
<1>2. TwoInv
  BY <1>1, Assumed, OldP!InvInit, NewP!InvInit DEF TwoInv
<1>3. TwoOwnerInv
  BY <1>1, Assumed, OldP!OwnerInit, NewP!OwnerInit DEF TwoOwnerInv
<1>4. TwoWakeupInv
  BY <1>1, Assumed, OldP!WakeupInit, NewP!WakeupInit DEF TwoWakeupInv
<1>5. QED
  BY <1>2, <1>3, <1>4

(***************************************************************************)
(* Types: the step's own process by its lemmas, the other by the notice.   *)
(***************************************************************************)
LEMMA TwoInvStep ==
  ASSUME TwoInv, [Next]_vars
  PROVE  TwoInv'
<1>1. CASE [OldP!Next]_OldP!vars /\ NewP!Noticed
  <2>1. OldP!Inv'
    BY <1>1, Assumed, OldP!InvStep DEF TwoInv
  <2>2. NewP!ServedOK'
    BY <2>1, SameServer
  <2>3. NewP!Inv'
    BY <1>1, <2>2, Assumed, NewP!NoticedOK DEF TwoInv
  <2>4. QED
    BY <2>1, <2>3 DEF TwoInv
<1>2. CASE [NewP!Next]_NewP!vars /\ OldP!Noticed
  <2>1. NewP!Inv'
    BY <1>2, Assumed, NewP!InvStep DEF TwoInv
  <2>2. OldP!ServedOK'
    BY <2>1, SameServer
  <2>3. OldP!Inv'
    BY <1>2, <2>2, Assumed, OldP!NoticedOK DEF TwoInv
  <2>4. QED
    BY <2>1, <2>3 DEF TwoInv
<1>3. CASE [OldP!Next]_OldP!vars /\ [NewP!Next]_NewP!vars
  BY <1>3, Assumed, OldP!InvStep, NewP!InvStep DEF TwoInv
<1>4. QED
  BY <1>1, <1>2, <1>3, StepOfEither

(***************************************************************************)
(* Wakeups, in the same way: what the one writes is in a namespace of its  *)
(* CR, so its event concerns the right CRs at the other.                   *)
(***************************************************************************)
LEMMA TwoWakeupStep ==
  ASSUME TwoInv, TwoWakeupInv, [Next]_vars
  PROVE  TwoWakeupInv'
<1>1. SUFFICES ASSUME Apart
               PROVE  OldP!WakeupInv' /\ NewP!WakeupInv'
  BY DEF TwoWakeupInv, Apart, OldP!Exclusive, OldP!Home
<1>2. /\ OldP!Inv /\ NewP!Inv /\ OldP!Inv' /\ NewP!Inv'
      /\ OldP!WakeupInv /\ NewP!WakeupInv /\ OldP!Exclusive /\ NewP!Exclusive
  <2>1. TwoInv'
    BY TwoInvStep
  <2>2. OldP!Exclusive /\ NewP!Exclusive
    BY <1>1, SameServer DEF Apart
  <2>3. OldP!WakeupInv /\ NewP!WakeupInv
    BY <1>1 DEF TwoWakeupInv
  <2>4. QED
    BY <2>1, <2>2, <2>3 DEF TwoInv
<1>3. /\ OldP!ServedOK' /\ NewP!ServedOK'
  BY <1>2, SameServer
<1>4. CASE [OldP!Next]_OldP!vars /\ NewP!Noticed
  <2>1. OldP!WakeupInv'
    BY <1>2, <1>4, Assumed, OldP!WakeupStep
  <2>2. NewP!ServedHoused'
    BY <2>1, SameServer
  <2>3. NewP!WakeupInv'
    BY <1>2, <1>3, <1>4, <2>2, Assumed, NewP!NoticedWakes
  <2>4. QED
    BY <2>1, <2>3
<1>5. CASE [NewP!Next]_NewP!vars /\ OldP!Noticed
  <2>1. NewP!WakeupInv'
    BY <1>2, <1>5, Assumed, NewP!WakeupStep
  <2>2. OldP!ServedHoused'
    BY <2>1, SameServer
  <2>3. OldP!WakeupInv'
    BY <1>2, <1>3, <1>5, <2>2, Assumed, OldP!NoticedWakes
  <2>4. QED
    BY <2>1, <2>3
<1>6. CASE [OldP!Next]_OldP!vars /\ [NewP!Next]_NewP!vars
  BY <1>2, <1>6, Assumed, OldP!WakeupStep, NewP!WakeupStep
<1>7. QED
  BY <1>4, <1>5, <1>6, StepOfEither

(***************************************************************************)
(* And the owners of quotas.                                               *)
(***************************************************************************)
LEMMA TwoOwnerStep ==
  ASSUME TwoInv, TwoOwnerInv, [Next]_vars
  PROVE  TwoOwnerInv'
<1>1. OldP!Inv /\ NewP!Inv /\ OldP!OwnerInv /\ NewP!OwnerInv
  BY DEF TwoInv, TwoOwnerInv
<1>2. QED
  BY <1>1, StepOfEither, Assumed, OldP!OwnerStep, NewP!OwnerStep,
     OldP!NoticedOwner, NewP!NoticedOwner DEF TwoOwnerInv

(***************************************************************************)
(* Types are right in both processes, whatever one makes of what the other *)
(* writes.                                                                 *)
(***************************************************************************)
THEOREM TwoTypeCorrect == Spec => []TypeOK
<1>1. TwoInv => TypeOK
  <2>1. TwoInv => OldP!TypeOK /\ NewP!TypeOK
    BY DEF TwoInv, OldP!Inv, OldP!TypeOK, OldP!GoodWorker,
           NewP!Inv, NewP!TypeOK, NewP!GoodWorker
  <2>2. QED
    BY <2>1, OldSays, NewSays DEF TypeOK
<1>2. TwoInv /\ [Next]_vars => TwoInv'
  BY TwoInvStep
<1>3. QED
  BY <1>1, <1>2, TwoInit, PTL DEF Spec

(***************************************************************************)
(* The new process misses no wakeup for what the old one writes or fails   *)
(* to, in every interleaving of the two, for every number of CRs and       *)
(* targets, faults and crashes.                                            *)
(***************************************************************************)
THEOREM TwoWakeupSafe == Spec => []NoMissedWakeup
<1>1. TwoWakeupInv => NoMissedWakeup
  <2>1. TwoWakeupInv => NewP!NoMissedWakeup
    BY SameServer
    DEF TwoWakeupInv, Apart, NewP!WakeupInv, NewP!Awake, NewP!NoMissedWakeup
  <2>2. QED
    BY <2>1, NewSays DEF NoMissedWakeup
<1>2. TwoInv /\ [Next]_vars => TwoInv'
  BY TwoInvStep
<1>3. TwoInv /\ TwoWakeupInv /\ [Next]_vars => TwoWakeupInv'
  BY TwoWakeupStep
<1>4. QED
  BY <1>1, <1>2, <1>3, TwoInit, PTL DEF Spec

(***************************************************************************)
(* In a rollout too, a CR at rest in a process has those quotas as it      *)
(* wants them that it owns, CRs that share a namespace included.           *)
(***************************************************************************)
THEOREM TwoOwnersPrevail == Spec => [](Old!OwnerPrevails /\ New!OwnerPrevails)
<1>1. TwoOwnerInv => Old!OwnerPrevails /\ New!OwnerPrevails
  <2>1. TwoOwnerInv => OldP!OwnerPrevails /\ NewP!OwnerPrevails
    BY DEF TwoOwnerInv, OldP!OwnerInv, OldP!Content, OldP!Obeyed,
           OldP!OwnerPrevails, OldP!Dependents,
           NewP!OwnerInv, NewP!Content, NewP!Obeyed,
           NewP!OwnerPrevails, NewP!Dependents
  <2>2. QED
    BY <2>1, OldSays, NewSays
<1>2. TwoInv /\ [Next]_vars => TwoInv'
  BY TwoInvStep
<1>3. TwoInv /\ TwoOwnerInv /\ [Next]_vars => TwoOwnerInv'
  BY TwoOwnerStep
<1>4. QED
  BY <1>1, <1>2, <1>3, TwoInit, PTL DEF Spec

(***************************************************************************)
(* Neither of the two ever labels kube-system or kube-public, or gives     *)
(* them a quota.                                                           *)
(***************************************************************************)
THEOREM TwoIgnoredSafe == Spec => []New!IgnoredUnlimited
<1>1. Init => NewP!IgnoredUnlimited
  BY NewIsController, NamesAssumption
  DEF Init, NewP!Init, NewP!ClusterInit, NewP!IgnoredUnlimited
<1>2. TwoInv /\ [Next]_vars => TwoInv'
  BY TwoInvStep
<1>3. /\ OldP!IgnoredUnlimited <=> NewP!IgnoredUnlimited
      /\ OldP!IgnoredUnlimited' <=> NewP!IgnoredUnlimited'
  BY DEF OldP!IgnoredUnlimited, NewP!IgnoredUnlimited
<1>4. TwoInv /\ NewP!IgnoredUnlimited /\ [Next]_vars => NewP!IgnoredUnlimited'
  BY <1>3, StepOfEither, Assumed, OldP!IgnoredStep, NewP!IgnoredStep DEF TwoInv
<1>5. NewP!IgnoredUnlimited => New!IgnoredUnlimited
  BY NewSays
<1>6. QED
  BY <1>1, <1>2, <1>4, <1>5, TwoInit, PTL DEF Spec

-----------------------------------------------------------------------------
(* The promise.                                                            *)

TwoPromiseInv == OldP!PromiseInv /\ NewP!PromiseInv

(***************************************************************************)
(* It speaks of what the API server stores and of the histories, which are *)
(* the same from wherever they are seen.                                   *)
(***************************************************************************)
LEMMA SamePromise ==
  /\ Seen!Promise!Remember <=> OldP!Promise!Remember
  /\ Seen!Promise!Remember <=> NewP!Promise!Remember
  /\ Seen!Promise!Init <=> NewP!Promise!Init
  /\ [Seen!Promise!Next]_(Seen!Promise!promised) <=> OldP!Promised
  /\ [Seen!Promise!Next]_(Seen!Promise!promised) <=> NewP!Promised
<1>1. Seen!Promise!Remember <=> OldP!Promise!Remember
  BY
  DEF Seen!Promise!Remember, Seen!Promise!Limited, Seen!Promise!Targets,
      Seen!Promise!Holds, OldP!Promise!Remember, OldP!Promise!Limited,
      OldP!Promise!Targets, OldP!Promise!Holds, Seen!wanted, Seen!have,
      Seen!SpecOf, OldP!wanted, OldP!have, OldP!SpecOf
<1>2. Seen!Promise!Remember <=> NewP!Promise!Remember
  BY
  DEF Seen!Promise!Remember, Seen!Promise!Limited, Seen!Promise!Targets,
      Seen!Promise!Holds, NewP!Promise!Remember, NewP!Promise!Limited,
      NewP!Promise!Targets, NewP!Promise!Holds, Seen!wanted, Seen!have,
      Seen!SpecOf, NewP!wanted, NewP!have, NewP!SpecOf
<1>3. Seen!Promise!Init <=> NewP!Promise!Init
  BY
  DEF Seen!Promise!Init, Seen!Promise!Silent, NewP!Promise!Init,
      NewP!Promise!Silent, Seen!wanted, Seen!said, Seen!have, Seen!SpecOf,
      NewP!wanted, NewP!said, NewP!have, NewP!SpecOf
<1>4. [Seen!Promise!Next]_(Seen!Promise!promised) <=> OldP!Promised
  BY
  DEF Seen!Promise!Targets, Seen!Promise!Limited, Seen!Promise!Ready,
      Seen!Promise!Stopped, Seen!Promise!Silent, Seen!Promise!Holds,
      Seen!Promise!Remember, Seen!Promise!OnlyOf, Seen!Promise!OnlyIn,
      Seen!Promise!Init, Seen!Promise!Ask, Seen!Promise!Meddle,
      Seen!Promise!ByUser, Seen!Promise!Limit, Seen!Promise!Free,
      Seen!Promise!Report, Seen!Promise!Leave, Seen!Promise!Collect,
      Seen!Promise!ByController, Seen!Promise!Next, Seen!Promise!promised,
      Seen!wanted, Seen!said, Seen!have, Seen!SpecOf, OldP!Promise!Targets,
      OldP!Promise!Limited, OldP!Promise!Ready, OldP!Promise!Stopped,
      OldP!Promise!Silent, OldP!Promise!Holds, OldP!Promise!Remember,
      OldP!Promise!OnlyOf, OldP!Promise!OnlyIn, OldP!Promise!Init,
      OldP!Promise!Ask, OldP!Promise!Meddle, OldP!Promise!ByUser,
      OldP!Promise!Limit, OldP!Promise!Free, OldP!Promise!Report,
      OldP!Promise!Leave, OldP!Promise!Collect, OldP!Promise!ByController,
      OldP!Promise!Next, OldP!Promise!promised, OldP!wanted, OldP!said,
      OldP!have, OldP!SpecOf, OldP!Promised
<1>5. [Seen!Promise!Next]_(Seen!Promise!promised) <=> NewP!Promised
  BY
  DEF Seen!Promise!Targets, Seen!Promise!Limited, Seen!Promise!Ready,
      Seen!Promise!Stopped, Seen!Promise!Silent, Seen!Promise!Holds,
      Seen!Promise!Remember, Seen!Promise!OnlyOf, Seen!Promise!OnlyIn,
      Seen!Promise!Init, Seen!Promise!Ask, Seen!Promise!Meddle,
      Seen!Promise!ByUser, Seen!Promise!Limit, Seen!Promise!Free,
      Seen!Promise!Report, Seen!Promise!Leave, Seen!Promise!Collect,
      Seen!Promise!ByController, Seen!Promise!Next, Seen!Promise!promised,
      Seen!wanted, Seen!said, Seen!have, Seen!SpecOf, NewP!Promise!Targets,
      NewP!Promise!Limited, NewP!Promise!Ready, NewP!Promise!Stopped,
      NewP!Promise!Silent, NewP!Promise!Holds, NewP!Promise!Remember,
      NewP!Promise!OnlyOf, NewP!Promise!OnlyIn, NewP!Promise!Init,
      NewP!Promise!Ask, NewP!Promise!Meddle, NewP!Promise!ByUser,
      NewP!Promise!Limit, NewP!Promise!Free, NewP!Promise!Report,
      NewP!Promise!Leave, NewP!Promise!Collect, NewP!Promise!ByController,
      NewP!Promise!Next, NewP!Promise!promised, NewP!wanted, NewP!said,
      NewP!have, NewP!SpecOf, NewP!Promised
<1>6. QED
  BY <1>1, <1>2, <1>3, <1>4, <1>5

(***************************************************************************)
(* CRs are over their own namespaces as seen by the other.                 *)
(***************************************************************************)
LEMMA SameHousing ==
  /\ OldP!PromiseInv' => NewP!ServedHoused'
  /\ NewP!PromiseInv' => OldP!ServedHoused'
<1>1. OldP!PromiseInv' => NewP!ServedHoused'
  BY DEF OldP!PromiseInv, OldP!Housed, OldP!Home, NewP!ServedHoused, NewP!Home
<1>2. NewP!PromiseInv' => OldP!ServedHoused'
  BY DEF NewP!PromiseInv, NewP!Housed, NewP!Home, OldP!ServedHoused, OldP!Home
<1>3. QED
  BY <1>1, <1>2

(***************************************************************************)
(* At the start nothing is asked for.                                      *)
(***************************************************************************)
LEMMA TwoPromiseInit ==
  ASSUME RememberingInit
  PROVE  TwoInv /\ TwoPromiseInv /\ Seen!Promise!Init
<1>1. OldP!RememberingInit /\ NewP!RememberingInit
  BY OldIsController, NewIsController
  DEF RememberingInit, Init, OldP!RememberingInit, NewP!RememberingInit
<1>2. OldP!PromiseInv /\ NewP!PromiseInv /\ NewP!Promise!Init
  BY <1>1, Assumed, OldP!PromiseInit, NewP!PromiseInit
<1>3. TwoInv
  BY TwoInit DEF RememberingInit
<1>4. QED
  BY <1>2, <1>3, SamePromise DEF TwoPromiseInv

(***************************************************************************)
(* A step of one process keeps the promise as it does where there is only  *)
(* one; the other has been overtaken.                                      *)
(***************************************************************************)
LEMMA TwoPromiseStep ==
  ASSUME TwoInv, TwoInv', TwoPromiseInv, RememberingNext
  PROVE  TwoPromiseInv' /\ [Seen!Promise!Next]_(Seen!Promise!promised)
<1>1. /\ [Next]_vars /\ OldP!Promise!Remember /\ NewP!Promise!Remember
      /\ OldP!Inv /\ NewP!Inv /\ OldP!Inv' /\ NewP!Inv'
      /\ OldP!PromiseInv /\ NewP!PromiseInv
  BY SamePromise DEF RememberingNext, TwoInv, TwoPromiseInv
<1>2. CASE [OldP!Next]_OldP!vars /\ NewP!Noticed
  <2>1. OldP!PromiseInv' /\ OldP!Promised
    BY <1>1, <1>2, Assumed, OldP!PromiseStep, OldP!NothingHonours
    DEF OldP!RememberingNext, OldP!vars, OldP!clusterVars
  <2>2. NewP!PromiseInv'
    BY <1>1, <1>2, <2>1, SameHousing, Assumed, NewP!NoticedHonours
  <2>3. QED
    BY <2>1, <2>2, SamePromise DEF TwoPromiseInv
<1>3. CASE [NewP!Next]_NewP!vars /\ OldP!Noticed
  <2>1. NewP!PromiseInv' /\ NewP!Promised
    BY <1>1, <1>3, Assumed, NewP!PromiseStep, NewP!NothingHonours
    DEF NewP!RememberingNext, NewP!vars, NewP!clusterVars
  <2>2. OldP!PromiseInv'
    BY <1>1, <1>3, <2>1, SameHousing, Assumed, OldP!NoticedHonours
  <2>3. QED
    BY <2>1, <2>2, SamePromise DEF TwoPromiseInv
<1>4. CASE [OldP!Next]_OldP!vars /\ [NewP!Next]_NewP!vars
  <2>1. OldP!PromiseInv' /\ OldP!Promised
    BY <1>1, <1>4, Assumed, OldP!PromiseStep, OldP!NothingHonours
    DEF OldP!RememberingNext, OldP!vars, OldP!clusterVars
  <2>2. NewP!PromiseInv' /\ NewP!Promised
    BY <1>1, <1>4, Assumed, NewP!PromiseStep, NewP!NothingHonours
    DEF NewP!RememberingNext, NewP!vars, NewP!clusterVars
  <2>3. QED
    BY <2>1, <2>2, SamePromise DEF TwoPromiseInv
<1>5. QED
  BY <1>1, <1>2, <1>3, <1>4, StepOfEither

(***************************************************************************)
(* A step that changes nothing changes nothing of this either.             *)
(***************************************************************************)
LEMMA TwoPromiseStutter ==
  ASSUME TwoPromiseInv, UNCHANGED promiseVars
  PROVE  TwoPromiseInv' /\ [Seen!Promise!Next]_(Seen!Promise!promised)
<1>1. UNCHANGED OldP!promiseVars /\ UNCHANGED NewP!promiseVars
  BY
  DEF promiseVars, vars, Old!vars, Old!clusterVars, Old!stored, Old!caches,
      New!vars, New!clusterVars, New!stored, New!caches,
      OldP!promiseVars, OldP!vars, OldP!clusterVars, OldP!stored, OldP!caches,
      NewP!promiseVars, NewP!vars, NewP!clusterVars, NewP!stored, NewP!caches
<1>2. OldP!PromiseInv' /\ NewP!PromiseInv' /\ NewP!Promised
  BY <1>1, Assumed, OldP!PromiseStutter, NewP!PromiseStutter DEF TwoPromiseInv
<1>3. QED
  BY <1>2, SamePromise DEF TwoPromiseInv

(***************************************************************************)
(* The promise of one controller is kept by two at once, for any CRs over  *)
(* any namespaces, any faults and crashes of either: a quota is limited or *)
(* freed only as was asked for, and ready is said only of the present      *)
(* spec, each limit of which one of the two has put in place since.        *)
(***************************************************************************)
THEOREM TwoPromiseImplemented == RememberingSpec => PromiseKept
<1>1. RememberingInit => TwoInv /\ TwoPromiseInv /\ Seen!Promise!Init
  BY TwoPromiseInit
<1>2. TwoInv /\ TwoPromiseInv /\ [RememberingNext]_promiseVars =>
        /\ TwoInv' /\ TwoPromiseInv'
        /\ [Seen!Promise!Next]_(Seen!Promise!promised)
  <2> SUFFICES ASSUME TwoInv, TwoPromiseInv, [RememberingNext]_promiseVars
               PROVE  /\ TwoInv' /\ TwoPromiseInv'
                      /\ [Seen!Promise!Next]_(Seen!Promise!promised)
    OBVIOUS
  <2>1. TwoInv'
    BY TwoInvStep DEF RememberingNext, promiseVars
  <2>2. QED
    BY <2>1, TwoPromiseStep, TwoPromiseStutter
<1>3. QED
  BY <1>1, <1>2, PTL
     DEF RememberingSpec, PromiseKept, Seen!PromiseKept, Seen!Promise!Spec

=============================================================================
