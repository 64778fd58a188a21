--------------------------- MODULE OperatorProofs ---------------------------
(***************************************************************************)
(* What is proved of the reconciler holds of it together with the checker: *)
(* a step of the operator is one of the reconciler, or a patch that the    *)
(* webhooks refuse, or nothing that the reconciler sees.                   *)
(***************************************************************************)
EXTENDS Operator, ResourceLimiterRefinementProofs

-----------------------------------------------------------------------------
(* The steps of the operator. *)

\* The reconciler's call fails, with no fault to account for it.
Refused ==
  /\ closed /\ Patching /\ Requeue
  /\ UNCHANGED <<stored, spent, caches, uids>>

(***************************************************************************)
(* Whether the checker serves makes no difference but for the patches.     *)
(***************************************************************************)
LEMMA OperatorStep ==
  ASSUME [OperatorNext]_operatorVars
  PROVE  [Next]_vars \/ Refused
<1>1. CASE Toggle \/ UNCHANGED operatorVars
  BY <1>1 DEF Toggle, operatorVars
<1>2. CASE Work
  BY <1>2 DEF Work, Refused, Next
<1>3. CASE (\E n \in Names : Start(n)) \/ Crash \/ Outside
  BY <1>3 DEF Next
<1>4. QED
  BY <1>1, <1>2, <1>3 DEF OperatorNext

(***************************************************************************)
(* What a refused patch leaves behind: the name in the queue, no worker.   *)
(***************************************************************************)
LEMMA RefusedLeaves ==
  ASSUME Inv, Refused
  PROVE  /\ wk \in Reconciling /\ wk.name \in Names
         /\ wk' = Idle /\ queue' = queue \cup {wk.name}
         /\ UNCHANGED <<stored, spent, caches, uids>>
<1>1. wk.pc \in {"register", "release"}
  BY DEF Refused, Patching
<1>2. wk \in Reconciling
  BY <1>1 DEF Inv, GoodWorker, Idle
<1>3. QED
  BY <1>2 DEF Refused, Requeue, Reconciling

(***************************************************************************)
(* It keeps the types.                                                     *)
(***************************************************************************)
LEMMA RefusedOK ==
  ASSUME Inv, Refused
  PROVE  Inv'
<1>1. ClusterTypeOK'
  BY RefusedLeaves
  DEF Inv, ClusterTypeOK, StoredTypeOK, CachesTypeOK, stored, caches
<1>2. GoodWorker(wk')
  BY RefusedLeaves DEF GoodWorker, Idle
<1>3. QED
  BY <1>1, <1>2 DEF Inv

(***************************************************************************)
(* The CR is the worker's business again, as its name is in the queue.     *)
(***************************************************************************)
LEMMA RefusedWakes ==
  ASSUME Exclusive, Inv, WakeupInv, Refused
  PROVE  WakeupInv'
<1>1. StoredTypeOK'
  BY RefusedOK DEF Inv, ClusterTypeOK
<1>2. UNCHANGED <<crs, crLag, quotas, quotaEvents, caches>>
  BY DEF Refused, stored
<1>3. Announced /\ Housed'
  BY <1>2, QuietAnnounced DEF WakeupInv
<1>4. QED
  BY <1>1, <1>2, <1>3, RefusedLeaves, Requeued DEF Refused

(***************************************************************************)
(* The same where namespaces are shared.                                   *)
(***************************************************************************)
LEMMA RefusedOwner ==
  ASSUME Inv, OwnerInv, Refused
  PROVE  OwnerInv'
<1>1. UNCHANGED <<crs, crLag, quotas, quotaEvents, caches>>
  BY DEF Refused, stored
<1>2. QED
  BY <1>1, QuietInformed, RefusedLeaves, OwnerRequeued DEF Refused

(***************************************************************************)
(* A release that is refused begins from the first target again.           *)
(***************************************************************************)
LEMMA RefusedClears ==
  ASSUME Inv, ReleaseInv, Refused
  PROVE  ReleaseInv'
<1>1. UNCHANGED <<nss, nsLag, cnss, quotas>>
  BY DEF Refused, stored, caches
<1>2. Rooted'
  BY <1>1, RootedKept DEF ReleaseInv
<1>3. Cleared(wk', quotas')
  BY RefusedLeaves, ElsewhereCleared DEF Idle
<1>4. QED
  BY <1>2, <1>3 DEF ReleaseInv, Cleared

-----------------------------------------------------------------------------
(* The theorems. *)

(***************************************************************************)
(* The invariant of the reconciler holds from the start and after every    *)
(* step of the operator.                                                   *)
(***************************************************************************)
LEMMA OperatorInv ==
  /\ OperatorInit => Inv
  /\ Inv /\ [OperatorNext]_operatorVars => Inv'
<1>1. OperatorInit => Inv
  BY InvInit DEF OperatorInit
<1>2. Inv /\ [OperatorNext]_operatorVars => Inv'
  BY OperatorStep, InvStep, RefusedOK
<1>3. QED
  BY <1>1, <1>2

(***************************************************************************)
(* The same of the invariant for quotas and their owners.                  *)
(***************************************************************************)
LEMMA OperatorOwner ==
  /\ OperatorInit => OwnerInv
  /\ Inv /\ OwnerInv /\ [OperatorNext]_operatorVars => OwnerInv'
<1>1. OperatorInit => OwnerInv
  BY OwnerInit DEF OperatorInit
<1>2. Inv /\ OwnerInv /\ [OperatorNext]_operatorVars => OwnerInv'
  BY OperatorStep, OwnerStep, RefusedOwner
<1>3. QED
  BY <1>1, <1>2

(***************************************************************************)
(* Types are right however the checker comes and goes.                     *)
(***************************************************************************)
THEOREM OperatorTypeCorrect == OperatorSpec => []TypeOK
<1>1. Inv => TypeOK
  BY DEF Inv, GoodWorker, TypeOK
<1>2. QED
  BY <1>1, OperatorInv, PTL DEF OperatorSpec

(***************************************************************************)
(* With the checker out or not, kube-system and kube-public are never      *)
(* labelled and never given a quota.                                       *)
(***************************************************************************)
THEOREM OperatorIgnoredSafe == OperatorSpec => []IgnoredUnlimited
<1>1. OperatorInit => IgnoredUnlimited
  BY NamesAssumption DEF OperatorInit, Init, ClusterInit, IgnoredUnlimited
<1>2. Inv /\ IgnoredUnlimited /\ [OperatorNext]_operatorVars => IgnoredUnlimited'
  <2>1. IgnoredUnlimited /\ Refused => IgnoredUnlimited'
    BY DEF IgnoredUnlimited, Refused, stored
  <2>2. QED
    BY <2>1, OperatorStep, IgnoredStep
<1>3. QED
  BY <1>1, <1>2, OperatorInv, PTL DEF OperatorSpec

(***************************************************************************)
(* No wakeup is missed because a patch was refused: for any CRs that share *)
(* no namespace, and however often and long the checker is out, a CR that  *)
(* differs from the cluster is being reconciled or will be.                *)
(***************************************************************************)
THEOREM OperatorWakeupSafe == OperatorSpec => []NoMissedWakeup
<1>1. OperatorInit => (Exclusive => WakeupInv)
  BY WakeupInit DEF OperatorInit
<1>2. Inv /\ (Exclusive => WakeupInv) /\ [OperatorNext]_operatorVars
        => (Exclusive => WakeupInv)'
  <2> SUFFICES ASSUME Inv, Exclusive => WakeupInv, [OperatorNext]_operatorVars,
                      Exclusive
               PROVE  WakeupInv'
    BY DEF Exclusive, Home
  <2>1. QED
    BY OperatorStep, WakeupStep, RefusedWakes
<1>3. (Exclusive => WakeupInv) => NoMissedWakeup
  BY DEF WakeupInv, Awake, NoMissedWakeup
<1>4. QED
  BY <1>1, <1>2, <1>3, OperatorInv, PTL DEF OperatorSpec

(***************************************************************************)
(* A CR at rest has the quotas it owns as it wants them, refused patches   *)
(* and shared namespaces included.                                         *)
(***************************************************************************)
THEOREM OperatorOwnersPrevail == OperatorSpec => []OwnerPrevails
<1>1. OwnerInv => OwnerPrevails
  BY DEF OwnerInv, Content, Obeyed, OwnerPrevails, Dependents
<1>2. QED
  BY <1>1, OperatorInv, OperatorOwner, PTL DEF OperatorSpec

(***************************************************************************)
(* A finalizer that the webhooks let go goes after the quotas of the CR,   *)
(* in spite of the patches that they refused before.                       *)
(***************************************************************************)
THEOREM OperatorReleaseIsClean == OperatorSpec => ReleasedClean
<1> DEFINE RInv == "create namespace" \notin UserOps => ReleaseInv
           Clean == \A n \in Names :
             /\ "create namespace" \notin UserOps
             /\ crs[n] # Absent /\ Finalizer \in crs[n].finalizers
             /\ crs'[n] = Absent \/ Finalizer \notin crs'[n].finalizers
             => \/ wk.rl.state = "stopped"
                \/ \A i \in 1..Len(wk.rl.targets) : LET s == wk.rl.targets[i].ns IN
                     quotas[s] = Absent \/ quotas[s].owner # n
<1>1. OperatorInit => RInv
  BY ReleaseInit DEF OperatorInit
<1>2. Inv /\ OwnerInv /\ RInv /\ [OperatorNext]_operatorVars => RInv'
  BY OperatorStep, ReleaseStep, RefusedClears DEF Releasing
<1>3. Inv /\ OwnerInv /\ RInv /\ [OperatorNext]_operatorVars => Clean
  <2> SUFFICES ASSUME Inv, OwnerInv, RInv, [OperatorNext]_operatorVars,
                      NEW n \in Names, "create namespace" \notin UserOps,
                      crs[n] # Absent, Finalizer \in crs[n].finalizers,
                      crs'[n] = Absent \/ Finalizer \notin crs'[n].finalizers,
                      wk.rl.state # "stopped", NEW i \in 1..Len(wk.rl.targets)
               PROVE  quotas[wk.rl.targets[i].ns] = Absent
    OBVIOUS
  <2>1. [Next]_vars
    BY OperatorStep DEF Refused, stored
  <2>2. wk.pc = "release"
    BY <2>1, OnlyRelease
  <2>3. QED
    BY <2>2, AllCleared DEF Releasing
<1>4. ReleasedClean <=> [][Clean]_vars
  BY DEF ReleasedClean
<1> HIDE DEF RInv, Clean
<1>5. Clean => [Clean]_vars
  OBVIOUS
<1>6. QED
  BY <1>1, <1>2, <1>3, <1>4, <1>5, OperatorInv, OperatorOwner, PTL DEF OperatorSpec

-----------------------------------------------------------------------------
(* The promise. *)

RememberingOperatorSpec ==
  /\ RememberingInit /\ closed = FALSE
  /\ [][OperatorNext /\ Promise!Remember]_<<operatorVars, asked, met>>

(***************************************************************************)
(* The reconciler keeps its promise whether the checker is there or not:   *)
(* a refused patch, like the checker's coming and going, is nothing that   *)
(* is promised.                                                            *)
(***************************************************************************)
THEOREM OperatorPromiseImplemented == RememberingOperatorSpec => PromiseKept
<1>1. RememberingInit => Inv /\ PromiseInv /\ Promise!Init
  BY InvInit, PromiseInit DEF RememberingInit
<1>2. Inv /\ PromiseInv
        /\ [OperatorNext /\ Promise!Remember]_<<operatorVars, asked, met>>
      => Inv' /\ PromiseInv' /\ Promised
  <2> SUFFICES ASSUME Inv, PromiseInv,
                      [OperatorNext /\ Promise!Remember]_<<operatorVars, asked, met>>
               PROVE  Inv' /\ PromiseInv' /\ Promised
    OBVIOUS
  <2>1. Inv'
    BY OperatorInv DEF operatorVars
  <2>2. CASE UNCHANGED <<operatorVars, asked, met>>
    BY <2>1, <2>2, PromiseStutter DEF operatorVars, promiseVars
  <2>3. CASE OperatorNext /\ Promise!Remember
    <3>1. CASE Next
      BY <2>1, <2>3, <3>1, PromiseStep DEF RememberingNext
    <3>2. CASE UNCHANGED vars
      BY <2>1, <2>3, <3>2, NothingHonours DEF vars, clusterVars
    <3>3. CASE Refused
      BY <2>1, <2>3, <3>3, NothingHonours, RefusedLeaves
    <3>4. QED
      BY <2>3, <3>1, <3>2, <3>3, OperatorStep
  <2>4. QED
    BY <2>2, <2>3
<1>3. QED
  BY <1>1, <1>2, PTL
     DEF RememberingOperatorSpec, PromiseKept, Promise!Spec, Promised

=============================================================================
