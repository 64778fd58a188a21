------------------------------ MODULE Cluster ------------------------------
(***************************************************************************)
(* What surrounds the ResourceLimiter controller: the objects the API      *)
(* server stores, the informers that keep the controller's caches and fill *)
(* its workqueue, and everybody else who writes to the cluster (users, the *)
(* garbage collector, the quota controller).                               *)
(*                                                                         *)
(* An object's resourceVersion is not a number here: the server refuses an *)
(* update exactly when the copy it was made from is not the latest, and    *)
(* the informer's lag says just that.                                      *)
(***************************************************************************)
EXTENDS Integers, Sequences, FiniteSets

CONSTANTS
  Names,        \* names of ResourceLimiters (cluster scoped)
  Namespaces,   \* names of namespaces
  Ignored,      \* kube-system and kube-public
  Hards,        \* the limits a target may ask for
  BadHards,     \* those of them that are not quantities (MustParse panics)
  Usage,        \* what a quota reports as used
  Absent,       \* the value of an object that does not exist
  Choices,      \* Choices[n]: the target lists users give n
  UserOps,      \* what users do, by name
  MaxOps,       \* bound on what users do
  MaxFaults,    \* bound on calls that fail or whose reply is lost
  MaxCrashes    \* bound on crashes of the controller

Finalizer == "resourcelimiter"      \* constants.DefaultFinalizer
Foreground == "foreground"          \* the garbage collector's own

Target == [ns : Namespaces, hard : Hards]
Entry == [ns : Namespaces, used : Usage, hard : Hards]
CR == [uid : Nat, targets : Seq(Target), applied : BOOLEAN,
       deleting : BOOLEAN, finalizers : SUBSET {Finalizer, Foreground},
       state : {"", "ready", "stopped"}, quotas : SUBSET Entry]
Quota == [owner : Names, uid : Nat, hard : Hards \ BadHards, used : Usage]

ASSUME NamesAssumption ==
  /\ Ignored \subseteq Namespaces /\ BadHards \subseteq Hards /\ 0 \in Usage
  /\ Choices \in [Names -> SUBSET Seq(Target)]
ASSUME BoundsAssumption ==
  MaxOps \in Nat /\ MaxFaults \in Nat /\ MaxCrashes \in Nat
ASSUME AbsentAssumption ==
  Absent \notin Names /\ Absent \notin CR /\ Absent \notin Quota

VARIABLES
  crs, nss, quotas,        \* stored: CRs, namespaces, the quota rl-quota-<ns>
  ccrs, cnss, cquotas,     \* the informers' copies
  crLag, nsLag,            \* written since the informer last caught up
  quotaEvents,             \* per namespace, the owners its pending events name
  queue,                   \* the controller's workqueue
  uids,                    \* CRs created so far
  spent                    \* what is used of the bounds

stored == <<crs, nss, quotas, crLag, nsLag, quotaEvents>>
caches == <<ccrs, cnss, cquotas>>
clusterVars == <<stored, caches, queue, uids, spent>>

StoredTypeOK ==
  /\ crs \in [Names -> CR \cup {Absent}]
  /\ nss \in [Namespaces -> {"absent", "plain", "labelled"}]
  /\ quotas \in [Namespaces -> Quota \cup {Absent}]
  /\ crLag \subseteq Names /\ nsLag \subseteq Namespaces
  /\ quotaEvents \in [Namespaces -> SUBSET Names]

CachesTypeOK ==
  /\ ccrs \in [Names -> CR \cup {Absent}]
  /\ cnss \in [Namespaces -> {"absent", "plain", "labelled"}]
  /\ cquotas \in [Namespaces -> Quota \cup {Absent}]

ClusterTypeOK ==
  /\ StoredTypeOK /\ CachesTypeOK
  /\ queue \subseteq Names /\ uids \in Nat
  /\ spent \in [ops : Nat, faults : Nat, crashes : Nat]

ClusterInit ==
  /\ crs = [n \in Names |-> Absent] /\ ccrs = crs
  /\ nss = [s \in Namespaces |-> "plain"] /\ cnss = nss
  /\ quotas = [s \in Namespaces |-> Absent] /\ cquotas = quotas
  /\ crLag = {} /\ nsLag = {} /\ queue = {} /\ uids = 0
  /\ quotaEvents = [s \in Namespaces |-> {}]
  /\ spent = [ops |-> 0, faults |-> 0, crashes |-> 0]

-----------------------------------------------------------------------------
(* Writes to the API server. One that changes nothing makes no event. *)

Owners(objects) == {q.owner : q \in objects \ {Absent}}

\* A finished deletion: nothing holds the object any more.
Reap(rl) == IF rl.deleting /\ rl.finalizers = {} THEN Absent ELSE rl

CRWritten(n, rl) ==
  /\ crs' = [crs EXCEPT ![n] = rl]
  /\ crLag' = IF rl = crs[n] THEN crLag ELSE crLag \cup {n}
  /\ UNCHANGED <<nss, nsLag, quotas, quotaEvents>>

NSWritten(s, ns) ==
  /\ nss' = [nss EXCEPT ![s] = ns]
  /\ nsLag' = IF ns = nss[s] THEN nsLag ELSE nsLag \cup {s}
  /\ UNCHANGED <<crs, crLag, quotas, quotaEvents>>

QuotaWritten(s, q) ==
  /\ quotas' = [quotas EXCEPT ![s] = q]
  /\ quotaEvents' = IF q = quotas[s] THEN quotaEvents
       ELSE [quotaEvents EXCEPT ![s] = @ \cup Owners({quotas[s], q})]
  /\ UNCHANGED <<crs, crLag, nss, nsLag>>

-----------------------------------------------------------------------------
(* The informers: the cache catches up and, for the watched kinds, the     *)
(* handler enqueues. Several writes may be delivered as one, with all of   *)
(* their enqueues. Namespaces are cached but not watched.                  *)

DeliverCR(n) ==
  /\ n \in crLag
  /\ ccrs' = [ccrs EXCEPT ![n] = crs[n]] /\ crLag' = crLag \ {n}
  /\ queue' = queue \cup {n}
  /\ UNCHANGED <<crs, nss, nsLag, quotas, quotaEvents, cnss, cquotas, uids, spent>>

DeliverNamespace(s) ==
  /\ s \in nsLag
  /\ cnss' = [cnss EXCEPT ![s] = nss[s]] /\ nsLag' = nsLag \ {s}
  /\ UNCHANGED <<crs, nss, quotas, crLag, quotaEvents, ccrs, cquotas, queue, uids, spent>>

\* Mutant: the quotas are cached but not watched.
DeliverQuotaUnwatched(s) ==
  /\ quotaEvents[s] # {}
  /\ cquotas' = [cquotas EXCEPT ![s] = quotas[s]]
  /\ quotaEvents' = [quotaEvents EXCEPT ![s] = {}]
  /\ UNCHANGED <<crs, nss, quotas, crLag, nsLag, ccrs, cnss, queue, uids, spent>>

DeliverQuota(s) ==
  /\ quotaEvents[s] # {}
  /\ cquotas' = [cquotas EXCEPT ![s] = quotas[s]]
  /\ quotaEvents' = [quotaEvents EXCEPT ![s] = {}]
  /\ queue' = queue \cup quotaEvents[s]
  /\ UNCHANGED <<crs, nss, quotas, crLag, nsLag, ccrs, cnss, uids, spent>>

\* A new process lists everything and enqueues every CR and quota owner.
Relist ==
  /\ ccrs' = crs /\ cnss' = nss /\ cquotas' = quotas
  /\ crLag' = {} /\ nsLag' = {} /\ quotaEvents' = [s \in Namespaces |-> {}]
  /\ queue' = {n \in Names : crs[n] # Absent}
                \cup Owners({quotas[s] : s \in Namespaces})
  /\ UNCHANGED <<crs, nss, quotas, uids>>

-----------------------------------------------------------------------------
(* The garbage collector. *)

Dependents(n) ==
  {s \in Namespaces : /\ quotas[s] # Absent /\ crs[n] # Absent
                      /\ quotas[s].owner = n /\ quotas[s].uid = crs[n].uid}

\* n is under a foreground deletion.
Foregoing(n) == crs[n].deleting /\ Foreground \in crs[n].finalizers

Orphan(s) ==
  /\ quotas[s] # Absent /\ quotas[s].owner \in Names
  /\ s \in Dependents(quotas[s].owner) => Foregoing(quotas[s].owner)

CollectQuota(s) ==
  /\ Orphan(s)
  /\ QuotaWritten(s, Absent) /\ UNCHANGED <<caches, queue, uids, spent>>

EndForeground(n) ==
  /\ crs[n] # Absent /\ Foregoing(n) /\ Dependents(n) = {}
  /\ CRWritten(n, Reap([crs[n] EXCEPT !.finalizers = @ \ {Foreground}]))
  /\ UNCHANGED <<caches, queue, uids, spent>>

-----------------------------------------------------------------------------
(* Users, and the quota controller that counts what they use. *)

By(op) ==
  /\ op \in UserOps /\ spent.ops < MaxOps
  /\ spent' = [spent EXCEPT !.ops = @ + 1]
  /\ UNCHANGED <<caches, queue>>

\* A CR may come with the finalizer in its manifest.
CreateCR(n, targets, applied, finalizers) ==
  /\ crs[n] = Absent
  /\ By(IF finalizers = {} THEN "create" ELSE "create finalized")
  /\ uids' = uids + 1
  /\ CRWritten(n, [uid |-> uids', targets |-> targets, applied |-> applied,
                   deleting |-> FALSE, finalizers |-> finalizers,
                   state |-> "", quotas |-> {}])

ChangeSpec(n, targets, applied) ==
  /\ crs[n] # Absent
  /\ <<targets, applied>> # <<crs[n].targets, crs[n].applied>>
  /\ By("change")
  /\ CRWritten(n, [crs[n] EXCEPT !.targets = targets, !.applied = applied])
  /\ UNCHANGED uids

DeleteCR(n, extra) ==
  /\ crs[n] # Absent /\ ~crs[n].deleting
  /\ By(IF extra = {} THEN "delete" ELSE "delete foreground")
  /\ CRWritten(n, Reap([crs[n] EXCEPT !.deleting = TRUE,
                                      !.finalizers = @ \cup extra]))
  /\ UNCHANGED uids

CreateNamespace(s) ==
  /\ nss[s] = "absent" /\ By("create namespace")
  /\ NSWritten(s, "plain") /\ UNCHANGED uids

\* With what is in it.
DeleteNamespace(s) ==
  /\ nss[s] # "absent" /\ By("delete namespace")
  /\ nss' = [nss EXCEPT ![s] = "absent"] /\ nsLag' = nsLag \cup {s}
  /\ quotas' = [quotas EXCEPT ![s] = Absent]
  /\ quotaEvents' = [quotaEvents EXCEPT ![s] = @ \cup Owners({quotas[s]})]
  /\ UNCHANGED <<crs, crLag, uids>>

\* Some annotation or label of no interest here, or the two labels.
TouchNamespace(s) ==
  /\ nss[s] # "absent" /\ s \notin nsLag /\ By("touch")
  /\ nsLag' = nsLag \cup {s}
  /\ UNCHANGED <<crs, nss, quotas, crLag, quotaEvents, uids>>

StripLabels(s) ==
  /\ nss[s] = "labelled" /\ By("strip")
  /\ NSWritten(s, "plain") /\ UNCHANGED uids

EditQuota(s, hard) ==
  /\ quotas[s] # Absent /\ quotas[s].hard # hard /\ By("edit quota")
  /\ QuotaWritten(s, [quotas[s] EXCEPT !.hard = hard]) /\ UNCHANGED uids

RemoveQuota(s) ==
  /\ quotas[s] # Absent /\ By("remove quota")
  /\ QuotaWritten(s, Absent) /\ UNCHANGED uids

UseQuota(s, used) ==
  /\ quotas[s] # Absent /\ quotas[s].used # used /\ By("use")
  /\ QuotaWritten(s, [quotas[s] EXCEPT !.used = used]) /\ UNCHANGED uids

-----------------------------------------------------------------------------
Deliver ==
  \/ \E n \in Names : DeliverCR(n)
  \/ \E s \in Namespaces : DeliverNamespace(s) \/ DeliverQuota(s)

Collect ==
  \/ \E s \in Namespaces : CollectQuota(s)
  \/ \E n \in Names : EndForeground(n)

UserOnCR(n) ==
  \/ \E targets \in Choices[n], applied \in BOOLEAN :
       \/ CreateCR(n, targets, applied, {})
       \/ CreateCR(n, targets, applied, {Finalizer})
       \/ ChangeSpec(n, targets, applied)
  \/ DeleteCR(n, {}) \/ DeleteCR(n, {Foreground})

UserOnNamespace(s) ==
  \/ CreateNamespace(s) \/ DeleteNamespace(s)
  \/ TouchNamespace(s) \/ StripLabels(s)
  \/ \E hard \in Hards \ BadHards : EditQuota(s, hard)
  \/ RemoveQuota(s)
  \/ \E used \in Usage : UseQuota(s, used)

User ==
  \/ \E n \in Names : UserOnCR(n)
  \/ \E s \in Namespaces : UserOnNamespace(s)

=============================================================================
