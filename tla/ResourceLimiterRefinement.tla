--------------------- MODULE ResourceLimiterRefinement ---------------------
(***************************************************************************)
(* The reconciler, with its caches, workqueue and failures, keeps what     *)
(* LimiterPromise says: each of its steps is one of those, or changes      *)
(* nothing that they speak of.                                             *)
(***************************************************************************)
EXTENDS ResourceLimiterController

ASSUME PromiseAssumption ==
  /\ Absent \notin [uid : Nat, targets : Seq(Target),
                    applied : BOOLEAN, deleting : BOOLEAN]
  /\ Absent \notin [owner : Names, uid : Nat, hard : Hards]

VARIABLES asked, met    \* LimiterPromise's histories

promiseVars == <<vars, asked, met>>

SpecOf(rl) == [uid |-> rl.uid, targets |-> rl.targets,
               applied |-> rl.applied, deleting |-> rl.deleting]

\* The part of the cluster that the promise is about.
wanted == [n \in Names |-> IF crs[n] = Absent THEN Absent ELSE SpecOf(crs[n])]

said == [n \in Names |->
  IF crs[n] = Absent THEN [state |-> "", limits |-> {}]
  ELSE [state |-> crs[n].state,
        limits |-> {[ns |-> e.ns, hard |-> e.hard] : e \in crs[n].quotas}]]

have == [s \in Namespaces |->
  IF quotas[s] = Absent THEN Absent
  ELSE [owner |-> quotas[s].owner, uid |-> quotas[s].uid, hard |-> quotas[s].hard]]

Promise == INSTANCE LimiterPromise WITH want <- wanted, users <- spent.ops

RememberingInit ==
  /\ Init /\ asked = [n \in Names |-> {}] /\ met = [n \in Names |-> {}]

RememberingNext == Next /\ Promise!Remember

RememberingSpec == RememberingInit /\ [][RememberingNext]_promiseVars

(***************************************************************************)
(* The reconciler implements LimiterPromise: whatever cached copy it acts  *)
(* on and wherever it fails, it limits and frees only as some spec of that *)
(* name has asked, and it says ready only of the present spec, each limit  *)
(* of which it has put in place since that spec was given.                 *)
(***************************************************************************)
PromiseKept == Promise!Spec

=============================================================================
