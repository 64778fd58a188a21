---------------------- MODULE TwoControllersRefinement ----------------------
(***************************************************************************)
(* Two controllers at once keep what LimiterPromise says of one: neither   *)
(* undoes, by what it read before the other wrote, what users may rely on. *)
(***************************************************************************)
EXTENDS TwoControllers

VARIABLES asked, met    \* LimiterPromise's histories

\* The mapping is about what the API server stores, so either process will do.
Seen == INSTANCE ResourceLimiterRefinement WITH
  ccrs <- ccrs2, cnss <- cnss2, cquotas <- cquotas2, crLag <- crLag2,
  nsLag <- nsLag2, quotaEvents <- quotaEvents2, queue <- queue2, wk <- wk2

ASSUME PromiseAssumption ==
  /\ Absent \notin [uid : Nat, targets : Seq(Seen!Target),
                    applied : BOOLEAN, deleting : BOOLEAN]
  /\ Absent \notin [owner : Names, uid : Nat, hard : Hards]

promiseVars == <<vars, asked, met>>

RememberingInit ==
  /\ Init /\ asked = [n \in Names |-> {}] /\ met = [n \in Names |-> {}]

RememberingNext == Next /\ Seen!Promise!Remember

RememberingSpec == RememberingInit /\ [][RememberingNext]_promiseVars

FairRememberingSpec == RememberingSpec /\ Fairness

(***************************************************************************)
(* In a rollout too, a quota is only limited or freed as some spec of that *)
(* name asked, and ready is only said of the present spec, each limit of   *)
(* which one of the two has put in place since that spec was given. The    *)
(* old process may stop anywhere, and either may find what the other did.  *)
(***************************************************************************)
PromiseKept == Seen!PromiseKept

=============================================================================
