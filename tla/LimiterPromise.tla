--------------------------- MODULE LimiterPromise ---------------------------
(***************************************************************************)
(* What the controller promises to those who read and write ResourceLimiters *)
(* and quotas, without its caches, workqueue, retries and crashes: it does *)
(* nothing to a quota that no CR ever asked for, and it calls a CR ready   *)
(* only when it has done what that CR asks for now.                        *)
(*                                                                         *)
(* It does not promise when, nor that the spec it acts on is the latest.   *)
(***************************************************************************)
EXTENDS Integers, Sequences

CONSTANTS
  Names, Namespaces, Ignored, Hards,
  Absent        \* no CR, no quota

VARIABLES
  want,         \* the spec each CR has now: its uid, targets, switch, deletion
  said,         \* the status each CR reports
  have,         \* the quota of each namespace: its owner, its limits
  users,        \* how often users have done something
  asked,        \* history: all that each name was ever asked for
  met           \* history: targets that were as wanted since they are wanted

promised == <<want, said, have, users, asked, met>>

Silent == [state |-> "", limits |-> {}]

Targets(sp) == {sp.targets[i] : i \in 1..Len(sp.targets)}
Limited(sp) == {t \in Targets(sp) : t.ns \notin Ignored}

Ready(sp) == [state |-> "ready", limits |-> Limited(sp)]
Stopped == [state |-> "stopped", limits |-> {}]

Holds(t) == have[t.ns] # Absent /\ have[t.ns].hard = t.hard

-----------------------------------------------------------------------------
\* What the histories hold after any step.
Remember ==
  /\ asked' = [n \in Names |-> asked[n] \cup ({want'[n]} \ {Absent})]
  /\ met' = [n \in Names |->
       IF want'[n] = Absent THEN {}
       ELSE {t \in Limited(want'[n]) :
               Holds(t)' \/ (want'[n] = want[n] /\ t \in met[n])}]

\* Only what is said of n, or of s, may differ.
OnlyOf(n) == \A m \in Names \ {n} : want'[m] = want[m] /\ said'[m] = said[m]
OnlyIn(s) == \A r \in Namespaces \ {s} : have'[r] = have[r]

Init ==
  /\ want = [n \in Names |-> Absent] /\ said = [n \in Names |-> Silent]
  /\ have = [s \in Namespaces |-> Absent] /\ users = 0
  /\ asked = [n \in Names |-> {}] /\ met = [n \in Names |-> {}]

-----------------------------------------------------------------------------
(* Users create, change and delete CRs. They may spoil or remove quotas, as *)
(* may the removal of namespaces, but the quotas are made by others.       *)

Ask(n) ==
  /\ OnlyOf(n) /\ UNCHANGED have
  /\ said'[n] = IF want[n] = Absent \/ want'[n] = Absent THEN Silent ELSE said[n]

Meddle ==
  /\ UNCHANGED <<want, said>>
  /\ \A s \in Namespaces : have'[s] # have[s] => have[s] # Absent

ByUser == users' = users + 1 /\ (Meddle \/ \E n \in Names : Ask(n))

-----------------------------------------------------------------------------
(* The controller, and the garbage collector. *)

\* A quota is made, or given the limits, that n has asked for.
Limit(n) ==
  \E sp \in asked[n] : \E t \in Limited(sp) :
    /\ sp.applied /\ ~sp.deleting
    /\ OnlyIn(t.ns)
    /\ have'[t.ns] = IF have[t.ns] = Absent
                     THEN [owner |-> n, uid |-> sp.uid, hard |-> t.hard]
                     ELSE [have[t.ns] EXCEPT !.hard = t.hard]
    /\ UNCHANGED <<want, said>>

\* A quota is removed where n has been switched off or is to go.
Free(n) ==
  \E sp \in asked[n] : \E t \in Targets(sp) :
    /\ sp.deleting \/ (~sp.applied /\ t.ns \notin Ignored)
    /\ OnlyIn(t.ns) /\ have'[t.ns] = Absent
    /\ UNCHANGED <<want, said>>

\* The present spec is reported as fulfilled, and if it limits, then
\* each limit has been in place since that spec was given.
Report(n) ==
  /\ want[n] # Absent /\ ~want[n].deleting
  /\ want[n].applied => met[n] = Limited(want[n])
  /\ said' = [said EXCEPT ![n] = IF want[n].applied THEN Ready(want[n]) ELSE Stopped]
  /\ UNCHANGED <<want, have>>

\* A deletion is completed.
Leave(n) ==
  /\ want[n] # Absent /\ want[n].deleting
  /\ want' = [want EXCEPT ![n] = Absent] /\ said' = [said EXCEPT ![n] = Silent]
  /\ UNCHANGED have

\* A quota goes with its owner.
Collect(s) ==
  /\ have[s] # Absent
  /\ LET owner == want[have[s].owner] IN
     owner # Absent /\ owner.uid = have[s].uid => owner.deleting
  /\ have' = [have EXCEPT ![s] = Absent] /\ UNCHANGED <<want, said>>

ByController ==
  /\ UNCHANGED users
  /\ \/ \E n \in Names : Limit(n) \/ Free(n) \/ Report(n) \/ Leave(n)
     \/ \E s \in Namespaces : Collect(s)

Next == (ByUser \/ ByController) /\ Remember

Spec == Init /\ [][Next]_promised

=============================================================================
