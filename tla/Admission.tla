----------------------------- MODULE Admission -----------------------------
(***************************************************************************)
(* How a ResourceLimiter gets into the API server once both webhooks are   *)
(* registered: the mutating webhook answers with a patch, the API server   *)
(* applies it, the validating webhook sees the outcome and lets it be      *)
(* stored or not. What is stored is what the controller works from.        *)
(***************************************************************************)
EXTENDS Specs

CONSTANTS
  Ignored,      \* kube-system and kube-public
  default,      \* the namespace of that name
  Defaults,     \* the limits that the mutating webhook gives
  Submitted,    \* the specs that users write
  Absent        \* no spec stored

ASSUME DefaultsAssumption ==
  /\ default \in Namespaces /\ Ignored \subseteq Namespaces \ {default}
  /\ Defaults \in [Fields -> Quantities]
ASSUME SubmittedAssumption ==
  Submitted \subseteq V1beta1 \cup V1beta2 /\ Absent \notin V1beta1 \cup V1beta2

VARIABLES
  stage,        \* how far the write under review is
  written,      \* what its user wrote
  spec,         \* what has become of it
  stored

vars == <<stage, written, spec, stored>>

TypeOK ==
  /\ stage \in {"idle", "mutate", "validate"}
  /\ written \in V1beta1 \cup V1beta2 \cup {Absent}
  /\ spec \in V1beta1 \cup V1beta2 \cup {Absent}
  /\ stored \in V1beta1 \cup V1beta2 \cup {Absent}

Init == stage = "idle" /\ written = Absent /\ spec = Absent /\ stored = Absent

-----------------------------------------------------------------------------
(* The mutating webhook. *)

\* Mutant: the map has to have some of the types only.
MutateV1beta1Some(rl) ==
  [rl EXCEPT
    !.types = IF DOMAIN rl.types = {} THEN Defaults ELSE @,
    !.targets = IF rl.targets = <<>> THEN <<default>> ELSE @]

\* All types are replaced if one is missing. An object without any spec is no
\* spec here: the patch adds to it and the API server refuses that.
MutateV1beta1(rl) ==
  [rl EXCEPT
    !.types = IF Fields \subseteq DOMAIN rl.types THEN @ ELSE Defaults,
    !.targets = IF rl.targets = <<>> THEN <<default>> ELSE @]

\* The namespaces whose quota is to be mutated.
mutationRequiredV1beta2(quotas) ==
  IF quotas = <<>> THEN {default}
  ELSE {q.name : q \in {q \in Range(quotas) : \E f \in Fields : q.hard[f] = Unset}}

\* Mutant: the requests are left out of the quota added.
PatchedLimits(quotas, names) ==
  IF names = {} THEN quotas
  ELSE <<[name |-> CHOOSE n \in names : TRUE,
          hard |-> [f \in {"limits.cpu", "limits.memory"} |-> Defaults[f]]]>>

\* Mutant: the patch appends to the targets that are there.
PatchedAppends(quotas, names) ==
  IF names = {} THEN quotas
  ELSE Append(quotas, [name |-> CHOOSE n \in names : TRUE, hard |-> Defaults])

\* As updateResourceLimiterQuotasV1beta2 is called with no targets, each
\* operation adds "/spec/targets", a list of one, in place of the whole list.
Patched(quotas, names) ==
  IF names = {} THEN quotas
  ELSE <<[name |-> CHOOSE n \in names : TRUE, hard |-> Defaults]>>

\* createPatchV1beta2 empties rl.Spec.Quotas before it looks what to mutate.
MutateV1beta2(rl) ==
  LET required == mutationRequiredV1beta2(<<>>)
  IN [rl EXCEPT !.quotas = Patched(@, required \cap {q.name : q \in Range(@)})]

Mutated(rl) ==
  IF rl.version = "v1beta1" THEN MutateV1beta1(rl) ELSE MutateV1beta2(rl)

-----------------------------------------------------------------------------
(* The validating webhook: what is no quantity makes it panic, and deny. *)

\* Mutant: the limits are parsed, the requests are not.
ValidQuotaLimits(q) ==
  q.name \notin Ignored /\ \A f \in {"limits.cpu", "limits.memory"} : q.hard[f] \in Quantities

ValidQuota(q) ==
  q.name \notin Ignored /\ \A f \in Fields : q.hard[f] \in Quantities

Valid(rl) ==
  IF rl.version = "v1beta1"
  THEN Range(rl.targets) \cap Ignored = {} /\ Range(rl.types) \subseteq Quantities
  ELSE \A q \in Range(rl.quotas) : ValidQuota(q)

-----------------------------------------------------------------------------
\* A user creates or updates the ResourceLimiter, or starts from what is stored.
Submit(rl) ==
  /\ stage = "idle" /\ stage' = "mutate"
  /\ written' = rl /\ spec' = rl
  /\ UNCHANGED stored

Mutate ==
  /\ stage = "mutate" /\ stage' = "validate"
  /\ spec' = Mutated(spec)
  /\ UNCHANGED <<written, stored>>

Validate ==
  /\ stage = "validate" /\ stage' = "idle"
  /\ stored' = IF Valid(spec) THEN spec ELSE stored
  /\ UNCHANGED <<written, spec>>

Next ==
  \/ \E rl \in Submitted \cup ({stored} \ {Absent}) : Submit(rl)
  \/ Mutate \/ Validate

Spec == Init /\ [][Next]_vars

-----------------------------------------------------------------------------
(***************************************************************************)
(* Both webhooks together let nothing in that stops the controller: every  *)
(* limit that is stored parses (setHard would panic), none is missing, and *)
(* no ignored namespace is a target, whether a field was wrong, empty or   *)
(* absent in what the user wrote.                                          *)
(***************************************************************************)
StoredUsable ==
  stored # Absent =>
    IF stored.version = "v1beta1"
    THEN /\ stored.targets # <<>> /\ Range(stored.targets) \cap Ignored = {}
         /\ \A f \in Fields : f \in DOMAIN stored.types /\ stored.types[f] \in Quantities
    ELSE \A q \in Range(stored.quotas) :
           q.name \notin Ignored /\ \A f \in Fields : q.hard[f] \in Quantities

(***************************************************************************)
(* What has been stored once is stored again as it is: the patch of the    *)
(* finalizers, the one update the controller makes that passes the         *)
(* webhooks, leaves the spec alone.                                        *)
(***************************************************************************)
StoredIsFixed ==
  stored # Absent => Mutated(stored) = stored /\ Valid(stored)

-----------------------------------------------------------------------------
(* What the code says, and does not hold. *)

(***************************************************************************)
(* "Check whether the target resoured need to be mutated": a quota that    *)
(* has all of its fields does not, and is there after the mutation.        *)
(***************************************************************************)
CompleteQuotasKept ==
  stage = "validate" /\ spec.version = "v1beta2" =>
    \A q \in Range(written.quotas) :
      Unset \notin Range(q.hard) => q \in Range(spec.quotas)

=============================================================================
