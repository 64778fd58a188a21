-------------------------- MODULE AdmissionProofs --------------------------
(***************************************************************************)
(* Theorems about Admission for every set of namespaces, values and specs. *)
(***************************************************************************)
EXTENDS Admission, TLAPS

(***************************************************************************)
(* What StoredUsable and StoredIsFixed say of a spec.                      *)
(***************************************************************************)
Usable(rl) ==
  IF rl.version = "v1beta1"
  THEN /\ rl.targets # <<>> /\ Range(rl.targets) \cap Ignored = {}
       /\ \A f \in Fields : f \in DOMAIN rl.types /\ rl.types[f] \in Quantities
  ELSE \A q \in Range(rl.quotas) :
         q.name \notin Ignored /\ \A f \in Fields : q.hard[f] \in Quantities

(***************************************************************************)
(* What the validating webhook looks at has been mutated, which changes    *)
(* nothing any more.                                                       *)
(***************************************************************************)
AdmissionInv ==
  /\ TypeOK
  /\ stage # "idle" => spec # Absent
  /\ stage = "validate" => \E rl \in V1beta1 \cup V1beta2 : spec = Mutated(rl)
  /\ stored # Absent =>
       Valid(stored) /\ \E rl \in V1beta1 \cup V1beta2 : stored = Mutated(rl)

(***************************************************************************)
(* The versions tell the specs apart.                                      *)
(***************************************************************************)
LEMMA Versions ==
  /\ \A rl \in V1beta1 : rl.version = "v1beta1"
  /\ \A rl \in V1beta2 : rl.version = "v1beta2"
BY DEF V1beta1, V1beta2

(***************************************************************************)
(* The targets of a v1beta2 spec are searched for the name default only.   *)
(***************************************************************************)
LEMMA OnlyDefault == mutationRequiredV1beta2(<<>>) = {default}
BY DEF mutationRequiredV1beta2

(***************************************************************************)
(* A mutated v1beta1 spec is one, with every type and a target.            *)
(***************************************************************************)
LEMMA MutatedV1beta1 ==
  ASSUME NEW rl \in V1beta1
  PROVE  /\ Mutated(rl) \in V1beta1
         /\ Mutated(rl).targets # <<>> /\ Fields \subseteq DOMAIN Mutated(rl).types
         /\ Mutated(Mutated(rl)) = Mutated(rl)
<1> DEFINE types == IF Fields \subseteq DOMAIN rl.types THEN rl.types ELSE Defaults
           targets == IF rl.targets = <<>> THEN <<default>> ELSE rl.targets
           m == [rl EXCEPT !.types = types, !.targets = targets]
<1>1. rl.version = "v1beta1" /\ Mutated(rl) = m
  BY Versions DEF Mutated, MutateV1beta1
<1>2. /\ types \in UNION {[keys -> Values] : keys \in SUBSET Fields}
      /\ Fields \subseteq DOMAIN types
  <2>1. Defaults \in [Fields -> Values]
    BY DefaultsAssumption, ValuesAssumption
  <2>2. rl.types \in UNION {[keys -> Values] : keys \in SUBSET Fields}
    BY DEF V1beta1
  <2>3. QED
    BY <2>1, <2>2
<1>3. targets \in Seq(Namespaces) /\ targets # <<>>
  BY DefaultsAssumption DEF V1beta1
<1> HIDE DEF types, targets
<1>4. m \in V1beta1 /\ m.types = types /\ m.targets = targets
  BY <1>2, <1>3 DEF V1beta1
<1>5. Mutated(m) = [m EXCEPT !.types = types, !.targets = targets]
  BY <1>2, <1>3, <1>4, Versions DEF Mutated, MutateV1beta1
<1>6. [m EXCEPT !.types = types, !.targets = targets] = m
  BY <1>4 DEF V1beta1
<1>7. QED
  BY <1>1, <1>2, <1>3, <1>4, <1>5, <1>6

(***************************************************************************)
(* A mutated v1beta2 spec is one, and a second mutation finds the same     *)
(* default in the same place.                                              *)
(***************************************************************************)
LEMMA MutatedV1beta2 ==
  ASSUME NEW rl \in V1beta2
  PROVE  Mutated(rl) \in V1beta2 /\ Mutated(Mutated(rl)) = Mutated(rl)
<1> DEFINE names(quotas) == {default} \cap {q.name : q \in Range(quotas)}
           q0 == [name |-> default, hard |-> Defaults]
<1>1. \A r \in V1beta2 :
        Mutated(r) = IF names(r.quotas) = {} THEN r ELSE [r EXCEPT !.quotas = <<q0>>]
  <2> SUFFICES ASSUME NEW r \in V1beta2
               PROVE Mutated(r) = IF names(r.quotas) = {} THEN r
                                  ELSE [r EXCEPT !.quotas = <<q0>>]
    OBVIOUS
  <2>1. Mutated(r) = [r EXCEPT !.quotas = Patched(r.quotas, names(r.quotas))]
    BY OnlyDefault, Versions DEF Mutated, MutateV1beta2
  <2>2. CASE names(r.quotas) = {}
    <3>1. [r EXCEPT !.quotas = r.quotas] = r
      BY DEF V1beta2
    <3>2. QED
      BY <2>1, <2>2, <3>1 DEF Patched
  <2>3. CASE names(r.quotas) # {}
    <3>1. (CHOOSE n \in names(r.quotas) : TRUE) = default
      BY <2>3
    <3>2. QED
      BY <2>1, <2>3, <3>1 DEF Patched
  <2>4. QED
    BY <2>2, <2>3
<1>2. q0 \in Quota
  BY DefaultsAssumption, ValuesAssumption DEF Quota
<1>3. CASE names(rl.quotas) = {}
  BY <1>1, <1>3
<1>4. CASE names(rl.quotas) # {}
  <2> DEFINE m == [rl EXCEPT !.quotas = <<q0>>]
  <2>1. Mutated(rl) = m
    BY <1>1, <1>4
  <2> HIDE DEF q0
  <2> DEFINE list == <<q0>>
  <2>2. list \in Seq(Quota)
    BY <1>2
  <2> HIDE DEF list
  <2>3. [rl EXCEPT !.quotas = list] \in V1beta2 /\ [rl EXCEPT !.quotas = list].quotas = list
    BY <2>2 DEF V1beta2
  <2>4. [m EXCEPT !.quotas = <<q0>>] = m
    BY <2>3 DEF V1beta2, list
  <2>5. QED
    BY <1>1, <2>1, <2>3, <2>4 DEF list
<1>5. QED
  BY <1>3, <1>4

(***************************************************************************)
(* Of both versions: a mutated spec is a spec, and mutated for good.       *)
(***************************************************************************)
LEMMA MutatedFixed ==
  ASSUME NEW rl \in V1beta1 \cup V1beta2
  PROVE  Mutated(rl) \in V1beta1 \cup V1beta2 /\ Mutated(Mutated(rl)) = Mutated(rl)
BY MutatedV1beta1, MutatedV1beta2

(***************************************************************************)
(* The invariant holds at first and is kept by each of the three steps.    *)
(***************************************************************************)
LEMMA AdmissionInductive == Spec => []AdmissionInv
<1>1. Init => AdmissionInv
  BY DEF Init, AdmissionInv, TypeOK
<1>2. ASSUME AdmissionInv, [Next]_vars PROVE AdmissionInv'
  <2> USE DEF AdmissionInv, TypeOK
  <2>1. ASSUME NEW rl \in Submitted \cup ({stored} \ {Absent}), Submit(rl)
        PROVE  AdmissionInv'
    BY <1>2, <2>1, SubmittedAssumption DEF Submit
  <2>2. CASE Mutate
    <3>1. spec \in V1beta1 \cup V1beta2 /\ spec' = Mutated(spec)
      BY <1>2, <2>2 DEF Mutate
    <3>2. spec' \in V1beta1 \cup V1beta2 /\ spec' # Absent
      BY <3>1, MutatedFixed, SubmittedAssumption
    <3>3. QED
      BY <1>2, <2>2, <3>1, <3>2 DEF Mutate
  <2>3. CASE Validate
    BY <1>2, <2>3 DEF Validate
  <2>4. CASE UNCHANGED vars
    BY <1>2, <2>4 DEF vars
  <2>5. QED
    BY <1>2, <2>1, <2>2, <2>3, <2>4 DEF Next
<1>3. QED
  BY <1>1, <1>2, PTL DEF Spec

(***************************************************************************)
(* Every variable keeps its type.                                          *)
(***************************************************************************)
THEOREM AdmissionTypeCorrect == Spec => []TypeOK
<1>1. AdmissionInv => TypeOK
  BY DEF AdmissionInv
<1>2. QED
  BY AdmissionInductive, <1>1, PTL

(***************************************************************************)
(* Whatever users write, what is stored has a quantity for every limit and *)
(* no ignored namespace.                                                   *)
(***************************************************************************)
THEOREM StoredAlwaysUsable == Spec => []StoredUsable
<1>1. ASSUME NEW rl \in V1beta1 \cup V1beta2, Valid(Mutated(rl))
      PROVE  Usable(Mutated(rl))
  <2>1. CASE rl \in V1beta1
    <3> DEFINE m == Mutated(rl)
    <3>1. /\ m \in V1beta1 /\ m.version = "v1beta1"
          /\ m.targets # <<>> /\ Fields \subseteq DOMAIN m.types
      BY <2>1, MutatedV1beta1, Versions
    <3> HIDE DEF m
    <3>2. Range(m.targets) \cap Ignored = {} /\ Range(m.types) \subseteq Quantities
      BY <1>1, <3>1 DEF Valid, m
    <3>3. \A f \in Fields : m.types[f] \in Range(m.types)
      BY <3>1 DEF Range
    <3>4. QED
      BY <3>1, <3>2, <3>3 DEF Usable, m
  <2>2. CASE rl \in V1beta2
    BY <1>1, <2>2, MutatedV1beta2, Versions DEF Usable, Valid, ValidQuota
  <2>3. QED
    BY <2>1, <2>2
<1>2. AdmissionInv => StoredUsable
  BY <1>1 DEF AdmissionInv, StoredUsable, Usable
<1>3. QED
  BY AdmissionInductive, <1>2, PTL

(***************************************************************************)
(* What is stored passes both webhooks again as it is.                     *)
(***************************************************************************)
THEOREM StoredStaysFixed == Spec => []StoredIsFixed
<1>1. AdmissionInv => StoredIsFixed
  BY MutatedFixed DEF AdmissionInv, StoredIsFixed
<1>2. QED
  BY AdmissionInductive, <1>1, PTL

=============================================================================
