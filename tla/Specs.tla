------------------------------- MODULE Specs -------------------------------
(***************************************************************************)
(* The specs of a ResourceLimiter in its two API versions. v1beta1 has one *)
(* set of limits for all of its targets, v1beta2 one for each. The version *)
(* of a spec says which of the two layouts it has, not what the object's   *)
(* apiVersion reads.                                                       *)
(***************************************************************************)
EXTENDS Integers, Sequences, FiniteSets, Functions

CONSTANTS
  Namespaces,   \* names of namespaces
  Values,       \* what a limit may be written as
  Quantities,   \* those of the values that MustParse parses
  Unset         \* the empty string, the value of a field that is not given

ASSUME ValuesAssumption ==
  Quantities \subseteq Values /\ Unset \in Values \ Quantities

Fields == {"limits.cpu", "requests.cpu", "limits.memory", "requests.memory"}

\* Of a v1beta1 spec the types are a map that need not have every key.
V1beta1 == [version : {"v1beta1"}, applied : BOOLEAN, targets : Seq(Namespaces),
            types : UNION {[keys -> Values] : keys \in SUBSET Fields}]

Quota == [name : Namespaces, hard : [Fields -> Values]]

V1beta2 == [version : {"v1beta2"}, applied : BOOLEAN, quotas : Seq(Quota)]

=============================================================================
