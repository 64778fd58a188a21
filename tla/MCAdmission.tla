---------------------------- MODULE MCAdmission ----------------------------
(***************************************************************************)
(* Small instances of Admission for TLC.                                   *)
(***************************************************************************)
EXTENDS Admission, TLC

AllGiven == [f \in Fields |-> "300m"]
DefaultLimits == [f \in Fields |-> "default"]

\* Every field given, or one of them empty or no quantity.
Hards == {AllGiven} \cup {[AllGiven EXCEPT ![f] = v] : f \in Fields, v \in {"", "x"}}

QuotaLists ==
  LET quotas == [name : Namespaces, hard : Hards]
  IN {<<>>} \cup {<<q>> : q \in quotas} \cup {<<q, r>> : q \in quotas, r \in quotas}

\* Of the types every set of keys is given, one of the values no quantity.
TypeMaps ==
  UNION {{[f \in keys |-> "300m"]} \cup {[f \in keys |-> IF f = g THEN "x" ELSE "300m"] : g \in keys}
         : keys \in SUBSET Fields}

TargetLists ==
  {<<>>} \cup {<<s>> : s \in Namespaces} \cup {<<s, t>> : s \in Namespaces, t \in Namespaces}

SomeSpecs ==
  [version : {"v1beta2"}, applied : {TRUE}, quotas : QuotaLists] \cup
  [version : {"v1beta1"}, applied : {TRUE}, targets : TargetLists, types : TypeMaps]
=============================================================================
