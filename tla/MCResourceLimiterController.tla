-------------------- MODULE MCResourceLimiterController --------------------
(***************************************************************************)
(* Small instances of ResourceLimiterController for TLC.                   *)
(***************************************************************************)
EXTENDS ResourceLimiterController

CONSTANTS a, b, c, ksys,   \* namespaces
          r1, r2,          \* ResourceLimiters
          lo, hi, bad      \* limits

To(ns, hard) == [ns |-> ns, hard |-> hard]

\* One CR, which may name the ignored namespace and change its limits.
OneName == [n \in Names |-> {<<To(ksys, hi), To(a, lo)>>, <<To(a, hi)>>}]

\* Two CRs: one over two namespaces, one whose limit may not parse.
TwoNames == [n \in Names |-> IF n = r1 THEN {<<To(a, lo), To(b, lo)>>, <<To(b, lo)>>}
                             ELSE {<<To(c, bad)>>, <<To(c, lo)>>}]

\* Two CRs that limit the same namespace differently, one of them a second
\* one, by a limit that may not parse.
SharedNames == [n \in Names |-> IF n = r1 THEN {<<To(a, lo)>>}
                                ELSE {<<To(a, hi)>>, <<To(a, hi), To(b, bad)>>}]
=============================================================================
