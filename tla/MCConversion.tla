---------------------------- MODULE MCConversion ----------------------------
(***************************************************************************)
(* Small instances of Conversion for TLC.                                  *)
(***************************************************************************)
EXTENDS Conversion, TLC

Limits(v) == [f \in Fields |-> v]

OldSpecs ==
  [version : {"v1beta1"}, applied : BOOLEAN,
   targets : {<<>>, <<"default">>, <<"default", "team">>},
   types : {Limits("1"), [Limits("1") EXCEPT !["limits.cpu"] = "2"],
            [f \in {"limits.cpu"} |-> "1"], <<>>}]

NewQuotas ==
  {[name |-> "default", hard |-> Limits("1")], [name |-> "team", hard |-> Limits("1")],
   [name |-> "team", hard |-> Limits("2")],
   [name |-> "team", hard |-> [Limits("1") EXCEPT !["requests.cpu"] = ""]]}

NewSpecs ==
  [version : {"v1beta2"}, applied : BOOLEAN,
   quotas : {<<>>} \cup {<<q>> : q \in NewQuotas} \cup {<<q, r>> : q, r \in NewQuotas}]

Whole(spec) ==
  [parses |-> TRUE, kind |-> "ResourceLimiter", name |-> "rl", given |-> Keys,
   spec |-> spec]

\* Whole, without a key each, without a kind, or no JSON at all.
Raws(specs) ==
  LET some == Whole(CHOOSE s \in specs : TRUE) IN
  {Whole(s) : s \in specs} \cup {[some EXCEPT !.given = Keys \ {k}] : k \in Keys} \cup
  {[some EXCEPT !.kind = "no kind"], [some EXCEPT !.parses = FALSE]}

Lists(raws) == {<<>>} \cup {<<a>> : a \in raws} \cup {<<a, b>> : a, b \in raws}

\* The API server's headers; ordered by preference, "*/*" comes last.
Sent(reviews) ==
  {[type |-> JSON, accept |-> <<JSON, "*/*">>, body |-> "request",
    desired |-> r.desired, objects |-> r.objects] : r \in reviews}

Headers ==
  [type : {JSON, "application/yaml", "other"},
   accept : {<<>>, <<"other">>, <<"other", "application/*">>},
   body : {"request", "no request", "garbage"},
   desired : {"v1beta2"},
   objects : Lists({Whole(s) : s \in {s \in OldSpecs :
                                      s.applied /\ Len(s.targets) = 1}})]

SomeReviews ==
  Headers \cup
  Sent([desired : {"v1beta2"}, objects : Lists(Raws(OldSpecs))] \cup
       [desired : {"v1beta1"}, objects : Lists(Raws(NewSpecs))] \cup
       [desired : {"v1"}, objects : {<<>>}])
=============================================================================
