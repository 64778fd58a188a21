------------------------- MODULE MCValidateWebhook -------------------------
(***************************************************************************)
(* Small instances of ValidateWebhook for TLC.                             *)
(***************************************************************************)
EXTENDS ValidateWebhook, TLC

CONSTANTS q1, q2, q3

Review(kind, checks) ==
  [review |-> TRUE, decodes |-> TRUE, kind |-> kind, checks |-> checks]

\* One object of each way through validate, and a review it never sees.
AllObjects ==
  {Review("ResourceLimiter", <<"ok", "ok">>),
   Review("ResourceLimiter", <<"not a quantity", "ignored namespace">>),
   Review("Pod", <<"ok", "no resources">>), Review("DaemonSet", <<"no resources">>),
   [Review("Pod", <<>>) EXCEPT !.decodes = FALSE],
   [Review("DaemonSet", <<>>) EXCEPT !.decodes = FALSE],
   [Review("Pod", <<>>) EXCEPT !.review = FALSE]}

Symmetric == Permutations(Requests)
=============================================================================
