-------------------------- MODULE ValidateWebhook --------------------------
(***************************************************************************)
(* The validating webhook. net/http serves every admission review on a     *)
(* goroutine of its own, and all of them share the variable resFormErr: it *)
(* is reset when a validation begins, set when one panics on a quantity,   *)
(* and read, twice, before the answer is written.                          *)
(*                                                                         *)
(* resFormErr is an interface value, two words in memory that nothing      *)
(* guards: each word is written by a step of its own, in either order.     *)
(***************************************************************************)
EXTENDS Integers, Sequences, FiniteSetsExt

CONSTANTS
  Requests,   \* admission reviews sent to the webhook
  Objects,    \* what may be under review
  Nil

(***************************************************************************)
(* An object is reduced to what validate looks at: whether it decodes, its *)
(* kind, and the outcome of each check on its fields in the order validate *)
(* makes them. A review that does not decode itself is never validated.    *)
(***************************************************************************)
Checks == {"ok", "ignored namespace", "not a quantity", "no resources"}

ASSUME ObjectsAssumption ==
  Objects \subseteq [review : BOOLEAN, decodes : BOOLEAN, kind : STRING,
                     checks : Seq(Checks)]
ASSUME NilAssumption == Nil \notin Requests

VARIABLES
  object,       \* what each request is about
  pc,           \* where its goroutine is
  todo,         \* the words of resFormErr it still has to write
  response,     \* what validate returned ("none": it panicked)
  outcome,      \* what the API server makes of the answer
  blamed,       \* whose panic a denial reports
  resFormErr,   \* its type word and its data word
  met           \* history: requests that were served at the same time

vars == <<object, pc, todo, response, outcome, blamed, resFormErr, met>>

Words == {"type", "data"}

\* The kinds validate has a case for.
Cases == {"ResourceLimiter", "Pod", "Deployment", "Daemonset"}

\* What validate makes of an object when it is alone. It decodes it once it
\* knows the kind, and nothing of a kind without a case.
Verdict(o) ==
  LET bad == {i \in 1..Len(o.checks) : o.checks[i] # "ok"} IN
  IF ~o.review THEN "deny"
  ELSE IF o.kind \notin Cases THEN "allow"
  ELSE IF ~o.decodes THEN "deny"
  ELSE IF bad = {} THEN "allow"
  ELSE IF o.checks[Min(bad)] = "not a quantity" THEN "panic"
  ELSE "deny"

TypeOK ==
  /\ object \in [Requests -> Objects]
  /\ pc \in [Requests -> {"new", "reset", "validate", "record", "check", "use", "done"}]
  /\ todo \in [Requests -> SUBSET Words]
  /\ response \in [Requests -> {"none", "allow", "deny"}]
  /\ outcome \in [Requests -> {"pending", "allowed", "denied", "failed"}]
  /\ blamed \in [Requests -> Requests \cup {Nil}]
  /\ resFormErr \in [Words -> Requests \cup {Nil}]
  /\ met \in [Requests -> SUBSET Requests]

Init ==
  /\ object \in [Requests -> Objects]
  /\ pc = [r \in Requests |-> "new"]
  /\ todo = [r \in Requests |-> {}]
  /\ response = [r \in Requests |-> "none"]
  /\ outcome = [r \in Requests |-> "pending"]
  /\ blamed = [r \in Requests |-> Nil]
  /\ resFormErr = [w \in Words |-> Nil]
  /\ met = [r \in Requests |-> {}]

-----------------------------------------------------------------------------
Active == {r \in Requests : pc[r] \notin {"new", "done"}}

Goto(r, label) == pc' = [pc EXCEPT ![r] = label]

\* Mutant: nothing resets resFormErr.
ReceiveNoReset(r) ==
  /\ pc[r] = "new"
  /\ IF object[r].review
     THEN Goto(r, "validate") /\ UNCHANGED <<todo, response>>
     ELSE /\ Goto(r, "check") /\ response' = [response EXCEPT ![r] = "deny"]
          /\ UNCHANGED todo
  /\ met' = [q \in Requests |-> IF q = r THEN Active
                                ELSE IF q \in Active THEN met[q] \cup {r}
                                ELSE met[q]]
  /\ UNCHANGED <<object, outcome, blamed, resFormErr>>

\* Mutant: resFormErr is reset in the case of the ResourceLimiter only.
ReceiveResetsSome(r) ==
  /\ pc[r] = "new"
  /\ IF object[r].review /\ object[r].kind = "ResourceLimiter"
     THEN /\ Goto(r, "reset") /\ todo' = [todo EXCEPT ![r] = Words]
          /\ UNCHANGED response
     ELSE IF object[r].review
     THEN Goto(r, "validate") /\ UNCHANGED <<todo, response>>
     ELSE /\ Goto(r, "check") /\ response' = [response EXCEPT ![r] = "deny"]
          /\ UNCHANGED todo
  /\ met' = [q \in Requests |-> IF q = r THEN Active
                                ELSE IF q \in Active THEN met[q] \cup {r}
                                ELSE met[q]]
  /\ UNCHANGED <<object, outcome, blamed, resFormErr>>

\* A request comes in. A review that does not decode is not validated.
Receive(r) ==
  /\ pc[r] = "new"
  /\ IF object[r].review
     THEN /\ Goto(r, "reset") /\ todo' = [todo EXCEPT ![r] = Words]
          /\ UNCHANGED response
     ELSE /\ Goto(r, "check") /\ response' = [response EXCEPT ![r] = "deny"]
          /\ UNCHANGED todo
  /\ met' = [q \in Requests |-> IF q = r THEN Active
                                ELSE IF q \in Active THEN met[q] \cup {r}
                                ELSE met[q]]
  /\ UNCHANGED <<object, outcome, blamed, resFormErr>>

\* resFormErr = nil, one word after the other.
Reset(r, w) ==
  /\ pc[r] = "reset" /\ w \in todo[r]
  /\ resFormErr' = [resFormErr EXCEPT ![w] = Nil]
  /\ todo' = [todo EXCEPT ![r] = @ \ {w}]
  /\ IF todo[r] = {w} THEN Goto(r, "validate") ELSE UNCHANGED pc
  /\ UNCHANGED <<object, response, outcome, blamed, met>>

\* Mutant: the response is made before the checks, allowing.
ValidateAllowsFirst(r) ==
  /\ pc[r] = "validate"
  /\ IF Verdict(object[r]) = "panic"
     THEN /\ Goto(r, "record") /\ todo' = [todo EXCEPT ![r] = Words]
          /\ response' = [response EXCEPT ![r] = "allow"]
     ELSE /\ Goto(r, "check")
          /\ response' = [response EXCEPT ![r] = Verdict(object[r])]
          /\ UNCHANGED todo
  /\ UNCHANGED <<object, outcome, blamed, resFormErr, met>>

\* MustParse panics on what is no quantity; the deferred recordR recovers.
Validate(r) ==
  /\ pc[r] = "validate"
  /\ IF Verdict(object[r]) = "panic"
     THEN /\ Goto(r, "record") /\ todo' = [todo EXCEPT ![r] = Words]
          /\ UNCHANGED response
     ELSE /\ Goto(r, "check")
          /\ response' = [response EXCEPT ![r] = Verdict(object[r])]
          /\ UNCHANGED todo
  /\ UNCHANGED <<object, outcome, blamed, resFormErr, met>>

\* recordR: resFormErr = fmt.Errorf(...)
Record(r, w) ==
  /\ pc[r] = "record" /\ w \in todo[r]
  /\ resFormErr' = [resFormErr EXCEPT ![w] = r]
  /\ todo' = [todo EXCEPT ![r] = @ \ {w}]
  /\ IF todo[r] = {w} THEN Goto(r, "check") ELSE UNCHANGED pc
  /\ UNCHANGED <<object, response, outcome, blamed, met>>

Answer(r, result, culprit) ==
  /\ Goto(r, "done")
  /\ outcome' = [outcome EXCEPT ![r] = result]
  /\ blamed' = [blamed EXCEPT ![r] = culprit]
  /\ UNCHANGED <<object, todo, response, resFormErr, met>>

\* Mutant: a validation without a response is answered like any other.
CheckErrRaw(r) ==
  /\ pc[r] = "check"
  /\ \/ /\ resFormErr["type"] # Nil /\ Goto(r, "use")
        /\ UNCHANGED <<object, todo, response, outcome, blamed, resFormErr, met>>
     \/ /\ resFormErr["type"] = Nil
        /\ Answer(r, CASE response[r] = "allow" -> "allowed"
                       [] response[r] = "deny"  -> "denied"
                       [] OTHER                 -> response[r], Nil)

\* if resFormErr != nil: only the type word says. An answer without a
\* response fails the admission.
CheckErr(r) ==
  /\ pc[r] = "check"
  /\ \/ /\ resFormErr["type"] # Nil /\ Goto(r, "use")
        /\ UNCHANGED <<object, todo, response, outcome, blamed, resFormErr, met>>
     \/ /\ resFormErr["type"] = Nil
        /\ Answer(r, CASE response[r] = "allow" -> "allowed"
                       [] response[r] = "deny"  -> "denied"
                       [] OTHER                 -> "failed", Nil)

\* resFormErr.Error() of a value whose words are not both there panics, and
\* net/http cuts the connection.
UseErr(r) ==
  /\ pc[r] = "use"
  /\ IF Nil \in {resFormErr[w] : w \in Words} THEN Answer(r, "failed", Nil)
     ELSE Answer(r, "denied", resFormErr["data"])

Serve(r) ==
  \/ Receive(r) \/ Validate(r) \/ CheckErr(r) \/ UseErr(r)
  \/ \E w \in Words : Reset(r, w) \/ Record(r, w)

Next == \E r \in Requests : Serve(r)

Spec == Init /\ [][Next]_vars

-----------------------------------------------------------------------------
(***************************************************************************)
(* Whatever the others do to resFormErr, nothing is let in that validate   *)
(* would not let in: a request whose panic is wiped out by another's reset *)
(* has no response to answer with.                                         *)
(***************************************************************************)
SoundAdmission ==
  \A r \in Requests : outcome[r] = "allowed" => Verdict(object[r]) = "allow"

(***************************************************************************)
(* A request that was served alone gets what validate makes of its object, *)
(* with its own panic as the reason: no error of an earlier request is     *)
(* left over in resFormErr, not even half of one.                          *)
(***************************************************************************)
SerialExact ==
  \A r \in Requests :
    pc[r] = "done" /\ met[r] = {} /\ object[r].review =>
      CASE Verdict(object[r]) = "allow" -> outcome[r] = "allowed"
        [] Verdict(object[r]) = "deny"  -> outcome[r] = "denied" /\ blamed[r] = Nil
        [] Verdict(object[r]) = "panic" -> outcome[r] = "denied" /\ blamed[r] = r

(***************************************************************************)
(* The damage the sharing does is local: a good object is turned away only *)
(* while another request, served at the same time, panics.                 *)
(***************************************************************************)
DamageIsLocal ==
  \A r \in Requests :
    outcome[r] \in {"denied", "failed"} /\ Verdict(object[r]) = "allow" =>
      \E q \in met[r] : Verdict(object[q]) = "panic"

=============================================================================
