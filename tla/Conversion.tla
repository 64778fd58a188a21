----------------------------- MODULE Conversion -----------------------------
(***************************************************************************)
(* The conversion webhook: a ConversionReview asks for a list of           *)
(* ResourceLimiters in the other API version, doConversion takes them one  *)
(* after the other. The first that fails is the response for all of them;  *)
(* a panic leaves the request without one. serveConvert decodes the        *)
(* request before, and encodes the response after.                         *)
(***************************************************************************)
EXTENDS Specs

CONSTANTS
  NoName,       \* the empty name
  Names,        \* names of ResourceLimiters
  Reviews       \* requests: a desired version and the raw objects

(***************************************************************************)
(* A raw object is JSON that may not parse, have no kind, or leave keys of *)
(* its spec out; a field of a quota that is Unset is left out too.         *)
(***************************************************************************)
Keys == {"applied", "targets", "types"}
Kinds == {"ResourceLimiter", "no kind"}
Raw == [parses : BOOLEAN, kind : Kinds, name : Names, given : SUBSET Keys,
        spec : V1beta1 \cup V1beta2]
Converted == [kind : Kinds, name : Names \cup {NoName}, spec : V1beta1 \cup V1beta2]

(***************************************************************************)
(* The headers of a request: the type of the body, and the types accepted, *)
(* most wanted first. A body may be JSON or YAML but ask for nothing.      *)
(***************************************************************************)
JSON == "application/json"
Serializers == {JSON, "application/yaml"}
MediaTypes == Serializers \cup {"application/*", "*/*", "other"}

Other(version) == IF version = "v1beta1" THEN "v1beta2" ELSE "v1beta1"

Review == [type : MediaTypes, accept : Seq(MediaTypes),
           body : {"request", "no request", "garbage"},
           desired : {"v1beta1", "v1beta2", "v1"}, objects : Seq(Raw)]

ASSUME ReviewsAssumption ==
  \A r \in Reviews :
    /\ r \in Review
    /\ r.desired # "v1" => \A o \in Range(r.objects) :
         o.spec.version = Other(r.desired)
ASSUME NamesAssumption == NoName \notin Names /\ Unset \in Namespaces

VARIABLES
  review,
  next,         \* the object to convert
  done,         \* convertedObjects
  response,     \* of doConversion
  reply         \* what the API server gets, and in which type

vars == <<review, next, done, response, reply>>

Waiting == [status |-> "none", objects |-> <<>>]
Nothing == [type |-> "none", response |-> Waiting]

TypeOK ==
  /\ review \in Review
  /\ next \in 1..(Len(review.objects) + 1)
  /\ done \in Seq(Converted)
  /\ response \in [status : {"none", "Success", "Failure", "panic"},
                   objects : Seq(Converted)]
  /\ reply \in [type : Serializers \cup {"none", "bad request", "cut"},
                response : {Waiting, response}]

Init ==
  /\ review \in Reviews /\ next = 1 /\ done = <<>>
  /\ response = Waiting /\ reply = Nothing

-----------------------------------------------------------------------------
(* serveConvert *)

Matches(accepted, type) == accepted \in {type, "application/*", "*/*"}

\* The serializers come from a map: for a pattern it may be either.
Outputs(accept) ==
  IF accept = <<>> THEN {JSON}
  ELSE LET usable(i) == {t \in Serializers : Matches(accept[i], t)} IN
       UNION {usable(i) : i \in {j \in 1..Len(accept) :
                usable(j) # {} /\ \A k \in 1..(j - 1) : usable(k) = {}}}

Readable == review.type \in Serializers

Reply(type, what) ==
  /\ reply' = [type |-> type, response |-> what]
  /\ UNCHANGED <<review, next, done, response>>

RefuseType == reply = Nothing /\ ~Readable /\ Reply("bad request", Waiting)

\* Writing the reply fails only when nobody is there to read it.
Send ==
  /\ reply = Nothing /\ response.status \in {"Success", "Failure"}
  /\ \/ \E t \in Outputs(review.accept) : Reply(t, response)
     \/ Outputs(review.accept) = {} /\ Reply("bad request", Waiting)

\* net/http recovers the panic of a handler and closes the connection.
Cut == reply = Nothing /\ response.status = "panic" /\ Reply("cut", Waiting)

-----------------------------------------------------------------------------
(* The conversions of the types (api/v1beta1). *)

NoQuota == [name |-> Unset, hard |-> [f \in Fields |-> Unset]]

\* Mutant: the limit of the first key is taken for all.
QuotaOfMixed(ns, types) ==
  [name |-> ns,
   hard |-> [f \in Fields |-> IF "limits.cpu" \in DOMAIN types
                              THEN types["limits.cpu"] ELSE Unset]]

\* Mutant: a type that is not given has no field.
QuotaOfGiven(ns, types) == [name |-> ns, hard |-> types]

QuotaOf(ns, types) ==
  [name |-> ns,
   hard |-> [f \in Fields |-> IF f \in DOMAIN types THEN types[f] ELSE Unset]]

\* The quotas are made with the length of the targets, then appended to.
ConvertTo(spec) ==
  [version |-> "v1beta2", applied |-> spec.applied,
   quotas |-> [i \in 1..Len(spec.targets) |-> NoQuota] \o
              [i \in 1..Len(spec.targets) |-> QuotaOf(spec.targets[i], spec.types)]]

\* Mutant: the first quota is served.
ServedFirst(quotas) == quotas[1].hard

\* The types are overwritten by every quota: the last one is served.
Served(quotas) == quotas[Len(quotas)].hard

\* There is nothing to serve without quotas: an error.
ConvertFromFails(spec) == spec.quotas = <<>>

ConvertFrom(spec) ==
  [version |-> "v1beta1", applied |-> spec.applied,
   targets |-> [i \in 1..Len(spec.quotas) |-> spec.quotas[i].name],
   types |-> Served(spec.quotas)]

-----------------------------------------------------------------------------
(* doConversion *)

\* unstructured has no objects without a kind.
Decodes(o) == o.parses /\ o.kind # "no kind"

\* A key that doConversion asserts the type of is not there.
Panics(o) ==
  IF o.spec.version = "v1beta1" THEN o.given # Keys
  ELSE \/ ~({"applied", "targets"} \subseteq o.given)
       \/ \E q \in Range(o.spec.quotas) : Unset \in Range(q.hard)

Fails(o) == o.spec.version = "v1beta2" /\ ConvertFromFails(o.spec)

\* The keys that omitempty leaves of a spec when it is encoded.
Given(spec) ==
  LET old == spec.version = "v1beta1" IN
  {k \in Keys :
     /\ k = "applied" => spec.applied
     /\ k = "targets" => (IF old THEN spec.targets ELSE spec.quotas) # <<>>
     /\ k = "types" => old /\ DOMAIN spec.types # {}}

\* The object o with its spec converted, as JSON: with the kind and the name of
\* o, which the converted one lacks.
Encoded(o, spec) == [o EXCEPT !.given = Given(spec), !.spec = spec]

\* Mutant: the objects converted so far are returned with a failure.
AnswerAll(status) ==
  /\ response' = [status |-> status, objects |-> done]
  /\ UNCHANGED <<review, next, done, reply>>

Answer(status) ==
  /\ response' = [status |-> status,
                  objects |-> IF status = "Success" THEN done ELSE <<>>]
  /\ UNCHANGED <<review, next, done, reply>>

Undecoded ==
  response = Waiting /\ Readable /\ review.body = "garbage" /\ Answer("Failure")

\* doConversion is given no request.
PanicWithout ==
  response = Waiting /\ Readable /\ review.body = "no request" /\ Answer("panic")

Converting == response = Waiting /\ Readable /\ review.body = "request"

object == review.objects[next]
Pending == Converting /\ review.desired # "v1" /\ next <= Len(review.objects)

\* Only the spec is looked at: the new object has no apiVersion, no kind and no
\* metadata, and what is encoded of it is of no use to the API server.
Convert ==
  /\ Pending /\ Decodes(object) /\ ~Panics(object) /\ ~Fails(object)
  /\ done' = Append(done, [kind |-> "no kind", name |-> NoName,
       spec |-> IF review.desired = "v1beta2" THEN ConvertTo(object.spec)
                ELSE ConvertFrom(object.spec)])
  /\ next' = next + 1
  /\ UNCHANGED <<review, response, reply>>

Fail ==
  /\ Pending /\ (Decodes(object) => ~Panics(object) /\ Fails(object))
  /\ Answer("Failure")

Panic == Pending /\ Decodes(object) /\ Panics(object) /\ Answer("panic")

Succeed ==
  /\ Converting /\ review.desired # "v1" /\ next > Len(review.objects)
  /\ Answer("Success")

UnknownVersion == Converting /\ review.desired = "v1" /\ Answer("Failure")

Next ==
  \/ RefuseType \/ Undecoded \/ PanicWithout
  \/ Convert \/ Fail \/ Panic \/ Succeed \/ UnknownVersion
  \/ Send \/ Cut

Spec == Init /\ [][Next]_vars

-----------------------------------------------------------------------------
\* The namespaces that a spec names.
Named(spec) ==
  (IF spec.version = "v1beta1" THEN Range(spec.targets)
   ELSE {q.name : q \in Range(spec.quotas)}) \ {Unset}

(***************************************************************************)
(* All or nothing: the API server gets as many objects as it sent, each    *)
(* made of the one in its place, as it matches them by position: it names  *)
(* the same namespaces and is applied or not like that one. And they are   *)
(* in a type that is accepted. Or it gets none, though some were converted *)
(* before the one that failed or panicked.                                 *)
(***************************************************************************)
AllOrNothing ==
  LET sent == reply.response IN
  IF sent.status = "Success"
  THEN /\ Len(sent.objects) = Len(review.objects)
       /\ \A i \in 1..Len(review.objects) :
            LET old == review.objects[i].spec
                new == sent.objects[i].spec IN
            new.applied = old.applied /\ Named(new) = Named(old)
       /\ review.accept = <<>> \/ \E i \in 1..Len(review.accept) :
            Matches(review.accept[i], reply.type)
  ELSE sent.objects = <<>>

(***************************************************************************)
(* There and back, as far as there is a way: of what doConversion makes,   *)
(* put back in its place, it can read an applied v1beta1 object and        *)
(* nothing else. On anything that it made a v1beta2 object of it panics,   *)
(* for the quotas without limits that come first, or for the want of any;  *)
(* on what is not applied, for the want of the key. And the v1beta2 object *)
(* that comes back is not the one that there was: its quotas are there in  *)
(* their order, all with the limits of the last ("And make the last set    *)
(* one as served quotas"), behind as many that limit nothing.              *)
(***************************************************************************)
ThereAndBack ==
  \A i \in 1..Len(done) :
    LET old == review.objects[i].spec
        back == Encoded(review.objects[i], done[i].spec) IN
    /\ Decodes(back) /\ (Panics(back) <=> review.desired = "v1beta2" \/ ~old.applied)
    /\ ~Panics(back) =>
         LET n == Len(old.quotas) IN
         /\ ~Fails(back)
         /\ ConvertTo(back.spec) =
              [version |-> "v1beta2", applied |-> TRUE,
               quotas |-> [j \in 1..n |-> NoQuota] \o
                 [j \in 1..n |-> [name |-> old.quotas[j].name,
                                  hard |-> old.quotas[n].hard]]]

=============================================================================
