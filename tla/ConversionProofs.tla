-------------------------- MODULE ConversionProofs --------------------------
(***************************************************************************)
(* Theorems about Conversion for every list of objects, every namespace    *)
(* and every value that a limit may be written as.                         *)
(***************************************************************************)
EXTENDS Conversion, SequenceTheorems, TLAPS

(***************************************************************************)
(* An object that was converted is one of the request, with the spec of    *)
(* the version that was not asked for, and its new spec is the one that    *)
(* this converts to.                                                       *)
(***************************************************************************)
Translated(o, new) ==
  /\ o.spec.version = Other(review.desired) /\ Decodes(o) /\ ~Fails(o)
  /\ new.spec = IF review.desired = "v1beta2" THEN ConvertTo(o.spec)
                ELSE ConvertFrom(o.spec)

(***************************************************************************)
(* The objects before next are converted, each in its place, and nothing   *)
(* is answered before the last one but a failure, that has none of them.   *)
(***************************************************************************)
InPlace ==
  /\ review \in Reviews
  /\ Len(done) = next - 1 /\ (done # <<>> => review.desired # "v1")
  /\ \A i \in 1..Len(done) : Translated(review.objects[i], done[i])

Answered ==
  /\ IF response.status = "Success"
     THEN /\ response.objects = done /\ next = Len(review.objects) + 1
          /\ review.desired # "v1"
     ELSE response.objects = <<>>
  /\ reply.response.status = "Success" => reply.type \in Outputs(review.accept)

ConversionInv == TypeOK /\ InPlace /\ Answered

(***************************************************************************)
(* Functions on an interval from one are sequences.                        *)
(***************************************************************************)
LEMMA IntervalSeq ==
  ASSUME NEW S, NEW n \in Nat, NEW f \in [1..n -> S]
  PROVE  f \in Seq(S) /\ Len(f) = n
BY SeqDef

(***************************************************************************)
(* What is appended to a list of n stands behind it, and the list is where *)
(* it was.                                                                 *)
(***************************************************************************)
LEMMA BehindAppended ==
  ASSUME NEW S, NEW n \in Nat, NEW a \in [1..n -> S], NEW b \in [1..n -> S]
  PROVE  /\ a \o b \in Seq(S) /\ Len(a \o b) = n + n
         /\ \A j \in 1..n : (a \o b)[j] = a[j] /\ (a \o b)[n + j] = b[j]
<1>1. a \in Seq(S) /\ Len(a) = n /\ b \in Seq(S) /\ Len(b) = n
  BY IntervalSeq
<1>2. /\ a \o b \in Seq(S)
      /\ Len(a \o b) = Len(a) + Len(b)
      /\ \A i \in 1..(Len(a) + Len(b)) :
           (a \o b)[i] = IF i <= Len(a) THEN a[i] ELSE b[i - Len(a)]
  BY <1>1, ConcatProperties
<1>3. ASSUME NEW j \in 1..n PROVE (a \o b)[j] = a[j] /\ (a \o b)[n + j] = b[j]
  <2>1. /\ n + j \in 1..(n + n) /\ ~(n + j <= n) /\ (n + j) - n = j
        /\ j \in 1..(n + n) /\ j <= n
    OBVIOUS
  <2>2. QED
    BY <1>1, <1>2, <2>1
<1>4. QED
  BY <1>1, <1>2, <1>3

(***************************************************************************)
(* A quota made of a target has every field, given or not.                 *)
(***************************************************************************)
LEMMA QuotaOfType ==
  ASSUME NEW ns \in Namespaces, NEW keys \in SUBSET Fields,
         NEW types \in [keys -> Values]
  PROVE  QuotaOf(ns, types) \in Quota /\ NoQuota \in Quota
<1>1. Unset \in Values /\ Unset \in Namespaces
  BY ValuesAssumption, NamesAssumption
<1>2. \A f \in Fields :
        (IF f \in DOMAIN types THEN types[f] ELSE Unset) \in Values
  BY <1>1
<1>3. QED
  BY <1>1, <1>2 DEF QuotaOf, NoQuota, Quota

(***************************************************************************)
(* Converting to v1beta2 makes twice as many quotas as there are targets:  *)
(* the first half says nothing, the second one names them in their order,  *)
(* each with all the limits.                                               *)
(***************************************************************************)
LEMMA ConvertToQuotas ==
  ASSUME NEW spec \in V1beta1
  PROVE  /\ ConvertTo(spec) \in V1beta2
         /\ Len(ConvertTo(spec).quotas) = Len(spec.targets) + Len(spec.targets)
         /\ \A j \in 1..Len(spec.targets) :
              /\ ConvertTo(spec).quotas[j] = NoQuota
              /\ ConvertTo(spec).quotas[Len(spec.targets) + j] =
                   QuotaOf(spec.targets[j], spec.types)
<1> DEFINE n == Len(spec.targets)
           a == [i \in 1..n |-> NoQuota]
           b == [i \in 1..n |-> QuotaOf(spec.targets[i], spec.types)]
<1>1. /\ spec.applied \in BOOLEAN /\ spec.targets \in Seq(Namespaces)
      /\ n \in Nat
  BY DEF V1beta1
<1>2. PICK keys \in SUBSET Fields : spec.types \in [keys -> Values]
  BY DEF V1beta1
<1>3. \A i \in 1..n : spec.targets[i] \in Namespaces
  BY <1>1
<1>4. \A i \in 1..n : QuotaOf(spec.targets[i], spec.types) \in Quota /\ NoQuota \in Quota
  BY <1>2, <1>3, QuotaOfType
<1>5. a \in [1..n -> Quota] /\ b \in [1..n -> Quota]
  BY <1>4
<1>6. /\ a \o b \in Seq(Quota) /\ Len(a \o b) = n + n
      /\ \A j \in 1..n : (a \o b)[j] = a[j] /\ (a \o b)[n + j] = b[j]
  BY <1>1, <1>5, BehindAppended
<1>7. ConvertTo(spec) = [version |-> "v1beta2", applied |-> spec.applied,
                         quotas |-> a \o b]
  BY DEF ConvertTo
<1>8. \A j \in 1..n : a[j] = NoQuota /\ b[j] = QuotaOf(spec.targets[j], spec.types)
  OBVIOUS
<1> HIDE DEF a, b
<1>9. ConvertTo(spec) \in V1beta2
  BY <1>1, <1>6, <1>7 DEF V1beta2
<1>10. QED
  BY <1>6, <1>7, <1>8, <1>9

(***************************************************************************)
(* Converting a spec with quotas to v1beta1 keeps their names in order,    *)
(* and the limits of the last one.                                         *)
(***************************************************************************)
LEMMA ConvertFromTargets ==
  ASSUME NEW spec \in V1beta2, ~ConvertFromFails(spec)
  PROVE  /\ Len(spec.quotas) \in Nat \ {0}
         /\ ConvertFrom(spec) \in V1beta1
         /\ Len(ConvertFrom(spec).targets) = Len(spec.quotas)
         /\ \A j \in 1..Len(spec.quotas) :
              ConvertFrom(spec).targets[j] = spec.quotas[j].name
         /\ ConvertFrom(spec).types = spec.quotas[Len(spec.quotas)].hard
         /\ ConvertFrom(spec).types \in [Fields -> Values]
<1> DEFINE n == Len(spec.quotas)
           names == [i \in 1..n |-> spec.quotas[i].name]
<1>1. spec.applied \in BOOLEAN /\ spec.quotas \in Seq(Quota) /\ spec.quotas # <<>>
  BY DEF V1beta2, ConvertFromFails
<1>2. n \in Nat \ {0}
  BY <1>1, EmptySeq
<1>3. \A i \in 1..n : spec.quotas[i] \in Quota
  BY <1>1
<1>4. names \in [1..n -> Namespaces]
  BY <1>3 DEF Quota
<1>5. names \in Seq(Namespaces) /\ Len(names) = n
  BY <1>2, <1>4, IntervalSeq
<1>6. spec.quotas[n].hard \in [Fields -> Values]
  BY <1>2, <1>3 DEF Quota
<1>7. ConvertFrom(spec) = [version |-> "v1beta1", applied |-> spec.applied,
                           targets |-> names, types |-> spec.quotas[n].hard]
  BY DEF ConvertFrom, Served
<1>8. \A j \in 1..n : names[j] = spec.quotas[j].name
  OBVIOUS
<1> HIDE DEF names
<1>9. [Fields -> Values] \subseteq UNION {[keys -> Values] : keys \in SUBSET Fields}
  OBVIOUS
<1>10. ConvertFrom(spec) \in V1beta1
  BY <1>1, <1>5, <1>6, <1>7, <1>9 DEF V1beta1
<1>11. QED
  BY <1>2, <1>5, <1>6, <1>7, <1>8, <1>10

(***************************************************************************)
(* The quotas that come first in a v1beta2 spec made of a v1beta1 one name *)
(* no namespace, and those behind them name its targets.                   *)
(***************************************************************************)
LEMMA NamedTo ==
  ASSUME NEW spec \in V1beta1
  PROVE  Named(ConvertTo(spec)) = Named(spec)
<1> DEFINE n == Len(spec.targets)
           quotas == ConvertTo(spec).quotas
<1>1. n \in Nat /\ DOMAIN spec.targets = 1..n
  BY LenProperties DEF V1beta1
<1>2. /\ quotas \in Seq(Quota) /\ Len(quotas) = n + n
      /\ \A j \in 1..n : /\ quotas[j] = NoQuota
                         /\ quotas[n + j] = QuotaOf(spec.targets[j], spec.types)
  BY ConvertToQuotas DEF V1beta2
<1>3. ConvertTo(spec).version = "v1beta2" /\ spec.version = "v1beta1"
  BY DEF ConvertTo, V1beta1
<1> HIDE DEF n, quotas
<1>4. DOMAIN quotas = 1..(n + n)
  BY <1>2, LenProperties
<1>5. ASSUME NEW x \in {q.name : q \in Range(quotas)} \ {Unset}
      PROVE  x \in Range(spec.targets)
  <2>1. PICK i \in 1..(n + n) : x = quotas[i].name
    BY <1>4 DEF Range
  <2>2. ~(i <= n)
    BY <1>1, <1>2, <1>5, <2>1 DEF NoQuota
  <2>3. i - n \in 1..n /\ n + (i - n) = i
    BY <1>1, <2>2
  <2>4. quotas[i] = QuotaOf(spec.targets[i - n], spec.types)
    BY <1>2, <2>3
  <2>5. x = spec.targets[i - n]
    BY <2>1, <2>4 DEF QuotaOf
  <2>6. QED
    BY <1>1, <2>3, <2>5 DEF Range
<1>6. ASSUME NEW x \in Range(spec.targets)
      PROVE  x \in {q.name : q \in Range(quotas)}
  <2>1. PICK j \in 1..n : x = spec.targets[j]
    BY <1>1 DEF Range
  <2>2. n + j \in DOMAIN quotas
    BY <1>1, <1>4, <2>1
  <2>3. quotas[n + j].name = x
    <3>1. quotas[n + j] = QuotaOf(spec.targets[j], spec.types)
      BY <1>2
    <3>2. QED
      BY <2>1, <3>1 DEF QuotaOf
  <2>4. quotas[n + j] \in Range(quotas)
    BY <2>2 DEF Range
  <2>5. QED
    BY <2>3, <2>4
<1>7. Named(ConvertTo(spec)) = {q.name : q \in Range(quotas)} \ {Unset}
  BY <1>3 DEF Named, quotas
<1>8. Named(spec) = Range(spec.targets) \ {Unset}
  BY <1>3 DEF Named
<1>9. QED
  BY <1>5, <1>6, <1>7, <1>8

(***************************************************************************)
(* The targets of a v1beta1 spec made of a v1beta2 one are what its quotas *)
(* name.                                                                   *)
(***************************************************************************)
LEMMA NamedFrom ==
  ASSUME NEW spec \in V1beta2, ~ConvertFromFails(spec)
  PROVE  Named(ConvertFrom(spec)) = Named(spec)
<1> DEFINE n == Len(spec.quotas)
           targets == ConvertFrom(spec).targets
<1>1. DOMAIN spec.quotas = 1..n
  BY LenProperties DEF V1beta2
<1>2. /\ targets \in Seq(Namespaces) /\ Len(targets) = n
      /\ \A j \in 1..n : targets[j] = spec.quotas[j].name
  BY ConvertFromTargets DEF V1beta1
<1>3. ConvertFrom(spec).version = "v1beta1" /\ spec.version = "v1beta2"
  BY DEF ConvertFrom, V1beta2
<1> HIDE DEF n, targets
<1>4. DOMAIN targets = 1..n
  BY <1>2, LenProperties
<1>5. Range(targets) = {q.name : q \in Range(spec.quotas)}
  BY <1>1, <1>2, <1>4 DEF Range
<1>6. QED
  BY <1>3, <1>5 DEF Named, targets

(***************************************************************************)
(* A request is a review, and its objects are of the version that it does  *)
(* not ask for.                                                            *)
(***************************************************************************)
LEMMA ObjectOfReview ==
  ASSUME NEW r \in Reviews, r.desired # "v1", NEW i \in 1..Len(r.objects)
  PROVE  /\ r \in Review /\ r.objects[i] \in Raw
         /\ r.objects[i].spec.version = Other(r.desired)
         /\ r.desired = "v1beta2" => r.objects[i].spec \in V1beta1
         /\ r.desired = "v1beta1" => r.objects[i].spec \in V1beta2
         /\ r.desired \in {"v1beta1", "v1beta2"}
<1>1. r \in Review
  BY ReviewsAssumption
<1>2. r.objects \in Seq(Raw) /\ r.desired \in {"v1beta1", "v1beta2"}
  BY <1>1 DEF Review
<1>3. r.objects[i] \in Raw /\ r.objects[i] \in Range(r.objects)
  BY <1>2, LenProperties DEF Range
<1>4. r.objects[i].spec.version = Other(r.desired)
  BY <1>3, ReviewsAssumption
<1>5. r.objects[i].spec \in V1beta1 \cup V1beta2
  BY <1>3 DEF Raw
<1>6. QED
  BY <1>1, <1>2, <1>3, <1>4, <1>5 DEF Other, V1beta1, V1beta2

(***************************************************************************)
(* The reply is written in a type that the request accepts.                *)
(***************************************************************************)
LEMMA OutputsAccepted ==
  ASSUME NEW accept \in Seq(MediaTypes), NEW t \in Outputs(accept)
  PROVE  /\ t \in Serializers
         /\ accept = <<>> \/ \E i \in 1..Len(accept) : Matches(accept[i], t)
<1>1. CASE accept = <<>>
  BY <1>1 DEF Outputs, Serializers
<1>2. CASE accept # <<>>
  BY <1>2 DEF Outputs
<1>3. QED
  BY <1>1, <1>2

(***************************************************************************)
(* A request that nobody has looked at.                                    *)
(***************************************************************************)
LEMMA ConversionInit == Init => ConversionInv
<1> SUFFICES ASSUME Init PROVE ConversionInv
  OBVIOUS
<1>1. review \in Review /\ review.objects \in Seq(Raw)
  BY ReviewsAssumption DEF Init, Review
<1>2. Len(review.objects) \in Nat
  BY <1>1, LenProperties
<1>3. TypeOK
  BY <1>1, <1>2 DEF Init, TypeOK, Waiting, Nothing
<1>4. InPlace /\ Answered
  BY DEF Init, InPlace, Answered, Waiting, Nothing
<1>5. QED
  BY <1>3, <1>4 DEF ConversionInv

(***************************************************************************)
(* Convert puts the next object behind those before it.                    *)
(***************************************************************************)
LEMMA ConvertStep == ASSUME ConversionInv, Convert PROVE ConversionInv'
<1> DEFINE new == [kind |-> "no kind", name |-> NoName,
                   spec |-> IF review.desired = "v1beta2" THEN ConvertTo(object.spec)
                            ELSE ConvertFrom(object.spec)]
<1>1. /\ response = Waiting /\ review.desired # "v1" /\ next <= Len(review.objects)
      /\ Decodes(object) /\ ~Fails(object) /\ done' = Append(done, new) /\ next' = next + 1
      /\ UNCHANGED <<review, response, reply>>
  BY DEF Convert, Pending, Converting
<1>2. /\ review \in Reviews /\ review \in Review /\ next \in 1..(Len(review.objects) + 1)
      /\ done \in Seq(Converted) /\ Len(done) = next - 1
  BY DEF ConversionInv, TypeOK, InPlace
<1>3. review.objects \in Seq(Raw) /\ Len(review.objects) \in Nat
  BY <1>2, LenProperties DEF Review
<1>4. next \in 1..Len(review.objects)
  <2>1. next <= Len(review.objects)
    BY <1>1
  <2>2. QED
    BY <1>2, <1>3, <2>1
<1>5. /\ object.spec.version = Other(review.desired)
      /\ review.desired = "v1beta2" => object.spec \in V1beta1
      /\ review.desired = "v1beta1" => object.spec \in V1beta2
      /\ review.desired \in {"v1beta1", "v1beta2"}
  BY <1>1, <1>2, <1>4, ObjectOfReview DEF object
<1>6. new.spec \in V1beta1 \cup V1beta2
  <2>1. CASE review.desired = "v1beta2"
    BY <1>5, <2>1, ConvertToQuotas
  <2>2. CASE review.desired = "v1beta1"
    <3>1. ~ConvertFromFails(object.spec)
      BY <1>1, <1>5, <2>2 DEF Fails, Other
    <3>2. QED
      BY <1>5, <2>2, <3>1, ConvertFromTargets
  <2>3. QED
    BY <1>5, <2>1, <2>2
<1>7. new \in Converted /\ Translated(object, new)
  BY <1>1, <1>5, <1>6 DEF Converted, Kinds, Translated
<1> HIDE DEF new
<1>8. /\ done' \in Seq(Converted) /\ Len(done') = next /\ done'[next] = new
      /\ \A i \in 1..(next - 1) : done'[i] = done[i]
  BY <1>1, <1>2, <1>7
<1>9. TypeOK'
  <2>1. next' \in 1..(Len(review'.objects) + 1) /\ done' \in Seq(Converted)
    BY <1>1, <1>3, <1>4, <1>8
  <2>2. UNCHANGED <<review, response, reply>> /\ TypeOK
    BY <1>1 DEF ConversionInv
  <2>3. QED
    BY <2>1, <2>2 DEF TypeOK
<1>10. InPlace'
  <2>1. ASSUME NEW i \in 1..Len(done') PROVE Translated(review.objects[i], done[i])'
    <3>1. CASE i = next
      BY <1>1, <1>7, <1>8, <3>1 DEF Translated, object
    <3>2. CASE i # next
      <4>1. i \in 1..Len(done) /\ done'[i] = done[i]
        BY <1>2, <1>4, <1>8, <2>1, <3>2
      <4>2. Translated(review.objects[i], done[i])
        BY <4>1 DEF ConversionInv, InPlace
      <4>3. QED
        BY <1>1, <4>1, <4>2 DEF Translated
    <3>3. QED
      BY <3>1, <3>2
  <2>2. Len(done') = next' - 1
    BY <1>1, <1>4, <1>8
  <2>3. QED
    BY <1>1, <1>2, <2>1, <2>2 DEF InPlace
<1>11. Answered'
  BY <1>1 DEF ConversionInv, Answered, Waiting
<1>12. QED
  BY <1>9, <1>10, <1>11 DEF ConversionInv

(***************************************************************************)
(* The response is made once, with all objects or with none.               *)
(***************************************************************************)
LEMMA AnswerStep ==
  ASSUME ConversionInv, NEW status \in {"Success", "Failure", "panic"}, Answer(status),
         response = Waiting,
         status = "Success" => review.desired # "v1" /\ next > Len(review.objects)
  PROVE  ConversionInv'
<1>1. /\ TypeOK /\ InPlace /\ Answered /\ UNCHANGED <<review, next, done, reply>>
      /\ response' = [status |-> status,
                      objects |-> IF status = "Success" THEN done ELSE <<>>]
  BY DEF ConversionInv, Answer
<1>2. review.objects \in Seq(Raw) /\ Len(review.objects) \in Nat
  BY <1>1, LenProperties DEF TypeOK, Review
<1>3. <<>> \in Seq(Converted)
  BY EmptySeq
<1>4. response' \in [status : {"none", "Success", "Failure", "panic"},
                     objects : Seq(Converted)]
  BY <1>1, <1>3 DEF TypeOK
<1>5. reply.response = Waiting
  BY <1>1 DEF TypeOK
<1>6. reply' \in [type : Serializers \cup {"none", "bad request", "cut"},
                  response : {Waiting, response'}]
  BY <1>1, <1>5 DEF TypeOK
<1>7. TypeOK'
  BY <1>1, <1>4, <1>6 DEF TypeOK
<1>8. InPlace'
  BY <1>1 DEF InPlace, Translated
<1>9. Answered'
  <2>1. reply'.response.status # "Success"
    BY <1>1, <1>5 DEF Waiting
  <2>2. status = "Success" => next = Len(review.objects) + 1
    <3>1. next \in 1..(Len(review.objects) + 1)
      BY <1>1 DEF TypeOK
    <3>2. QED
      BY <1>2, <3>1
  <2>3. QED
    BY <1>1, <2>1, <2>2 DEF Answered
<1>10. QED
  BY <1>7, <1>8, <1>9 DEF ConversionInv

(***************************************************************************)
(* A reply carries the response, in a type that is accepted, or none.      *)
(***************************************************************************)
LEMMA ReplyStep ==
  ASSUME ConversionInv,
         NEW type \in Serializers \cup {"bad request", "cut"}, NEW what \in {Waiting, response},
         Reply(type, what),
         what.status = "Success" => type \in Outputs(review.accept)
  PROVE  ConversionInv'
<1>1. /\ TypeOK /\ InPlace /\ Answered /\ UNCHANGED <<review, next, done, response>>
      /\ reply' = [type |-> type, response |-> what]
  BY DEF ConversionInv, Reply
<1>2. TypeOK'
  BY <1>1 DEF TypeOK
<1>3. InPlace'
  BY <1>1 DEF InPlace, Translated
<1>4. Answered'
  BY <1>1 DEF Answered
<1>5. QED
  BY <1>2, <1>3, <1>4 DEF ConversionInv

(***************************************************************************)
(* The three parts hold together in every reachable state.                 *)
(***************************************************************************)
THEOREM ConversionInvariant == Spec => []ConversionInv
<1>1. ASSUME ConversionInv, [Next]_vars PROVE ConversionInv'
  <2>1. CASE UNCHANGED vars
    BY <1>1, <2>1 DEF vars, ConversionInv, TypeOK, InPlace, Answered, Translated
  <2>2. CASE Convert
    BY <1>1, <2>2, ConvertStep
  <2>3. CASE Fail \/ Undecoded \/ UnknownVersion
    BY <1>1, <2>3, AnswerStep DEF Fail, Undecoded, UnknownVersion, Pending, Converting
  <2>4. CASE Panic \/ PanicWithout
    BY <1>1, <2>4, AnswerStep DEF Panic, PanicWithout, Pending, Converting
  <2>5. CASE Succeed
    BY <1>1, <2>5, AnswerStep DEF Succeed, Converting
  <2>6. CASE RefuseType
    BY <1>1, <2>6, ReplyStep DEF RefuseType, Waiting
  <2>7. CASE Send
    <3>1. ASSUME NEW t \in Outputs(review.accept), Reply(t, response) PROVE ConversionInv'
      <4>1. review.accept \in Seq(MediaTypes)
        BY <1>1 DEF ConversionInv, TypeOK, Review
      <4>2. t \in Serializers
        BY <4>1, OutputsAccepted
      <4>3. QED
        BY <1>1, <3>1, <4>2, ReplyStep
    <3>2. CASE Reply("bad request", Waiting)
      BY <1>1, <3>2, ReplyStep DEF Waiting
    <3>3. QED
      BY <2>7, <3>1, <3>2 DEF Send
  <2>8. CASE Cut
    BY <1>1, <2>8, ReplyStep DEF Cut, Waiting
  <2>9. QED
    BY <1>1, <2>1, <2>2, <2>3, <2>4, <2>5, <2>6, <2>7, <2>8 DEF Next
<1>2. QED
  BY ConversionInit, <1>1, PTL DEF Spec

(***************************************************************************)
(* Every variable of the conversion keeps its type: what is converted is a *)
(* spec of the other version.                                              *)
(***************************************************************************)
THEOREM ConversionTypeCorrect == Spec => []TypeOK
<1>1. ConversionInv => TypeOK
  BY DEF ConversionInv
<1>2. QED
  BY ConversionInvariant, <1>1, PTL

(***************************************************************************)
(* However long the list, and wherever in it a conversion fails or panics, *)
(* the API server gets an object for each that it sent, made of the one in *)
(* that place, or none.                                                    *)
(***************************************************************************)
THEOREM ConversionAllOrNothing == Spec => []AllOrNothing
<1>1. ASSUME ConversionInv PROVE AllOrNothing
  <2> DEFINE sent == reply.response
  <2>1. TypeOK /\ InPlace /\ Answered /\ sent \in {Waiting, response}
    BY <1>1 DEF ConversionInv, TypeOK
  <2>2. CASE sent.status # "Success"
    BY <2>1, <2>2 DEF AllOrNothing, Answered, Waiting
  <2>3. CASE sent.status = "Success"
    <3>1. /\ sent = response /\ sent.objects = done /\ review.desired # "v1"
          /\ next = Len(review.objects) + 1 /\ reply.type \in Outputs(review.accept)
      BY <2>1, <2>3 DEF Answered, Waiting
    <3>2. review \in Reviews /\ review \in Review /\ review.objects \in Seq(Raw)
      BY <2>1 DEF InPlace, TypeOK, Review
    <3>3. Len(review.objects) \in Nat /\ Len(done) = Len(review.objects)
      BY <2>1, <3>1, <3>2, LenProperties DEF InPlace
    <3>4. ASSUME NEW i \in 1..Len(review.objects)
          PROVE  /\ done[i].spec.applied = review.objects[i].spec.applied
                 /\ Named(done[i].spec) = Named(review.objects[i].spec)
      <4>1. Translated(review.objects[i], done[i])
        BY <2>1, <3>3 DEF InPlace
      <4>2. /\ review.desired \in {"v1beta1", "v1beta2"}
            /\ review.desired = "v1beta2" => review.objects[i].spec \in V1beta1
            /\ review.desired = "v1beta1" => review.objects[i].spec \in V1beta2
        BY <2>1, <3>1, ObjectOfReview DEF InPlace
      <4> DEFINE old == review.objects[i].spec
                 new == done[i].spec
      <4>3. CASE review.desired = "v1beta2"
        <5>1. new = ConvertTo(old)
          BY <4>1, <4>3 DEF Translated
        <5>2. ConvertTo(old).applied = old.applied
          BY DEF ConvertTo
        <5>3. QED
          BY <4>2, <4>3, <5>1, <5>2, NamedTo
      <4>4. CASE review.desired = "v1beta1"
        <5>1. new = ConvertFrom(old)
          BY <4>1, <4>4 DEF Translated
        <5>2. ConvertFrom(old).applied = old.applied
          BY DEF ConvertFrom
        <5>3. ~ConvertFromFails(old)
          BY <4>1, <4>4 DEF Translated, Fails, Other
        <5>4. QED
          BY <4>2, <4>4, <5>1, <5>2, <5>3, NamedFrom
      <4>5. QED
        BY <4>2, <4>3, <4>4
    <3>5. \/ review.accept = <<>>
          \/ \E i \in 1..Len(review.accept) : Matches(review.accept[i], reply.type)
      BY <3>1, <3>2, OutputsAccepted DEF Review
    <3>6. QED
      BY <2>3, <3>1, <3>3, <3>4, <3>5 DEF AllOrNothing
  <2>4. QED
    BY <2>2, <2>3
<1>2. QED
  BY ConversionInvariant, <1>1, PTL

(***************************************************************************)
(* What was made a v1beta2 object cannot be read: the first of its quotas  *)
(* has no limits, or there is none.                                        *)
(***************************************************************************)
LEMMA NoWayBack ==
  ASSUME NEW old \in V1beta1, NEW o, o.spec = ConvertTo(old), o.given = Given(o.spec)
  PROVE  Panics(o)
<1> DEFINE n == Len(old.targets)
           quotas == ConvertTo(old).quotas
<1>1. n \in Nat
  BY LenProperties DEF V1beta1
<1>2. /\ quotas \in Seq(Quota) /\ Len(quotas) = n + n
      /\ \A j \in 1..n : quotas[j] = NoQuota
  BY ConvertToQuotas DEF V1beta2
<1>3. o.spec.version = "v1beta2" /\ o.spec.quotas = quotas
  BY DEF ConvertTo
<1> HIDE DEF n, quotas
<1>4. CASE n = 0
  <2>1. quotas = <<>>
    BY <1>2, <1>4, EmptySeq
  <2>2. "targets" \notin o.given
    BY <1>3, <2>1 DEF Given
  <2>3. QED
    BY <1>3, <2>2 DEF Panics
<1>5. CASE n # 0
  <2>1. quotas[1] = NoQuota /\ 1 \in 1..(n + n)
    BY <1>1, <1>2, <1>5
  <2>2. NoQuota \in Range(quotas)
    BY <1>2, <2>1, LenProperties DEF Range
  <2>3. Unset \in Range(NoQuota.hard)
    BY DEF NoQuota, Range, Fields
  <2>4. QED
    BY <1>3, <2>2, <2>3 DEF Panics
<1>6. QED
  BY <1>4, <1>5

(***************************************************************************)
(* What was made an applied v1beta1 object can be read, and has the quotas *)
(* it was made of again behind as many empty ones, all with the limits of  *)
(* the last.                                                               *)
(***************************************************************************)
LEMMA WayBack ==
  ASSUME NEW old \in V1beta2, ~ConvertFromFails(old),
         NEW o, o.spec = ConvertFrom(old), o.given = Given(o.spec)
  PROVE  LET n == Len(old.quotas) IN
         /\ Panics(o) <=> ~old.applied
         /\ ~Fails(o)
         /\ ConvertTo(o.spec) =
              [version |-> "v1beta2", applied |-> old.applied,
               quotas |-> [j \in 1..n |-> NoQuota] \o
                 [j \in 1..n |-> [name |-> old.quotas[j].name,
                                  hard |-> old.quotas[n].hard]]]
<1> DEFINE n == Len(old.quotas)
           new == ConvertFrom(old)
<1>1. /\ n \in Nat \ {0} /\ new \in V1beta1 /\ Len(new.targets) = n
      /\ \A j \in 1..n : new.targets[j] = old.quotas[j].name
      /\ new.types = old.quotas[n].hard /\ new.types \in [Fields -> Values]
      /\ new.applied = old.applied /\ new.version = "v1beta1"
  BY ConvertFromTargets DEF ConvertFrom
<1> HIDE DEF new, n
<1>2. o.spec = new
  BY DEF new
<1>3. Panics(o) <=> ~old.applied
  <2>1. new.targets # <<>>
    BY <1>1
  <2>2. DOMAIN new.types # {}
    BY <1>1 DEF Fields
  <2>3. o.given = IF old.applied THEN Keys ELSE Keys \ {"applied"}
    BY <1>1, <1>2, <2>1, <2>2 DEF Given, Keys
  <2>4. Panics(o) <=> o.given # Keys
    BY <1>1, <1>2 DEF Panics
  <2>5. old.applied \in BOOLEAN
    BY DEF V1beta2
  <2>6. QED
    BY <2>3, <2>4, <2>5 DEF Keys
<1>4. ~Fails(o)
  BY <1>1, <1>2 DEF Fails
<1>5. \A j \in 1..n : QuotaOf(new.targets[j], new.types) =
        [name |-> old.quotas[j].name, hard |-> old.quotas[n].hard]
  <2>1. [f \in Fields |-> IF f \in DOMAIN new.types THEN new.types[f] ELSE Unset]
          = new.types
    BY <1>1
  <2>2. QED
    BY <1>1, <2>1 DEF QuotaOf
<1>6. [j \in 1..n |-> QuotaOf(new.targets[j], new.types)] =
        [j \in 1..n |-> [name |-> old.quotas[j].name, hard |-> old.quotas[n].hard]]
  BY <1>5
<1>7. ConvertTo(new) =
        [version |-> "v1beta2", applied |-> old.applied,
         quotas |-> [j \in 1..n |-> NoQuota] \o
           [j \in 1..n |-> [name |-> old.quotas[j].name,
                            hard |-> old.quotas[n].hard]]]
  BY <1>1, <1>6 DEF ConvertTo
<1>8. QED
  BY <1>2, <1>3, <1>4, <1>7 DEF n

(***************************************************************************)
(* For lists and quotas of any length: what was converted can be read and  *)
(* converted back if it is an applied v1beta1 object, and only then; and   *)
(* this is the list of quotas that comes back.                             *)
(***************************************************************************)
THEOREM ConversionThereAndBack == Spec => []ThereAndBack
<1>1. ASSUME ConversionInv PROVE ThereAndBack
  <2> SUFFICES ASSUME NEW i \in 1..Len(done)
               PROVE  LET old == review.objects[i].spec
                          back == Encoded(review.objects[i], done[i].spec) IN
                      /\ Decodes(back)
                      /\ Panics(back) <=> review.desired = "v1beta2" \/ ~old.applied
                      /\ ~Panics(back) =>
                           LET n == Len(old.quotas) IN
                           /\ ~Fails(back)
                           /\ ConvertTo(back.spec) =
                                [version |-> "v1beta2", applied |-> TRUE,
                                 quotas |-> [j \in 1..n |-> NoQuota] \o
                                   [j \in 1..n |-> [name |-> old.quotas[j].name,
                                                    hard |-> old.quotas[n].hard]]]
    BY DEF ThereAndBack
  <2> DEFINE old == review.objects[i].spec
             back == Encoded(review.objects[i], done[i].spec)
  <2>1. /\ Translated(review.objects[i], done[i]) /\ review \in Reviews
        /\ Len(done) = next - 1 /\ review.desired # "v1"
        /\ next \in 1..(Len(review.objects) + 1) /\ review \in Review
    <3>1. done \in Seq(Converted) /\ InPlace /\ TypeOK
      BY <1>1 DEF ConversionInv, TypeOK
    <3>2. done # <<>>
      BY <3>1, EmptySeq
    <3>3. QED
      BY <3>1, <3>2 DEF InPlace, TypeOK
  <2>2. Len(review.objects) \in Nat
    BY <2>1, LenProperties DEF Review
  <2>3. i \in 1..Len(review.objects)
    BY <2>1, <2>2
  <2>4. /\ review.desired = "v1beta2" => old \in V1beta1
        /\ review.desired = "v1beta1" => old \in V1beta2
        /\ review.desired \in {"v1beta1", "v1beta2"}
        /\ review.objects[i] \in Raw
    BY <2>1, <2>3, ObjectOfReview
  <2>5. /\ back.spec = done[i].spec /\ back.given = Given(back.spec)
        /\ back.parses = review.objects[i].parses
        /\ back.kind = review.objects[i].kind
    BY <2>4 DEF Encoded, Raw
  <2>6. Decodes(back)
    BY <2>1, <2>5 DEF Translated, Decodes
  <2>7. CASE review.desired = "v1beta2"
    <3>1. back.spec = ConvertTo(old)
      BY <2>1, <2>5, <2>7 DEF Translated
    <3> HIDE DEF back, old
    <3>2. Panics(back)
      BY <2>4, <2>5, <2>7, <3>1, NoWayBack
    <3>3. QED
      BY <2>6, <2>7, <3>2 DEF back, old
  <2>8. CASE review.desired = "v1beta1"
    <3>1. back.spec = ConvertFrom(old)
      BY <2>1, <2>5, <2>8 DEF Translated
    <3>2. ~ConvertFromFails(old)
      BY <2>1, <2>8 DEF Translated, Fails, Other
    <3>3. old.applied \in BOOLEAN
      BY <2>4, <2>8 DEF V1beta2
    <3> HIDE DEF back, old
    <3>4. LET n == Len(old.quotas) IN
          /\ Panics(back) <=> ~old.applied
          /\ ~Fails(back)
          /\ ConvertTo(back.spec) =
               [version |-> "v1beta2", applied |-> old.applied,
                quotas |-> [j \in 1..n |-> NoQuota] \o
                  [j \in 1..n |-> [name |-> old.quotas[j].name,
                                   hard |-> old.quotas[n].hard]]]
      BY <2>4, <2>5, <2>8, <3>1, <3>2, WayBack
    <3>5. old.applied => old.applied = TRUE
      BY <3>3
    <3>6. QED
      BY <2>6, <2>8, <3>4, <3>5 DEF back, old
  <2>9. QED
    BY <2>4, <2>7, <2>8
<1>2. QED
  BY ConversionInvariant, <1>1, PTL

=============================================================================
