----------------------- MODULE ValidateWebhookProofs -----------------------
(***************************************************************************)
(* Theorems about ValidateWebhook for every set of requests and objects.   *)
(***************************************************************************)
EXTENDS ValidateWebhook, TLAPS

Good(r) == Verdict(object[r]) = "allow"
Panics(r) == Verdict(object[r]) = "panic"

\* r has begun to validate or is behind it: its reset of the type is done.
Past(r) ==
  \/ pc[r] \in {"validate", "record", "check", "use"}
  \/ pc[r] = "reset" /\ "type" \notin todo[r]

(***************************************************************************)
(* A response that allows is validate's own.                               *)
(***************************************************************************)
ResponseInv ==
  /\ \A r \in Requests : response[r] = "allow" => Good(r)
  /\ \A r \in Requests : outcome[r] = "allowed" => Good(r)
  /\ \A r \in Requests : pc[r] = "check" /\ Good(r) => response[r] = "allow"

(***************************************************************************)
(* Who is served now has met who else is; only who panics sets resFormErr; *)
(* so an error that a good request may still come upon was set by somebody *)
(* it has met.                                                             *)
(***************************************************************************)
MeetInv ==
  /\ \A r, q \in Requests : r \in Active /\ q \in Active /\ r # q => q \in met[r]
  /\ \A r \in Requests : pc[r] = "record" => Panics(r)
  /\ \A r \in Requests : pc[r] # "done" => outcome[r] = "pending"
  /\ \A r \in Requests :
       Good(r) /\ (\/ Past(r) /\ resFormErr["type"] # Nil
                   \/ pc[r] = "use"
                   \/ outcome[r] \in {"denied", "failed"})
         => \E q \in met[r] : Panics(q)

WebhookInv == TypeOK /\ ResponseInv /\ MeetInv

(***************************************************************************)
(* Only a review that decodes can be found good.                           *)
(***************************************************************************)
LEMMA GoodReview == ASSUME NEW o, Verdict(o) = "allow" PROVE o.review
BY DEF Verdict

(***************************************************************************)
(* validate answers in one of three ways.                                  *)
(***************************************************************************)
LEMMA VerdictType == ASSUME NEW o PROVE Verdict(o) \in {"allow", "deny", "panic"}
BY DEF Verdict

(***************************************************************************)
(* Nobody is served at first.                                              *)
(***************************************************************************)
LEMMA WebhookInit == Init => WebhookInv
<1> SUFFICES ASSUME Init PROVE WebhookInv
  OBVIOUS
<1>1. TypeOK
  BY DEF Init, TypeOK
<1>2. ResponseInv
  BY DEF Init, ResponseInv
<1>3. MeetInv
  BY DEF Init, MeetInv, Active, Past
<1>4. QED
  BY <1>1, <1>2, <1>3 DEF WebhookInv

(***************************************************************************)
(* Every action keeps the types.                                           *)
(***************************************************************************)
LEMMA TypeStep == TypeOK /\ [Next]_vars => TypeOK'
<1> SUFFICES ASSUME TypeOK, [Next]_vars PROVE TypeOK'
  OBVIOUS
<1> USE DEF TypeOK, Goto
<1>1. ASSUME NEW r \in Requests, Receive(r) PROVE TypeOK'
  BY <1>1 DEF Receive, Active
<1>2. ASSUME NEW r \in Requests, NEW w \in Words, Reset(r, w) PROVE TypeOK'
  BY <1>2 DEF Reset
<1>3. ASSUME NEW r \in Requests, Validate(r) PROVE TypeOK'
  BY <1>3, VerdictType DEF Validate
<1>4. ASSUME NEW r \in Requests, NEW w \in Words, Record(r, w) PROVE TypeOK'
  BY <1>4 DEF Record
<1>5. ASSUME NEW r \in Requests, CheckErr(r) PROVE TypeOK'
  <2>1. CASE resFormErr["type"] # Nil
    BY <1>5, <2>1 DEF CheckErr
  <2>2. CASE resFormErr["type"] = Nil
    BY <1>5, <2>2 DEF CheckErr, Answer
  <2>3. QED
    BY <2>1, <2>2
<1>6. ASSUME NEW r \in Requests, UseErr(r) PROVE TypeOK'
  BY <1>6 DEF UseErr, Answer, Words
<1>7. CASE UNCHANGED vars
  BY <1>7 DEF vars
<1>8. QED
  BY <1>1, <1>2, <1>3, <1>4, <1>5, <1>6, <1>7 DEF Next, Serve

(***************************************************************************)
(* Only validate makes a response, and only CheckErr answers with it.      *)
(***************************************************************************)
LEMMA ResponseStep == TypeOK /\ ResponseInv /\ MeetInv /\ [Next]_vars => ResponseInv'
<1> SUFFICES ASSUME TypeOK, ResponseInv, MeetInv, [Next]_vars PROVE ResponseInv'
  OBVIOUS
<1> USE DEF TypeOK, ResponseInv, Goto, Good
<1>1. ASSUME NEW r \in Requests, Receive(r) PROVE ResponseInv'
  <2>1. ~object[r].review => ~Good(r)
    BY GoodReview
  <2>2. QED
    BY <1>1, <2>1 DEF Receive
<1>2. ASSUME NEW r \in Requests, NEW w \in Words, Reset(r, w) PROVE ResponseInv'
  BY <1>2 DEF Reset
<1>3. ASSUME NEW r \in Requests, Validate(r) PROVE ResponseInv'
  BY <1>3 DEF Validate
<1>4. ASSUME NEW r \in Requests, NEW w \in Words, Record(r, w) PROVE ResponseInv'
  <2>1. ~Good(r)
    BY <1>4 DEF Record, MeetInv, Panics
  <2>2. QED
    BY <1>4, <2>1 DEF Record
<1>5. ASSUME NEW r \in Requests, CheckErr(r) PROVE ResponseInv'
  <2>1. CASE resFormErr["type"] # Nil
    BY <1>5, <2>1 DEF CheckErr
  <2>2. CASE resFormErr["type"] = Nil
    BY <1>5, <2>2 DEF CheckErr, Answer
  <2>3. QED
    BY <2>1, <2>2
<1>6. ASSUME NEW r \in Requests, UseErr(r) PROVE ResponseInv'
  BY <1>6 DEF UseErr, Answer
<1>7. CASE UNCHANGED vars
  BY <1>7 DEF vars
<1>8. QED
  BY <1>1, <1>2, <1>3, <1>4, <1>5, <1>6, <1>7 DEF Next, Serve

(***************************************************************************)
(* resFormErr is set only by a request that panics, whom everyone served   *)
(* at the time has met.                                                    *)
(***************************************************************************)
LEMMA MeetStep == TypeOK /\ ResponseInv /\ MeetInv /\ [Next]_vars => MeetInv'
<1> SUFFICES ASSUME TypeOK, ResponseInv, MeetInv, [Next]_vars PROVE MeetInv'
  OBVIOUS
<1> USE DEF TypeOK, MeetInv, Goto, Good, Panics, Past, Active
<1>1. ASSUME NEW r \in Requests, Receive(r) PROVE MeetInv'
  <2>1. ~object[r].review => ~Good(r)
    BY GoodReview
  <2>2. /\ \A q \in Requests \ {r} : /\ met[q] \subseteq met'[q]
                                     /\ pc'[q] = pc[q] /\ todo'[q] = todo[q]
        /\ \A q \in Active : q # r /\ r \in met'[q]
        /\ met'[r] = Active
    BY <1>1 DEF Receive
  <2>3. /\ pc[r] = "new" /\ pc'[r] \in {"reset", "check"}
        /\ pc'[r] = "check" => ~Good(r)
        /\ pc'[r] = "reset" => todo'[r] = Words
    BY <1>1, <2>1 DEF Receive
  <2>4. /\ object' = object /\ outcome' = outcome /\ resFormErr' = resFormErr
    BY <1>1 DEF Receive
  <2>5. (\A q \in Requests : pc[q] = "record" => Panics(q))'
    BY <2>2, <2>3, <2>4
  <2>6. (\A q \in Requests : pc[q] # "done" => outcome[q] = "pending")'
    BY <2>2, <2>3, <2>4
  <2>7. (\A p, q \in Requests : p \in Active /\ q \in Active /\ p # q => q \in met[p])'
    BY <2>2, <2>3
  <2>8. ASSUME NEW q \in Requests, Good(q),
               (\/ Past(q) /\ resFormErr["type"] # Nil
                \/ pc[q] = "use"
                \/ outcome[q] \in {"denied", "failed"})'
        PROVE  (\E p \in met[q] : Panics(p))'
    <3>1. CASE q = r
      <4>1. ~Past(q)' /\ pc'[q] # "use"
        BY <2>3, <2>8, <3>1 DEF Words
      <4>2. outcome'[q] = "pending"
        BY <2>3, <2>4, <3>1
      <4>3. QED
        BY <2>8, <4>1, <4>2
    <3>2. CASE q # r
      BY <2>2, <2>4, <2>8, <3>2
    <3>3. QED
      BY <3>1, <3>2
  <2>9. QED
    BY <2>4, <2>5, <2>6, <2>7, <2>8
<1>2. ASSUME NEW r \in Requests, NEW w \in Words, Reset(r, w) PROVE MeetInv'
  BY <1>2 DEF Reset, Words
<1>3. ASSUME NEW r \in Requests, Validate(r) PROVE MeetInv'
  BY <1>3 DEF Validate, Words
<1>4. ASSUME NEW r \in Requests, NEW w \in Words, Record(r, w) PROVE MeetInv'
  <2>1. Panics(r) /\ ~Good(r) /\ r \in Active
    BY <1>4 DEF Record
  <2>2. QED
    BY <1>4, <2>1 DEF Record, Words
<1>5. ASSUME NEW r \in Requests, CheckErr(r) PROVE MeetInv'
  <2>1. CASE resFormErr["type"] # Nil
    BY <1>5, <2>1 DEF CheckErr
  <2>2. CASE resFormErr["type"] = Nil
    BY <1>5, <2>2 DEF CheckErr, Answer, ResponseInv
  <2>3. QED
    BY <2>1, <2>2
<1>6. ASSUME NEW r \in Requests, UseErr(r) PROVE MeetInv'
  BY <1>6 DEF UseErr, Answer
<1>7. CASE UNCHANGED vars
  BY <1>7 DEF vars
<1>8. QED
  BY <1>1, <1>2, <1>3, <1>4, <1>5, <1>6, <1>7 DEF Next, Serve

(***************************************************************************)
(* The three parts hold together in every reachable state.                 *)
(***************************************************************************)
THEOREM WebhookInvariant == Spec => []WebhookInv
<1>1. WebhookInv /\ [Next]_vars => WebhookInv'
  BY TypeStep, ResponseStep, MeetStep DEF WebhookInv
<1>2. QED
  BY WebhookInit, <1>1, PTL DEF Spec

(***************************************************************************)
(* Every variable of the webhook keeps its type.                           *)
(***************************************************************************)
THEOREM WebhookTypeCorrect == Spec => []TypeOK
<1>1. WebhookInv => TypeOK
  BY DEF WebhookInv
<1>2. QED
  BY WebhookInvariant, <1>1, PTL

(***************************************************************************)
(* However many requests race on resFormErr, none is let in that validate  *)
(* would not let in.                                                       *)
(***************************************************************************)
THEOREM AdmissionSound == Spec => []SoundAdmission
<1>1. WebhookInv => SoundAdmission
  BY DEF WebhookInv, ResponseInv, SoundAdmission, Good
<1>2. QED
  BY WebhookInvariant, <1>1, PTL

(***************************************************************************)
(* A good object is turned away only next to a request that panics.        *)
(***************************************************************************)
THEOREM DamageLocal == Spec => []DamageIsLocal
<1>1. WebhookInv => DamageIsLocal
  BY DEF WebhookInv, MeetInv, DamageIsLocal, Good, Panics
<1>2. QED
  BY WebhookInvariant, <1>1, PTL

(***************************************************************************)
(* What a request that has met nobody finds in resFormErr, and what it     *)
(* leaves there: Nil once it has reset a word, itself once it has recorded *)
(* its panic in one.                                                       *)
(***************************************************************************)
Alone(r) == met[r] = {} /\ object[r].review

SerialOutcome(r) ==
  CASE Verdict(object[r]) = "allow" -> outcome[r] = "allowed"
    [] Verdict(object[r]) = "deny"  -> outcome[r] = "denied" /\ blamed[r] = Nil
    [] Verdict(object[r]) = "panic" -> outcome[r] = "denied" /\ blamed[r] = r

SerialStage(r) ==
  /\ pc[r] = "reset" => \A w \in Words \ todo[r] : resFormErr[w] = Nil
  /\ pc[r] = "validate" => \A w \in Words : resFormErr[w] = Nil
  /\ pc[r] = "record" => /\ Panics(r)
                         /\ \A w \in Words \ todo[r] : resFormErr[w] = r
  /\ pc[r] = "check" =>
       IF Panics(r) THEN \A w \in Words : resFormErr[w] = r
       ELSE /\ \A w \in Words : resFormErr[w] = Nil
            /\ response[r] = Verdict(object[r])
  /\ pc[r] = "use" => Panics(r) /\ \A w \in Words : resFormErr[w] = r
  /\ pc[r] = "done" => SerialOutcome(r)

SerialInv == \A r \in Requests : Alone(r) => SerialStage(r)

(***************************************************************************)
(* Nobody has begun at first.                                              *)
(***************************************************************************)
LEMMA SerialInit == Init => SerialInv
BY DEF Init, SerialInv, SerialStage

(***************************************************************************)
(* A request that has met nobody is not disturbed by a step of another:    *)
(* the other is served at the same time, so they have met, or it is over.  *)
(***************************************************************************)
LEMMA OthersStep ==
  ASSUME TypeOK, MeetInv, SerialInv,
         NEW r \in Requests, NEW q \in Requests, q # r, Serve(q), Alone(r)'
  PROVE  SerialStage(r)'
<1> USE DEF TypeOK, Goto
<1>1. /\ pc'[r] = pc[r] /\ todo'[r] = todo[r] /\ response'[r] = response[r]
      /\ outcome'[r] = outcome[r] /\ blamed'[r] = blamed[r] /\ object' = object
  <2>1. CASE Receive(q)
    BY <2>1 DEF Receive
  <2>2. CASE Validate(q)
    BY <2>2 DEF Validate
  <2>3. CASE CheckErr(q)
    BY <2>3 DEF CheckErr, Answer
  <2>4. CASE UseErr(q)
    BY <2>4 DEF UseErr, Answer
  <2>5. ASSUME NEW w \in Words, Reset(q, w) \/ Record(q, w) PROVE <1>1
    BY <2>5 DEF Reset, Record
  <2>6. QED
    BY <2>1, <2>2, <2>3, <2>4, <2>5 DEF Serve
<1>2. CASE pc[r] \in {"new", "done"}
  <2>1. Alone(r)
    BY <1>1, <1>2 DEF Alone, Serve, Receive, Validate, CheckErr, UseErr, Answer,
                      Reset, Record, Active
  <2>2. SerialStage(r)
    BY <2>1 DEF SerialInv
  <2>3. QED
    BY <1>1, <1>2, <2>2 DEF SerialStage, SerialOutcome
<1>3. CASE pc[r] \notin {"new", "done"}
  <2>1. r \in Active
    BY <1>3 DEF Active
  <2>2. CASE Receive(q)
    BY <2>1, <2>2 DEF Receive, Alone
  <2>3. CASE ~Receive(q)
    <3>1. q \in Active /\ met' = met
      BY <2>3 DEF Serve, Receive, Validate, CheckErr, UseErr, Answer, Reset,
                  Record, Active
    <3>2. QED
      BY <2>1, <3>1 DEF MeetInv, Alone
  <2>4. QED
    BY <2>2, <2>3
<1>4. QED
  BY <1>2, <1>3

(***************************************************************************)
(* Its own steps take it from stage to stage.                              *)
(***************************************************************************)
LEMMA OwnStep ==
  ASSUME TypeOK, MeetInv, SerialInv, NEW r \in Requests, Serve(r), Alone(r)'
  PROVE  SerialStage(r)'
<1> USE DEF TypeOK, Goto
<1>1. CASE Receive(r)
  BY <1>1 DEF Receive, Alone, SerialStage, Words
<1>2. ASSUME ~Receive(r) PROVE Alone(r) /\ SerialStage(r) /\ object' = object
  BY <1>2 DEF Serve, Validate, CheckErr, UseErr, Answer, Reset, Record, Alone,
              SerialInv
<1>3. ASSUME NEW w \in Words, Reset(r, w) PROVE SerialStage(r)'
  <2>1. SerialStage(r)
    BY <1>2, <1>3 DEF Reset, Receive
  <2>2. QED
    BY <1>3, <2>1 DEF Reset, SerialStage, Words
<1>4. CASE Validate(r)
  <2>1. \A w \in Words : resFormErr[w] = Nil
    BY <1>2, <1>4 DEF Validate, Receive, SerialStage
  <2>2. QED
    BY <1>4, <2>1 DEF Validate, SerialStage, Panics, Words
<1>5. ASSUME NEW w \in Words, Record(r, w) PROVE SerialStage(r)'
  <2>1. Panics(r) /\ \A v \in Words \ todo[r] : resFormErr[v] = r
    BY <1>2, <1>5 DEF Record, Receive, SerialStage
  <2>2. QED
    BY <1>5, <2>1 DEF Record, SerialStage, Panics, Words
<1>6. CASE CheckErr(r)
  <2>1. IF Panics(r) THEN \A w \in Words : resFormErr[w] = r
        ELSE /\ \A w \in Words : resFormErr[w] = Nil
             /\ response[r] = Verdict(object[r])
    BY <1>2, <1>6 DEF CheckErr, Receive, SerialStage
  <2>2. "type" \in Words /\ r # Nil
    BY NilAssumption DEF Words
  <2>3. CASE Panics(r)
    BY <1>6, <2>1, <2>2, <2>3 DEF CheckErr, Answer, SerialStage, Panics
  <2>4. CASE ~Panics(r)
    <3>1. response[r] = Verdict(object[r]) /\ resFormErr["type"] = Nil
      BY <2>1, <2>2, <2>4
    <3>2. Verdict(object[r]) \in {"allow", "deny"}
      BY <2>4, VerdictType DEF Panics
    <3>3. QED
      BY <1>6, <3>1, <3>2 DEF CheckErr, Answer, SerialStage, SerialOutcome
  <2>5. QED
    BY <2>3, <2>4
<1>7. CASE UseErr(r)
  <2>1. Panics(r) /\ \A w \in Words : resFormErr[w] = r
    BY <1>2, <1>7 DEF UseErr, Receive, SerialStage
  <2>2. Nil \notin {resFormErr[w] : w \in Words} /\ resFormErr["data"] = r
    BY <2>1, NilAssumption DEF Words
  <2>3. QED
    BY <1>7, <2>1, <2>2 DEF UseErr, Answer, SerialStage, SerialOutcome, Panics
<1>8. QED
  BY <1>1, <1>3, <1>4, <1>5, <1>6, <1>7 DEF Serve

(***************************************************************************)
(* Served alone, every request gets exactly what validate makes of its     *)
(* object: each word of resFormErr is its own reset or its own record.     *)
(***************************************************************************)
THEOREM SerialRequestExact == Spec => []SerialExact
<1>1. ASSUME WebhookInv, SerialInv, [Next]_vars PROVE SerialInv'
  <2>1. CASE UNCHANGED vars
    <3>1. UNCHANGED <<object, pc, todo, response, outcome, blamed, resFormErr, met>>
      BY <2>1 DEF vars
    <3>2. ASSUME NEW r \in Requests, Alone(r)' PROVE SerialStage(r)'
      <4>1. SerialStage(r)
        BY <1>1, <3>1, <3>2 DEF SerialInv, Alone
      <4>2. QED
        BY <3>1, <4>1 DEF SerialStage, SerialOutcome, Panics
    <3>3. QED
      BY <3>2 DEF SerialInv
  <2>2. ASSUME NEW q \in Requests, Serve(q), NEW r \in Requests, Alone(r)'
        PROVE  SerialStage(r)'
    BY <1>1, <2>2, OthersStep, OwnStep DEF WebhookInv
  <2>3. QED
    BY <1>1, <2>1, <2>2 DEF Next, SerialInv
<1>2. SerialInv => SerialExact
  BY DEF SerialInv, SerialStage, SerialOutcome, SerialExact, Alone
<1>3. QED
  BY WebhookInvariant, SerialInit, <1>1, <1>2, PTL DEF Spec

=============================================================================
