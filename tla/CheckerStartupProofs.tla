------------------------ MODULE CheckerStartupProofs ------------------------
(***************************************************************************)
(* Theorems about CheckerStartup for every number of processes, of         *)
(* replicas and of faults.                                                 *)
(***************************************************************************)
EXTENDS CheckerStartup, TLAPS

(***************************************************************************)
(* While no administrator interferes, the validating configuration has one *)
(* webhook, so that nobody updates it, and its CA is that of all who serve.*)
(***************************************************************************)
ValidateInv ==
  past \subseteq {"overlap"} =>
    /\ configs["validate"] # Absent => configs["validate"].webhooks = 1
    /\ \A p \in Processes :
         /\ pc[p] \in {"update", "lateUpdate"} => kind[p] = "mutate"
         /\ pc[p] = "serve" =>
              configs["validate"] # Absent /\ configs["validate"].ca = p

StartupInv == TypeOK /\ ValidateInv

(***************************************************************************)
(* No configuration and no process at first.                               *)
(***************************************************************************)
LEMMA StartupInit == Init => StartupInv
BY ProcessesAssumption, BoundsAssumption
   DEF Init, StartupInv, TypeOK, ValidateInv, Kinds, Config, Disturbances

(***************************************************************************)
(* What a call leaves in the two cases of its effect: none, or the wanted  *)
(* configuration; its process goes on, serves or fails.                    *)
(***************************************************************************)
LEMMA CallEffect ==
  ASSUME TypeOK, NEW p \in Processes, NEW accepted \in BOOLEAN,
         Call(p, accepted, Write(kind[p], Wanted(p)))
  PROVE  /\ \/ UNCHANGED <<configs, revs>> /\ Fatal(p)
            \/ accepted /\ Write(kind[p], Wanted(p)) /\ (Return(p) \/ Fatal(p))
         /\ spent' \in [ops : Nat, faults : Nat]
BY DEF Call, Fault, TypeOK

(***************************************************************************)
(* Every step of a process or an administrator preserves both.             *)
(***************************************************************************)
LEMMA StartupStep == StartupInv /\ [Next]_vars => StartupInv'
<1> SUFFICES ASSUME TypeOK, ValidateInv, [Next]_vars PROVE TypeOK' /\ ValidateInv'
  BY DEF StartupInv
<1> USE DEF Goto, Kinds, Disturbances
<1>1. ASSUME NEW p \in Processes, Start(p) PROVE TypeOK' /\ ValidateInv'
  BY <1>1 DEF Start, TypeOK, ValidateInv
<1>2. ASSUME NEW p \in Processes, Get(p) PROVE TypeOK' /\ ValidateInv'
  <2>1. TypeOK'
    BY <1>2 DEF Get, TypeOK, Return, Fatal, Fault, Config
  <2>2. ValidateInv'
    BY <1>2 DEF Get, TypeOK, ValidateInv, Return, Fatal, Fault, Config
  <2>3. QED
    BY <2>1, <2>2
<1>3. ASSUME NEW p \in Processes, NEW accepted \in BOOLEAN,
             Call(p, accepted, Write(kind[p], Wanted(p))), UNCHANGED <<found, past>>,
             \/ pc[p] = "create" /\ accepted = (configs[kind[p]] = Absent)
             \/ pc[p] = "update"
      PROVE  TypeOK' /\ ValidateInv'
  <2>1. /\ \/ UNCHANGED <<configs, revs>> /\ Fatal(p)
           \/ accepted /\ Write(kind[p], Wanted(p)) /\ (Return(p) \/ Fatal(p))
        /\ spent' \in [ops : Nat, faults : Nat]
    BY <1>3, CallEffect
  <2>2. TypeOK'
    BY <1>3, <2>1 DEF TypeOK, Return, Fatal, Write, Wanted, Config
  <2>3. ValidateInv'
    BY <1>3, <2>1, ProcessesAssumption
       DEF TypeOK, ValidateInv, Return, Fatal, Write, Wanted, Config
  <2>4. QED
    BY <2>2, <2>3
<1>4. ASSUME NEW p \in Processes, Create(p) PROVE TypeOK' /\ ValidateInv'
  BY <1>3, <1>4 DEF Create
<1>5. ASSUME NEW p \in Processes, Update(p) PROVE TypeOK' /\ ValidateInv'
  BY <1>3, <1>5 DEF Update, Current
<1>6. ASSUME NEW p \in Processes, Stop(p) PROVE TypeOK' /\ ValidateInv'
  BY <1>6 DEF Stop, TypeOK, ValidateInv, Running
<1>7. ASSUME NEW p \in Processes, Arrive(p) PROVE TypeOK' /\ ValidateInv'
  <2>1. Wanted(p) \in Config /\ Wanted(p).webhooks = 1 /\ kind[p] \in Kinds
    BY DEF Wanted, Config, TypeOK
  <2>2. /\ configs' = [configs EXCEPT ![kind[p]] = Wanted(p)]
        /\ revs' = revs + 1 /\ pc' = [pc EXCEPT ![p] = "stopped"]
        /\ UNCHANGED <<kind, found, spent, past>>
        /\ pc[p] = "lateCreate" => configs[kind[p]] = Absent
        /\ pc[p] # "lateCreate" => pc[p] = "lateUpdate"
    BY <1>7 DEF Arrive, Write
  <2>3. TypeOK'
    BY <2>1, <2>2 DEF TypeOK
  <2>4. ValidateInv'
    BY <2>1, <2>2 DEF TypeOK, ValidateInv
  <2>5. QED
    BY <2>3, <2>4
<1>8. ASSUME NEW k \in Kinds, RemoveConfig(k) \/ ExtendConfig(k)
      PROVE  TypeOK' /\ ValidateInv'
  <2>1. PICK op \in {"remove", "extend"} :
          /\ spent' = [spent EXCEPT !.ops = @ + 1] /\ past' = past \cup {op}
          /\ UNCHANGED <<pc, kind, found>>
    BY <1>8 DEF RemoveConfig, ExtendConfig, By
  <2>2. spent' \in [ops : Nat, faults : Nat] /\ past' \subseteq Disturbances
    BY <2>1 DEF TypeOK
  <2>3. ValidateInv'
    BY <2>1 DEF ValidateInv
  <2>4. PICK config \in Config \cup {Absent} : Write(k, config)
    <3>1. CASE RemoveConfig(k)
      BY <3>1 DEF RemoveConfig
    <3>2. CASE ExtendConfig(k)
      <4>1. configs[k] \in Config /\ revs + 1 \in Nat
        BY <3>2 DEF ExtendConfig, TypeOK
      <4>2. [configs[k] EXCEPT !.rev = revs + 1, !.webhooks = 2] \in Config
        BY <4>1 DEF Config
      <4>3. QED
        BY <3>2, <4>2 DEF ExtendConfig
    <3>3. QED
      BY <1>8, <3>1, <3>2
  <2>5. TypeOK'
    BY <2>1, <2>2, <2>4 DEF TypeOK, Write
  <2>6. QED
    BY <2>3, <2>5
<1>9. CASE UNCHANGED vars
  BY <1>9 DEF vars, TypeOK, ValidateInv
<1>10. QED
  BY <1>1, <1>2, <1>4, <1>5, <1>6, <1>7, <1>8, <1>9 DEF Next, Startup

(***************************************************************************)
(* Every variable of the startup keeps its type.                           *)
(***************************************************************************)
THEOREM StartupTypeCorrect == Spec => []TypeOK
<1>1. StartupInv => TypeOK
  BY DEF StartupInv
<1>2. QED
  BY StartupInit, StartupStep, <1>1, PTL DEF Spec

(***************************************************************************)
(* However many checkers start, stop and fail together, those that serve   *)
(* are trusted to validate while no administrator interferes.              *)
(***************************************************************************)
THEOREM ServersAreTrusted == Spec => []ServersValidate
<1>1. StartupInv => ServersValidate
  BY DEF StartupInv, ValidateInv, ServersValidate
<1>2. QED
  BY StartupInit, StartupStep, <1>1, PTL DEF Spec

(***************************************************************************)
(* One process at a time. A configuration is not of its CA before it has   *)
(* dealt with it; from then on it is, and any update that an earlier       *)
(* process sent and that is still on its way names a resourceVersion that  *)
(* it has overtaken.                                                       *)
(***************************************************************************)
Done(p, k) == p \in Running /\ kind[p] = "validate" /\ (k = "mutate" \/ pc[p] = "serve")

Single == \A p, q \in Running : p = q

Numbered ==
  /\ \A k \in Kinds : configs[k] # Absent => configs[k].rev <= revs
  /\ \A p \in Processes : found[p] <= revs

InTurn ==
  \A p \in Processes : /\ pc[p] = "unborn" => kind[p] = "mutate"
                       /\ pc[p] = "serve" => kind[p] = "validate"

Unwritten ==
  \A p \in Processes, k \in Kinds :
    configs[k] # Absent /\ (pc[p] = "unborn" \/ p \in Running) /\ ~Done(p, k)
      => configs[k].ca # p

Overtook ==
  \A p \in Processes, k \in Kinds : Done(p, k) =>
    /\ configs[k] # Absent /\ configs[k].ca = p
    /\ \A q \in Processes : pc[q] = "lateUpdate" /\ kind[q] = k
                              => found[q] < configs[k].rev

TrustInv ==
  past \subseteq {"extend"} => Single /\ Numbered /\ InTurn /\ Unwritten /\ Overtook

(***************************************************************************)
(* Nothing is written and nobody runs at first.                            *)
(***************************************************************************)
LEMMA TrustInit == Init => TrustInv
BY DEF Init, TrustInv, Single, Numbered, InTurn, Unwritten, Overtook, Done, Running

(***************************************************************************)
(* What has happened remains in the past.                                  *)
(***************************************************************************)
LEMMA PastGrows == [Next]_vars => past \subseteq past'
<1> SUFFICES ASSUME [Next]_vars PROVE past \subseteq past'
  OBVIOUS
<1>1. ASSUME NEW p \in Processes, Start(p) PROVE past \subseteq past'
  BY <1>1 DEF Start
<1>2. ASSUME NEW p \in Processes, Startup(p) \/ Stop(p) \/ Arrive(p)
      PROVE  past \subseteq past'
  BY <1>2 DEF Startup, Get, Create, Update, Stop, Arrive
<1>3. ASSUME NEW k \in Kinds, RemoveConfig(k) \/ ExtendConfig(k)
      PROVE  past \subseteq past'
  BY <1>3 DEF RemoveConfig, ExtendConfig, By
<1>4. QED
  BY <1>1, <1>2, <1>3 DEF Next, vars

(***************************************************************************)
(* A write on behalf of p gives a configuration a resourceVersion above    *)
(* all that were found.                                                    *)
(***************************************************************************)
LEMMA WriteOvertakes ==
  ASSUME TypeOK, Numbered, NEW p \in Processes, NEW k \in Kinds, Write(k, Wanted(p))
  PROVE  /\ configs'[k] # Absent /\ configs'[k].ca = p
         /\ \A q \in Processes : found[q] < configs'[k].rev
         /\ \A j \in Kinds \ {k} : configs'[j] = configs[j]
         /\ revs' = revs + 1 /\ configs'[k].rev <= revs'
<1>1. Wanted(p) \in Config /\ Wanted(p).ca = p /\ Wanted(p).rev = revs + 1
  BY DEF TypeOK, Wanted, Config
<1>2. configs'[k] = Wanted(p) /\ revs' = revs + 1
      /\ \A j \in Kinds \ {k} : configs'[j] = configs[j]
  BY DEF Write, TypeOK
<1>3. \A q \in Processes : found[q] \in Nat /\ found[q] <= revs /\ revs \in Nat
  BY DEF TypeOK, Numbered
<1>4. configs'[k] # Absent
  BY <1>1, <1>2, ProcessesAssumption DEF Config
<1>5. QED
  BY <1>1, <1>2, <1>3, <1>4

(***************************************************************************)
(* The calls of p: refused, lost or failed, they end it; obeyed, they put  *)
(* its CA into the configuration in turn.                                  *)
(***************************************************************************)
LEMMA CallTrust ==
  ASSUME TypeOK, TrustInv, past' = past, past \subseteq {"extend"},
         NEW p \in Processes, pc[p] \in {"create", "update"}, UNCHANGED found,
         NEW accepted \in BOOLEAN, Call(p, accepted, Write(kind[p], Wanted(p)))
  PROVE  TrustInv'
<1> USE DEF TypeOK, Goto, Kinds, Running
<1>1. \/ UNCHANGED <<configs, revs>> /\ Fatal(p)
      \/ Write(kind[p], Wanted(p)) /\ (Return(p) \/ Fatal(p))
  BY CallEffect
<1>2. Single /\ Numbered /\ InTurn /\ Unwritten /\ Overtook
  BY DEF TrustInv
<1>3. CASE UNCHANGED <<configs, revs>> /\ Fatal(p)
  BY <1>2, <1>3 DEF Fatal, TrustInv, Single, Numbered, InTurn, Unwritten, Overtook,
                    Done
<1>4. CASE Write(kind[p], Wanted(p)) /\ (Return(p) \/ Fatal(p))
  <2> DEFINE k == kind[p]
  <2>1. /\ configs'[k] # Absent /\ configs'[k].ca = p
        /\ \A q \in Processes : found[q] < configs'[k].rev
        /\ \A j \in Kinds \ {k} : configs'[j] = configs[j]
        /\ revs' = revs + 1 /\ configs'[k].rev <= revs'
    BY <1>2, <1>4, WriteOvertakes
  <2>2. /\ \A q \in Processes \ {p} : pc'[q] = pc[q] /\ kind'[q] = kind[q]
        /\ \A q \in Processes \ {p} : q \notin Running
        /\ \/ pc'[p] = "failed"
           \/ k = "mutate" /\ pc'[p] = "get" /\ kind'[p] = "validate"
           \/ k = "validate" /\ pc'[p] = "serve" /\ kind'[p] = "validate"
    BY <1>2, <1>4 DEF Return, Fatal, Single
  <2>3. Single'
    BY <2>2 DEF Single
  <2>4. Numbered'
    <3>1. ASSUME NEW j \in Kinds, configs'[j] # Absent PROVE configs'[j].rev <= revs'
      <4>1. CASE j = k
        BY <2>1, <4>1
      <4>2. CASE j # k
        <5>1. configs'[j] = configs[j] /\ configs[j].rev <= revs
          BY <1>2, <2>1, <3>1, <4>2 DEF Numbered
        <5>2. configs[j].rev \in Nat
          BY <3>1, <5>1 DEF Config
        <5>3. QED
          BY <2>1, <5>1, <5>2
      <4>3. QED
        BY <4>1, <4>2
    <3>2. \A q \in Processes : found[q] <= revs'
      BY <1>2, <2>1 DEF Numbered
    <3>3. QED
      BY <3>1, <3>2 DEF Numbered
  <2>5. InTurn'
    BY <1>2, <2>2 DEF InTurn
  <2>6. Unwritten'
    BY <1>2, <2>1, <2>2 DEF Unwritten, Done
  <2>7. Overtook'
    <3>1. ASSUME NEW q \in Processes, NEW j \in Kinds, Done(q, j)'
          PROVE  /\ configs'[j] # Absent /\ configs'[j].ca = q
                 /\ \A o \in Processes : pc'[o] = "lateUpdate" /\ kind'[o] = j
                                         => found[o] < configs'[j].rev
      <4>1. q = p
        BY <2>2, <3>1 DEF Done
      <4>2. CASE j = k
        BY <2>1, <4>1, <4>2
      <4>3. CASE j # k
        <5>1. Done(p, j)
          BY <2>2, <3>1, <4>1, <4>3 DEF Done
        <5>2. /\ configs[j] # Absent /\ configs[j].ca = p
              /\ \A o \in Processes : pc[o] = "lateUpdate" /\ kind[o] = j
                                      => found[o] < configs[j].rev
          BY <1>2, <5>1 DEF Overtook
        <5>3. \A o \in Processes : pc'[o] = "lateUpdate" /\ kind'[o] = j
                                   => pc[o] = "lateUpdate" /\ kind[o] = j
          BY <2>2
        <5>4. QED
          BY <2>1, <4>1, <4>3, <5>2, <5>3
      <4>4. QED
        BY <4>2, <4>3
    <3>2. QED
      BY <3>1 DEF Overtook
  <2>8. QED
    BY <2>3, <2>4, <2>5, <2>6, <2>7 DEF TrustInv
<1>5. QED
  BY <1>1, <1>3, <1>4

(***************************************************************************)
(* What Get finds is not of the CA of its own process, which therefore     *)
(* never takes it for its own; a start is the only process that runs.      *)
(***************************************************************************)
LEMMA TrustStep == TypeOK /\ TrustInv /\ [Next]_vars => TrustInv'
<1> SUFFICES ASSUME TypeOK, TrustInv, [Next]_vars, past' \subseteq {"extend"}
             PROVE  TrustInv'
  BY DEF TrustInv
<1>0. /\ past \subseteq {"extend"}
      /\ Single /\ Numbered /\ InTurn /\ Unwritten /\ Overtook
  BY PastGrows DEF TrustInv
<1> USE DEF TypeOK, Goto, Kinds, Running
<1>1. ASSUME NEW p \in Processes, Start(p) PROVE TrustInv'
  <2>1. \A q \in Processes : q \notin Running
    BY <1>1 DEF Start
  <2>2. /\ pc[p] = "unborn" /\ pc' = [pc EXCEPT ![p] = "get"]
        /\ UNCHANGED <<configs, kind, found, revs>>
    BY <1>1 DEF Start
  <2>3. Single'
    BY <2>1, <2>2 DEF Single
  <2>4. Numbered' /\ InTurn'
    BY <1>0, <2>2 DEF Numbered, InTurn
  <2>5. Unwritten'
    BY <1>0, <2>1, <2>2 DEF Unwritten, Done
  <2>6. Overtook'
    BY <1>0, <2>1, <2>2 DEF Overtook, Done, InTurn
  <2>7. QED
    BY <2>3, <2>4, <2>5, <2>6 DEF TrustInv
<1>2. ASSUME NEW p \in Processes, Get(p) PROVE TrustInv'
  <2> DEFINE k == kind[p]
  <2>1. /\ pc[p] = "get" /\ UNCHANGED <<configs, revs, kind>>
        /\ pc'[p] \in {"create", "update", "panicked", "failed"}
        /\ \A q \in Processes \ {p} : pc'[q] = pc[q] /\ found'[q] = found[q]
        /\ found'[p] <= revs
    <3>1. CASE configs[k] = Absent \/ (Fatal(p) /\ Fault /\ UNCHANGED found)
      BY <1>0, <1>2, <3>1 DEF Get, Fatal, Numbered
    <3>2. CASE configs[k] # Absent /\ ~(Fatal(p) /\ Fault /\ UNCHANGED found)
      <4>1. configs[k].ca # p
        BY <1>0, <1>2, <3>2 DEF Get, Unwritten, Done
      <4>2. configs[k].rev <= revs
        BY <1>0, <3>2 DEF Numbered
      <4>3. QED
        BY <1>2, <3>2, <4>1, <4>2 DEF Get
    <3>3. QED
      BY <3>1, <3>2
  <2>2. Single'
    BY <1>0, <2>1 DEF Single
  <2>3. Numbered' /\ InTurn'
    BY <1>0, <2>1 DEF Numbered, InTurn
  <2>4. Unwritten'
    BY <1>0, <2>1 DEF Unwritten, Done
  <2>5. Overtook'
    BY <1>0, <2>1 DEF Overtook, Done
  <2>6. QED
    BY <2>2, <2>3, <2>4, <2>5 DEF TrustInv
<1>3. ASSUME NEW p \in Processes, Create(p) \/ Update(p) PROVE TrustInv'
  <2>1. PICK accepted \in BOOLEAN : Call(p, accepted, Write(kind[p], Wanted(p)))
    BY <1>3 DEF Create, Update, Current
  <2>2. pc[p] \in {"create", "update"} /\ UNCHANGED <<found, past>>
    BY <1>3 DEF Create, Update
  <2>3. QED
    BY <1>0, <2>1, <2>2, CallTrust
<1>4. ASSUME NEW p \in Processes, Stop(p) PROVE TrustInv'
  <2>1. /\ p \in Running /\ UNCHANGED <<configs, kind, found, revs>>
        /\ pc'[p] \in {"stopped", "lateCreate", "lateUpdate"}
        /\ \A q \in Processes \ {p} : pc'[q] = pc[q]
    BY <1>4 DEF Stop
  <2>2. \A q \in Processes : q \notin Running'
    BY <1>0, <2>1 DEF Single
  <2>3. Single' /\ Overtook'
    BY <2>2 DEF Single, Overtook, Done
  <2>4. Numbered' /\ InTurn'
    BY <1>0, <2>1 DEF Numbered, InTurn
  <2>5. Unwritten'
    BY <1>0, <2>1, <2>2 DEF Unwritten, Done
  <2>6. QED
    BY <2>3, <2>4, <2>5 DEF TrustInv
<1>5. ASSUME NEW p \in Processes, Arrive(p) PROVE TrustInv'
  <2> DEFINE k == kind[p]
  <2>1. /\ pc[p] \in {"lateCreate", "lateUpdate"} /\ Write(k, Wanted(p))
        /\ pc' = [pc EXCEPT ![p] = "stopped"] /\ UNCHANGED <<kind, found>>
        /\ pc[p] = "lateCreate" => configs[k] = Absent
        /\ pc[p] = "lateUpdate" => configs[k] # Absent /\ configs[k].rev = found[p]
    BY <1>5 DEF Arrive, Current
  <2>2. /\ configs'[k] # Absent /\ configs'[k].ca = p
        /\ \A j \in Kinds \ {k} : configs'[j] = configs[j]
        /\ revs' = revs + 1 /\ configs'[k].rev <= revs'
    BY <1>0, <2>1, WriteOvertakes
  <2>3. \A q \in Processes : ~Done(q, k)
    BY <1>0, <2>1 DEF Overtook
  <2>4. Single' /\ InTurn'
    BY <1>0, <2>1 DEF Single, InTurn
  <2>5. Numbered'
    <3>1. \A j \in Kinds : configs[j] # Absent => configs[j].rev \in Nat
      BY DEF Config
    <3>2. QED
      BY <1>0, <2>1, <2>2, <3>1 DEF Numbered
  <2>6. Unwritten'
    BY <1>0, <2>1, <2>2 DEF Unwritten, Done
  <2>7. Overtook'
    BY <1>0, <2>1, <2>2, <2>3 DEF Overtook, Done
  <2>8. QED
    BY <2>4, <2>5, <2>6, <2>7 DEF TrustInv
<1>6. ASSUME NEW k \in Kinds, RemoveConfig(k) PROVE TrustInv'
  BY <1>6 DEF RemoveConfig, By
<1>7. ASSUME NEW k \in Kinds, ExtendConfig(k) PROVE TrustInv'
  <2>1. configs[k] # Absent /\ configs[k] \in Config
    BY <1>7 DEF ExtendConfig
  <2>2. /\ configs'[k] # Absent /\ configs'[k].ca = configs[k].ca
        /\ configs'[k].rev = revs + 1 /\ revs' = revs + 1
        /\ \A j \in Kinds \ {k} : configs'[j] = configs[j]
        /\ UNCHANGED <<pc, kind, found>>
    <3> DEFINE config == [configs[k] EXCEPT !.rev = revs + 1, !.webhooks = 2]
    <3>1. config \in Config /\ config.ca = configs[k].ca /\ config.rev = revs + 1
      <4>1. configs[k] \in Config /\ revs + 1 \in Nat
        BY <2>1
      <4>2. config \in Config
        BY <4>1 DEF Config
      <4>3. config.ca = configs[k].ca
        BY <4>1 DEF Config
      <4>4. config.rev = revs + 1
        BY <4>1 DEF Config
      <4>5. QED
        BY <4>2, <4>3, <4>4
    <3>2. config # Absent
      BY <3>1, ProcessesAssumption DEF Config
    <3>3. /\ configs' = [configs EXCEPT ![k] = config] /\ revs' = revs + 1
          /\ UNCHANGED <<pc, kind, found>>
      BY <1>7 DEF ExtendConfig, By, Write
    <3> HIDE DEF config
    <3>4. configs'[k] = config /\ \A j \in Kinds \ {k} : configs'[j] = configs[j]
      BY <3>3
    <3>5. QED
      BY <3>1, <3>2, <3>3, <3>4
  <2>3. Single' /\ InTurn'
    BY <1>0, <2>2 DEF Single, InTurn
  <2>4. Numbered'
    <3>1. \A j \in Kinds : configs[j] # Absent => configs[j].rev \in Nat
      BY DEF Config
    <3>2. QED
      BY <1>0, <2>2, <3>1 DEF Numbered
  <2>5. Unwritten'
    BY <1>0, <2>1, <2>2 DEF Unwritten, Done
  <2>6. Overtook'
    <3>1. \A q \in Processes : found[q] < revs + 1
      BY <1>0 DEF Numbered
    <3>2. QED
      BY <1>0, <2>1, <2>2, <3>1 DEF Overtook, Done
  <2>7. QED
    BY <2>3, <2>4, <2>5, <2>6 DEF TrustInv
<1>8. CASE UNCHANGED vars
  BY <1>0, <1>8
     DEF vars, TrustInv, Single, Numbered, InTurn, Unwritten, Overtook, Done
<1>9. QED
  BY <1>1, <1>2, <1>3, <1>4, <1>5, <1>6, <1>7, <1>8 DEF Next, Startup

(***************************************************************************)
(* Whatever the starts before it left halfway or sent and arrives late, a  *)
(* process that serves while no other runs is trusted with both webhooks.  *)
(***************************************************************************)
THEOREM ServerIsTrusted == Spec => []ServerTrusted
<1>1. StartupInv /\ TrustInv /\ [Next]_vars => TrustInv'
  BY TrustStep DEF StartupInv
<1>2. TrustInv => ServerTrusted
  BY DEF TrustInv, InTurn, Overtook, Done, Running, ServerTrusted, Trusted, Kinds
<1>3. QED
  BY StartupInit, StartupStep, TrustInit, <1>1, <1>2, PTL DEF Spec

=============================================================================
