--------------------------- MODULE CheckerStartup ---------------------------
(***************************************************************************)
(* The start of the checker, the process that serves both webhooks: it     *)
(* makes a CA of its own, creates or updates the mutating configuration,   *)
(* then the validating one, so that the API server trusts that CA, and     *)
(* serves. Restarts and the rollouts of its Deployment start another       *)
(* process, with another CA, while the configurations stay.                *)
(*                                                                         *)
(* A process is its own CA. Of the comparison of a configuration found     *)
(* with the wanted one the number of webhooks and the CA are kept: the     *)
(* other fields are the same at every start.                               *)
(***************************************************************************)
EXTENDS Integers, FiniteSets

CONSTANTS
  Processes,    \* the processes that are ever started
  Replicas,     \* how many the Deployment lets run together
  Absent,       \* the value of a configuration that does not exist
  AdminOps,     \* what administrators do: "remove", "extend"
  MaxOps,       \* bound on what they do
  MaxFaults     \* bound on calls that fail or whose reply is lost

ASSUME ProcessesAssumption == Absent \notin [rev : Nat, ca : Processes, webhooks : {1, 2}]
ASSUME BoundsAssumption == Replicas \in Nat /\ MaxOps \in Nat /\ MaxFaults \in Nat

VARIABLES
  configs,      \* the two webhook configurations
  pc, kind,     \* what each process does, and to which configuration
  found,        \* the resourceVersion of the one it found
  revs,         \* the last resourceVersion given
  spent,        \* what is used of the bounds
  past          \* history: what has ever happened of Disturbances

vars == <<configs, pc, kind, found, revs, spent, past>>

Kinds == {"mutate", "validate"}
Config == [rev : Nat, ca : Processes, webhooks : {1, 2}]
Disturbances == {"overlap", "remove", "extend"}
Running == {p \in Processes : pc[p] \in {"get", "create", "update", "serve"}}

TypeOK ==
  /\ configs \in [Kinds -> Config \cup {Absent}]
  /\ pc \in [Processes -> {"unborn", "get", "create", "update", "serve",
                           "failed", "panicked", "stopped",
                           "lateCreate", "lateUpdate"}]
  /\ kind \in [Processes -> Kinds]
  /\ found \in [Processes -> Nat] /\ revs \in Nat
  /\ spent \in [ops : Nat, faults : Nat] /\ past \subseteq Disturbances

Init ==
  /\ configs = [k \in Kinds |-> Absent]
  /\ pc = [p \in Processes |-> "unborn"]
  /\ kind = [p \in Processes |-> "mutate"]
  /\ found = [p \in Processes |-> 0] /\ revs = 0
  /\ spent = [ops |-> 0, faults |-> 0] /\ past = {}

-----------------------------------------------------------------------------
Goto(p, label) == pc' = [pc EXCEPT ![p] = label]

\* Mutant: a configuration without webhooks.
WantedBare(p) == [rev |-> revs + 1, ca |-> p, webhooks |-> 0]

\* The configuration that p wants.
Wanted(p) == [rev |-> revs + 1, ca |-> p, webhooks |-> 1]

\* Mutant: the update names no resourceVersion.
CurrentAny(p) == configs[kind[p]] # Absent

\* The update names the resourceVersion that was found.
Current(p) == configs[kind[p]] # Absent /\ configs[kind[p]].rev = found[p]

Write(k, config) ==
  /\ revs' = revs + 1
  /\ configs' = [configs EXCEPT ![k] = config]

\* The mutating configuration is done before the validating one.
Return(p) ==
  IF kind[p] = "mutate"
  THEN Goto(p, "get") /\ kind' = [kind EXCEPT ![p] = "validate"]
  ELSE Goto(p, "serve") /\ UNCHANGED kind

\* Any error ends the process: errorLogger.Fatalf.
Fatal(p) == Goto(p, "failed") /\ UNCHANGED kind

Fault ==
  /\ spent.faults < MaxFaults
  /\ spent' = [spent EXCEPT !.faults = @ + 1]

Call(p, accepted, effect) ==
  \/ accepted /\ effect /\ Return(p) /\ UNCHANGED spent
  \/ accepted /\ effect /\ Fatal(p) /\ Fault                           \* reply lost
  \/ ~accepted /\ Fatal(p) /\ UNCHANGED <<configs, revs, spent>>       \* refused
  \/ Fatal(p) /\ Fault /\ UNCHANGED <<configs, revs>>                  \* never arrived

Start(p) ==
  /\ pc[p] = "unborn" /\ Cardinality(Running) < Replicas
  /\ Goto(p, "get")
  /\ past' = IF Running = {} THEN past ELSE past \cup {"overlap"}
  /\ UNCHANGED <<configs, kind, found, revs, spent>>

\* Mutant: what is found is left as it is.
GetKeeps(p) ==
  /\ pc[p] = "get"
  /\ LET config == configs[kind[p]] IN
     \/ config = Absent /\ Goto(p, "create") /\ UNCHANGED <<kind, found, spent>>
     \/ /\ config # Absent /\ Return(p) /\ UNCHANGED <<found, spent>>
     \/ Fatal(p) /\ Fault /\ UNCHANGED found
  /\ UNCHANGED <<configs, revs, past>>

\* When a validating configuration is found, its name is compared with that
\* of the mutating one wanted, which is nil in this call.
Get(p) ==
  /\ pc[p] = "get"
  /\ LET config == configs[kind[p]] IN
     \/ config = Absent /\ Goto(p, "create") /\ UNCHANGED <<kind, found, spent>>
     \/ /\ config # Absent
        /\ found' = [found EXCEPT ![p] = config.rev] /\ UNCHANGED spent
        /\ IF config.webhooks = 1 /\ kind[p] = "validate"
           THEN Goto(p, "panicked") /\ UNCHANGED kind
           ELSE IF config.webhooks # 1 \/ config.ca # p
           THEN Goto(p, "update") /\ UNCHANGED kind
           ELSE Return(p)
     \/ Fatal(p) /\ Fault /\ UNCHANGED found
  /\ UNCHANGED <<configs, revs, past>>

\* Mutant: that somebody else has created it by now is no error.
CreateLenient(p) ==
  /\ pc[p] = "create"
  /\ Call(p, TRUE, IF configs[kind[p]] = Absent THEN Write(kind[p], Wanted(p))
                   ELSE UNCHANGED <<configs, revs>>)
  /\ UNCHANGED <<found, past>>

Create(p) ==
  /\ pc[p] = "create"
  /\ Call(p, configs[kind[p]] = Absent, Write(kind[p], Wanted(p)))
  /\ UNCHANGED <<found, past>>

Update(p) ==
  /\ pc[p] = "update"
  /\ Call(p, Current(p), Write(kind[p], Wanted(p)))
  /\ UNCHANGED <<found, past>>

\* SIGTERM, or the end of the container; a call may be on its way.
Stop(p) ==
  /\ p \in Running
  /\ \/ Goto(p, "stopped")
     \/ pc[p] = "create" /\ Goto(p, "lateCreate")
     \/ pc[p] = "update" /\ Goto(p, "lateUpdate")
  /\ UNCHANGED <<configs, kind, found, revs, spent, past>>

\* It arrives when its process is gone.
Arrive(p) ==
  /\ \/ pc[p] = "lateCreate" /\ configs[kind[p]] = Absent
     \/ pc[p] = "lateUpdate" /\ Current(p)
  /\ Write(kind[p], Wanted(p)) /\ Goto(p, "stopped")
  /\ UNCHANGED <<kind, found, spent, past>>

By(op) ==
  /\ op \in AdminOps /\ spent.ops < MaxOps
  /\ spent' = [spent EXCEPT !.ops = @ + 1] /\ past' = past \cup {op}
  /\ UNCHANGED <<pc, kind, found>>

\* An administrator deletes a configuration, or adds a webhook to it.
RemoveConfig(k) ==
  configs[k] # Absent /\ By("remove") /\ Write(k, Absent)

ExtendConfig(k) ==
  /\ configs[k] # Absent /\ configs[k].webhooks = 1 /\ By("extend")
  /\ Write(k, [configs[k] EXCEPT !.rev = revs + 1, !.webhooks = 2])

-----------------------------------------------------------------------------
Startup(p) == Get(p) \/ Create(p) \/ Update(p)

Next ==
  \/ \E p \in Processes : Start(p) \/ Startup(p) \/ Stop(p) \/ Arrive(p)
  \/ \E k \in Kinds : RemoveConfig(k) \/ ExtendConfig(k)

Spec == Init /\ [][Next]_vars

FairSpec == Spec /\ \A p \in Processes : WF_vars(Startup(p))

-----------------------------------------------------------------------------
\* The API server calls webhook k of p and trusts its certificate, or has no
\* reason to call it.
Trusted(p, k) == configs[k] # Absent => configs[k].ca = p

(***************************************************************************)
(* As long as one process runs at a time, whoever serves is trusted with   *)
(* both webhooks, whatever the starts before it left behind halfway, or    *)
(* sent and arrives late, and the administrators add: otherwise every      *)
(* write of a ResourceLimiter fails, as both configurations fail closed.   *)
(* (A late creation after a removal defeats it: it puts its CA where none  *)
(* is.)                                                                    *)
(***************************************************************************)
ServerTrusted ==
  past \subseteq {"extend"} => \A p \in Processes :
    pc[p] = "serve" => \A k \in Kinds : Trusted(p, k)

(***************************************************************************)
(* However many processes start together, all that serve are trusted to    *)
(* validate, as long as no administrator touches the configurations: the   *)
(* creation of the validating one decides who serves.                      *)
(***************************************************************************)
ServersValidate ==
  past \subseteq {"overlap"} => \A p \in Processes :
    pc[p] = "serve" => configs["validate"] # Absent /\ configs["validate"].ca = p

(***************************************************************************)
(* "Updated the validatingwebhookconfiguration": a process that finds the  *)
(* validating configuration of an earlier one updates it and serves, or    *)
(* ends with the error of a call or from outside.                          *)
(***************************************************************************)
StartupCompletes ==
  \A p \in Processes :
    pc[p] = "get" ~>
      pc[p] \in {"serve", "failed", "stopped", "lateCreate", "lateUpdate"}

=============================================================================
