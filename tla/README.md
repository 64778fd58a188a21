# Verification of resourcelimiter

TLA+ models of the ResourceLimiter operator, checked with TLC and, where that
is possible, proved with TLAPS for every value of the constants. Paths are
relative to the repository; `controller` stands for
`controllers/resourcelimiter_controller.go`, `webhook.go`, `webhookconfig.go`,
`main.go` and `cert.go` for the files of `pkg/cmd`.

## 1. The system

A cluster-scoped custom resource, the ResourceLimiter (CR), lists namespaces
and the limits each of them gets. Three processes serve it.

| Component | State it keeps | Operations | Talks to |
|---|---|---|---|
| Reconciler (`controller`, `/main.go`) | none but its caches and workqueue; all else is in the API server | `Reconcile`, `reconcile`, `reconcileDelete`, `updateStatus`, `setHard` | reads CRs, namespaces, quotas from caches; writes namespaces' labels, quotas `rl-quota-<ns>`, the CR's finalizers and status; woken up by events of CRs and of the quotas they own |
| Checker, validating webhook (`webhook.go`) | the global `resFormErr`, shared by all requests | `ServeValidate`, `validate`, `recordR` | called by the API server for CRs, and for pods and workloads of labelled namespaces |
| Checker, mutating webhook (`webhook.go`) | none | `ServeMutate`, `mutate`, `createPatch...` | called by the API server for CRs, before the validating one |
| Checker startup (`main.go`, `webhookconfig.go`, `cert.go`) | a CA of its own; the two webhook configurations in the API server | `generateCert`, `createOrUpdateWebhookConfiguration` twice, serve until a signal | API server |
| Conversion webhook (`pkg/conversion`, `api/v1beta1`) | none | `doConversion`, `ConvertTo`, `ConvertFrom` | called by the API server with lists of CRs |

They interact through the API server alone: the reconciler's labels decide
which namespaces the validating webhook sees; both webhooks fail closed, so
that no CR is written (by the reconciler neither) while the checker is not
trusted; what the webhooks let in is what `setHard` parses with `MustParse`,
which panics.

### What is hard, and what makes each component correct

- **Reconciler.** One worker, level-triggered, over caches that lag. It returns
  in the middle of its loop after creating a quota and relies on that quota's
  event; any call can fail after others were made; users change or delete
  anything at any time; the process can die anywhere and comes back with a new
  list. Correct means: it never loses a wakeup, it converges, it comes to rest,
  it neither labels nor limits `kube-system` and `kube-public`, it gives the
  finalizer up only after the quotas are gone, and no quota outlives its CR.
- **Validating webhook.** Goroutines race for an unguarded interface variable.
  Correct means: nothing is let in that should not be, and a request that is
  served alone gets the answer its object deserves.
- **Mutation and admission.** Two webhooks and two API versions have to agree on
  fields that are missing, empty or no quantity. Correct means: what is stored
  never makes the reconciler panic, and storing it again changes nothing.
- **Startup.** Processes are killed between the two configurations, overlap in
  a rollout, and leave calls under way. Correct means: who serves is trusted.
- **Conversion.** Lists in which one object fails or panics, between versions of
  which one says less than the other. Correct means: for each object that was
  sent, one made of it is returned in its place, or none at all is; and what
  was converted can be converted back. The code does the last for a few objects
  only, see section 3.

`PROJECT.json` lists each hazard at its line with the properties that cover it,
or a note why none does.

## 2. The modules

| Module | Models |
|---|---|
| `Cluster` | API server, informers, garbage collector, users and quota controller, as the reconciler relies on them |
| `ResourceLimiterController` | the reconciler; extends `Cluster` |
| `LimiterPromise` | what the reconciler promises, without caches, queue, retries or crashes |
| `ResourceLimiterRefinement` | the mapping of the reconciler to that promise; extends `ResourceLimiterController` |
| `Operator` | the reconciler with a checker that is out at times; extends `ResourceLimiterController` |
| `TwoControllers` | two processes of the controller in a rollout; two instances of `ResourceLimiterController` |
| `TwoControllersRefinement` | the mapping of both to the promise of one; extends `TwoControllers` |
| `ValidateWebhook` | `ServeValidate` as concurrent goroutines |
| `CheckerStartup` | `main` and `createOrUpdateWebhookConfiguration` |
| `Specs` | the specs of both API versions |
| `Admission` | mutation, patch, validation and storing of a spec; extends `Specs` |
| `Conversion` | `serveConvert` and `doConversion`; extends `Specs` |
| `MC...` | instances for TLC |
| `...Proofs` | theorems and their proofs |

Every definition that translates code is listed with its lines under `map` in
`PROJECT.json`. Definitions preceded by `\* Mutant:` are wrong on purpose: each
is a plausible bug, and with it in place of the definition after it the run
named in `PROJECT.json` finds the property violated.

### Cluster and ResourceLimiterController

State: `crs`, `nss`, `quotas` are what the API server stores, `ccrs`, `cnss`,
`cquotas` the informers' copies. A quota has at most one name per namespace
(`rl-quota-<ns>`), so `quotas` is a function of namespaces. `crLag`, `nsLag` and
`quotaEvents` say which copies are behind. They stand for the
`resourceVersion`: a full update (namespace, quota, status) is refused exactly
when the copy it was made from is not the latest. The copy of a CR that the
worker holds across several calls has a flag of its own, `stale`. `queue` is the
workqueue; it is a set, as the workqueue joins equal names. `wk` is the worker's
local state: program counter, name, CR read, index in the loop, entries of the
status collected so far.

A step is one call to the API server with the reads of the cache before it:

| Action | Code (`controller`) |
|---|---|
| `Reconcile` | 70-79: take a name, read the CR; not found is an error |
| `RegisterFinalizer`, `Refetch` | 79-92 |
| `DeleteQuota`, `RemoveLabels`, `ReleaseFinalizer` | `reconcileDelete`, 117-188 |
| `LabelNamespace`, `CreateQuota`, `UpdateQuota`, `StopQuota` | the loop of `reconcile`, 210-320 |
| `UpdateStatus` | 321-336 |
| `Panic` | `setHard`, 190-195: the process ends, and a new one lists everything |

`Call` gives each call its four outcomes: carried out; carried out with the
reply lost; refused; never arrived. The last three put the name back. Several
events of one object may be delivered as one (`DeliverCR`, `DeliverQuota`):
informers do that, and the worst case, a copy that lags by any number of writes,
is kept. A write that changes nothing makes no event, as in the API server;
`Settles` rests on that.

Abstracted: the limits of a target are one value (`hard`) that parses or does
not; `used` is one value; the labels of a namespace are there or not; the status
is a set of entries; back-off delays have no length; a namespace is gone at once
with all that is in it.

### LimiterPromise and ResourceLimiterRefinement

`LimiterPromise` is what a user of CRs and quotas can rely on, in six
variables: `want` (the spec each CR has), `said` (the status it reports),
`have` (the quota of each namespace), `users`, and two histories: `asked`, all
that a name was ever asked for, and `met`, the targets of the present spec that
have been as wanted at some time since that spec was given. The controller may
`Limit` and `Free` a namespace only as some spec of that name asked for, may
`Report` ready only of the present spec and only when `met` holds all of its
limits, and may let a CR `Leave` only when it is under deletion. When it does
so is not promised; that is what the liveness properties are for. It is not
promised either that the spec acted on is the latest: the code cannot know.

`ResourceLimiterRefinement` maps: `want` and `said` to parts of the stored CRs,
`have` to the stored quotas without their usage, `users` to the count of what
users did. The histories are added to the detailed specification
(`RememberingSpec`); they restrict nothing. Caches, lags, queue and worker have
no counterpart: the steps on them are stutters.

### Operator

Both webhook configurations match creations and updates of CRs and fail closed,
and none matches the status or deletions. So while the checker that the API
server trusts is out (`closed`), a `Toggle` at any time, the reconciler's two
patches of finalizers are refused and put the name back, as are the users'
creations and changes; status, quotas and namespaces are written as ever.
`CheckerStartup` says how long that can be.

### TwoControllers

`--leader-elect` is off by default, so a rollout has two controllers. Both are
whole instances of `ResourceLimiterController` on the same `crs`, `nss`,
`quotas`; a step of one leaves the informers of the other with events to
deliver (`OldNotices`, `NewNotices`) and its copy of a CR possibly outdated, so
that its next write conflicts. A namespace that is only touched is outdated for
both, too (`Rewritten`, `TouchAgain`).

`TwoControllersRefinement` asks of both what `LimiterPromise` asks of one. The
mapping speaks of stored objects only, which the two share, so it is the one of
`ResourceLimiterRefinement`, taken of the new process.

### ValidateWebhook

One process per request. An object is the sequence of the outcomes of the checks
`validate` makes on it, in order, which `Verdict` folds into allow, deny or
panic. `resFormErr` is an interface value, that is two words (type and data),
and nothing orders the goroutines' accesses: `Reset` and `Record` write one word
each, in either order, `CheckErr` reads the type word, `UseErr` the pair. Mixed
words are possible then, and calling `Error` on half a value cuts the
connection. `met` is a history variable: who was served at the same time. Bodies
that are empty or of another content type are answered before anything shared
is touched and are left out.

### CheckerStartup

A process is its own CA. `Get`, `Create`, `Update` are the calls of
`createOrUpdateWebhookConfiguration`, first for the mutating configuration, then
for the validating one; any error is fatal. `Stop` ends a process at any point,
possibly with a call under way that `Arrive`s later. `Get` has the panic of
`webhookconfig.go:177`. `past` is a history variable: whether processes ever
overlapped and what administrators did.

### Admission

A write goes through `Submit`, `Mutate` (the patch and its application by the
API server), `Validate`. The patch of a v1beta2 object follows
`createPatchV1beta2` as it is: the quotas are emptied first, so that namespace
`default` alone is required, and every operation adds `/spec/targets`, which is
the JSON name of the quotas, in place of the whole list.

### Conversion

A request passes `serveConvert` first: its `Content-Type` must name one of the
two serializers, its body must decode, and a body that decodes to no request is
a nil dereference. The answer is encoded in the first type of `Accept` that a
serializer matches; for a pattern it is whichever the map yields first. Between
the two a request is converted object by object. A raw object may be no JSON,
have no kind, or leave keys out. The `version` of a spec is the layout it has,
which the Go types give it. What `Convert` makes has a spec and nothing else:
no kind, no name, and no apiVersion, which no object of the model has. The API
server would refuse it. `Encoded` puts such a spec back into the object that it
was made of, as JSON with the keys that `omitempty` leaves (`Given`), so that it
can be asked what doConversion makes of its own work. `ConvertTo` puts as many
empty quotas first as there are targets (`make` with a length, then `append`);
`ConvertFrom` keeps the last quota's limits. Of the types of a v1beta1 object
only the four keys the code looks up are kept.

## 3. The runs

| Run | Instance | Shows |
|---|---|---|
| `live_one` (`MCOperator`) | 1 CR over a namespace and an ignored one, 2 limits; 3 operations of users, of all kinds but taking labels away; 1 crash; the checker out at any time (463k states) | `TypeOK`, `IgnoredUnlimited`, `NoMissedWakeup`, `ConvergesAndRests`, `EndsLabelled`, `NoQuotaLeak` |
| `safety_two` (`MCResourceLimiterRefinement`) | 2 CRs with 2 and 1 namespaces, one limit that panics; 3 operations, 1 failing call (1.6M states) | `NoMissedWakeup`, `ReleasedClean`, `PromiseKept` |
| `overlap` (`MCResourceLimiterController`) | 2 CRs that share a namespace, one of them with a limit that panics; 3 operations, 1 crash (470k states) | `OwnerPrevails`, `Settles` |
| `two_controllers` (`MCTwoControllers`) | 1 CR, 1 namespace, 2 controllers; 2 operations (335k states) | `TypeOK`, `NoMissedWakeup`, `RolloutSettles`, `PromiseKept` |
| `webhook_races` | 3 requests of 7 kinds of objects | `TypeOK`, `SoundAdmission`, `SerialExact`, `DamageIsLocal` |
| `startup` | 3 processes, 2 at a time, 2 operations of administrators, 1 failing call (201k states) | `TypeOK`, `ServersValidate`, `ServerTrusted` |
| `admission` | all specs of up to 2 targets over 3 namespaces with one field empty or wrong (59k states) | `TypeOK`, `StoredUsable`, `StoredIsFixed` |
| `conversion` | all lists of up to 2 objects, with the headers of the API server; lists of one kind of object with other headers (14k states) | `TypeOK`, `AllOrNothing`, `ThereAndBack` |

What the less obvious ones say:

- `NoMissedWakeup`: a CR that differs from the cluster or its status is in the
  worker's hands or will be. In `two_controllers` it says so of the new process,
  which cannot count on the old one to finish what it started.
- `ConvergesAndRests`, `RolloutSettles`: a CR that users leave alone becomes
  what it asks for, stays so, and its own events die out. `Settles` says the
  last of that for CRs that fight over one quota.
- `OwnerPrevails`: of the CRs that share a namespace, the one that owns its
  quota has its limits there once it is at rest. The fight has an order, by the
  owner reference that updates keep and the watch on owned quotas.
- `ReleasedClean`: the finalizer goes after the quotas.
- `IgnoredUnlimited`: whatever CRs name, `kube-system` and `kube-public` get no
  labels and no quota. It says nothing of what a deletion takes away there:
  `reconcileDelete` skips no name, and a quota or labels that it could remove
  would have to be an administrator's, which no user of the model makes.
- `AllOrNothing`: a reply of the conversion has as many objects as were sent,
  each made of the one in its place (it names the same namespaces, and is
  applied or not as that one), or none.
- `ThereAndBack`: which of the objects that doConversion makes it could read
  again, if somebody gave them kind and name: the v1beta1 ones that are applied.
  They come back with their quotas in order, all with the limits of the last,
  behind as many empty ones. Nothing that became a v1beta2 object can be read:
  the empty quotas have no limits, or there is no quota, and either panics.
- `PromiseKept`: every step of the reconciler is one `LimiterPromise` allows; in
  `two_controllers`, every step of either process.

**Bounds.** `MaxOps`, `MaxFaults`, `MaxCrashes` bound what users do and what
fails, never what the reconciler does, and at no time in particular. Three
operations are enough for the shapes that matter: create, change, interfere;
create, interfere, delete; create two, interfere with what they share. One
ignored and one ordinary namespace are enough for the loop to skip and to go on,
two ordinary ones for it to end halfway, two CRs to share queue, process and
namespace. Two controllers multiply the states (each has caches, a queue and a
worker), so their instance has one CR, one namespace and two operations: one
makes the CR, the other interferes with a reconcile of both. There is no bound
on how often the checker goes out. Three requests are the least in which one
resets while another records and a third reads. Three processes are the least in
which two overlap after a first one has left its configurations. `uids` grows
with the CRs created, so `MaxOps` bounds it.

**Fairness.** The reconciler (`Fairness`, `OperatorFairness`): weak fairness for
the worker, the informers and the garbage collector, which go on whatever else
happens; strong fairness for taking a given name from the queue, as the
workqueue is first in, first out, and a name in it may lose its turn to others
and to failures only finitely often between its turns. Nothing is assumed of
users, faults, crashes, and of the checker: it may go out and come back without
end. `TwoControllers`: all that for the new process; of the old one only that
what its informers have to deliver arrives, as its worker may stop for good
between any two calls. Startup: weak fairness for the steps of a process that
runs; it may still be stopped.

**Preconditions.** `NoMissedWakeup` is about CRs whose namespaces do not overlap
(`Exclusive`); `OwnerPrevails` and `Settles` are about those that do.
`ReleasedClean` leaves out namespaces that are created again within one
reconcile, `EndsLabelled` is checked with users who do not take the labels away:
the code reacts to neither, by its watches. The convergence properties ask for
all namespaces of the CR to exist and its limits to parse (`Healthy`), and in
`Operator` for its finalizer to be there or the webhooks to be open
(`Patchable`), each from some time on. `Settles` asks that no CR at all has a
limit that does not parse (`Harmless`): such a CR ends every process that takes
it, and with it whatever the others are waiting for. A target listed twice with
different limits is in no instance: no property of rest can hold then.

### Where the code does not do what it says

Each of these runs ends with a counterexample.

| Run | Disagreement |
|---|---|
| `finalizer_registered` | `controller`:83 makes the patch from the object that it then changes, so the finalizer is never stored, and deletion is left to owner references (which do not take labels off) |
| `deletion_completes` | with the finalizer in the manifest, a deletion that comes before the quota is made fails at `controller`:145-147 for ever |
| `startup_completes` | a checker that finds the validating configuration of an earlier one dereferences nil (`webhookconfig.go`:177) |
| `admission_kept` | a complete list of quotas with `default` in it is replaced by one default quota (`webhook.go`:173) |

Seen while modelling and part of the models, without a run: a good request is
denied with the parse error of another one, as both use one variable
(`webhook.go`:624); a target taken out of a CR keeps its quota when the CR is
stopped (`controller`:305); of two CRs that share a namespace the one that does
not own the quota stays ready when the quota goes with its owner
(`controller`:103); a namespace listed twice with different limits is updated
without end (`controller`:298); validate's case `Daemonset` is never taken
(`webhook.go`:480); after two simultaneous starts the mutating configuration
holds the CA of the process that failed (`webhookconfig.go`:94); empty fields are
filled in for `default` only (`webhook.go`:138); a CR that names `kube-system` has that
skipped when it is reconciled but not when it is deleted, so its deletion takes
an administrator's `rl-quota-kube-system` away, or is retried for ever for want
of one (`controller`:132-147); converted objects have empty quotas first
(`api/v1beta1/resourcelimiter_conversion.go`:16) and neither apiVersion nor kind
nor name (`pkg/conversion/conversion.go`:40, 57, 208), and the test that expects
otherwise compares in an `Expect` without a matcher (`conversion_test.go`:95);
`omitempty` keys that are left out, among them `applied` when it is false and
the limits of those empty quotas, make the conversion panic (`conversion.go`:210,
237-251) instead of reporting a failure (`conversion.go`:185).

## 4. What is proved

For all values of the constants that satisfy the named assumptions:

| Theorem | Module | Argument |
|---|---|---|
| `TypeCorrect`: `[]TypeOK` | `ResourceLimiterControllerProofs` | `Inv`: well typed, and in the loop the worker's index is that of a target. Typing alone is not inductive: `target` is only a target for an index in range. One lemma for each kind of write (`CRWrittenType`, ...), one for how a call ends, one step per action |
| `IgnoredSafe`: `[]IgnoredUnlimited` | same | `Inv` also says that a worker about to limit or free a namespace has passed the test of ignored names; users are the only others who make quotas, and they edit those that exist |
| `WakeupSafe`: `[]NoMissedWakeup` | same | `WakeupInv`, below |
| `OwnersPrevail`: `[]OwnerPrevails` | same | `OwnerInv`, below |
| `ReleaseIsClean`: `ReleasedClean` | same | `ReleaseInv`, below |
| `PromiseImplemented`: `RememberingSpec => PromiseKept` | `ResourceLimiterRefinementProofs` | `PromiseInv`, below |
| `OperatorTypeCorrect`, `OperatorIgnoredSafe`, `OperatorWakeupSafe`, `OperatorOwnersPrevail`, `OperatorReleaseIsClean`: the five properties above of `OperatorSpec` | `OperatorProofs` | the same invariants, which a refused patch keeps, below |
| `OperatorPromiseImplemented`: `RememberingOperatorSpec => PromiseKept` | same | `PromiseInv`, as before |
| `TwoTypeCorrect`, `TwoWakeupSafe`, `TwoOwnersPrevail`, `TwoIgnoredSafe` | `TwoControllersProofs` | the invariants of one process, of each of the two, below |
| `TwoPromiseImplemented`: `RememberingSpec => PromiseKept` | same | `PromiseInv` of each process, below |
| `WebhookTypeCorrect`, `AdmissionSound`, `DamageLocal` | `ValidateWebhookProofs` | `WebhookInv`: a response allows only if the verdict on the object does, and a good request that is past its own reset of `resFormErr` and still finds an error there has met a request that panics |
| `SerialRequestExact`: `[]SerialExact` | same | `SerialInv`: every word of `resFormErr` that a request served alone has dealt with is `Nil` after its reset and its own after its record, so it reads nobody else's |
| `StartupTypeCorrect`, `ServersAreTrusted`: `[]ServersValidate` | `CheckerStartupProofs` | `ValidateInv`: while no administrator interferes, the validating configuration has one webhook, so nobody updates it (`Get` panics), and its creator alone serves |
| `ServerIsTrusted`: `[]ServerTrusted` | same | `TrustInv`, below |
| `AdmissionTypeCorrect`, `StoredAlwaysUsable`, `StoredStaysFixed` | `AdmissionProofs` | what has passed `Mutate` and `Valid` is complete and parses; the mutation of such a spec is the identity |
| `ConversionTypeCorrect`, `ConversionAllOrNothing`, `ConversionThereAndBack` | `ConversionProofs` | `ConversionInv`: the objects before the next one are converted, each in its place, and a response is a success only at the end of the list; then what each conversion keeps (`NamedTo`, `NamedFrom`) and how its result is read (`NoWayBack`, `WayBack`) |

`WakeupSafe` is the theorem that matters most. `NoMissedWakeup` is far from
inductive: it says nothing of the caches the worker decides by, nor of what the
loop has done so far. `WakeupInv` adds, for CRs that share no namespace:

- `Synced`: where no event is pending, a cached copy is what the server stores;
- `Housed`, `HousedCopies`: CRs name, and own quotas in, their own namespaces
  only, so that an event of a quota can name nobody but the CR it matters to;
- `Copied`: the CR in the worker's hands is the latest, or it will come again;
- `Placed`: the worker is in the half of `Reconcile` that its CR calls for;
- `Passed`: all targets the loop has gone past are as wanted and their status
  entries are right, or the CR will come again;
- `Awake` of every CR, which is the property.

The proof rests on one fact about writes, `Announced`: whoever writes, the
informers owe an event for everything that changed. From it follows what a step
leaves as it was (`SyncedKept`, `AlarmKept`, `SuitsKept`, `RestKept`), and from
that the three ways in which a step may leave the worker (`Ongoing`, `Ended`,
`Requeued`) and what writes of others do to it (`Overtaken`). One lemma per
action then has to say only what the action does. The delicate ones are
`UpdateQuotaWakes` (an update that changes nothing makes no event, but then
nothing was missing), `CreateQuotaWakes` (the early return counts on the event
of the new quota), `StopQuotaWakes` (a quota not in the cache may exist, its
event then pending) and `ReleaseFinalizerWakes` (a patch that changes nothing
was made from an old copy). TLC found `WakeupInv` to hold on the instances of
one and of two CRs before it was proved.

`PromiseImplemented` is the refinement, and it does not need namespaces to be
exclusive. `PromiseInv` keeps `Synced`, `Housed`, `HousedCopies` and `Placed`
from above and adds:

- `Recorded`: the histories know the present: what is wanted has been asked, and
  a limit that holds has been met;
- `Known`: every copy of a CR, the cached one and the worker's, says what was
  asked once, so whatever the worker does by it, it does as asked;
- `Fresh`: the worker's copy is the latest unless its flag says otherwise;
- `Done`: the entries of the status are the limits of the targets the loop has
  gone past, and if the copy is the latest, each of them was met under it.

The last is what the status counts on: `UpdateStatus` is refused for a copy
that is not the latest (`controller`:335 is an update, not a patch), and in
between others may have spoilt a quota that was in place, which `met` allows,
but not the spec. The proof shows for each action what it does to the mapped
variables (a stutter, or one of `LimiterPromise`'s actions) and, separately, that
`PromiseInv` survives it. TLC checks `PromiseKept` in `safety_two`, where the
status written as a patch (`UpdateStatusPatches`) breaks it.

`OwnerPrevails` is about CRs that share namespaces, so `Housed` is lost, and with
it the way in which `WakeupInv` knows whom an event concerns. Nor is `Synced`
enough: with two owners in play, an event that is pending in a namespace may be
for the other one. `OwnerInv` keeps `Copied` and `Placed` and replaces the rest:

- `Told`: a cached quota differs from the one stored only while events for the
  owners of *both* are pending;
- `Gone`: those quotas that the CR in the worker's hands owns, among the targets
  the loop has gone past, are as it wants them, or it will come again;
- `Content` of every CR that is not in the worker's hands: the same of all its
  targets. This gives the property.

The fact about writes is now `Informed`: whoever writes a quota, its owner
before and its owner after have an event. The ways to leave the worker, and
what writes of others do, come again (`OwnerOngoing`, `OwnerEnded`,
`OwnerRequeued`, `OwnerOvertaken`). The delicate step is the update
(`controller`:298), which keeps the owner reference: a CR writes its own limit
into a quota that another one owns, and it is the event of the owner, not its
own, that puts it right.

`ReleaseInv` says that the targets `reconcileDelete` has gone past have no quota
(`Cleared`) and that it gets to the finalizer only past all of them. It goes past
a namespace for one of two reasons. It has deleted the quota: then nobody makes
another, since the one worker that makes them is at this very CR, and what users
and the quota controller do needs a quota to be there. Or the namespace is gone
from the cache: then it is gone from the server, and no quota outlives it
(`Rooted`). A namespace that is created again defeats the second reason, hence
the precondition of `ReleasedClean`. `OnlyRelease` adds that no other step takes
the finalizer away.

For `Operator` and `TwoControllers` nothing is proved twice. A step of the
operator is one of the reconciler, or `Refused`, or nothing that the reconciler
sees (`OperatorStep`). `Refused` is the patch of a finalizer that the webhooks
turn down: the reconciler's call fails with no fault to account for it, which no
action of `ResourceLimiterController` does, so it is not covered by what is
proved there. It leaves what is stored and the caches as they were and puts the
name back (`RefusedLeaves`), and that is all the invariants ask of a failure
(`Requeued`, `OwnerRequeued`, `NothingHonours`).

Each process of `TwoControllers` is an instance of
`ResourceLimiterRefinementProofs`, which brings the lemmas of
`ResourceLimiterControllerProofs` with it. A step of one is a `Next` step of its
instance; to the other it is `Noticed`: the server's state changes, the informers
owe the events, and the copy in the worker's hands may have become old.
`NoticedOK`, `NoticedWakes`, `NoticedOwner` and `NoticedHonours` say that the
invariants of a process survive it, by the lemmas on writes of others
(`Overtaken`, `OwnerOvertaken`, `PromiseOvertaken`): these never asked whether
the other was a user or a controller. So both processes keep the invariants of
one that is alone. The rest of the module says that definitions of the two
instances mean the same (`OldSays`, `NewSays`, `SamePromise`, `SameHousing`).

That the promise is kept in a rollout was not to be expected: the old process
may write a status or free a namespace by a CR that the new one has long seen
changed. It is kept because `PromiseInv` is about one process and the stored
objects, never about who wrote them: a copy says what was asked once (`Known`),
a status made from an old copy is refused (`Fresh`), and a limit that the other
process put in place is `met`, too.

`ServerTrusted` counts on the order of resourceVersions. Updates that were
sent by processes killed since may arrive at any later time. `TrustInv`: of
processes that run one at a time (`Single`), each rewrites both configurations
with its own CA before it serves (`InTurn`), nothing has its CA before
(`Unwritten`), and afterwards every update still on its way names a
resourceVersion older than the one stored (`Overtook`), so it is refused.

`ThereAndBack` is proved of lists of any length, both halves of it: that what
became a v1beta2 object panics when it is read, for its first quota or for the
want of one (`NoWayBack`), and which list comes back of an applied v1beta1 object
(`WayBack`). `ConvertTo` and `ConvertFrom` are written as functions on
intervals, so the proof needs no induction, only what concatenation does
(`BehindAppended`).

The assumptions are those named in the modules (`NamesAssumption`,
`BoundsAssumption`, `DefaultsAssumption`, `PromiseAssumption`, ...): typing of the
constants, that the value for what is absent is none of the values for what is
there, and that the defaults are quantities. TLC evaluates them in every run.

Only model-checked: all liveness (`ConvergesAndRests`, `EndsLabelled`,
`NoQuotaLeak`, `Settles`, `RolloutSettles`), which is out of the prover's reach.

Not claimed of two controllers: `ReleasedClean`. Its proof counts on the one
worker that makes quotas being at the CR whose finalizer goes; a second process
may make one of an old copy at that time, and it is the garbage collector that
ends it.

## 5. Not modelled

- Leader election itself, when its flag is given: it is controller-runtime's.
  What happens without it, the default, is `TwoControllers`.
- CRs stored in one API version and read in the other: with the conversion
  strategy of the CRD chart commented out that is up to the API server's
  decoding of a v1beta1 object as a v1beta2 one.
- Certificates, TLS and flags, of the checker and of the conversion server; that
  every checker makes a CA of its own is in `CheckerStartup`. `cert.go` and
  `pkg/conversion/main.go` are cryptography and I/O without state to go wrong.
- Generated copies, scheme registration; Helm charts but for the number of
  replicas.
- ResourceLimiters without any spec: the mutating webhook's patch adds to it, and
  the API server refuses that.
- Namespaces under termination: a namespace goes at once with what is in it.
- The length of back-off delays, the loss of a connection while a reply is
  written, and bodies that the API server does not send to the checker.

## 6. Plan

Done, in this order, from the core outwards: `Cluster`,
`ResourceLimiterController`, `ValidateWebhook`, `CheckerStartup`, `Admission`,
`Conversion`; then what combines them: `LimiterPromise` with the refinement and
its proof, `Operator`, overlapping CRs, `TwoControllers`, the HTTP side of
`Conversion`.

All invariants, action properties and refinements of the passing runs are
theorems. What could come next:

1. Two controllers while the checker is out. Each part is proved: a refused patch
   (`RefusedLeaves`) is to the other process no step at all.
2. Runs for what section 3 lists as seen without one, the targets taken out of a
   CR first.
3. CRs read in the version in which they were not stored, once the chart settles
   on a conversion strategy.
