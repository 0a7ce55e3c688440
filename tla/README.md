# Verification of kubedns

kubedns manages DNS zones by Kubernetes objects: users create `HostedZone` and
`CoreDNSEntry` objects in a *dataplane* cluster, an **operator** deploys a DNS server
for every root zone into a *runtime* cluster, and a **REST server** answers lookups
from an in-memory model of zones and entries. This directory holds TLA+ models of
the parts that carry the control of the program, the TLC runs that check them and
proofs checked by TLAPS.

## 1. Inventory

| Component | State | Operations | Interaction | What is hard |
|---|---|---|---|---|
| Responsibility, validation (`common/`, `direct/hostedzone/validation.go`) | none; reads zone objects | `Check`, `GetRootInfo`, `ValidateZone`, `Validate` | called by every controller | chains of parents that change while they are read |
| Operator, HostedZone controller (`direct/hostedzone`) | work queue, request in progress, index of secret users; objects in two clusters | `Reconcile`, `ReconcileDeleting`, `ReconcileDeleted`, `HandleExternalResources`, `DeleteExternalResources`, `UpdateStatus` | API server, runtime cluster, token and namespace controllers, other instances | a request is a sequence of calls: users, failures, restarts and other instances come in between |
| Deployment modes (`mode_*.go`) | the index | `Prepare`, `AccessValues`, `Cleanup` | called by the operator | objects shared by several zones; an index lost by a restart |
| Status conditions (`direct/hostedzone/conditions.go`, `server/options.go`) | the conditions and the state of zones and entries | `transferConditions`, `summary`, `IsMaster`, `updateStatus` | operator and server write the same status objects | who owns the status is derived from the status itself |
| DNS modes (`dns*.go`) | none | `Manifests`, `GetCNames`, `Modify` | called by the operator | waiting for a load balancer |
| Zone model (`server/zonemodel`) | map of zones, linked objects, a lock | `AddZone`, `RemoveZone`, `GetZone`, `ResolveFQDN`, `ResolveIP` | fed by the server's controllers, read by REST handlers | links between objects that are replaced; walks under the lock |
| Server, HostedZone controller (`server/hostedzone`) | work queue, request in progress | `Reconcile`, `ReconcileDeleting`, `ReconcileDeleted`, `updateStatus` | API server, zone model | zones and parents arrive in any order |
| Entry controllers (`direct/entry`, `server/entry`) | work queues, requests in progress | validation of an entry, its state; its root zone and effective names | the status of an entry is written by both, and depends on the status of its zone, written by the zone controllers | two processes write one status; a trigger of one process does not reach the other |
| REST component (`server/servercomp`) | HTTP handlers, an index of entries | lookups | reads the zone model | pointers used after the lock is released |
| Replication (`replicate/`), a controller for zones and one for entries | work queues, requests in progress, map of (un)responsible zones; objects in two clusters | `Reconcile`, `ReconcileDeleting`, `ReconcileDeleted`, `IsResponsible`, `Handle`, `Delete`, `SetResponsibility` | source and target cluster, the controllers of the target | users of both clusters, failures and restarts between the calls of a request; a replica that goes while it is wanted again |
| Rendering (`pkg/render`), `cmd`, API types, assets | none | text templating, wiring | | |

What makes each of the modelled components correct:

* *Operator*: nothing is deployed that is not protected by a finalizer; objects shared by
  zones live as long as one of them needs them; a registered responsibility is final; the
  validation result follows every change; valid root zones are finally served and deletions
  complete.
* *Zone model*: links lead to registered objects, calls end, and lookups find the right zone, entries and names.
* *Replication*: a replica never outlives its original, follows content and responsibility of it, brings its
  status back, and goes when the original is deleted.
* *Server*: when all work is done the model is what the objects ask for, and the status says so.
* *Status*: operator and server write the same objects and neither takes back what the other reports; they
  come to rest; zones and entries finally show what their conditions, their root and their zone say.

`PROJECT.json` lists every component, the hazards at their lines, the map from definitions to
source lines, and the findings.

## 2. Modules

| Module | Models | Composed with |
|---|---|---|
| `Responsibility` | the zone object, the admission rules of its schema, and the decisions on it (pure operators) | extended by `Operator`, `ZoneServer`, `Replication`, `Reporting` |
| `ResponsibilityProofs` | theorems about `GetRootInfo` | extended by the theorem modules of the controllers |
| `Operator` | the operator's HostedZone controller, both deployment modes, DNS mode kubedns | |
| `MCOperator` | constants for TLC | |
| `OperatorProofs` | theorems about `Operator`: types, the registration, the validation, the finalizer, the generated namespace, the refinement of `Protection` | extends `ResponsibilityProofs` |
| `Protection` | abstract: the protocol of finalizers, with the theorem that it protects | implemented by `Operator` (one instance) and `Replication` |
| `Reporting` | the status of zones and entries, and the four controllers that write it | extends `Responsibility` |
| `MCReporting`, `ReportingProofs` | constants for TLC, theorems | |
| `ZoneModel` | the linked zones of the REST server | instantiated by `ZoneServer` |
| `Resolution` | the two lookups of the REST server on the linked zones, and what they should answer | extends `ZoneModel` |
| `MCResolution` | constants for TLC | |
| `ZoneModelProofs`, `ResolutionProofs` | theorems about the links, and about the lookups on them | the second extends the first |
| `ZoneServer` | the server's HostedZone controller, driving `ZoneModel` | |
| `MCZoneServer`, `ZoneServerProofs` | constants for TLC, theorems | instantiates `ZoneModelProofs` |
| `Replication` | the replication controllers of zones and entries | extends `Responsibility` |
| `MCReplication`, `ReplicationProofs` | constants for TLC, theorems, with the refinement of `Protection` | |

### Responsibility

A zone object has a spec (parent, class, runtime, and one Boolean for everything
`ValidateZone` checks on names, mail address and timers), a deletion mark, a set of finalizers
(each instance has its own, `factory.go:41-47`) and a status of which the registered
responsibility `Observed` and the Validation condition matter. All zones are in one API
namespace, as parent references never leave it. `Admitted` and `AdmittedUpdate` are the two
validation rules of the schema: users cannot write other objects.

`GetRootInfo` is a recursive function over (zone, zones passed). What it is for is defined beside it without recursion:
`Passed(os, z)` is the least set that contains `z` and, with a zone, its parent, and `ChainInfo` is the end
of that chain, found if there is one and every zone above `z` is alive. `RootInfoCorrect` proves that the two agree. `Check` is the code's
function with its last statement, which returns `false` where class and runtime match;
this statement is the definition `CheckResult`.

### Operator

One state variable per store: `objs` (API server), `queue` and `req` per instance (work queue and
the request of its single worker), `rt` and `ns` (objects and generated namespace in the
runtime cluster), `terminating` (services that are deleted but still there), `index` (in-memory users of the secret),
`account`, `secret`, `entries` (shared objects in the dataplane), `lb` (provisioned load balancers).

A request is a program counter `req[c].step` and the object as read and changed so far:

    Start --> patch --> prepare --> dataplane --> runtime --> status --> idle
         \--> delete --> cleanup --> unfinalize --> status --> idle
         \--> status (nested, invalid, not responsible)

Each arrow is an action that makes the calls of that part of the code; every call to a
cluster may fail (`...Fails`), leaving any subset of its several writes done. `Start` reads
the object and takes all decisions the code takes before its first write. Writes are of the three
kinds the code uses: status updates guarded by the resource version (`stale`), finalizer merge
patches that are not guarded and replace the whole list, and deployments. `Notify` and `Outdate`
are the watches and the version change every write implies. `UpdateStatus` includes the
trigger of the nested zones, which the code appends to it.

External, modelled from the way the code uses it: the queue semantics of controller-runtime, the API
server's finalizer rules (`Accepts`), the token controller (fills a secret whose service
account exists, removes one whose account does not), the namespace controller and the load
balancer.

A service of type LoadBalancer that is deleted remains until its load balancer has been released (`Terminating`, `ServiceGone`).
`Deployed` and `rt` are about what is there to stay. What is applied to a service under deletion is lost with it
(`Applied`): the object is found and changed, the request succeeds, and later the service goes. A request that finds it when deleting ends
with "still being deleted" and is repeated (`DeleteResourcesPending`, `request.go:541-543`). A namespace under deletion first deletes its content,
then goes (`NamespaceEmptied`, `NamespaceGone`).

Who is woken by what: Deployments come and go with a request for their zone (`OwnerTrigger`). Services do not: there is no trigger for them
(`def.go:44-48`), although `dns-kubedns.go:47` relies on one ("service change trigger reconciliation -> no backoff"), and the `ownerFilter`
of `factory.go:69` names their group "core", which is empty in the API. The token secret triggers its users in the index of the instance,
if the runtime cluster, which is watched for it, is the dataplane (`SecretTrigger`).

`Serving` is what a server needs to answer: Deployment, Service, in RuntimeMode the access secret, the service account with its roles, and
the token. The account is shared by the root zones of a namespace and deleted with any of them (`delete.go:55-58`).

`isLoadBalancerReady` takes a load balancer with a host name for ready, and never one with addresses only: `request.go:604` keeps an address
where parsing it *failed*. Which load balancers have a host name is a constant (`HostNames`).

### ZoneModel and ZoneServer

`ZoneModel` has a heap: `AddZone` reuses the registered object of a key or creates one, and
objects that are not registered any more may still be linked. The order of the code is kept:
relink the children of a new object, take the zone out of its old parent's children, enter it
into the new one's, set the parent, hand the serial number up. Serial numbers and names are
left out. The walk that hands the serial number up is not: if it meets a set of objects each of which has
its parent in the set (`Trapped`, `Endless`: a cycle), the call never returns and `lock` stays `"held"`. `Obj` bounds the number of
objects ever created.

`ZoneServer` runs one request at a time: it reads the object and its parents (`Start`), calls the
model (`Feed`), and writes the status. The two ways of reporting (state or Server condition) are
one field. A request for a vanished
object may come without the object, depending on the library, and `CreateRequest` then panics and
is repeated: such a request never starts, which the specification, having no fairness, allows.

### Resolution

A lookup holds the read lock, so it is an operator on a state of `ZoneModel`, and the run checks it in
every state the calls can lead to. Domain names are sequences of labels. `ResolveFQDN` yields the
*set* of answers, since the search takes whatever nested zone a map yields first. What is expected
(`Expected`) is defined the other way round, from the registered zones and their parent names upward:
the zone with the longest full name, or the topmost delegation below it. For a delegation the answer is the code's
(`model.go:244`): no zone, and the delegated name as its domain, which the handler can do with (`comp_names.go:24`). The test "provide forwarded NS"
(`model_test.go:243-253`) expects the zone that holds the entry, and `mandelsoft.de.`, instead; a focused test of the same suite
(`FIt`, `model_test.go:270`) keeps it from being run. `NamesResolved` says nothing for this expectation. Preconditions are that
the children maps are right (`Exact`; they may not be, see the end of section 3) and that no two
names lay claim to the same domain (`Unambiguous`), so neither property catches what
becomes of lookups where this is not so (`model.go:127`, `model.go:214`, `model.go:286`). Domain names and entries are constants; every zone has at least one
name (`hostedzone_types.go:51`), and the root domain "." is left out. The recursions of the code are recursive functions, over the objects and
over the zones; where the links go in circles they have no value, as the code does not return, and the properties ask
nothing there.

### Replication

`src` and `tgt` are the objects of the two clusters; a replica stands under the name of its original,
as `MapKey` is one-to-one. `req` has the one request each controller works on:

    Start --> patch --> replicate --> status --> idle
         \--> release --> unfinalize --> status --> idle

`patch` and `unfinalize` write the finalizer of the original, `replicate` creates or updates the replica,
`release` deletes it. Reading the replica and writing it is one action: the worker of that
kind is the only one to create or update replicas, and a replica deleted in between is a failing call.
`unresponsible` is the map of the zone handler, which decides whether children and entries
are triggered. `UpdateLost` is the update whose error is assigned to a variable of the inner
block (`logic.go:115`) and gets lost; `lost` remembers the object until the next write of its replica. The target's controllers
(external) hold a replica by finalizers of their own and let it go when it is deleted.

### Protection

What a finalizer promises, without a cluster, a request or a failure: per key an object that is absent,
free, guarded (it has the finalizer) or ending (it is deleted and waits for the finalizer), and the set of keys
something is *held* for elsewhere. Something is taken only below a finalizer, and the finalizer goes only when nothing is held.
`Operator` and `Replication` both instantiate it:

| | `phase` | `held` |
|---|---|---|
| `Operator` | `Phase(objs[z])` | zones with any deployed object, in any runtime |
| `Replication` | `Phase(src[x])` | originals with a replica in the target |

`FinalizerProtocol` (`P!Spec`) is checked as a temporal property in the runs `guard` and `replica` and proved in general. In
`Operator` it holds of a single instance: two instances that both deploy a zone overwrite each other's finalizer.

### Reporting

`Operator` and `ZoneServer` each model one process in depth. `Reporting` puts both processes side by side,
with their entry controllers, and looks at the one thing they share: the status of the same objects. A zone has four conditions
and a state, an entry two conditions, the root zone, its names and a state. A request is what it reads and what it
writes: `Start` computes the new status from all objects read (`ZoneReport`, `EntryReport`, `Served`,
`EntryServed`), `UpdateStatus` writes it if nobody wrote in between, and triggers the dependents *in its own process* only
(`Trigger`). The finalizer patch and the deployment are part of the start, as `Operator` has them in detail; a deployment is a
stage (nothing, credentials requested, started, up), and one failure may take it down again. The token secret and the service account are
those of `Operator`: the request of a zone creates them, the deletion of any zone takes the account and so the token of all, and the secret
triggers its users only if runtime and dataplane are one cluster (`SameCluster`). A request without a token ends, and the zone rests until
it is woken; `waits` remembers why: the token was not there, or the secret could not be read, which the code
treats alike (`request.go:325-355`) and which nobody resolves but the periodic repetition. `IsMaster` is the code's
function of the conditions read, so who owns a status can change while requests are open.

`ZonesSettled` asks of a root zone that waits for the token that the token is really missing, with one cluster; with separate clusters
it may be there and the zone still rest, and only `ZoneReady`, with the repetition, says that it goes on.

The controllers start on a cluster that may hold any objects already (`Init`), which stands for all orders of creation
before and for restarts. An entry whose zone could not be read is remembered in `missed`: the code returns that
error without a retry.

When a missing parent appears, the server does not look at the zones nested below it again: their requests have
failed for good (`server/hostedzone/request.go:23-34`), and only the deletion of a zone triggers its children there. So the
condition `server` of a nested zone may be left as "false" until the operator writes the status of that zone. `ZonesSettled`
therefore asks for the report of the server on root zones only, and `ZoneReady` lets a nested zone stay with such
a report; what a nested zone shows of its deployment is claimed at every depth.

## 3. Runs

Bounds: `MaxEdits` user operations, `MaxFailures` failing calls, `MaxCrashes`/`MaxRestarts`
restarts, `Obj` zone objects. Two zones are the smallest number with nesting, moving, cycles
and shared objects; every sharing in the code is between two users. Three edits allow to create two zones and to change
or delete one, or to delete and recreate it (so that it meets its own service under deletion), while requests are open; failures and a restart
can fall on any step. Symmetry over zones (and over
objects in `links`) is used only in runs without liveness; the temporal properties of those runs (`FinalizerProtocol`,
`RegistrationStable`) are about single steps and treat all zones alike. `replica` has a zone and an entry of it, one for each
controller: requests on different keys meet only in the map and the triggers, and what is claimed is claimed for each
object; the proof of `ReplicaGuarded` covers any number. `reported` has a VIEW (`Effective`): what a request has computed is left
out once its object was written by somebody else, as it will not be written any more (`UpdateConflict`) and no guard looks at it.

| Run | Checks | Shows |
|---|---|---|
| `guard` | `TypeOK`, `ResourcesGuarded`, `ValidationSettled`, `FinalizerProtocol` | separate clusters, 2 zones, 3 edits, 2 failures and a restart: nothing is deployed unprotected, every step is one of the protocol; when all is quiet the validation of every zone some instance looks at is right, except below a missing zone, whose removal triggers nobody |
| `live` | `RootServed`, `NestedUndeployed`, `DeletionCompletes` | one cluster, local mode, 3 edits, a failure, a restart, periodic repetition: a service that goes after it was applied again, and an account that goes with another root, come back |
| `liveapart` | `NamespaceUnused`, `NameserverPublished` | separate clusters, generated namespace, DNS mode kubedns, 3 edits, a failure, periodic repetition; the load balancer of one zone has a host name, that of the other an address |
| `sharded` | `RegistrationStable` | two instances race for one zone, 2 edits |
| `links` | `TypeOK`, `ParentCurrent`, `ChainsEnd`, `NamesResolved`, `AddressesResolved` | 3 zones, 3 objects, calls in any order; names with overlaps, delegations, 28 names asked for |
| `replica` | `TypeOK`, `ReplicaGuarded`, `RootsSettled`, `DeletionCompletes`, `FinalizerProtocol` | a zone and an entry, 3 edits in either cluster, a failure and a restart |
| `settled` | `TypeOK`, `ModelSettled` | 2 zones, 3 objects, 3 edits, a restart |
| `reported` | `TypeOK`, `ZonesSettled`, `EntriesSettled`, `NoReportLost` | one cluster, the four controllers in slave mode on a root zone, a nested zone and an entry, two of them at a time; any of them may exist at the start; an edit and a failure |
| `ready` | `StatusRests`, `ZoneReady` | separate clusters, the two zone controllers in slave mode on a root zone and a nested one, an edit, periodic repetition: the two processes do not keep each other busy, and a valid zone becomes Ready |

The other runs show where the code departs from what its documentation, a comment or a log
message says; each checks one property and TLC finds a violation (`findings` in
`PROJECT.json` quotes the line).

| Run | Property | What the counterexample shows |
|---|---|---|
| `restart` | `NamespaceUnused` | after a restart the index of users is empty, and the namespace of all zones is deleted with the first one |
| `livelock` | `RootServedAgain` | requests for a vanished zone keep revoking the token another zone waits for, which is never served, with periodic repetition either |
| `hang` | `CallsEnd` | two zones exchange their roles: a cycle of parents in the model, and a call that never ends |

Further behaviour of this kind is in the models, without a run of its own: `ChangedResponsibility` (a
zone that asks for another runtime is undeployed, but nobody clears the registration in its status, and
the same instance deploys it again, for ever); `SameClass` (classes are compared as pointers, so with the option `--class` no zone with a known root is
replicated); `UpdateLost` (see above); `Start` of `Replication` (a zone that is deleted without a replica stays in the
handler's map, and its dependents are not triggered when it comes back with the same responsibility); `resolveIP` (two zones that exchange their roles one after the other remain in each
other's children, and a reverse lookup does not end); `CheckResult` (a class that
matches is refused, so a zone with a class is served by nobody, and without a class the
runtime is not compared); `DeleteResources` (the nameserver's entry stays, the service account
shared by all zones goes); `SecretTrigger` (the watch for the token is on the
runtime cluster, so with separate clusters only the periodic repetition continues a waiting request);
`LoadBalancerReady` (no trigger watches services, against the comment at `dns-kubedns.go:47`); `isLoadBalancerReady` (a
load balancer with addresses only is never taken for ready, so in DNS mode kubedns its zone never gets the nameserver's entry, although the lines below it,
`dns-kubedns.go:75-77`, are for addresses); `ServiceGone` (a root zone that is deleted and created again while its
service is still being deleted loses it later, and only the periodic repetition brings it back); `Records` (see Resolution); `Reconcile` of `ZoneServer` (a zone that is not the
server's any more keeps the state "Ok"); `Start` of `ZoneServer` (a nested zone created before its parent is never served: its request fails for
good, `server/hostedzone/request.go:33`, and a parent that appears triggers no children); `Link` of `ZoneModel` (a child is entered into its parent's map
under the *parent's* name, `model.go:127`, but is looked up and deleted under its own, so siblings replace each other and
moved or removed zones stay); `EntryService` of `Reporting` (the server looks at the state of the entry's zone when the entry
changes; a zone that becomes Ready later triggers nothing in the server's process, so in slave mode the entry keeps "Problem",
with `RootZone` naming its zone, `server/entry/request.go:76-78`, where `corednsentry_types.go:140-143` speaks of the effective root zone);
`EntryLookupFails` (`direct/entry/request.go:126`, an error without a retry); `ZoneReport` (an invalid edit of a Ready zone only sets the Validation condition and
keeps the state "Ready", `direct/hostedzone/request.go:246` returns before the summary); `IsMaster` (on a new object both processes may
take the status for theirs until the first write of either; and a server in plain mode next to an operator drops its conditions
again and again).

Deadlock is not checked: with its bounds used up and no work left, the system rests.

Every property of a passing run has a mutant: a plausible slip in the mapped code
(operators named `Definition_slip`) under which TLC finds the property violated.

### Fairness

`WF` of the steps of a request: a worker goes on; calls have time limits. `SF` of `Start` for each key: a queue
is worked off in order, so a key that waits is taken up even if others come and go. `WF` of the
clusters' controllers, and `SF` of the token controller, which a service account that is deleted and
created again does not starve (run `livelock` finds its violation even so, and with the periodic repetition).
Services under deletion go and namespaces are emptied (`WF`): the load balancer is released in finite time. A token without
account is finally removed (`WF` of `TokenRevoked`).
`WF` of the periodic repetition (300 s, `factory.go:90`) where `Interval` is TRUE, in `live`, `liveapart` and `livelock`: without it a service or an account that goes
after the last request would be gone for good. Users, failures and crashes have no
fairness; they are bounded. In `replica` the target's controllers finally
let a deleted replica go (`WF` of `TargetReleases`): they are the operators of the target, whose
deletions complete. In `ready` a request ends (`WF` of `Work`), the clusters' controllers run, and `Repeat`
has `SF`: the operator repeats the requests of zones periodically, and this is modelled only for an empty queue of its controller, as the
period (300 s, `factory.go:90`) is long against the time a queue takes; without that restriction repetition alone would fill the queue for
ever. `ZoneServer` and `ZoneModel` are checked for safety only.

## 4. Proofs

| Theorem | States | Assumes |
|---|---|---|
| `ResponsibilityProofs!RootInfoCorrect` | `GetRootInfo(os, z) = ChainInfo(os, z)` | `Linked`: parents are zones |
| `ResponsibilityProofs!RootInfoStep` | a zone below a living parent has the root of its parent | `Linked` |
| `OperatorProofs!TypeCorrect` | `Spec => []TypeOK` | |
| `OperatorProofs!RegistrationKept` | `Spec => RegistrationStable` | |
| `OperatorProofs!ValidationSettles` | `Spec => []ValidationSettled` | |
| `OperatorProofs!NothingLeftBehind` | `Spec => []ResourcesGuarded` | `Alone`: at most one instance |
| `OperatorProofs!NamespaceKept` | `Spec => []NamespaceUnused` | `MaxCrashes = 0` |
| `OperatorProofs!OperatorProtects` | `Spec => FinalizerProtocol` | `Alone` |
| `Protection!ProtocolProtects` | `Spec => [](TypeOK /\ Protected)` | |
| `ZoneModelProofs!TypeCorrect` | `Spec => []TypeOK` | |
| `ZoneModelProofs!ParentsCurrent` | `Spec => []ParentCurrent` | |
| `ZoneModelProofs!WalksEnd` | `Spec => []ChainsEnd` | |
| `ResolutionProofs!AddressesCorrect` | `Spec => []AddressesResolved` | |
| `ResolutionProofs!NamesCorrect` | `Spec => []NamesResolved` | |
| `ZoneServerProofs!ServerTypes` | `Spec => []TypeOK` | |
| `ZoneServerProofs!ModelMirrors` | `Spec => []ModelSettled` | |
| `ReplicationProofs!TypeCorrect` | `Spec => []TypeOK` | |
| `ReplicationProofs!ReplicaNotOrphaned` | `Spec => []ReplicaGuarded` | |
| `ReplicationProofs!ReplicationProtects` | `Spec => FinalizerProtocol` | |
| `ReplicationProofs!RootsReplicated` | `Spec => []RootsSettled` | |
| `ReportingProofs!ReportingTypes` | `Spec => []TypeOK` | |
| `ReportingProofs!ReportsKept` | `Spec => NoReportLost` | |
| `ReportingProofs!ZonesSettle` | `Spec => []ZonesSettled` | |
| `ReportingProofs!EntriesSettle` | `Spec => []EntriesSettled` | |

All of them use the assumptions on constants, and nothing else but what the last column says.

* **RootInfoCorrect.** The walk is a recursive function whose recursion ends because the zones passed grow and `Zones` is finite.
  The library's theorem on recursive definitions takes an operator as its parameter, which the provers here cannot instantiate. So the proof
  names a solution of the equation (`Outcome`, from `Passed`), shows that it is one (`PassedStep`, `CycleEndless`, `OneEnd`:
  a chain has at most one end, a cycle none), and that two solutions never differ: of the walks
  on which they do take one with the fewest zones left to pass; its next step is one with fewer. `RootInfoStep` is the form the
  controllers need: the walk that starts at a zone is the one that starts at its parent, although it remembers one zone more.
* **TypeCorrect.** In `Operator`, `TypeOK` is not inductive: a step after `Start` uses the object of the
  request, so `TypeInv` adds that an open request has a zone, and an object wherever its
  step needs one (`Sound`).
* **NothingLeftBehind.** A finalizer is there while something is deployed because of what an
  open request knows: in the steps that deploy, the object in the API server, if it exists, has the finalizer;
  when a request reaches `cleanup` or `unfinalize`, nothing of the zone is deployed any more. `GuardInv` states both. It needs
  a single instance: a finalizer patch replaces the list, so another instance may remove the
  finalizer of this one.
* **RegistrationKept.** Any number of instances, none of which sees the others. The induction is about open requests (`RegInv`): one
  that has a status to write, whose object nobody wrote since it was read (`~stale`), has the registration of that object in it if there is one;
  and a request that patches or deletes has no status to write (`Late`). A status update needs an object that is not stale, so what it writes
  is what it finds; every other write leaves the status alone.
* **ValidationSettles.** Any number of instances and zones, any options. `ZonesCovered` says of a zone that shows something else than
  it should: it waits in the queue of each instance that looks at it, or a request is due on one of the zones on the way to its root,
  or its own request has a status to write. A change of a zone therefore travels down: the end of each request on a zone triggers the zones nested below
  it, and a zone can be wrong only as long as something above it is under way. That a zone and its parent mean the same root is `RootInfoStep`;
  which zones can be affected by a change at all is `AgreeAbove`.
* **NamespaceKept.** Every zone with deployed objects, or about to get them, is in the index of its instance; a namespace under
  deletion is therefore empty (`Shares`). A restart empties the index, so the theorem
  excludes it; run `restart` shows what happens otherwise. Any number of instances is covered,
  since nobody writes another's runtime.
* **ParentsCurrent.** `Current` says more than the property: a registered zone's parent pointer
  is the registered object of its parent's name if there is one, and objects not yet created are linked by nobody.

* **WalksEnd.** As long as no call hangs (`lock` is not `"held"`), no set of objects traps the walk along the parents. Links change in `Assign` only, and
  there only the parent of one object: a set that traps the walk afterwards contains this object, so the walk of the same call gets there (`AssignEnds`) and
  is `Endless`: the call that closes a cycle is the one that hangs. Relinking the children of a new object cannot close one, as nobody
  has the object as a child's parent before (`AssignLinks`).
* **AddressesCorrect.** The code's reverse lookup goes down the children maps (`resolveIP`), what is expected goes up the parent names (`FullNames`). Both
  are recursive functions, and the equation of a recursion holds only if it has a solution; as with `GetRootInfo` one is named, here for any monotone equation
  at once: the least fixed point (`FixedPoint`) of a recursion that unites what it yields for the objects or zones below (`Solution`,
  used by `NamesSolvable`, `InfosSolvable`, `SearchSolvable`). With the equations, a minimal counterexample settles each direction:
  on the way up there is a highest zone as parents do not go in circles (`ZonesEnd`, from `WalksEnd`), on the way down a lowest one (`LeavesExist`).
* **NamesCorrect.** The code goes down from zone to zone, each time by the longest name the rest of the query ends with; what is expected is the longest
  of all full names. Both are told in terms of the claims on the query (`Claims`): the zones below with a full name the query ends with. The search has
  `Arrived` at a zone by a full name if every other claim is shorter, or one of a zone below by an extension of this name. At the start
  that is so (`FirstArrival`); a step keeps it (`NextArrival`), as `Unambiguous` leaves only one nested zone to go to, and what a shorter
  name of it ends with has no claims below (`ShorterEnds`); where no step is left this zone has the longest full name (`LastArrival`). There, the shortest of the `Cuts` of the
  rest is the topmost delegation (`RecordsExpected`). That every search gets there is `LeavesExist` again (`SearchFinds`). Ends of
  sequences are settled first, from `SuffixParts` (a suffix is what remains after a first part) to `SuffixesNested`.

* **ServerTypes, ModelMirrors.** The model's actions are those of `ZoneModel`, so its theorems are taken over (`MP!`), and what a call
  does to one entry of the index is stated once (`AddZoneEffect`, `RemoveZoneEffect`). `SettledInv`: a zone waits in the queue, or the open request has decided
  on the object as it is now, or the model is right about it. A decision that was overtaken by an edit is harmless as the edit has enqueued the zone,
  and the queue hands out a key only when the request on it is done.
* **ReplicaNotOrphaned.** The inductive invariant adds to the property what an open request relies on (`Covered`):
  in `replicate` the original has the finalizer, and nobody but this request removes it;
  in `unfinalize` there is no replica any more, and nobody but this request creates one. Zones and
  entries have different keys, so the two controllers do not disturb each other.

* **RootsReplicated.** `RootsCovered`: a root zone that does not wait in the queue is replicated as it is, or the request at it is `OnCourse`, that is, has read the
  object as it is and has its replica, or the status of the replica, still to write. The lost update (`UpdateLost`) is in it: the content of the objects in `lost` is left out
  until their replica is written again.
* **OperatorProtects, ReplicationProtects.** With the invariants of `NothingLeftBehind` and `ReplicaNotOrphaned` every action of the
  detailed modules is mapped to a step of `Protection` or to a stutter: users' edits to `Create`, `Vanish`, `Delete`; the finalizer patches to `Protect` and
  `Release`; deployments, the creation of replicas, to `Take`; deletions, and a namespace or replica that disappears, to `Lose`.
  The lemmas `LosingStep`, `TakingStep`, `WritingStep` are the three shapes these steps have.
* **ReportsKept.** An open request whose object was not written since (`Fresh`) has the others' part of the status as it is on
  the object. `Shapes` goes with it: every status has the fields of its kind, so "the conditions of the operator" means the same on
  both sides. What the values are does not matter. In a start, `Report`
  is what each controller's computation has to satisfy: the operator's leave the server's condition as it is, the slave's leave
  everything else.

* **ZonesSettle, EntriesSettle.** `Settling` has six parts: types; only root zones have the finalizer (`Claimed`); an open request that will neither write nor be repeated is followed by another one (`AllLeft`); and three about what is shown. A root zone shows its deployment, or waits for its
token as its last request left it, or a request is due (`Due`: a request in the queue or open): a token that is issued or revoked, a
deployment that comes or goes leaves a zone shown as it is, or makes a request due (`EnvKept`); a nested zone shows what its root shows, or some zone between the two is due
  (`ZonesCovered`, as in `ValidationSettles`); an entry shows what a request would make of it now, or it or a zone above is due; and a root zone the
  server serves shows its report, or the server is due. Each worker's steps are taken separately (`WorkerCovers`: the request of the worker itself; `OthersCover`: the
  requests it overtakes are stale and repeated).

Assumptions on constants are named (`ZonesAssumption`, `ValuesAssumption`, `NamesAssumption`, `ControllersAssumption`,
`OperatorAssumption`, `ZoneModelAssumption`, `ResolutionAssumption`, `ServerAssumption`, `ReplicationAssumption`, `ReportingAssumption`) and evaluated by TLC in the runs.

Only model-checked: the liveness properties `RootServed` (of `RootServedAgain`, which is less, only a violation is shown), `NestedUndeployed`, `NameserverPublished`, `DeletionCompletes`, `StatusRests`, `ZoneReady`
(fairness and ENABLED are out of the prover's reach). Every invariant and action property of a passing run is proved. `guard`,
`replica`, `settled` and `reported` remain worth running: they show that the situations the theorems speak of occur, and
that a slip in the code breaks the properties.

## 5. Not modelled

* Serial numbers, the contents of records, changes of domain names; what a REST handler reads after the lookup.
* Texts and reasons of conditions, events and log messages.
* With `Replication`, the names of replicas (`--target-namespace`) and objects that are replicas themselves.
* In `Reporting`: changes of class, runtime and parent of a zone (`Operator`, `ZoneServer` have them), the texts of
  `EffectiveDomainNames` (set or not), more than one operator.
* Lists of a cache that lag behind the API server: reads see the current objects. Writes in
  between are covered by `stale`.
* More than one worker per controller; the controllers are run with the default of one.
* DNS mode gardener (other objects in the same places), rendering, options, main program.

## 6. Plan

Done: `Responsibility`, `Operator`, `ZoneModel`, `Replication`, `Resolution`, `ZoneServer`, `Reporting`, `Protection`, and the theorems of
section 4, which cover all safety properties of the passing runs.

1. `NothingLeftBehind` and the refinement for several instances that are responsible for different zones.
2. The REST handlers, which keep a zone pointer after the lock is released; the serial number with its width;
   domain names that change.
3. The server's side of entries in `Reporting` in plain mode, with what remains reported when a zone changes later.
