------------------------------ MODULE Operator ------------------------------
(***************************************************************************)
(* The HostedZone controller of group "operator" (direct/hostedzone): it   *)
(* deploys one DNS server per root zone into a runtime cluster and removes *)
(* it again.  Every element of Controllers is an instance of the program   *)
(* with its own work queue, one worker, and an in-memory index.            *)
(*                                                                         *)
(* A reconcile request is modelled step by step: it reads the object once  *)
(* and then makes its calls to the clusters one after the other, so users, *)
(* other instances and a crash may come in between.                        *)
(***************************************************************************)
EXTENDS Responsibility

CONSTANTS
    Shared,          \* BASE, the name of what the zones of a namespace share
    SameCluster,     \* runtime and dataplane are the same cluster
    FixedNamespace,  \* option --runtime-namespace is given
    KubeDNS,         \* DNS mode "kubedns": nameserver names are own entries
    HostNames,       \* zones whose load balancer is reached by a host name
    Interval,        \* requests are repeated periodically
    MaxEdits,        \* bound on changes by users
    MaxFailures,     \* bound on failing calls to a cluster
    MaxCrashes       \* bound on restarts of an instance

ASSUME OperatorAssumption ==
    /\ {SameCluster, FixedNamespace, KubeDNS, Interval} \subseteq BOOLEAN
    /\ MaxEdits \in Nat /\ MaxFailures \in Nat /\ MaxCrashes \in Nat
    /\ Shared \notin Zones
    /\ HostNames \subseteq Zones

VARIABLES
    objs,     \* the HostedZone objects in the dataplane
    queue,    \* per instance: the keys waiting for a reconcile request
    req,      \* per instance: the request in progress
    rt,       \* per instance: the objects deployed in its runtime cluster,
              \* the ones under deletion excepted
    terminating, \* per instance: zones whose deleted service still exists
    ns,       \* per instance: the generated namespace in the runtime cluster
    index,    \* per instance: zones known to use the service account secret
    account,  \* service account and RBAC objects exist in the dataplane
    secret,   \* the service account token secret in the dataplane
    entries,  \* zones with a CoreDNSEntry for their nameserver
    lb,       \* per instance: zones whose load balancer is provisioned
    used      \* how much of each bound has been consumed

vars == <<objs, queue, req, rt, terminating, ns, index, account, secret, entries,
          lb, used>>

\* Everything outside the API objects, the queues and the requests.
clusters == <<rt, terminating, ns, index, account, secret, entries, lb>>

-----------------------------------------------------------------------------
\* Mode: LocalMode runs the servers in the API namespace, RuntimeMode apart.
LocalMode == SameCluster /\ ~FixedNamespace

\* The objects rendered for the runtime; the access secret has a shared name.
Manifest ==
    [kind : {"Deployment", "Service"}, name : Zones]
      \cup {[kind |-> "Secret", name |-> Shared]}

Service(z) == [kind |-> "Service", name |-> z]

RuntimeManifests(z) ==
    {[kind |-> "Deployment", name |-> z], Service(z)}
      \cup (IF LocalMode THEN {} ELSE {[kind |-> "Secret", name |-> Shared]})

\* Instance c runs (parts of) a DNS server for zone z.
Deployed(c, z) == \E m \in rt[c] : m.name = z

\* The server runs and may read the dataplane: in RuntimeMode by a token, which
\* needs the service account and its roles as the LocalMode does.
Serving(c, z) ==
    RuntimeManifests(z) \subseteq rt[c] /\ account /\ (LocalMode \/ secret = "token")

Steps == {"idle", "patch", "prepare", "dataplane", "runtime",
          "delete", "cleanup", "unfinalize", "status"}

Request == [step   : Steps,
            zone   : Zones \cup {NoZone},
            obj    : HostedZone \cup {Absent},  \* r.Object, as changed so far
            dirty  : BOOLEAN,    \* its status differs from the one read
            stale  : BOOLEAN,    \* the object was written by somebody else
            repeat : BOOLEAN]    \* the access values are not complete yet

Idle == [step |-> "idle", zone |-> NoZone, obj |-> Absent,
         dirty |-> FALSE, stale |-> FALSE, repeat |-> FALSE]

\* A request on object o of zone z, read as orig, about to make step s.
NewRequest(z, s, orig, o) ==
    [step |-> s, zone |-> z, obj |-> o,
     dirty |-> o # orig, stale |-> FALSE, repeat |-> FALSE]

Advance(c, s) == [req EXCEPT ![c] = [@ EXCEPT !.step = s]]

\* Watches: a write of zone z reaches all queues and makes open reads old.
Notify(q, z) == [c \in Controllers |-> q[c] \cup {z}]

Outdate(r, z) ==
    [c \in Controllers |-> IF r[c].zone = z THEN [r[c] EXCEPT !.stale = TRUE] ELSE r[c]]

Requeue(c) == [queue EXCEPT ![c] = @ \cup {req[c].zone}]

\* TriggerChildren: the nested zones found by the parent index.
Children(os, z) == {y \in Zones : os[y] # Absent /\ os[y].spec.parent = z}

\* secretTriggerFactory: the watch is on the runtime cluster, the secret in
\* the dataplane.
SecretTrigger(q, ix) ==
    [c \in Controllers |-> IF SameCluster THEN q[c] \cup ix[c] ELSE q[c]]

\* ownerFilter and the owner trigger: only deployments are given an owner and
\* watched, so a service comes and goes unnoticed.
OwnerTrigger(q, c, r) ==
    [q EXCEPT ![c] = @ \cup {z \in Zones :
        ([kind |-> "Deployment", name |-> z] \in rt[c])
          # ([kind |-> "Deployment", name |-> z] \in r)}]

\* A service of type LoadBalancer that is deleted exists until the load
\* balancer has been released.
Terminating(c, ms) == terminating[c] \cup {z \in Zones : Service(z) \in ms \cap rt[c]}

\* One more failing call.
Failure ==
    /\ used.failures < MaxFailures
    /\ used' = [used EXCEPT !.failures = @ + 1]

-----------------------------------------------------------------------------
Init ==
    /\ objs = [z \in Zones |-> Absent]
    /\ queue = [c \in Controllers |-> {}]
    /\ req = [c \in Controllers |-> Idle]
    /\ rt = [c \in Controllers |-> {}]
    /\ terminating = [c \in Controllers |-> {}]
    /\ ns = [c \in Controllers |-> "none"]
    /\ index = [c \in Controllers |-> {}]
    /\ account = FALSE
    /\ secret = "none"
    /\ entries = {}
    /\ lb = [c \in Controllers |-> {}]
    /\ used = [edits |-> 0, failures |-> 0, crashes |-> 0]

-----------------------------------------------------------------------------
(* Users of the API. *)

Edit(z, o) ==
    /\ used.edits < MaxEdits
    /\ used' = [used EXCEPT !.edits = @ + 1]
    /\ objs' = [objs EXCEPT ![z] = o]
    /\ queue' = Notify(queue, z)
    /\ req' = Outdate(req, z)
    /\ UNCHANGED clusters

CreateZone(z, s) ==
    /\ objs[z] = Absent
    /\ Admitted(s)
    /\ Edit(z, NewZone(s))

UpdateZone(z, s) ==
    /\ objs[z] # Absent
    /\ s # objs[z].spec
    /\ AdmittedUpdate(objs[z].spec, s)
    /\ Edit(z, [objs[z] EXCEPT !.spec = s])

DeleteZone(z) ==
    /\ objs[z] # Absent
    /\ ~objs[z].deleting
    /\ Edit(z, IF objs[z].fin = {} THEN Absent
                                   ELSE [objs[z] EXCEPT !.deleting = TRUE])

-----------------------------------------------------------------------------
(* The decisions taken when a request starts. *)

(***************************************************************************)
(* handleObject, up to the first call to a cluster.  A nested zone only    *)
(* gets its status: transferConditions drops a condition the root does not *)
(* have, and valid is the one that concerns us here.                       *)
(***************************************************************************)
handleObject(c, z, o) ==
    IF ~Validate(objs, o.spec)
    THEN NewRequest(z, "status", o, SetValid(o, "false"))
    ELSE IF o.spec.parent # NoZone
    THEN LET root == objs[GetRootInfo(objs, z).root] IN
         NewRequest(z, "status", o,
                    SetValid(o, IF root.status.valid = "unknown" THEN "unknown"
                                                                 ELSE "true"))
    ELSE NewRequest(z, "prepare", o, SetObserved(SetValid(o, "true"), OptionsOf(c)))

\* After the finalizer patch: root information and parent are the ones read
\* before, when the zone was a root zone.
handlePatched(c, z, o) ==
    IF ~ValidateZone(o.spec)
    THEN NewRequest(z, "status", o, SetValid(o, "false"))
    ELSE IF o.spec.parent # NoZone
    THEN NewRequest(z, "status", o, SetValid(o, "true"))
    ELSE NewRequest(z, "prepare", o, SetObserved(SetValid(o, "true"), OptionsOf(c)))

Reconcile(c, z) ==
    LET o    == objs[z]
        info == GetRootInfo(objs, z)
    IN  IF ~AlnumFields(o.spec) \/ ~info.found
        THEN NewRequest(z, "status", o, SetValid(o, "false"))
        ELSE IF ~IsResponsible(c, o, objs[info.root])
        THEN NewRequest(z, "status", o, o)
        ELSE IF ChangedResponsibility(c, o)
        THEN NewRequest(z, "delete", o, o)
        ELSE IF o.spec.parent = NoZone /\ c \notin o.fin
        THEN NewRequest(z, "patch", o, o)
        ELSE handleObject(c, z, o)

ReconcileDeleting_validOnly(c, z) ==
    NewRequest(z, IF c \in objs[z].fin /\ ValidateZone(objs[z].spec)
                  THEN "delete" ELSE "status", objs[z], objs[z])

ReconcileDeleting(c, z) ==
    NewRequest(z, IF c \in objs[z].fin THEN "delete" ELSE "status", objs[z], objs[z])

\* The object is gone: pending resources are cleaned up, whoever owned them.
ReconcileDeleted(c, z) == NewRequest(z, "delete", Absent, Absent)

Start(c, z) ==
    /\ req[c].step = "idle"
    /\ z \in queue[c]
    /\ queue' = [queue EXCEPT ![c] = @ \ {z}]
    /\ req' = [req EXCEPT ![c] =
                 IF objs[z] = Absent THEN ReconcileDeleted(c, z)
                 ELSE IF objs[z].deleting THEN ReconcileDeleting(c, z)
                 ELSE Reconcile(c, z)]
    /\ UNCHANGED <<objs, clusters, used>>

\* A parent cannot be read: the request is repeated later.
LookupFails(c, z) ==
    /\ req[c].step = "idle"
    /\ z \in queue[c]
    /\ objs[z] # Absent /\ ~objs[z].deleting /\ objs[z].spec.parent # NoZone
    /\ Failure
    /\ req' = [req EXCEPT ![c] = NewRequest(z, "status", objs[z], objs[z])]
    /\ UNCHANGED <<objs, queue, clusters>>

-----------------------------------------------------------------------------
(* Taking responsibility: the finalizer patch of Reconcile. *)

(***************************************************************************)
(* A JSON merge patch carries the complete list of finalizers, computed    *)
(* from the object read at the start, and no resource version: it          *)
(* overwrites the list found now.  An object under deletion accepts no new *)
(* finalizer.                                                              *)
(***************************************************************************)
Accepts(o, fin) == o # Absent /\ (o.deleting => fin \subseteq o.fin)

PatchFinalizer(c) ==
    LET z   == req[c].zone
        fin == req[c].obj.fin \cup {c}
        o   == [objs[z] EXCEPT !.fin = fin]
    IN  /\ req[c].step = "patch"
        /\ Accepts(objs[z], fin)
        /\ objs' = [objs EXCEPT ![z] = o]
        /\ queue' = Notify(queue, z)
        /\ req' = [Outdate(req, z) EXCEPT ![c] = handlePatched(c, z, o)]
        /\ UNCHANGED <<clusters, used>>

\* The patch of an object that vanished is not a problem: the request ends.
PatchGone(c) ==
    /\ req[c].step \in {"patch", "unfinalize"}
    /\ objs[req[c].zone] = Absent
    /\ req' = Advance(c, "status")
    /\ UNCHANGED <<objs, queue, clusters, used>>

PatchRefused(c) ==
    LET o   == objs[req[c].zone]
        fin == IF req[c].step = "patch" THEN req[c].obj.fin \cup {c}
                                        ELSE req[c].obj.fin \ {c}
    IN  /\ req[c].step \in {"patch", "unfinalize"}
        /\ o # Absent /\ ~Accepts(o, fin)
        /\ req' = Advance(c, "status")
        /\ queue' = Requeue(c)
        /\ UNCHANGED <<objs, clusters, used>>

-----------------------------------------------------------------------------
(* HandleExternalResources: the deployment of a root zone. *)

(***************************************************************************)
(* Prepare and AccessValues.  In RuntimeMode the generated namespace is    *)
(* assured, the zone is registered as a user of the service account        *)
(* secret, and a missing secret is created; it has no token yet then.      *)
(***************************************************************************)
Prepare(c) ==
    LET z == req[c].zone IN
    /\ req[c].step = "prepare"
    /\ req' = [req EXCEPT ![c] = [@ EXCEPT !.step = "dataplane",
                                           !.repeat = ~LocalMode /\ secret # "token"]]
    /\ ns' = [ns EXCEPT ![c] = IF ~LocalMode /\ @ = "none" THEN "active" ELSE @]
    /\ index' = [index EXCEPT ![c] = IF LocalMode THEN @ \ {z} ELSE @ \cup {z}]
    /\ secret' = IF ~LocalMode /\ secret = "none" THEN "pending" ELSE secret
    /\ queue' = IF secret' # secret THEN SecretTrigger(queue, index') ELSE queue
    /\ UNCHANGED <<objs, rt, terminating, account, entries, lb, used>>

\* The namespace cannot be read or created: a temporary problem.
PrepareFails(c) ==
    /\ req[c].step = "prepare"
    /\ ~LocalMode
    /\ Failure
    /\ req' = Advance(c, "status")
    /\ queue' = Requeue(c)
    /\ UNCHANGED <<objs, clusters>>

\* The secret cannot be read or created: the error only becomes "repeat".
AccessFails(c) ==
    /\ req[c].step = "prepare"
    /\ ~LocalMode
    /\ Failure
    /\ req' = [req EXCEPT ![c] = [@ EXCEPT !.step = "dataplane", !.repeat = TRUE]]
    /\ ns' = [ns EXCEPT ![c] = IF @ = "none" THEN "active" ELSE @]
    /\ index' = [index EXCEPT ![c] = @ \cup {req[c].zone}]
    /\ UNCHANGED <<objs, queue, rt, terminating, account, secret, entries, lb>>

\* With incomplete access values the request ends here, without a requeue.
ApplyDataplane(c) ==
    /\ req[c].step = "dataplane"
    /\ account' = TRUE
    /\ req' = Advance(c, IF req[c].repeat THEN "status" ELSE "runtime")
    /\ UNCHANGED <<objs, queue, rt, terminating, ns, index, secret, entries, lb, used>>

ApplyDataplaneFails(c) ==
    /\ req[c].step = "dataplane"
    /\ Failure
    /\ \E a \in {account, TRUE} : account' = a
    /\ req' = Advance(c, "status")
    /\ queue' = Requeue(c)
    /\ UNCHANGED <<objs, rt, terminating, ns, index, secret, entries, lb>>

\* A generated namespace takes new objects only while it is active.
NamespaceUsable(c) == LocalMode \/ ns[c] = "active"

\* Applying to a service under deletion changes it but does not keep it.
Applied(c, ms) ==
    rt[c] \cup (ms \ {Service(z) : z \in terminating[c]})

\* Only a host name counts: addresses are collected where parsing them failed.
isLoadBalancerReady(c, z) == z \in lb[c] /\ z \in HostNames

\* Manifests of DNS mode "kubedns": the entry for the nameserver is written when
\* the load balancer is ready, else the request relies on a watch.
Published(c, z) ==
    IF KubeDNS /\ isLoadBalancerReady(c, z) THEN entries \cup {z} ELSE entries

(***************************************************************************)
(* The runtime manifests are applied, and then those of the DNS mode.      *)
(***************************************************************************)
ApplyRuntime_firstOnly(c) ==
    LET z == req[c].zone IN
    /\ req[c].step = "runtime"
    /\ NamespaceUsable(c)
    /\ rt' = [rt EXCEPT ![c] = Applied(c, RuntimeManifests(z))]
    /\ entries' = IF KubeDNS /\ isLoadBalancerReady(c, z) /\ Service(z) \notin rt[c]
                  THEN entries \cup {z} ELSE entries
    /\ req' = Advance(c, "status")
    /\ queue' = OwnerTrigger(queue, c, rt'[c])
    /\ UNCHANGED <<objs, terminating, ns, index, account, secret, lb, used>>

\* A server that is there already is taken for complete.
ApplyRuntime_once(c) ==
    LET z == req[c].zone IN
    /\ req[c].step = "runtime"
    /\ NamespaceUsable(c)
    /\ rt' = [rt EXCEPT ![c] = IF Deployed(c, z) THEN @
                                                 ELSE Applied(c, RuntimeManifests(z))]
    /\ entries' = Published(c, z)
    /\ req' = Advance(c, "status")
    /\ queue' = OwnerTrigger(queue, c, rt'[c])
    /\ UNCHANGED <<objs, terminating, ns, index, account, secret, lb, used>>

ApplyRuntime(c) ==
    LET z == req[c].zone IN
    /\ req[c].step = "runtime"
    /\ NamespaceUsable(c)
    /\ rt' = [rt EXCEPT ![c] = Applied(c, RuntimeManifests(z))]
    /\ entries' = Published(c, z)
    /\ req' = Advance(c, "status")
    /\ queue' = OwnerTrigger(queue, c, rt'[c])
    /\ UNCHANGED <<objs, terminating, ns, index, account, secret, lb, used>>

\* The manifests come in no particular order, and any of them may fail.
ApplyRuntimeFails(c) ==
    /\ req[c].step = "runtime"
    /\ NamespaceUsable(c)
    /\ Failure
    /\ \E ms \in SUBSET RuntimeManifests(req[c].zone) :
          rt' = [rt EXCEPT ![c] = Applied(c, ms)]
    /\ req' = Advance(c, "status")
    /\ queue' = OwnerTrigger(Requeue(c), c, rt'[c])
    /\ UNCHANGED <<objs, terminating, ns, index, account, secret, entries, lb>>

ApplyRuntimeRefused(c) ==
    /\ req[c].step = "runtime"
    /\ ~NamespaceUsable(c)
    /\ req' = Advance(c, "status")
    /\ queue' = Requeue(c)
    /\ UNCHANGED <<objs, clusters, used>>

\* An immutable field of the service: the object is deleted and retried.
NotModifiable(c) ==
    LET z == req[c].zone IN
    /\ req[c].step = "runtime"
    /\ NamespaceUsable(c)
    /\ Service(z) \in rt[c]
    /\ Failure
    /\ \E ms \in SUBSET (RuntimeManifests(z) \ {Service(z)}) :
          rt' = [rt EXCEPT ![c] = (@ \cup ms) \ {Service(z)}]
    /\ terminating' = [terminating EXCEPT ![c] = Terminating(c, {Service(z)})]
    /\ req' = Advance(c, "status")
    /\ queue' = OwnerTrigger(Requeue(c), c, rt'[c])
    /\ UNCHANGED <<objs, ns, index, account, secret, entries, lb>>

-----------------------------------------------------------------------------
(* DeleteExternalResources: the removal of everything deployed for a zone. *)

(***************************************************************************)
(* Rendering the manifests registers the zone in the index once more.  The *)
(* loops announced for the nameserver's DNS objects run over the ordinary  *)
(* manifests, so the CoreDNSEntry stays.  All deletions are requests only, *)
(* and the one of the service takes its time.                              *)
(***************************************************************************)
DeleteResources_keepsService(c) ==
    LET z == req[c].zone IN
    /\ req[c].step = "delete"
    /\ z \notin terminating[c]
    /\ rt' = [rt EXCEPT ![c] = @ \ (RuntimeManifests(z) \ {Service(z)})]
    /\ account' = FALSE
    /\ index' = [index EXCEPT ![c] = IF LocalMode THEN @ \ {z} ELSE @ \cup {z}]
    /\ req' = Advance(c, "cleanup")
    /\ queue' = OwnerTrigger(queue, c, rt'[c])
    /\ UNCHANGED <<objs, terminating, ns, secret, entries, lb, used>>

DeleteResources(c) ==
    LET z == req[c].zone IN
    /\ req[c].step = "delete"
    /\ z \notin terminating[c]
    /\ rt' = [rt EXCEPT ![c] = @ \ RuntimeManifests(z)]
    /\ terminating' = [terminating EXCEPT ![c] = Terminating(c, RuntimeManifests(z))]
    /\ account' = FALSE
    /\ index' = [index EXCEPT ![c] = IF LocalMode THEN @ \ {z} ELSE @ \cup {z}]
    /\ req' = Advance(c, "cleanup")
    /\ queue' = OwnerTrigger(queue, c, rt'[c])
    /\ UNCHANGED <<objs, ns, secret, entries, lb, used>>

\* The service is still being deleted: everything else goes, the finalizer
\* stays, and the request is repeated until the service is gone.
DeleteResourcesPending(c) ==
    LET z == req[c].zone IN
    /\ req[c].step = "delete"
    /\ z \in terminating[c]
    /\ rt' = [rt EXCEPT ![c] = @ \ RuntimeManifests(z)]
    /\ account' = FALSE
    /\ index' = [index EXCEPT ![c] = IF LocalMode THEN @ \ {z} ELSE @ \cup {z}]
    /\ req' = Advance(c, "status")
    /\ queue' = OwnerTrigger(Requeue(c), c, rt'[c])
    /\ UNCHANGED <<objs, terminating, ns, secret, entries, lb, used>>

DeleteResourcesFails_ignored(c) ==
    LET z == req[c].zone IN
    /\ req[c].step = "delete"
    /\ Failure
    /\ \E ms \in SUBSET RuntimeManifests(z), a \in {account, FALSE} :
          /\ rt' = [rt EXCEPT ![c] = @ \ ms]
          /\ terminating' = [terminating EXCEPT ![c] = Terminating(c, ms)]
          /\ account' = a
    /\ index' = [index EXCEPT ![c] = IF LocalMode THEN @ \ {z} ELSE @ \cup {z}]
    /\ req' = Advance(c, "cleanup")
    /\ queue' = OwnerTrigger(queue, c, rt'[c])
    /\ UNCHANGED <<objs, ns, secret, entries, lb>>

\* All manifests are tried; if one fails the finalizer stays for a retry.
DeleteResourcesFails(c) ==
    LET z == req[c].zone IN
    /\ req[c].step = "delete"
    /\ Failure
    /\ \E ms \in SUBSET RuntimeManifests(z), a \in {account, FALSE} :
          /\ rt' = [rt EXCEPT ![c] = @ \ ms]
          /\ terminating' = [terminating EXCEPT ![c] = Terminating(c, ms)]
          /\ account' = a
    /\ index' = [index EXCEPT ![c] = IF LocalMode THEN @ \ {z} ELSE @ \cup {z}]
    /\ req' = Advance(c, "status")
    /\ queue' = OwnerTrigger(Requeue(c), c, rt'[c])
    /\ UNCHANGED <<objs, ns, secret, entries, lb>>

\* A request for a vanished object has no status to update.
AfterCleanup(c) ==
    [req EXCEPT ![c] = IF @.obj = Absent THEN Idle ELSE [@ EXCEPT !.step = "unfinalize"]]

(***************************************************************************)
(* Cleanup: the last user of the secret takes the secret and the generated *)
(* namespace away.                                                         *)
(***************************************************************************)
Cleanup_anyUser(c) ==
    /\ req[c].step = "cleanup"
    /\ index' = [index EXCEPT ![c] = @ \ {req[c].zone}]
    /\ secret' = IF ~LocalMode THEN "none" ELSE secret
    /\ ns' = [ns EXCEPT ![c] = IF ~LocalMode /\ ~FixedNamespace /\ @ = "active"
                               THEN "terminating" ELSE @]
    /\ req' = AfterCleanup(c)
    /\ queue' = IF secret' # secret THEN SecretTrigger(queue, index') ELSE queue
    /\ UNCHANGED <<objs, rt, terminating, account, entries, lb, used>>

Cleanup(c) ==
    LET last == ~LocalMode /\ index[c] \subseteq {req[c].zone} IN
    /\ req[c].step = "cleanup"
    /\ index' = [index EXCEPT ![c] = @ \ {req[c].zone}]
    /\ secret' = IF last THEN "none" ELSE secret
    /\ ns' = [ns EXCEPT ![c] = IF last /\ ~FixedNamespace /\ @ = "active"
                               THEN "terminating" ELSE @]
    /\ req' = AfterCleanup(c)
    /\ queue' = IF secret' # secret THEN SecretTrigger(queue, index') ELSE queue
    /\ UNCHANGED <<objs, rt, terminating, account, entries, lb, used>>

\* The index entry is gone when the calls that follow fail.
CleanupFails(c) ==
    /\ req[c].step = "cleanup"
    /\ ~LocalMode
    /\ index[c] \subseteq {req[c].zone}
    /\ Failure
    /\ index' = [index EXCEPT ![c] = @ \ {req[c].zone}]
    /\ \E s \in {secret, "none"} : secret' = s
    /\ req' = Advance(c, "status")
    /\ queue' = Requeue(c)
    /\ UNCHANGED <<objs, rt, terminating, ns, account, entries, lb>>

\* The finalizer goes last; without any the deleted object vanishes.
RemoveFinalizer(c) ==
    LET z   == req[c].zone
        fin == req[c].obj.fin \ {c}
    IN  /\ req[c].step = "unfinalize"
        /\ Accepts(objs[z], fin)
        /\ objs' = [objs EXCEPT ![z] = IF @.deleting /\ fin = {} THEN Absent
                                       ELSE [@ EXCEPT !.fin = fin]]
        /\ queue' = Notify(queue, z)
        /\ req' = [Outdate(req, z) EXCEPT ![c] = [req[c] EXCEPT !.step = "status",
                                                                !.stale = FALSE]]
        /\ UNCHANGED <<clusters, used>>

-----------------------------------------------------------------------------
(* The end of a request. *)

(***************************************************************************)
(* UpdateStatus writes a changed status, guarded by the resource version,  *)
(* and then always triggers the nested zones.                              *)
(***************************************************************************)
UpdateStatus_silent(c) ==
    LET r == req[c] IN
    /\ r.step = "status"
    /\ r.dirty => objs[r.zone] # Absent /\ ~r.stale
    /\ objs' = IF r.dirty THEN [objs EXCEPT ![r.zone].status = r.obj.status] ELSE objs
    /\ req' = [IF r.dirty THEN Outdate(req, r.zone) ELSE req EXCEPT ![c] = Idle]
    /\ queue' = IF r.dirty THEN Notify(queue, r.zone) ELSE queue
    /\ UNCHANGED <<clusters, used>>

UpdateStatus_unguarded(c) ==
    LET r == req[c] IN
    /\ r.step = "status"
    /\ r.dirty => objs[r.zone] # Absent
    /\ objs' = IF r.dirty THEN [objs EXCEPT ![r.zone].status = r.obj.status] ELSE objs
    /\ req' = [IF r.dirty THEN Outdate(req, r.zone) ELSE req EXCEPT ![c] = Idle]
    /\ queue' = [IF r.dirty THEN Notify(queue, r.zone) ELSE queue
                   EXCEPT ![c] = @ \cup Children(objs, r.zone)]
    /\ UNCHANGED <<clusters, used>>

UpdateStatus(c) ==
    LET r == req[c] IN
    /\ r.step = "status"
    /\ r.dirty => objs[r.zone] # Absent /\ ~r.stale
    /\ objs' = IF r.dirty THEN [objs EXCEPT ![r.zone].status = r.obj.status] ELSE objs
    /\ req' = [IF r.dirty THEN Outdate(req, r.zone) ELSE req EXCEPT ![c] = Idle]
    /\ queue' = [IF r.dirty THEN Notify(queue, r.zone) ELSE queue
                   EXCEPT ![c] = @ \cup Children(objs, r.zone)]
    /\ UNCHANGED <<clusters, used>>

UpdateConflict(c) ==
    LET r == req[c] IN
    /\ r.step = "status"
    /\ r.dirty
    /\ objs[r.zone] = Absent \/ r.stale
    /\ req' = [req EXCEPT ![c] = Idle]
    /\ queue' = Requeue(c)
    /\ UNCHANGED <<objs, clusters, used>>

\* Any write to the API server may fail; the request is repeated.
WriteFails(c) ==
    /\ req[c].step \in {"patch", "unfinalize", "status"}
    /\ req[c].step = "status" => req[c].dirty
    /\ Failure
    /\ req' = [req EXCEPT ![c] = IF @.step = "status" THEN Idle
                                                      ELSE [@ EXCEPT !.step = "status"]]
    /\ queue' = Requeue(c)
    /\ UNCHANGED <<objs, clusters>>

\* A restarted instance lists all objects; its index starts empty.
Crash(c) ==
    /\ used.crashes < MaxCrashes
    /\ used' = [used EXCEPT !.crashes = @ + 1]
    /\ req' = [req EXCEPT ![c] = Idle]
    /\ index' = [index EXCEPT ![c] = {}]
    /\ queue' = [queue EXCEPT ![c] = {z \in Zones : objs[z] # Absent}]
    /\ UNCHANGED <<objs, rt, terminating, ns, account, secret, entries, lb>>

Repeat(c, z) ==
    /\ Interval
    /\ objs[z] # Absent
    /\ queue' = [queue EXCEPT ![c] = @ \cup {z}]
    /\ UNCHANGED <<objs, req, clusters, used>>

-----------------------------------------------------------------------------
(* The clusters: controllers of Kubernetes the program relies on. *)

\* A token secret is filled when its service account exists ...
TokenIssued ==
    /\ secret = "pending" /\ account
    /\ secret' = "token"
    /\ queue' = SecretTrigger(queue, index)
    /\ UNCHANGED <<objs, req, rt, terminating, ns, index, account, entries, lb, used>>

\* ... and removed when there is none (any more).
TokenRevoked ==
    /\ secret # "none" /\ ~account
    /\ secret' = "none"
    /\ queue' = SecretTrigger(queue, index)
    /\ UNCHANGED <<objs, req, rt, terminating, ns, index, account, entries, lb, used>>

\* The load balancer of a deleted service has been released.
ServiceGone(c, z) ==
    /\ z \in terminating[c]
    /\ terminating' = [terminating EXCEPT ![c] = @ \ {z}]
    /\ lb' = [lb EXCEPT ![c] = @ \ {z}]
    /\ UNCHANGED <<objs, queue, req, rt, ns, index, account, secret, entries, used>>

\* A namespace under deletion deletes its content first ...
NamespaceEmptied(c) ==
    /\ ns[c] = "terminating"
    /\ rt[c] # {}
    /\ rt' = [rt EXCEPT ![c] = {}]
    /\ terminating' = [terminating EXCEPT ![c] = Terminating(c, rt[c])]
    /\ queue' = OwnerTrigger(queue, c, {})
    /\ UNCHANGED <<objs, req, ns, index, account, secret, entries, lb, used>>

\* ... and then vanishes.
NamespaceGone(c) ==
    /\ ns[c] = "terminating"
    /\ rt[c] = {} /\ terminating[c] = {}
    /\ ns' = [ns EXCEPT ![c] = "none"]
    /\ UNCHANGED <<objs, queue, req, rt, terminating, index, account, secret, entries,
                   lb, used>>

\* An address is assigned to a load balancer.  No trigger watches services.
LoadBalancerReady(c, z) ==
    /\ KubeDNS
    /\ Service(z) \in rt[c]
    /\ z \notin lb[c]
    /\ lb' = [lb EXCEPT ![c] = @ \cup {z}]
    /\ UNCHANGED <<objs, queue, req, rt, terminating, ns, index, account, secret,
                   entries, used>>

-----------------------------------------------------------------------------
User ==
    \E z \in Zones : \/ \E s \in Specs : CreateZone(z, s) \/ UpdateZone(z, s)
                     \/ DeleteZone(z)

\* The next step of the request instance c is working on.
Work(c) ==
    \/ PatchFinalizer(c) \/ PatchGone(c) \/ PatchRefused(c)
    \/ Prepare(c) \/ PrepareFails(c) \/ AccessFails(c)
    \/ ApplyDataplane(c) \/ ApplyDataplaneFails(c)
    \/ ApplyRuntime(c) \/ ApplyRuntimeFails(c) \/ ApplyRuntimeRefused(c)
    \/ NotModifiable(c)
    \/ DeleteResources(c) \/ DeleteResourcesPending(c) \/ DeleteResourcesFails(c)
    \/ Cleanup(c) \/ CleanupFails(c)
    \/ RemoveFinalizer(c)
    \/ UpdateStatus(c) \/ UpdateConflict(c) \/ WriteFails(c)

Cluster ==
    \/ TokenIssued \/ TokenRevoked
    \/ \E c \in Controllers : NamespaceEmptied(c) \/ NamespaceGone(c)
    \/ \E c \in Controllers, z \in Zones : ServiceGone(c, z) \/ LoadBalancerReady(c, z)

Next ==
    \/ User
    \/ \E c \in Controllers, z \in Zones : Start(c, z) \/ LookupFails(c, z)
    \/ \E c \in Controllers : Work(c)
    \/ \E c \in Controllers : Crash(c)
    \/ \E c \in Controllers, z \in Zones : Repeat(c, z)
    \/ Cluster

Spec == Init /\ [][Next]_vars

(***************************************************************************)
(* A request makes its next step, a queue is worked off in order, so every *)
(* key waiting in it is taken up, and the cluster's controllers run; the   *)
(* one for tokens is not starved by accounts that come and go.             *)
(***************************************************************************)
Fairness ==
    /\ \A c \in Controllers : WF_vars(Work(c))
    /\ \A c \in Controllers, z \in Zones : SF_vars(Start(c, z))
    /\ SF_vars(TokenIssued) /\ WF_vars(TokenRevoked)
    /\ \A c \in Controllers : WF_vars(NamespaceEmptied(c)) /\ WF_vars(NamespaceGone(c))
    /\ \A c \in Controllers, z \in Zones :
          WF_vars(ServiceGone(c, z)) /\ WF_vars(LoadBalancerReady(c, z))
    /\ \A c \in Controllers, z \in Zones : WF_vars(Repeat(c, z))

FairSpec == Spec /\ Fairness

-----------------------------------------------------------------------------
(* Correctness. *)

TypeOK ==
    /\ objs \in [Zones -> HostedZone \cup {Absent}]
    /\ queue \in [Controllers -> SUBSET Zones]
    /\ req \in [Controllers -> Request]
    /\ rt \in [Controllers -> SUBSET Manifest]
    /\ terminating \in [Controllers -> SUBSET Zones]
    /\ ns \in [Controllers -> {"none", "active", "terminating"}]
    /\ index \in [Controllers -> SUBSET Zones]
    /\ account \in BOOLEAN
    /\ secret \in {"none", "pending", "token"}
    /\ entries \in SUBSET Zones
    /\ lb \in [Controllers -> SUBSET Zones]
    /\ used \in [edits : 0 .. MaxEdits, failures : 0 .. MaxFailures,
                 crashes : 0 .. MaxCrashes]

(***************************************************************************)
(* Whatever an instance has deployed for a zone is protected: the object   *)
(* still exists and carries the instance's finalizer.  So a server is      *)
(* never left behind when an object goes, at whatever point of a request   *)
(* the user deletes it, a call fails or the instance crashes.              *)
(***************************************************************************)
ResourcesGuarded ==
    \A c \in Controllers, z \in Zones :
        Deployed(c, z) => objs[z] # Absent /\ c \in objs[z].fin

\* The object of a zone, as its finalizer matters.
Phase(o) ==
    IF o = Absent THEN "absent"
    ELSE IF o.deleting THEN "ending"
    ELSE IF o.fin # {} THEN "guarded" ELSE "free"

P == INSTANCE Protection WITH
        Keys  <- Zones,
        phase <- [z \in Zones |-> Phase(objs[z])],
        held  <- {z \in Zones : \E c \in Controllers : Deployed(c, z)}

(***************************************************************************)
(* A lone instance keeps the protocol of finalizers: each of its steps is  *)
(* one of the protocol or changes nothing in it.  So the finalizer comes   *)
(* before the first object deployed and goes after the last one, whatever  *)
(* calls fail and whatever users do to the object in between.              *)
(***************************************************************************)
FinalizerProtocol == P!Spec

(***************************************************************************)
(* The generated runtime namespace, shared by all zones of an API          *)
(* namespace, is only ever deleted when no zone has a server in it, even   *)
(* if a zone is created while the last one is being cleaned up.            *)
(***************************************************************************)
NamespaceUnused ==
    \A c \in Controllers :
        ns[c] = "terminating" => \A z \in Zones : ~Deployed(c, z)

(***************************************************************************)
(* A registered responsibility (Status.Observed) is final: whichever       *)
(* instances race for a zone, the first registration stays until the       *)
(* object is deleted.                                                      *)
(***************************************************************************)
RegistrationStable ==
    [][\A z \in Zones :
          /\ objs[z] # Absent /\ objs'[z] # Absent
          /\ objs[z].status.observed # nil
          => objs'[z].status.observed = objs[z].status.observed]_vars

\* Nothing is queued and no request is open.
Quiet == \A c \in Controllers : queue[c] = {} /\ req[c] = Idle

\* Instance c looks at zone z: everybody reports bad fields and a missing root.
Validates(c, z) ==
    LET info == GetRootInfo(objs, z) IN
    AlnumFields(objs[z].spec) /\ info.found
    => IsResponsible(c, objs[z], objs[info.root])

ExpectedValid(z) ==
    IF AlnumFields(objs[z].spec) /\ GetRootInfo(objs, z).found /\ Validate(objs, objs[z].spec)
    THEN "true" ELSE "false"

(***************************************************************************)
(* When all work is done the Validation condition of every zone some       *)
(* instance looks at is the one its own spec, its chain of parents and its *)
(* parent's condition ask for: every change that matters to a nested zone  *)
(* triggers it.  (The removal of a parent without finalizer triggers no    *)
(* nested zone; zones with a missing one above them are excepted.)         *)
(***************************************************************************)
ValidationSettled ==
    Quiet => \A z \in Zones :
        /\ Alive(objs, z) /\ \A w \in Passed(objs, z) : objs[w] # Absent
        /\ \E c \in Controllers : Validates(c, z)
        => objs[z].status.valid = ExpectedValid(z)

\* A root zone that should have a server.
Wanted(z) ==
    /\ objs[z] # Absent /\ ~objs[z].deleting
    /\ objs[z].spec.parent = NoZone
    /\ AlnumFields(objs[z].spec) /\ ValidateZone(objs[z].spec)

\* A zone nested below a root it can reach.
Nested(z) ==
    /\ objs[z] # Absent /\ ~objs[z].deleting
    /\ objs[z].spec.parent # NoZone
    /\ AlnumFields(objs[z].spec) /\ GetRootInfo(objs, z).found

\* A valid root zone finally has its DNS server, for as long as it stays: the
\* periodic repetition makes up for a service that was still being deleted when
\* the server was deployed again, and for an account that went with another root.
RootServed ==
    \A z \in Zones :
        <>[]Wanted(z) => <>[](\E c \in Controllers : Serving(c, z))

\* Less than that: while a valid root zone stays it is served again and again,
\* whatever happens to the other zones that share its service account.
RootServedAgain ==
    \A z \in Zones :
        <>[]Wanted(z) => []<>(\E c \in Controllers : Serving(c, z))

\* In DNS mode "kubedns" the server is finally there together with the entry
\* for its nameserver, however late the load balancer is provisioned and whatever
\* happens to the service meanwhile, if the load balancer has a host name: one
\* with addresses only is never taken for ready.
NameserverPublished ==
    \A z \in HostNames :
        <>[]Wanted(z) => <>[](z \in entries /\ \E c \in Controllers : Serving(c, z))

\* A server is finally removed when its zone has become a nested one.
NestedUndeployed ==
    \A z \in Zones :
        <>[]Nested(z) => <>[](\A c \in Controllers : ~Deployed(c, z))

\* A deletion requested by the user completes: no object stays under deletion
\* for ever, the finalizer goes.
DeletionCompletes ==
    \A z \in Zones : []<>(objs[z] = Absent \/ ~objs[z].deleting)

=============================================================================
