----------------------------- MODULE Reporting -----------------------------
(***************************************************************************)
(* The status of zones and entries, and the four controllers that write    *)
(* it: those of group "operator" for zones (direct/hostedzone) and entries *)
(* (direct/entry), and those of group "server" for zones and entries       *)
(* (server/hostedzone, server/entry).  Every object is written by two of   *)
(* them.  Here a zone is what its conditions say of it; the deployment in  *)
(* its parts is the subject of Operator, the model of ZoneServer.          *)
(*                                                                         *)
(* Operator and server are separate processes: a trigger of one does not   *)
(* reach the other, a write reaches all.  A request reads everything when  *)
(* it starts and writes the status when it ends; a write in between makes  *)
(* it fail.  Class, runtime and parent of a zone do not change, and its    *)
(* DNS names come from its load balancer (DNS mode loadbalancer).  The     *)
(* zones are those of one namespace of the dataplane: their servers share  *)
(* the service account and its token secret (runtime mode).                *)
(***************************************************************************)
EXTENDS Responsibility

CONSTANTS
    Entries,       \* names of CoreDNSEntry objects
    Workers,       \* the controllers that are running, one worker each
    OwnClass,      \* options --class and --runtime of the operator
    OwnRuntime,
    ServerClass,   \* options --server-class and --slave-mode of the server
    Slave,
    SameCluster,   \* the runtime cluster is the dataplane
    Inputs,        \* the specs users write, for each object
    MaxObjects,    \* bound on the objects that exist at a time
    MaxEdits,      \* bound on changes by users
    MaxFailures    \* bound on failing calls and deployments that break down

Objects == Zones \cup Entries

\* Of an entry, "parent" is its zone reference; "ok" says whether its names
\* and records pass ValidateEntryData.
EntrySpecs == [parent : Zones \cup {NoZone}, ok : BOOLEAN]

States == {"", "Ready", "Ok", "Pending", "Problem", "Failed", "Invalid"}

ZoneStatus == [valid      : Conditions,
               runtime    : Conditions,
               nameserver : Conditions,
               server     : Conditions,
               state      : States]

EntryStatus == [valid  : Conditions,
                server : Conditions,
                root   : Zones \cup {NoZone},   \* RootZone
                names  : BOOLEAN,               \* EffectiveDomainNames are set
                state  : States]

Zone == [spec : Specs, deleting : BOOLEAN, fin : BOOLEAN, status : ZoneStatus]

Entry == [spec : EntrySpecs, status : EntryStatus]

ValidateEntryData(s) == s.ok

NewObject(x, s) ==
    IF x \in Zones
    THEN [spec |-> s, deleting |-> FALSE, fin |-> FALSE,
          status |-> [valid |-> "unknown", runtime |-> "unknown",
                      nameserver |-> "unknown", server |-> "unknown", state |-> ""]]
    ELSE [spec |-> s,
          status |-> [valid |-> "unknown", server |-> "unknown", root |-> NoZone,
                      names |-> FALSE, state |-> ""]]

ZoneWorkers == {"operator.zone", "server.zone"}
EntryWorkers == {"operator.entry", "server.entry"}

\* How far the deployment of a root zone is: nothing, the request for its
\* credentials, all of it, a server that runs.  From the second one on the
\* zone is in the index of those that use the token secret.
Stages == {"none", "access", "starting", "up"}

\* Why the last request of a root zone ended before its deployment: the token
\* was not there yet, or the secret could not be read.
Reasons == {"none", "token", "error"}

ASSUME ReportingAssumption ==
    /\ Zones \cap Entries = {} /\ NoZone \notin Entries
    /\ Workers \subseteq ZoneWorkers \cup EntryWorkers
    /\ {OwnClass, OwnRuntime, ServerClass} \subseteq Names \cup {nil}
    /\ Slave \in BOOLEAN /\ SameCluster \in BOOLEAN
    /\ \A z \in Zones : Inputs[z] \subseteq {s \in Specs : Admitted(s)}
    /\ \A e \in Entries : Inputs[e] \subseteq EntrySpecs
    /\ \A z \in Zones : \A s \in Inputs[z] :   \* else see Operator
          s.parent = NoZone /\ s.class = nil => s.runtime = OwnRuntime
    /\ Absent \notin Zone /\ Absent \notin Entry
    /\ MaxObjects \in Nat /\ MaxEdits \in Nat /\ MaxFailures \in Nat

VARIABLES
    objs,      \* the objects
    queue,     \* per worker: the keys waiting for a reconcile request
    req,       \* per worker: the request in progress
    secret,    \* the token secret of the service account
    account,   \* the service account and its roles exist
    depl,      \* the deployments of root zones
    reachable, \* root zones whose load balancer has a name
    waits,     \* what root zones wait for
    missed,    \* entries whose last request by the operator got lost
    used       \* how much of each bound has been consumed

vars == <<objs, queue, req, secret, account, depl, reachable, waits, missed, used>>

env == <<secret, account, depl, reachable, waits>>

Request == [key    : Objects,
            status : ZoneStatus \cup EntryStatus,   \* as changed so far
            dirty  : BOOLEAN,     \* it differs from the one read
            stale  : BOOLEAN,     \* the object was written by somebody else
            again  : BOOLEAN]     \* the request has to be repeated

Idle == [key |-> NoZone, status |-> nil, dirty |-> FALSE, stale |-> FALSE, again |-> FALSE]

\* The controllers start on a cluster that may hold objects already.
Init ==
    /\ \E X \in SUBSET Objects :
       \E spec \in [X -> UNION {Inputs[x] : x \in X}] :
          /\ Cardinality(X) <= MaxObjects
          /\ \A x \in X : spec[x] \in Inputs[x]
          /\ objs = [x \in Objects |-> IF x \in X THEN NewObject(x, spec[x]) ELSE Absent]
    /\ queue = [w \in Workers |->
                  {x \in IF w \in ZoneWorkers THEN Zones ELSE Entries : objs[x] # Absent}]
    /\ req = [w \in Workers |-> Idle]
    /\ secret = "none"
    /\ account = FALSE
    /\ depl = [z \in Zones |-> "none"]
    /\ reachable = {}
    /\ waits = [z \in Zones |-> "none"]
    /\ missed = {}
    /\ used = [edits |-> 0, failures |-> 0]

-----------------------------------------------------------------------------
(* Watches and triggers. *)

\* A write of x reaches every controller of its kind ...
Notify(q, x) ==
    [w \in Workers |-> IF w \in IF x \in Zones THEN ZoneWorkers ELSE EntryWorkers
                       THEN q[w] \cup {x} ELSE q[w]]

\* ... and makes open reads old.
Outdate(x) ==
    [w \in Workers |-> IF req[w].key = x
                       THEN [req[w] EXCEPT !.stale = TRUE] ELSE req[w]]

Write(x, o) ==
    /\ objs' = [objs EXCEPT ![x] = o]
    /\ queue' = Notify(queue, x)
    /\ req' = Outdate(x)

\* The nested zones and the entries of a zone, as the indices find them.
Children(z) == {y \in Zones : objs[y] # Absent /\ objs[y].spec.parent = z}
EntriesOf(z) == {e \in Entries : objs[e] # Absent /\ objs[e].spec.parent = z}

\* TriggerChildren and TriggerEntries: only in the process of the caller.
Trigger(q, zw, ew, z) ==
    [w \in Workers |-> CASE w = zw -> q[w] \cup Children(z)
                         [] w = ew -> q[w] \cup EntriesOf(z)
                         [] OTHER  -> q[w]]

OperatorTrigger_zonesOnly(q, z) == Trigger(q, "operator.zone", "", z)

OperatorTrigger(q, z) == Trigger(q, "operator.zone", "operator.entry", z)
ServerTrigger(q, z) == Trigger(q, "server.zone", "server.entry", z)

Woken(q, zs) ==
    [w \in Workers |-> IF w = "operator.zone" THEN q[w] \cup zs ELSE q[w]]

\* The owner trigger: deployments are watched where they are.
OwnerTrigger(zs) == queue' = Woken(queue, zs)

\* secretTriggerFactory: the watch is on the runtime cluster, the secret in
\* the dataplane; the index knows the zones to wake.
SecretTrigger(q, zs) == IF SameCluster THEN Woken(q, zs) ELSE q

Failure ==
    /\ used.failures < MaxFailures
    /\ used' = [used EXCEPT !.failures = @ + 1]

\* Worker w takes x from its queue.
Takes(w, x) == w \in Workers /\ req[w] = Idle /\ x \in queue[w]
Rest(w, x) == [queue EXCEPT ![w] = @ \ {x}]

NewRequest(x, s, again) ==
    [key |-> x, status |-> s, dirty |-> s # objs[x].status, stale |-> FALSE,
     again |-> again]

\* A request that changes nothing and triggers nobody ends where it started.
Begin(w, x, s) ==
    /\ queue' = Rest(w, x)
    /\ req' = IF s = objs[x].status THEN req
              ELSE [req EXCEPT ![w] = NewRequest(x, s, FALSE)]

Living(z) == objs[z] # Absent /\ ~objs[z].deleting

-----------------------------------------------------------------------------
(* Users.  Without a finalizer a deleted object is gone at once. *)

UserEdit ==
    /\ used.edits < MaxEdits
    /\ used' = [used EXCEPT !.edits = @ + 1]

Create(x, s) ==
    /\ objs[x] = Absent
    /\ Cardinality({y \in Objects : objs[y] # Absent}) < MaxObjects
    /\ UserEdit
    /\ Write(x, NewObject(x, s))
    /\ UNCHANGED <<env, missed>>

Update(x, s) ==
    /\ objs[x] # Absent /\ objs[x].spec # s
    /\ x \in Zones => ~objs[x].deleting /\ s = [objs[x].spec EXCEPT !.ok = s.ok]
    /\ UserEdit
    /\ Write(x, [objs[x] EXCEPT !.spec = s])
    /\ UNCHANGED <<env, missed>>

Delete(x) ==
    /\ objs[x] # Absent
    /\ x \in Zones => ~objs[x].deleting
    /\ UserEdit
    /\ Write(x, IF x \in Zones /\ objs[x].fin THEN [objs[x] EXCEPT !.deleting = TRUE]
                                             ELSE Absent)
    /\ UNCHANGED <<env, missed>>

-----------------------------------------------------------------------------
(* Group "operator", controller of zones. *)

Condition(b) == IF b THEN "true" ELSE "false"

summary_runtime(s) ==
    [s EXCEPT !.state =
        IF s.valid # "true" THEN "Failed"
        ELSE IF s.runtime # "true" THEN s.runtime
        ELSE IF s.nameserver # "true" THEN "Pending"
        ELSE IF s.server # "true" THEN "Failed"
        ELSE "Ready"]

\* The state shown to users sums up the conditions, in this order.
summary(s) ==
    [s EXCEPT !.state =
        IF s.valid # "true" \/ s.runtime # "true" \/ s.nameserver = "unknown" THEN "Failed"
        ELSE IF s.nameserver = "false" THEN "Pending"
        ELSE IF s.server # "true" THEN "Failed"
        ELSE "Ready"]

transferConditions_silent(s, from) ==
    [s EXCEPT !.runtime    = from.runtime,
              !.nameserver = from.nameserver,
              !.valid      = IF from.valid = "unknown" THEN "unknown" ELSE @]

transferConditions_once(s, from) ==
    summary([s EXCEPT !.runtime    = IF @ = "unknown" THEN from.runtime ELSE @,
                      !.nameserver = IF @ = "unknown" THEN from.nameserver ELSE @,
                      !.valid      = IF from.valid = "unknown" THEN "unknown" ELSE @])

\* A nested zone shows the conditions of its root zone, and loses those of
\* its own that the root does not have.
transferConditions(s, from) ==
    summary([s EXCEPT !.runtime    = from.runtime,
                      !.nameserver = from.nameserver,
                      !.valid      = IF from.valid = "unknown" THEN "unknown" ELSE @])

\* The root zone of a living zone, Absent if it has none.
RootOf(z) ==
    LET info == GetRootInfo(objs, z) IN IF info.found THEN objs[info.root] ELSE Absent

\* The operator is responsible for z.
Ours(z) ==
    /\ AlnumFields(objs[z].spec)
    /\ RootOf(z) # Absent
    /\ objs[z].fin \/ Check(RootOf(z).spec, OwnClass, OwnRuntime)

\* The request of z gets to the deployment.
Deploys(z) == Ours(z) /\ Validate(objs, objs[z].spec) /\ objs[z].spec.parent = NoZone

isDeploymentReady(z) == depl[z] = "up"

\* Only a host name counts, an address does not.
isLoadBalancerReady(z) == z \in reachable

\* The status a complete request of zone z arrives at.
ZoneReport(z) ==
    LET o     == objs[z]
        valid == [o.status EXCEPT !.valid = "true"]
    IN  IF ~AlnumFields(o.spec) \/ RootOf(z) = Absent THEN [o.status EXCEPT !.valid = "false"]
        ELSE IF ~Ours(z) THEN o.status
        ELSE IF ~Validate(objs, o.spec) THEN [o.status EXCEPT !.valid = "false"]
        ELSE IF o.spec.parent # NoZone THEN transferConditions(valid, RootOf(z).status)
        ELSE IF secret # "token" THEN valid
        ELSE summary([valid EXCEPT !.runtime    = Condition(isDeploymentReady(z)),
                                   !.nameserver = Condition(isLoadBalancerReady(z))])

\* The finalizer of a root zone is patched in before anything else.
Claims(z) == Ours(z) /\ objs[z].spec.parent = NoZone /\ ~objs[z].fin

Claim(z, r, q) ==
    /\ objs' = [objs EXCEPT ![z].fin = TRUE]
    /\ queue' = Notify(q, z)
    /\ req' = [Outdate(z) EXCEPT !["operator.zone"] = r]

Proceed(z, r, q) ==
    /\ objs' = objs
    /\ queue' = IF r.dirty \/ r.again THEN q ELSE OperatorTrigger(q, z)
    /\ req' = IF r.dirty \/ r.again THEN [req EXCEPT !["operator.zone"] = r] ELSE req

Handle(z, r, q) == IF Claims(z) THEN Claim(z, r, q) ELSE Proceed(z, r, q)

Users == {z \in Zones : depl[z] # "none"}

\* AccessValues creates a missing secret, which has no token yet then; the
\* zone is one of its users already.
Requested(z) == IF Deploys(z) /\ secret = "none" THEN "pending" ELSE secret

Accessed(z) ==
    LET q == Rest("operator.zone", z)
    IN  IF Requested(z) # secret THEN SecretTrigger(q, Users \cup {z}) ELSE q

\* The runtime manifests are applied when the token is there.
Deployed(z, access) ==
    IF depl[z] = "none" \/ (access /\ depl[z] = "access")
    THEN [depl EXCEPT ![z] = IF access THEN "starting" ELSE "access"]
    ELSE depl

Reconcile(z) ==
    LET access == secret = "token" IN
    /\ Takes("operator.zone", z) /\ Living(z)
    /\ Handle(z, NewRequest(z, ZoneReport(z), FALSE), Accessed(z))
    /\ secret' = Requested(z)
    /\ account' = (account \/ Deploys(z))
    /\ depl' = IF Deploys(z) THEN Deployed(z, access) ELSE depl
    /\ waits' = [waits EXCEPT ![z] = IF Deploys(z) /\ ~access THEN "token" ELSE "none"]
    /\ UNCHANGED <<reachable, missed, used>>

\* The secret cannot be read or created: the dataplane is applied, and the
\* request ends as if the token were to come.
AccessFails(z) ==
    /\ Takes("operator.zone", z) /\ Living(z)
    /\ Deploys(z)
    /\ Failure
    /\ Handle(z, NewRequest(z, [objs[z].status EXCEPT !.valid = "true"], FALSE),
              Rest("operator.zone", z))
    /\ account' = TRUE
    /\ depl' = Deployed(z, FALSE)
    /\ waits' = [waits EXCEPT ![z] = "error"]
    /\ UNCHANGED <<secret, reachable, missed>>

\* A manifest cannot be applied, of the dataplane or, when the token is there,
\* of the runtime: the summary is not reached.
ReconcileFails(z) ==
    /\ Takes("operator.zone", z) /\ Living(z)
    /\ Deploys(z)
    /\ Failure
    /\ \E c \in {objs[z].status.runtime} \cup IF secret = "token" THEN {"false"} ELSE {} :
          Handle(z, NewRequest(z, [objs[z].status EXCEPT !.valid = "true", !.runtime = c], TRUE),
                 Accessed(z))
    /\ secret' = Requested(z)
    /\ account' \in {account, TRUE}
    /\ depl' \in {Deployed(z, FALSE), Deployed(z, secret = "token")}
    /\ UNCHANGED <<reachable, waits, missed>>

\* DeleteExternalResources: the deployment goes, and the shared account with
\* it; the secret only with the last zone that uses it.
Undeploy(z) ==
    /\ secret' = IF Users \subseteq {z} THEN "none" ELSE secret
    /\ account' = FALSE
    /\ depl' = [depl EXCEPT ![z] = "none"]
    /\ reachable' = reachable \ {z}
    /\ waits' = [waits EXCEPT ![z] = "none"]

\* The resources go, then the finalizer and the object with it.
ReconcileDeleting(z) ==
    /\ Takes("operator.zone", z)
    /\ objs[z] # Absent /\ objs[z].deleting
    /\ objs' = [objs EXCEPT ![z] = Absent]
    /\ queue' = OperatorTrigger(Notify(Rest("operator.zone", z), z), z)
    /\ req' = Outdate(z)
    /\ Undeploy(z)
    /\ UNCHANGED <<missed, used>>

\* Only the entries are told of a zone that is gone.
ReconcileDeleted(z) ==
    /\ Takes("operator.zone", z)
    /\ objs[z] = Absent
    /\ queue' = [w \in Workers |-> IF w = "operator.entry" THEN queue[w] \cup EntriesOf(z)
                                                           ELSE Rest("operator.zone", z)[w]]
    /\ Undeploy(z)
    /\ UNCHANGED <<objs, req, missed, used>>

\* A parent cannot be read.
LookupFails(z) ==
    /\ Takes("operator.zone", z) /\ Living(z)
    /\ objs[z].spec.parent # NoZone
    /\ Failure
    /\ req' = [req EXCEPT !["operator.zone"] = NewRequest(z, objs[z].status, TRUE)]
    /\ queue' = Rest("operator.zone", z)
    /\ UNCHANGED <<objs, env, missed>>

-----------------------------------------------------------------------------
(* Group "operator", controller of entries. *)

(***************************************************************************)
(* responsibleForEntry climbs to the root zone; unlike GetRootInfo it does *)
(* not look whether the zones on the way are being deleted.                *)
(***************************************************************************)
responsibleForEntry(e) ==
    GetRootInfo([z \in Zones |-> IF objs[z] = Absent THEN Absent
                                 ELSE [objs[z] EXCEPT !.deleting = FALSE]],
                objs[e].spec.parent)

\* The status a complete request of entry e arrives at.
EntryReport(e) ==
    LET o     == objs[e]
        zone  == o.spec.parent
        known == zone # NoZone /\ objs[zone] # Absent
        info  == IF known THEN responsibleForEntry(e) ELSE [found |-> FALSE, root |-> NoZone]
        ours  == ~info.found \/ /\ String(objs[info.root].spec.class) = String(OwnClass)
                                /\ String(objs[info.root].spec.runtime) = String(OwnRuntime)
        valid == ValidateEntryData(o.spec) /\ info.found
        state == IF ~valid THEN "Invalid"
                 ELSE IF o.status.server = "false" THEN "Problem"
                 ELSE IF objs[zone].status.state # "Ready" THEN objs[zone].status.state
                 ELSE IF o.status.root # info.root \/ ~o.status.names THEN "Pending"
                 ELSE "Ready"
    IN  IF ~ours THEN o.status
        ELSE [o.status EXCEPT !.valid = Condition(valid), !.state = state]

ReconcileEntry(e) ==
    /\ Takes("operator.entry", e)
    /\ objs[e] # Absent
    /\ Begin("operator.entry", e, EntryReport(e))
    /\ missed' = missed \ {e}
    /\ UNCHANGED <<objs, env, used>>

\* A zone cannot be read: this error does not repeat the request.
EntryLookupFails(e) ==
    /\ Takes("operator.entry", e)
    /\ objs[e] # Absent /\ objs[e].spec.parent # NoZone
    /\ Failure
    /\ Begin("operator.entry", e, objs[e].status)
    /\ missed' = missed \cup {e}
    /\ UNCHANGED <<objs, env>>

EntryDeleted(w, e) ==
    /\ Takes(w, e)
    /\ objs[e] = Absent
    /\ queue' = Rest(w, e)
    /\ UNCHANGED <<objs, req, env, missed, used>>

-----------------------------------------------------------------------------
(* Group "server". *)

IsMaster_always(s) == TRUE

\* In slave mode the conditions of somebody else make the server a slave.
IsMaster(s) ==
    \/ ~Slave
    \/ \A c \in DOMAIN s \cap {"valid", "runtime", "nameserver"} : s[c] = "unknown"

\* updateStatus of the controller of zones: a master drops all conditions.
Served(s, ok) ==
    IF IsMaster(s)
    THEN [valid |-> "unknown", runtime |-> "unknown", nameserver |-> "unknown",
          server |-> "unknown", state |-> IF ok THEN "Ok" ELSE "Invalid"]
    ELSE [s EXCEPT !.server = Condition(ok)]

Serve(z) ==
    LET o  == objs[z]
        ok == RootOf(z) # Absent /\ ValidateZone(o.spec)
    IN  /\ Takes("server.zone", z) /\ Living(z)
        /\ Begin("server.zone", z,
                 IF RootOf(z) # Absent /\ ~Check(RootOf(z).spec, ServerClass, nil)
                 THEN o.status ELSE Served(o.status, ok))
        /\ UNCHANGED <<objs, env, missed, used>>

\* ReconcileDeleting and ReconcileDeleted.
TriggerStatusChanged(z) ==
    /\ Takes("server.zone", z) /\ ~Living(z)
    /\ queue' = ServerTrigger(Rest("server.zone", z), z)
    /\ UNCHANGED <<objs, req, env, missed, used>>

\* updateStatus of the controller of entries: a master drops the conditions
\* of an entry only if it is responsible (force).
EntryServed(s, force, root, ok) ==
    LET master == IsMaster(s)
        wiped  == IF force /\ master THEN [s EXCEPT !.valid = "unknown", !.server = "unknown"]
                                     ELSE s
        named  == [wiped EXCEPT !.root = root, !.names = (root # NoZone)]
    IN  IF master THEN [named EXCEPT !.state = IF ok THEN "Ok" ELSE "Invalid"]
                  ELSE [named EXCEPT !.server = Condition(ok)]

\* The server is not responsible (any more).
Disowned(s, root) ==
    IF s.root \in {NoZone, root} THEN s
    ELSE [s EXCEPT !.root = NoZone, !.server = "unknown", !.state = ""]

EntryService(e) ==
    LET o    == objs[e]
        zone == o.spec.parent
        info == GetRootInfo(objs, zone)
    IN  IF zone = NoZone \/ objs[zone] = Absent \/ ~info.found
        THEN EntryServed(o.status, FALSE, NoZone, FALSE)
        ELSE IF ~Check(objs[info.root].spec, ServerClass, nil)
        THEN Disowned(o.status, info.root)
        ELSE IF ~ValidateEntryData(o.spec)
        THEN EntryServed(o.status, TRUE, NoZone, FALSE)
        ELSE IF objs[zone].status.state \notin {"Ready", "Ok"}
        THEN EntryServed(o.status, TRUE, zone, FALSE)
        ELSE EntryServed(o.status, TRUE, info.root, TRUE)

ServeEntry(e) ==
    /\ Takes("server.entry", e)
    /\ objs[e] # Absent
    /\ Begin("server.entry", e, EntryService(e))
    /\ UNCHANGED <<objs, env, missed, used>>

\* A zone cannot be read: a temporary problem.
ServerLookupFails(w, x) ==
    /\ w \in {"server.zone", "server.entry"}
    /\ Takes(w, x)
    /\ objs[x] # Absent /\ objs[x].spec.parent # NoZone
    /\ x \in Zones => ~objs[x].deleting
    /\ Failure
    /\ req' = [req EXCEPT ![w] = NewRequest(x, objs[x].status, TRUE)]
    /\ queue' = Rest(w, x)
    /\ UNCHANGED <<objs, env, missed>>

-----------------------------------------------------------------------------
(* The end of a request. *)

Finish(w, q) ==
    LET r == req[w] IN
    [q EXCEPT ![w] = IF r.again THEN @ \cup {r.key} ELSE @]

UpdateStatus_unguarded(w) ==
    LET r       == req[w]
        written == IF r.dirty THEN Notify(queue, r.key) ELSE queue
    IN  /\ r # Idle
        /\ r.dirty => objs[r.key] # Absent
        /\ objs' = IF r.dirty THEN [objs EXCEPT ![r.key].status = r.status] ELSE objs
        /\ req' = [IF r.dirty THEN Outdate(r.key) ELSE req EXCEPT ![w] = Idle]
        /\ queue' = Finish(w, IF w = "operator.zone" THEN OperatorTrigger(written, r.key)
                                                     ELSE written)
        /\ UNCHANGED <<env, missed, used>>

\* A changed status is written, guarded by the resource version; then the
\* operator's controller of zones triggers what depends on the zone.
UpdateStatus(w) ==
    LET r       == req[w]
        written == IF r.dirty THEN Notify(queue, r.key) ELSE queue
    IN  /\ r # Idle
        /\ r.dirty => objs[r.key] # Absent /\ ~r.stale
        /\ objs' = IF r.dirty THEN [objs EXCEPT ![r.key].status = r.status] ELSE objs
        /\ req' = [IF r.dirty THEN Outdate(r.key) ELSE req EXCEPT ![w] = Idle]
        /\ queue' = Finish(w, IF w = "operator.zone" THEN OperatorTrigger(written, r.key)
                                                     ELSE written)
        /\ UNCHANGED <<env, missed, used>>

Requeue(w) ==
    /\ req' = [req EXCEPT ![w] = Idle]
    /\ queue' = [queue EXCEPT ![w] = @ \cup {req[w].key}]
    /\ UNCHANGED <<objs, env, missed>>

UpdateConflict(w) ==
    /\ req[w] # Idle
    /\ req[w].dirty /\ (objs[req[w].key] = Absent \/ req[w].stale)
    /\ Requeue(w)
    /\ UNCHANGED used

WriteFails(w) ==
    /\ req[w] # Idle
    /\ req[w].dirty
    /\ Failure
    /\ Requeue(w)

-----------------------------------------------------------------------------
(* The cluster. *)

\* A token secret is filled when its service account exists, and removed when
\* it does not exist any more.
TokenIssued ==
    /\ secret = "pending" /\ account
    /\ secret' = "token"
    /\ queue' = SecretTrigger(queue, Users)
    /\ UNCHANGED <<objs, req, account, depl, reachable, waits, missed, used>>

TokenRevoked ==
    /\ secret # "none" /\ ~account
    /\ secret' = "none"
    /\ queue' = SecretTrigger(queue, Users)
    /\ UNCHANGED <<objs, req, account, depl, reachable, waits, missed, used>>

DeploymentUp(z) ==
    /\ depl[z] = "starting"
    /\ depl' = [depl EXCEPT ![z] = "up"]
    /\ OwnerTrigger({z})
    /\ UNCHANGED <<objs, req, secret, account, reachable, waits, missed, used>>

DeploymentDown(z) ==
    /\ depl[z] = "up"
    /\ Failure
    /\ depl' = [depl EXCEPT ![z] = "starting"]
    /\ OwnerTrigger({z})
    /\ UNCHANGED <<objs, req, secret, account, reachable, waits, missed>>

\* Nobody watches the service.
LoadBalancerReady(z) ==
    /\ depl[z] \in {"starting", "up"} /\ z \notin reachable
    /\ reachable' = reachable \cup {z}
    /\ UNCHANGED <<objs, queue, req, secret, account, depl, waits, missed, used>>

\* The operator repeats the requests of zones periodically, in times much
\* longer than it takes to empty the queue.
Repeat(z) ==
    /\ objs[z] # Absent
    /\ "operator.zone" \in Workers
    /\ queue["operator.zone"] = {} /\ req["operator.zone"] = Idle
    /\ queue' = Woken(queue, {z})
    /\ UNCHANGED <<objs, req, env, missed, used>>

-----------------------------------------------------------------------------
User ==
    \E x \in Objects : \/ \E s \in Inputs[x] : Create(x, s) \/ Update(x, s)
                       \/ Delete(x)

Start(w, x) ==
    \/ x \in Zones /\ w = "operator.zone"
       /\ (Reconcile(x) \/ ReconcileDeleting(x) \/ ReconcileDeleted(x))
    \/ x \in Zones /\ w = "server.zone" /\ (Serve(x) \/ TriggerStatusChanged(x))
    \/ x \in Entries /\ w = "operator.entry" /\ ReconcileEntry(x)
    \/ x \in Entries /\ w = "server.entry" /\ ServeEntry(x)
    \/ x \in Entries /\ EntryDeleted(w, x)

StartFails(x) ==
    \/ x \in Zones /\ (AccessFails(x) \/ ReconcileFails(x) \/ LookupFails(x))
    \/ x \in Entries /\ EntryLookupFails(x)
    \/ \E w \in Workers : ServerLookupFails(w, x)

Work(w) == UpdateStatus(w) \/ UpdateConflict(w) \/ WriteFails(w)

Cluster(z) == DeploymentUp(z) \/ LoadBalancerReady(z) \/ Repeat(z)

Next ==
    \/ User
    \/ \E w \in Workers, x \in Objects : Start(w, x)
    \/ \E x \in Objects : StartFails(x)
    \/ \E w \in Workers : Work(w)
    \/ TokenIssued \/ TokenRevoked
    \/ \E z \in Zones : Cluster(z) \/ DeploymentDown(z)

Spec == Init /\ [][Next]_vars

\* Queues are worked off in order, requests end, and the cluster runs.
Fairness ==
    /\ \A w \in Workers : WF_vars(Work(w))
    /\ \A w \in Workers \cap ZoneWorkers, z \in Zones : SF_vars(Start(w, z))
    /\ \A w \in Workers \cap EntryWorkers, e \in Entries : SF_vars(Start(w, e))
    /\ WF_vars(TokenIssued) /\ WF_vars(TokenRevoked)
    /\ \A z \in Zones : WF_vars(DeploymentUp(z)) /\ WF_vars(LoadBalancerReady(z))
                        /\ SF_vars(Repeat(z))

FairSpec == Spec /\ Fairness

-----------------------------------------------------------------------------
(* Correctness. *)

TypeOK ==
    /\ objs \in [Objects -> Zone \cup Entry \cup {Absent}]
    /\ \A x \in Objects : objs[x] \in {Absent} \cup IF x \in Zones THEN Zone ELSE Entry
    /\ queue \in [Workers -> SUBSET Objects]
    /\ req \in [Workers -> Request \cup {Idle}]
    /\ secret \in {"none", "pending", "token"}
    /\ account \in BOOLEAN
    /\ depl \in [Zones -> Stages]
    /\ reachable \in SUBSET Zones
    /\ waits \in [Zones -> Reasons]
    /\ missed \in SUBSET Entries
    /\ used \in [edits : 0 .. MaxEdits, failures : 0 .. MaxFailures]

(***************************************************************************)
(* What one process reports the other one's write does not take back: the  *)
(* request of an operator leaves the server's condition as it is, and the  *)
(* request of a slave leaves the conditions of the operator.               *)
(***************************************************************************)
NoReportLost ==
    [][Slave => \A w \in Workers :
         LET x == req[w].key
             foreign == IF w \in {"operator.zone", "operator.entry"} THEN {"server"}
                        ELSE {"valid", "runtime", "nameserver"} \cap DOMAIN req[w].status
         IN  req[w] # Idle /\ req'[w] = Idle /\ objs'[x] # objs[x]
             => \A c \in foreign : objs'[x].status[c] = objs[x].status[c]]_vars

Quiet == \A w \in Workers : queue[w] = {} /\ req[w] = Idle

(***************************************************************************)
(* When all work of the operator is done a valid zone with a living root   *)
(* shows the state that its conditions sum up to: a root zone those of its *)
(* deployment, a nested one those of its root zone.  A root zone may still *)
(* wait for the token of the service account; but with one cluster only as *)
(* long as the token is missing, however often it was revoked and issued   *)
(* again, unless its last request could not read the secret.  (With        *)
(* separate clusters nobody watches the secret, see ZoneReady.)  The       *)
(* server, where it is responsible, has reported success on root zones.    *)
(* (On nested ones this may take until the operator writes them the next   *)
(* time: the server does not look again when a missing parent appears.)    *)
(***************************************************************************)
RootSettled(z) ==
    LET s == objs[z].status IN
    /\ waits[z] = "none" => /\ s = summary(s)
                            /\ s.runtime = Condition(isDeploymentReady(z))
                            /\ s.nameserver = "true" => isLoadBalancerReady(z)
    /\ waits[z] = "token" /\ SameCluster => secret # "token"
    /\ Slave /\ "server.zone" \in Workers /\ Check(objs[z].spec, ServerClass, nil)
       => s.server = "true"

NestedSettled(z) ==
    LET s == objs[z].status IN
    /\ s = summary(s)
    /\ s.runtime = RootOf(z).status.runtime /\ s.nameserver = RootOf(z).status.nameserver

ZonesSettled ==
    Quiet /\ "operator.zone" \in Workers =>
    \A z \in Zones :
        Living(z) /\ Ours(z) /\ Validate(objs, objs[z].spec)
        => /\ objs[z].status.valid = "true"
           /\ IF objs[z].spec.parent = NoZone THEN RootSettled(z) ELSE NestedSettled(z)

(***************************************************************************)
(* When all work is done an entry shows what a request would make of it    *)
(* now, whatever happened to its zone meanwhile, unless the last request   *)
(* got lost or a zone on the way to the root is missing.                   *)
(***************************************************************************)
EntriesSettled ==
    Quiet /\ {"operator.zone", "operator.entry"} \subseteq Workers =>
    \A e \in Entries \ missed :
        objs[e] # Absent
        /\ (objs[e].spec.parent # NoZone /\ objs[objs[e].spec.parent] # Absent
            => responsibleForEntry(e).found)
        => objs[e].status = EntryReport(e)

\* The two processes do not keep each other busy: the reports come to rest.
StatusRests ==
    <>[][\A x \in Objects : objs[x] # Absent /\ objs'[x] # Absent
                            => objs'[x].status = objs[x].status]_vars

\* A valid zone with a valid living root.
Sound(z) ==
    /\ Living(z) /\ Ours(z) /\ ValidateZone(objs[z].spec)
    /\ ValidateZone(RootOf(z).spec)

(***************************************************************************)
(* A valid zone with a valid living root becomes Ready, and stays it: a    *)
(* root zone always, a nested one unless it is left with what the server   *)
(* reported while a parent was missing.  The server does not look again    *)
(* when the parent comes back, only when the operator writes the zone; and *)
(* that has no reason to if it was late, and the conditions are the same   *)
(* as before.                                                              *)
(***************************************************************************)
ZoneReady ==
    \A z \in Zones :
        <>[]Sound(z) =>
        <>[](/\ objs[z] # Absent
             /\ \/ objs[z].status.state = "Ready"
                \/ objs[z].spec.parent # NoZone /\ objs[z].status.server = "false")
=============================================================================
