----------------------------- MODULE ZoneServer -----------------------------
(***************************************************************************)
(* The HostedZone controller of group "server" (server/hostedzone): it     *)
(* feeds the zone model the REST server answers from, and reports in the   *)
(* status of a zone whether it is served.                                  *)
(*                                                                         *)
(* A request reads the object and its parents, changes the model and then  *)
(* writes the status, and users may come in between.  The status is the    *)
(* State of a plain object, or the Server condition where other conditions *)
(* are managed by an operator; the controller treats both alike.           *)
(***************************************************************************)
EXTENDS Responsibility

CONSTANTS
    Obj,           \* addresses of Zone objects, see ZoneModel
    ServerClass,   \* option --server-class
    Master,        \* the status is the server's own (plain mode)
    MaxEdits,      \* bound on changes by users
    MaxRestarts    \* bound on restarts of the server

ASSUME ServerAssumption ==
    /\ ServerClass \in Names \cup {nil}
    /\ Master \in BOOLEAN
    /\ MaxEdits \in Nat /\ MaxRestarts \in Nat
    /\ IsFiniteSet(Obj) /\ nil \notin Obj

VARIABLES
    objs,      \* the HostedZone objects in the source cluster
    queue,     \* the keys waiting for a reconcile request
    req,       \* the request in progress
    zones,     \* the zone model, see ZoneModel
    heap,
    lock,
    used       \* how much of each bound has been consumed

M == INSTANCE ZoneModel

model == <<zones, heap, lock>>

vars == <<objs, queue, req, model, used>>

ZoneStatus == [state : {"", "Ok", "Invalid"}, observed : Observations \cup {nil}]

Source == [spec     : Specs,
           deleting : BOOLEAN,    \* a finalizer keeps the deleted object
           status   : ZoneStatus]

\* What a request does: its call to the model, and the status to be written.
Request == [step  : {"model", "status"},
            zone  : Zones,
            call  : {"add", "remove"},
            gone  : BOOLEAN,      \* the object is deleted or under deletion
            obj   : Source \cup {Absent},
            dirty : BOOLEAN,      \* its status differs from the one read
            stale : BOOLEAN]      \* the object was written by somebody else

Idle == nil

ASSUME ValuesAssumption ==
    /\ Absent \notin Source
    /\ nil \notin Request /\ nil \notin M!Zone

Init ==
    /\ objs = [z \in Zones |-> Absent]
    /\ queue = {}
    /\ req = Idle
    /\ M!Init
    /\ used = [edits |-> 0, restarts |-> 0]

-----------------------------------------------------------------------------
\* A write of zone z is watched, and makes an open request's read old.
Outdate(z) ==
    IF req # Idle /\ req.zone = z THEN [req EXCEPT !.stale = TRUE] ELSE req

\* TriggerChildren: the nested zones found by the parent index.
Children(z) == {y \in Zones : objs[y] # Absent /\ objs[y].spec.parent = z}

Edit(z, o) ==
    /\ used.edits < MaxEdits
    /\ used' = [used EXCEPT !.edits = @ + 1]
    /\ objs' = [objs EXCEPT ![z] = o]
    /\ queue' = queue \cup {z}
    /\ req' = Outdate(z)
    /\ UNCHANGED model

CreateZone(z, s) ==
    /\ objs[z] = Absent
    /\ Admitted(s)
    /\ Edit(z, [spec |-> s, deleting |-> FALSE,
                status |-> [state |-> "", observed |-> nil]])

UpdateZone(z, s) ==
    /\ objs[z] # Absent
    /\ s # objs[z].spec
    /\ AdmittedUpdate(objs[z].spec, s)
    /\ Edit(z, [objs[z] EXCEPT !.spec = s])

\* With somebody's finalizer the deletion waits, otherwise the object goes.
DeleteZone(z) ==
    /\ objs[z] # Absent
    /\ \/ Edit(z, Absent)
       \/ ~objs[z].deleting /\ Edit(z, [objs[z] EXCEPT !.deleting = TRUE])

-----------------------------------------------------------------------------
NewRequest(z, call, gone, orig, o) ==
    [step |-> "model", zone |-> z, call |-> call, gone |-> gone, obj |-> o,
     dirty |-> o # orig, stale |-> FALSE]

updateStatus(o, state) == [o EXCEPT !.status.state = state]

Observe_pointers(o) ==
    IF ~Master THEN o
    ELSE [o EXCEPT !.status.observed = [class |-> ServerClass, runtime |-> o.spec.runtime]]

\* Only a master registers, and releases, the responsibility.
Observe(o) ==
    IF ~Master THEN o
    ELSE [o EXCEPT !.status.observed = [class   |-> String(ServerClass),
                                        runtime |-> String(o.spec.runtime)]]

Release(o) ==
    IF Master /\ o.status.observed # nil /\ o.status.observed.class = String(ServerClass)
    THEN [o EXCEPT !.status.observed = nil]
    ELSE o

Reconcile_keepsInvalid(z) ==
    LET o    == objs[z]
        info == GetRootInfo(objs, z)
    IN  IF ~info.found
        THEN NewRequest(z, "remove", FALSE, o, updateStatus(o, "Invalid"))
        ELSE IF ~Check(objs[info.root].spec, ServerClass, nil)
        THEN NewRequest(z, "remove", FALSE, o, Release(o))
        ELSE IF ~ValidateZone(o.spec)
        THEN NewRequest(z, "add", FALSE, o, updateStatus(Observe(o), "Invalid"))
        ELSE NewRequest(z, "add", FALSE, o, updateStatus(Observe(o), "Ok"))

Reconcile(z) ==
    LET o    == objs[z]
        info == GetRootInfo(objs, z)
    IN  IF ~info.found
        THEN NewRequest(z, "remove", FALSE, o, updateStatus(o, "Invalid"))
        ELSE IF ~Check(objs[info.root].spec, ServerClass, nil)
        THEN NewRequest(z, "remove", FALSE, o, Release(o))
        ELSE IF ~ValidateZone(o.spec)
        THEN NewRequest(z, "remove", FALSE, o, updateStatus(Observe(o), "Invalid"))
        ELSE NewRequest(z, "add", FALSE, o, updateStatus(Observe(o), "Ok"))

ReconcileDeleting(z) == NewRequest(z, "remove", TRUE, objs[z], objs[z])

ReconcileDeleted(z) == NewRequest(z, "remove", TRUE, Absent, Absent)

Start(z) ==
    /\ req = Idle
    /\ z \in queue
    /\ queue' = queue \ {z}
    /\ req' = IF objs[z] = Absent THEN ReconcileDeleted(z)
              ELSE IF objs[z].deleting THEN ReconcileDeleting(z)
              ELSE Reconcile(z)
    /\ UNCHANGED <<objs, model, used>>

\* The call to the model.  A deleted zone then triggers the nested ones.
Feed ==
    /\ req # Idle
    /\ req.step = "model"
    /\ \/ req.call = "add" /\ M!AddZone(req.zone, req.obj.spec.parent)
       \/ req.call = "remove" /\ M!RemoveZone(req.zone)
    /\ queue' = IF req.gone THEN queue \cup Children(req.zone) ELSE queue
    /\ req' = IF req.obj = Absent THEN Idle ELSE [req EXCEPT !.step = "status"]
    /\ UNCHANGED <<objs, used>>

UpdateStatus ==
    /\ req # Idle
    /\ req.step = "status"
    /\ lock = "free"
    /\ req.dirty => objs[req.zone] # Absent /\ ~req.stale
    /\ objs' = IF req.dirty THEN [objs EXCEPT ![req.zone].status = req.obj.status] ELSE objs
    /\ queue' = IF req.dirty THEN queue \cup {req.zone} ELSE queue
    /\ req' = Idle
    /\ UNCHANGED <<model, used>>

UpdateConflict ==
    /\ req # Idle
    /\ req.step = "status"
    /\ lock = "free"
    /\ req.dirty
    /\ objs[req.zone] = Absent \/ req.stale
    /\ queue' = queue \cup {req.zone}
    /\ req' = Idle
    /\ UNCHANGED <<objs, model, used>>

\* A restarted server lists all objects, in any order, into an empty model.
Restart ==
    /\ used.restarts < MaxRestarts
    /\ used' = [used EXCEPT !.restarts = @ + 1]
    /\ req' = Idle
    /\ queue' = {z \in Zones : objs[z] # Absent}
    /\ zones' = [k \in Zones |-> nil]
    /\ heap' = [o \in Obj |-> nil]
    /\ lock' = "free"
    /\ UNCHANGED objs

-----------------------------------------------------------------------------
User ==
    \E z \in Zones : \/ \E s \in Specs : CreateZone(z, s) \/ UpdateZone(z, s)
                     \/ DeleteZone(z)

Work == Feed \/ UpdateStatus \/ UpdateConflict

Next ==
    \/ User
    \/ \E z \in Zones : Start(z)
    \/ Work
    \/ Restart

Spec == Init /\ [][Next]_vars

-----------------------------------------------------------------------------
TypeOK ==
    /\ objs \in [Zones -> Source \cup {Absent}]
    /\ queue \in SUBSET Zones
    /\ req \in Request \cup {Idle}
    /\ M!TypeOK
    /\ used \in [edits : 0 .. MaxEdits, restarts : 0 .. MaxRestarts]

\* All work is done, and no call to the model is stuck.
Quiet == queue = {} /\ req = Idle /\ lock = "free"

\* A zone the server has to answer for.
Served(z) ==
    /\ objs[z] # Absent /\ ~objs[z].deleting
    /\ GetRootInfo(objs, z).found
    /\ Check(objs[GetRootInfo(objs, z).root].spec, ServerClass, nil)
    /\ ValidateZone(objs[z].spec)

\* The model knows a root zone exactly if it has to.  No zone is in it that is
\* deleted, invalid or registered below another parent than its own.
Mirrored(z) ==
    /\ objs[z] # Absent /\ objs[z].spec.parent = NoZone => (zones[z] # nil <=> Served(z))
    /\ zones[z] # nil
       => /\ objs[z] # Absent /\ ~objs[z].deleting /\ ValidateZone(objs[z].spec)
          /\ heap[zones[z]].parentName = objs[z].spec.parent

(***************************************************************************)
(* When all work is done the model mirrors the objects, whatever was       *)
(* changed while a request was under way, and after any restart.           *)
(***************************************************************************)
ModelSettled == Quiet => \A z \in Zones : Mirrored(z)

-----------------------------------------------------------------------------
(* What a message of the code promises, and the code does not keep.         *)

\* "reference cyle" is a configuration problem: it never reaches the model,
\* whose calls therefore end.
CallsEnd == lock = "free"
=============================================================================
