-------------------------- MODULE ZoneServerProofs --------------------------
(***************************************************************************)
(* Theorems about ZoneServer, for any finite set of zones, any options and *)
(* any number of changes by users and restarts.  What the calls do to the  *)
(* zone model is taken from ZoneModelProofs, and what the walk to the root *)
(* finds from ResponsibilityProofs.                                        *)
(***************************************************************************)
EXTENDS ZoneServer, ResponsibilityProofs

MP == INSTANCE ZoneModelProofs

\* A request that adds a zone or writes a status has read its object.
Wellformed(r) == r.call = "add" \/ r.step = "status" => r.obj \in Source

TypeInv == TypeOK /\ MP!Inv /\ (req # Idle => Wellformed(req))

-----------------------------------------------------------------------------
(* The zone model. *)

\* The assumptions of ZoneModel hold here.
LEMMA ModelAssumptions == MP!ZoneModelAssumption
BY ServerAssumption, NamesAssumption, ValuesAssumption
   DEF MP!ZoneModelAssumption, M!Zone, MP!Zone, M!Pointer, MP!Pointer,
       IsFiniteSet, MP!IsFiniteSet

\* A call of AddZone, as module ZoneModelProofs knows it.
LEMMA SameAddZone == \A k, p : M!AddZone(k, p) <=> MP!AddZone(k, p)
<1>1. \A o, k : M!Relink(o, k) = MP!Relink(o, k)
  BY DEF M!Relink, MP!Relink, M!NewZone, MP!NewZone, M!Below, MP!Below
<1>2. \A h, p : M!Endless(h, p) = MP!Endless(h, p)
  BY DEF M!Endless, MP!Endless, M!Trapped, MP!Trapped
<1>3. \A h, p, o, r : M!Link(h, p, o, r) = MP!Link(h, p, o, r)
  BY DEF M!Link, MP!Link, M!SetChild, MP!SetChild
<1>4. \A h, o, k, r : M!Unlink(h, o, k, r) = MP!Unlink(h, o, k, r)
  BY DEF M!Unlink, MP!Unlink, M!SetChild, MP!SetChild
<1>5. \A z, p, r : M!SetParent(z, p, r) = MP!SetParent(z, p, r)
  BY DEF M!SetParent, MP!SetParent
<1>6. \A zs, h, o, k, r : M!Assign(zs, h, o, k, r) <=> MP!Assign(zs, h, o, k, r)
  BY <1>2, <1>3, <1>4, <1>5 DEF M!Assign, MP!Assign
<1>7. QED
  BY <1>1, <1>6 DEF M!AddZone, MP!AddZone

\* The registration of zone z is as before.
SameEntry(z) ==
    /\ zones'[z] = zones[z]
    /\ zones[z] # nil => heap'[zones[z]].parentName = heap[zones[z]].parentName

\* AddZone registers a zone with its parent, and leaves all others alone.
LEMMA AddZoneEffect ==
    ASSUME MP!Inv, NEW k \in Zones, NEW p \in Zones \cup {NoZone}, M!AddZone(k, p)
    PROVE  /\ MP!Inv'
           /\ zones'[k] # nil /\ heap'[zones'[k]].parentName = p
           /\ \A z \in Zones \ {k} : SameEntry(z)
<1>1. MP!Inv' /\ MP!Adds(k, p)
  BY SameAddZone, ModelAssumptions, MP!AddZoneInv
<1>2. QED
  BY <1>1 DEF MP!Adds, MP!OthersKept, SameEntry

\* RemoveZone takes one out, and leaves all others alone.
LEMMA RemoveZoneEffect ==
    ASSUME MP!Inv, NEW k \in Zones, M!RemoveZone(k)
    PROVE  /\ MP!Inv'
           /\ zones'[k] = nil
           /\ \A z \in Zones \ {k} : SameEntry(z)
<1>1. MP!RemoveZone(k)
  BY DEF M!RemoveZone, MP!RemoveZone
<1>2. /\ MP!Inv' /\ zones'[k] = nil /\ heap' = heap
      /\ \A z \in Zones \ {k} : zones'[z] = zones[z]
  BY <1>1, ModelAssumptions, MP!RemoveZoneInv
<1>3. QED
  BY <1>2 DEF SameEntry

\* Without a call the zone model stays as it is.
LEMMA ModelUnchanged ==
    ASSUME MP!Inv, UNCHANGED model
    PROVE  MP!Inv' /\ \A z \in Zones : SameEntry(z)
BY DEF model, MP!Inv, MP!TypeOK, MP!ChainsEnd, MP!Wellformed, MP!Current, SameEntry

\* A new model is in order.
LEMMA ModelInit ==
    /\ Init => MP!Inv
    /\ Restart => MP!Inv'
BY DEF Init, M!Init, Restart, MP!Inv, MP!TypeOK, MP!ChainsEnd, MP!Trapped, MP!Wellformed, MP!ChildrenExist, MP!Current,
       MP!Pointer

\* A model in order has its type.
LEMMA ModelType == (MP!Inv => M!TypeOK) /\ (MP!Inv' => M!TypeOK')
BY DEF MP!Inv, MP!TypeOK, M!TypeOK, MP!Zone, M!Zone, MP!Pointer, M!Pointer

-----------------------------------------------------------------------------
(* Types of the operations. *)

Bounds == [edits : 0 .. MaxEdits, restarts : 0 .. MaxRestarts]

\* The bounds are kept.
LEMMA BoundsType ==
    ASSUME used \in Bounds
    PROVE  /\ used.edits < MaxEdits => [used EXCEPT !.edits = @ + 1] \in Bounds
           /\ used.restarts < MaxRestarts => [used EXCEPT !.restarts = @ + 1] \in Bounds
BY ServerAssumption DEF Bounds

\* What a request changes in an object is its status.
LEMMA StatusType ==
    ASSUME NEW o \in Source, NEW s \in {"Ok", "Invalid"}
    PROVE  /\ updateStatus(o, s) \in Source /\ updateStatus(o, s).spec = o.spec
           /\ Observe(o) \in Source /\ Observe(o).spec = o.spec
           /\ Release(o) \in Source /\ Release(o).spec = o.spec
<1>1. String(ServerClass) \in Names \cup {""} /\ String(o.spec.runtime) \in Names \cup {""}
  BY ServerAssumption DEF String, Source, Specs
<1>2. [class |-> String(ServerClass), runtime |-> String(o.spec.runtime)] \in Observations
  BY <1>1 DEF Observations
<1>3. o.status \in ZoneStatus
  BY DEF Source
<1>4. ASSUME NEW t \in ZoneStatus
      PROVE  [o EXCEPT !.status = t] \in Source /\ [o EXCEPT !.status = t].spec = o.spec
  BY DEF Source
<1>5. updateStatus(o, s) \in Source /\ updateStatus(o, s).spec = o.spec
  BY <1>3 DEF updateStatus, Source, ZoneStatus
<1>6. Observe(o) \in Source /\ Observe(o).spec = o.spec
  BY <1>2, <1>3 DEF Observe, Source, ZoneStatus
<1>7. Release(o) \in Source /\ Release(o).spec = o.spec
  BY <1>3 DEF Release, Source, ZoneStatus
<1>8. QED
  BY <1>5, <1>6, <1>7

\* A write that makes the open request old does not change it otherwise.
LEMMA OutdateType ==
    ASSUME req \in Request \cup {Idle}, req # Idle => Wellformed(req), NEW z \in Zones
    PROVE  /\ Outdate(z) \in Request \cup {Idle}
           /\ Outdate(z) # Idle => Wellformed(Outdate(z))
           /\ req.zone # z => Outdate(z) = req
BY DEF Outdate, Request, Wellformed

\* The decision of Reconcile on a zone that is not deleted.
LEMMA ReconcileType ==
    ASSUME NEW z \in Zones, objs[z] \in Source, ~objs[z].deleting, objs[z] # Absent
    PROVE  LET r == Reconcile(z) IN
           /\ r \in Request /\ Wellformed(r) /\ r.zone = z /\ r.step = "model"
           /\ r.obj \in Source /\ r.obj.spec = objs[z].spec
           /\ r.call = "add" <=> Served(z)
<1> DEFINE o    == objs[z]
           info == GetRootInfo(objs, z)
           new(call, p) == NewRequest(z, call, FALSE, o, p)
<1>1. ASSUME NEW call \in {"add", "remove"}, NEW p \in Source, p.spec = o.spec,
             NEW r, r = new(call, p)
      PROVE  /\ r \in Request /\ Wellformed(r)
             /\ r.zone = z /\ r.step = "model" /\ r.call = call /\ r.obj = p
  <2>1. p # Absent
    BY ValuesAssumption
  <2>2. QED
    BY <1>1, <2>1 DEF NewRequest, Request, Wellformed
<1>2. /\ updateStatus(o, "Invalid") \in Source /\ updateStatus(o, "Invalid").spec = o.spec
      /\ Release(o) \in Source /\ Release(o).spec = o.spec
      /\ Observe(o) \in Source /\ Observe(o).spec = o.spec
  BY StatusType
<1>3. /\ updateStatus(Observe(o), "Invalid") \in Source
      /\ updateStatus(Observe(o), "Invalid").spec = o.spec
      /\ updateStatus(Observe(o), "Ok") \in Source
      /\ updateStatus(Observe(o), "Ok").spec = o.spec
  BY <1>2, StatusType
<1>4. CASE ~info.found
  <2>1. Reconcile(z) = new("remove", updateStatus(o, "Invalid")) /\ ~Served(z)
    BY <1>4 DEF Reconcile, Served
  <2> HIDE DEF new
  <2>2. QED
    BY <1>1, <1>2, <2>1
<1>5. CASE info.found /\ ~Check(objs[info.root].spec, ServerClass, nil)
  <2>1. Reconcile(z) = new("remove", Release(o)) /\ ~Served(z)
    BY <1>5 DEF Reconcile, Served
  <2> HIDE DEF new
  <2>2. QED
    BY <1>1, <1>2, <2>1
<1>6. CASE info.found /\ Check(objs[info.root].spec, ServerClass, nil) /\ ~ValidateZone(o.spec)
  <2>1. Reconcile(z) = new("remove", updateStatus(Observe(o), "Invalid")) /\ ~Served(z)
    BY <1>6 DEF Reconcile, Served
  <2> HIDE DEF new
  <2>2. QED
    BY <1>1, <1>3, <2>1
<1>7. CASE info.found /\ Check(objs[info.root].spec, ServerClass, nil) /\ ValidateZone(o.spec)
  <2>1. Reconcile(z) = new("add", updateStatus(Observe(o), "Ok")) /\ Served(z)
    BY <1>7 DEF Reconcile, Served
  <2> HIDE DEF new
  <2>2. QED
    BY <1>1, <1>3, <2>1
<1>8. QED
  BY <1>4, <1>5, <1>6, <1>7

\* The request that Start opens for zone z.
Opened(z) ==
    IF objs[z] = Absent THEN ReconcileDeleted(z)
    ELSE IF objs[z].deleting THEN ReconcileDeleting(z)
    ELSE Reconcile(z)

\* It adds the zone exactly if it has to be served.
LEMMA OpenedType ==
    ASSUME TypeOK, NEW z \in Zones
    PROVE  LET r == Opened(z) IN
           /\ r \in Request /\ Wellformed(r) /\ r.zone = z /\ r.step = "model"
           /\ r.call = "add" => r.obj.spec = objs[z].spec
           /\ r.call = "add" <=> Served(z)
<1>1. CASE objs[z] = Absent
  <2>1. Opened(z) = NewRequest(z, "remove", TRUE, Absent, Absent) /\ ~Served(z)
    BY <1>1 DEF Opened, ReconcileDeleted, Served
  <2>2. PICK r : r = NewRequest(z, "remove", TRUE, Absent, Absent)
    OBVIOUS
  <2>3. /\ r \in Request /\ Wellformed(r) /\ r.zone = z /\ r.step = "model"
        /\ r.call = "remove"
    BY <2>2 DEF NewRequest, Request, Wellformed
  <2>4. QED
    BY <2>1, <2>2, <2>3
<1>2. CASE objs[z] # Absent /\ objs[z].deleting
  <2>1. Opened(z) = NewRequest(z, "remove", TRUE, objs[z], objs[z]) /\ ~Served(z)
    BY <1>2 DEF Opened, ReconcileDeleting, Served
  <2>2. PICK r : r = NewRequest(z, "remove", TRUE, objs[z], objs[z])
    OBVIOUS
  <2>3. objs[z] \in Source \cup {Absent}
    BY DEF TypeOK
  <2>4. /\ r \in Request /\ Wellformed(r) /\ r.zone = z /\ r.step = "model"
        /\ r.call = "remove"
    BY <2>2, <2>3 DEF NewRequest, Request, Wellformed
  <2>5. QED
    BY <2>1, <2>2, <2>4
<1>3. CASE objs[z] # Absent /\ ~objs[z].deleting
  <2>1. objs[z] \in Source /\ Opened(z) = Reconcile(z)
    BY <1>3 DEF TypeOK, Opened
  <2>2. QED
    BY <1>3, <2>1, ReconcileType
<1>4. QED
  BY <1>1, <1>2, <1>3

-----------------------------------------------------------------------------
(* Type correctness. *)

\* A change by a user writes one object and enqueues it.
LEMMA EditType ==
    ASSUME TypeInv, NEW z \in Zones, NEW o \in Source \cup {Absent}, Edit(z, o)
    PROVE  TypeInv'
<1>1. objs' \in [Zones -> Source \cup {Absent}] /\ queue' \in SUBSET Zones
  BY DEF TypeInv, TypeOK, Edit
<1>2. req' \in Request \cup {Idle} /\ (req' # Idle => Wellformed(req)')
  BY OutdateType DEF TypeInv, TypeOK, Edit, Wellformed
<1>3. used' \in Bounds
  BY BoundsType DEF TypeInv, TypeOK, Edit, Bounds
<1>4. MP!Inv' /\ M!TypeOK'
  BY ModelUnchanged, ModelType DEF TypeInv, Edit
<1>5. QED
  BY <1>1, <1>2, <1>3, <1>4 DEF TypeInv, TypeOK, Bounds

\* The object a user writes.
LEMMA UserType ==
    ASSUME TypeInv, User
    PROVE  \E z \in Zones, o \in Source \cup {Absent} : Edit(z, o)
<1>1. PICK z \in Zones : (\E s \in Specs : CreateZone(z, s) \/ UpdateZone(z, s)) \/ DeleteZone(z)
  BY DEF User
<1>2. objs[z] \in Source \cup {Absent}
  BY DEF TypeInv, TypeOK
<1>3. ASSUME NEW s \in Specs, CreateZone(z, s)
      PROVE  \E o \in Source \cup {Absent} : Edit(z, o)
  <2>1. [spec |-> s, deleting |-> FALSE, status |-> [state |-> "", observed |-> nil]] \in Source
    BY DEF Source, ZoneStatus
  <2>2. QED
    BY <1>3, <2>1 DEF CreateZone
<1>4. ASSUME NEW s \in Specs, UpdateZone(z, s)
      PROVE  \E o \in Source \cup {Absent} : Edit(z, o)
  <2>1. [objs[z] EXCEPT !.spec = s] \in Source
    BY <1>2, <1>4 DEF UpdateZone, Source
  <2>2. QED
    BY <1>4, <2>1 DEF UpdateZone
<1>5. ASSUME DeleteZone(z) PROVE \E o \in Source \cup {Absent} : Edit(z, o)
  <2>1. objs[z] # Absent => [objs[z] EXCEPT !.deleting = TRUE] \in Source
    BY <1>2 DEF Source
  <2>2. QED
    BY <1>5, <2>1 DEF DeleteZone
<1>6. QED
  BY <1>1, <1>3, <1>4, <1>5

\* Start takes a zone from the queue.
LEMMA StartType ==
    ASSUME TypeInv, NEW z \in Zones, Start(z)
    PROVE  TypeInv'
<1>1. req' = Opened(z)
  BY DEF Start, Opened
<1>2. req' \in Request /\ Wellformed(req)'
  BY <1>1, OpenedType DEF TypeInv, Wellformed
<1>3. queue' \in SUBSET Zones
  BY DEF TypeInv, TypeOK, Start
<1>4. MP!Inv' /\ M!TypeOK'
  BY ModelUnchanged, ModelType DEF TypeInv, Start
<1>5. QED
  BY <1>2, <1>3, <1>4 DEF TypeInv, TypeOK, Start

\* The call to the model.
LEMMA FeedType ==
    ASSUME TypeInv, Feed
    PROVE  /\ TypeInv'
           /\ req.call = "add" =>
                 /\ zones'[req.zone] # nil
                 /\ heap'[zones'[req.zone]].parentName = req.obj.spec.parent
           /\ req.call = "remove" => zones'[req.zone] = nil
           /\ \A z \in Zones \ {req.zone} : SameEntry(z)
<1>1. req \in Request /\ req.zone \in Zones /\ Wellformed(req)
  BY DEF TypeInv, TypeOK, Feed, Request
<1>2. /\ MP!Inv'
      /\ req.call = "add" =>
            /\ zones'[req.zone] # nil
            /\ heap'[zones'[req.zone]].parentName = req.obj.spec.parent
      /\ req.call = "remove" => zones'[req.zone] = nil
      /\ \A z \in Zones \ {req.zone} : SameEntry(z)
  <2>1. CASE req.call = "add" /\ M!AddZone(req.zone, req.obj.spec.parent)
    <3>1. req.obj.spec.parent \in Zones \cup {NoZone}
      BY <1>1, <2>1 DEF Wellformed, Source, Specs
    <3>2. QED
      BY <1>1, <2>1, <3>1, AddZoneEffect DEF TypeInv
  <2>2. CASE req.call = "remove" /\ M!RemoveZone(req.zone)
    BY <1>1, <2>2, RemoveZoneEffect DEF TypeInv
  <2>3. QED
    BY <2>1, <2>2 DEF Feed
<1>3. req' \in Request \cup {Idle} /\ (req' # Idle => Wellformed(req)')
  BY <1>1 DEF Feed, Request, Wellformed
<1>4. queue' \in SUBSET Zones
  BY DEF TypeInv, TypeOK, Feed, Children
<1>5. M!TypeOK'
  BY <1>2, ModelType
<1>6. QED
  BY <1>2, <1>3, <1>4, <1>5 DEF TypeInv, TypeOK, Feed

\* The write of the status at the end of a request changes nothing else.
LEMMA StatusWritten ==
    ASSUME TypeInv, UpdateStatus \/ UpdateConflict
    PROVE  /\ TypeInv'
           /\ \A z \in Zones : /\ objs'[z] # Absent <=> objs[z] # Absent
                               /\ objs'[z].spec = objs[z].spec
                               /\ objs'[z].deleting = objs[z].deleting
<1>1. req \in Request /\ req.zone \in Zones /\ Wellformed(req) /\ req.step = "status"
  BY DEF TypeInv, TypeOK, UpdateStatus, UpdateConflict, Request
<1>2. /\ objs' \in [Zones -> Source \cup {Absent}]
      /\ \A z \in Zones : /\ objs'[z] # Absent <=> objs[z] # Absent
                          /\ objs'[z].spec = objs[z].spec
                          /\ objs'[z].deleting = objs[z].deleting
  <2>1. CASE objs' = objs
    BY <2>1 DEF TypeInv, TypeOK
  <2>2. CASE UpdateStatus /\ req.dirty
    <3> DEFINE o == [objs[req.zone] EXCEPT !.status = req.obj.status]
    <3>1. objs[req.zone] \in Source /\ req.obj.status \in ZoneStatus
      BY <1>1, <2>2 DEF UpdateStatus, TypeInv, TypeOK, Wellformed, Source
    <3>2. o \in Source /\ o.spec = objs[req.zone].spec /\ o.deleting = objs[req.zone].deleting
      BY <3>1 DEF Source
    <3>3. objs' = [objs EXCEPT ![req.zone] = o]
      BY <2>2 DEF UpdateStatus
    <3>4. o # Absent /\ objs[req.zone] # Absent
      BY <3>1, <3>2, ValuesAssumption
    <3> HIDE DEF o
    <3>5. QED
      BY <1>1, <3>2, <3>3, <3>4 DEF TypeInv, TypeOK
  <2>3. QED
    BY <2>1, <2>2 DEF UpdateStatus, UpdateConflict
<1>3. MP!Inv' /\ M!TypeOK'
  BY ModelUnchanged, ModelType DEF TypeInv, UpdateStatus, UpdateConflict
<1>4. QED
  BY <1>1, <1>2, <1>3 DEF TypeInv, TypeOK, UpdateStatus, UpdateConflict

\* A restart.
LEMMA RestartType ==
    ASSUME TypeInv, Restart
    PROVE  TypeInv'
<1>1. used' \in Bounds
  BY BoundsType DEF TypeInv, TypeOK, Restart, Bounds
<1>2. MP!Inv' /\ M!TypeOK'
  BY ModelInit, ModelType
<1>3. QED
  BY <1>1, <1>2 DEF TypeInv, TypeOK, Restart, Bounds

\* At the start everything has its type.
LEMMA InitType == Init => TypeInv
<1> SUFFICES ASSUME Init PROVE TypeInv
  OBVIOUS
<1>1. MP!Inv /\ M!TypeOK
  BY ModelInit, ModelType
<1>2. used \in Bounds
  BY ServerAssumption DEF Init, Bounds
<1>3. QED
  BY <1>1, <1>2 DEF Init, TypeInv, TypeOK, Bounds

\* Nor does a step in which nothing happens change a type.
LEMMA StutterType ==
    ASSUME TypeInv, UNCHANGED vars
    PROVE  TypeInv'
<1>1. MP!Inv' /\ M!TypeOK'
  BY ModelUnchanged, ModelType DEF TypeInv, vars
<1>2. QED
  BY <1>1 DEF vars, TypeInv, TypeOK, Wellformed

LEMMA NextType == TypeInv /\ [Next]_vars => TypeInv'
<1> SUFFICES ASSUME TypeInv, [Next]_vars PROVE TypeInv'
  OBVIOUS
<1>1. CASE User
  BY <1>1, UserType, EditType
<1>2. QED
  BY <1>1, StartType, FeedType, StatusWritten, RestartType, StutterType
     DEF Next, Work

(***************************************************************************)
(* Type correctness: a request only ever writes the status of an object it *)
(* has read, and only adds a zone that it has; so neither the objects nor  *)
(* the zone model get out of shape, whoever comes in between.              *)
(***************************************************************************)
THEOREM ServerTypes == Spec => []TypeOK
<1>1. TypeInv => TypeOK
  BY DEF TypeInv
<1>2. QED
  BY <1>1, InitType, NextType, PTL DEF Spec

-----------------------------------------------------------------------------
(***************************************************************************)
(* The model mirrors the objects.  The invariant says of a zone that it    *)
(* waits in the queue, or that the open request has decided on the object  *)
(* as it is now, or that the model is right about it.                      *)
(***************************************************************************)
Healthy(z) ==
    /\ objs[z] # Absent /\ ~objs[z].deleting /\ ValidateZone(objs[z].spec)
    /\ objs[z].spec.parent = NoZone => Check(objs[z].spec, ServerClass, nil)

IsRoot(z) == objs[z] # Absent /\ objs[z].spec.parent = NoZone

Settles(z) ==
    /\ zones[z] # nil => Healthy(z) /\ heap[zones[z]].parentName = objs[z].spec.parent
    /\ IsRoot(z) /\ Healthy(z) => zones[z] # nil

\* The open request is about to call the model for zone z.
Calling(z) == req \in Request /\ req.zone = z /\ req.step = "model"

Decided(z) ==
    /\ Calling(z)
    /\ req.call = "add" => Healthy(z) /\ req.obj.spec = objs[z].spec
    /\ req.call = "remove" => ~(IsRoot(z) /\ Healthy(z))

SettledInv ==
    /\ TypeInv
    /\ \A z \in Zones : z \in queue \/ Decided(z) \/ (Settles(z) /\ ~Calling(z))

\* The walk to the root does nothing for a zone without parent.
LEMMA RootServed ==
    ASSUME TypeOK, NEW z \in Zones
    PROVE  /\ IsRoot(z) => (Served(z) <=> Healthy(z))
           /\ Served(z) => Healthy(z)
<1>1. Linked(objs)
  BY DEF TypeOK, Linked, Source, Specs
<1>2. ASSUME IsRoot(z) PROVE GetRootInfo(objs, z) = [found |-> TRUE, root |-> z]
  BY <1>1, <1>2, RootInfoStep DEF IsRoot
<1>3. IsRoot(z) => (Served(z) <=> Healthy(z))
  BY <1>2 DEF Served, Healthy, IsRoot
<1>4. Served(z) /\ ~IsRoot(z) => Healthy(z)
  BY DEF Served, Healthy, IsRoot
<1>5. QED
  BY <1>3, <1>4

\* What Settles says is what has to be seen when all work is done.
LEMMA SettlesMirrored ==
    ASSUME TypeOK, NEW z \in Zones, Settles(z)
    PROVE  Mirrored(z)
BY RootServed DEF Settles, Mirrored, Healthy, IsRoot

\* The object of zone z is the same, but for its status.
SameObject(z) ==
    /\ objs'[z] # Absent <=> objs[z] # Absent
    /\ objs'[z].spec = objs[z].spec
    /\ objs'[z].deleting = objs[z].deleting

\* A step that has nothing to do with a zone leaves it as settled as it was.
LEMMA SettlesKept ==
    ASSUME NEW z \in Zones, SameObject(z), SameEntry(z)
    PROVE  /\ Healthy(z)' <=> Healthy(z)
           /\ IsRoot(z)' <=> IsRoot(z)
           /\ Settles(z) => Settles(z)'
BY DEF SameObject, SameEntry, Settles, Healthy, IsRoot

LEMMA DecidedKept ==
    ASSUME NEW z \in Zones, SameObject(z), req' = req, Decided(z)
    PROVE  Decided(z)'
BY DEF SameObject, Decided, Calling, Healthy, IsRoot

\* One lemma per action.
LEMMA EditSettled ==
    ASSUME SettledInv, NEW k \in Zones, NEW o \in Source \cup {Absent}, Edit(k, o)
    PROVE  SettledInv'
<1>1. TypeInv'
  BY EditType DEF SettledInv
<1>2. ASSUME NEW z \in Zones PROVE (z \in queue \/ Decided(z) \/ (Settles(z) /\ ~Calling(z)))'
  <2>1. CASE z = k \/ z \in queue
    BY <2>1 DEF Edit
  <2>2. CASE z # k /\ z \notin queue
    <3>1. SameObject(z)
      BY <2>2 DEF Edit, SameObject, SettledInv, TypeInv, TypeOK
    <3>2. SameEntry(z)
      BY ModelUnchanged DEF Edit, SettledInv, TypeInv
    <3>3. CASE Decided(z)
      <4>1. req' = req
        BY <2>2, <3>3 DEF Edit, Outdate, Decided, Calling
      <4>2. QED
        BY <3>1, <3>3, <4>1, DecidedKept
    <3>4. CASE Settles(z) /\ ~Calling(z)
      <4>1. ~Calling(z)'
        BY <2>2, <3>4 DEF Edit, Outdate, Calling, Request, SettledInv, TypeInv, TypeOK
      <4>2. QED
        BY <3>1, <3>2, <3>4, <4>1, SettlesKept
    <3>5. QED
      BY <2>2, <3>3, <3>4 DEF SettledInv
  <2>3. QED
    BY <2>1, <2>2
<1>3. QED
  BY <1>1, <1>2 DEF SettledInv

LEMMA StartSettled ==
    ASSUME SettledInv, NEW k \in Zones, Start(k)
    PROVE  SettledInv'
<1>1. TypeInv' /\ TypeOK
  BY StartType DEF SettledInv, TypeInv
<1>2. \A z \in Zones : SameObject(z) /\ SameEntry(z)
  BY ModelUnchanged DEF Start, SameObject, SettledInv, TypeInv
<1>3. ASSUME NEW z \in Zones PROVE (z \in queue \/ Decided(z) \/ (Settles(z) /\ ~Calling(z)))'
  <2>1. CASE z = k
    <3>1. req' = Opened(z)
      BY <2>1 DEF Start, Opened
    <3>2. /\ req' \in Request /\ req'.zone = z /\ req'.step = "model"
          /\ req'.call = "add" => req'.obj.spec = objs[z].spec
          /\ req'.call = "add" <=> Served(z)
      BY <1>1, <3>1, OpenedType
    <3>3. req'.call = "add" => Healthy(z)
      BY <1>1, <3>2, RootServed
    <3>4. req'.call = "remove" => ~(IsRoot(z) /\ Healthy(z))
      BY <1>1, <3>2, RootServed
    <3>5. (Healthy(z)' <=> Healthy(z)) /\ (IsRoot(z)' <=> IsRoot(z)) /\ objs' = objs
      BY <1>2, SettlesKept DEF Start
    <3>6. QED
      BY <3>2, <3>3, <3>4, <3>5 DEF Decided, Calling
  <2>2. CASE z # k /\ z \in queue
    BY <2>2 DEF Start
  <2>3. CASE z # k /\ z \notin queue
    <3>1. ~Decided(z)
      BY ValuesAssumption DEF Start, Decided, Calling, Idle
    <3>2. Settles(z)
      BY <2>3, <3>1 DEF SettledInv
    <3>3. ~Calling(z)'
      BY <1>1, <2>3, OpenedType DEF Start, Opened, Calling
    <3>4. QED
      BY <1>2, <3>2, <3>3, SettlesKept
  <2>4. QED
    BY <2>1, <2>2, <2>3
<1>4. QED
  BY <1>1, <1>3 DEF SettledInv

LEMMA FeedSettled ==
    ASSUME SettledInv, Feed
    PROVE  SettledInv'
<1>1. /\ TypeInv'
      /\ req.call = "add" =>
            /\ zones'[req.zone] # nil
            /\ heap'[zones'[req.zone]].parentName = req.obj.spec.parent
      /\ req.call = "remove" => zones'[req.zone] = nil
      /\ \A z \in Zones \ {req.zone} : SameEntry(z)
  BY FeedType DEF SettledInv
<1>2. ASSUME NEW z \in Zones PROVE (z \in queue \/ Decided(z) \/ (Settles(z) /\ ~Calling(z)))'
  <2>1. CASE z \in queue
    BY <2>1 DEF Feed
  <2>2. CASE Decided(z)
    <3>1. req.zone = z /\ req.call \in {"add", "remove"} /\ objs' = objs
      BY <2>2 DEF Decided, Calling, Request, Feed
    <3>2. (Healthy(z)' <=> Healthy(z)) /\ (IsRoot(z)' <=> IsRoot(z))
      BY <3>1 DEF Healthy, IsRoot
    <3>3. Settles(z)'
      BY <1>1, <2>2, <3>1, <3>2 DEF Decided, Settles
    <3>4. ~Calling(z)'
      BY ValuesAssumption DEF Feed, Calling, Idle, SettledInv, TypeInv, TypeOK, Request
    <3>5. QED
      BY <3>3, <3>4
  <2>3. CASE z \notin queue /\ ~Decided(z)
    <3>1. Settles(z) /\ ~Calling(z) /\ SameObject(z)
      BY <2>3 DEF SettledInv, SameObject, Feed
    <3>2. z # req.zone
      BY <3>1 DEF Calling, Feed, SettledInv, TypeInv, TypeOK
    <3>3. ~Calling(z)'
      BY <3>2, ValuesAssumption DEF Calling, Feed, Idle, SettledInv, TypeInv, TypeOK, Request
    <3>4. QED
      BY <1>1, <3>1, <3>2, <3>3, SettlesKept
  <2>4. QED
    BY <2>1, <2>2, <2>3
<1>3. QED
  BY <1>1, <1>2 DEF SettledInv

LEMMA StatusSettled ==
    ASSUME SettledInv, UpdateStatus \/ UpdateConflict
    PROVE  SettledInv'
<1>1. TypeInv' /\ \A z \in Zones : SameObject(z)
  BY StatusWritten DEF SettledInv, SameObject
<1>2. \A z \in Zones : SameEntry(z)
  BY ModelUnchanged DEF SettledInv, TypeInv, UpdateStatus, UpdateConflict
<1>3. ASSUME NEW z \in Zones PROVE (z \in queue \/ Decided(z) \/ (Settles(z) /\ ~Calling(z)))'
  <2>1. ~Decided(z) /\ ~Calling(z)'
    BY ValuesAssumption DEF UpdateStatus, UpdateConflict, Decided, Calling, Idle
  <2>2. CASE z \in queue
    BY <2>2 DEF UpdateStatus, UpdateConflict
  <2>3. CASE z \notin queue
    BY <1>1, <1>2, <2>1, <2>3, SettlesKept DEF SettledInv
  <2>4. QED
    BY <2>2, <2>3
<1>4. QED
  BY <1>1, <1>3 DEF SettledInv

\* After a restart the model is empty, and all zones wait.
LEMMA RestartSettled ==
    ASSUME SettledInv, Restart
    PROVE  SettledInv'
<1>1. TypeInv'
  BY RestartType DEF SettledInv
<1>2. \A z \in Zones : (z \in queue \/ (Settles(z) /\ ~Calling(z)))'
  BY ValuesAssumption DEF Restart, Settles, IsRoot, Calling, Idle
<1>3. QED
  BY <1>1, <1>2 DEF SettledInv

LEMMA StutterSettled ==
    ASSUME SettledInv, UNCHANGED vars
    PROVE  SettledInv'
BY StutterType DEF SettledInv, vars, model, Decided, Calling, Settles, Healthy, IsRoot

LEMMA NextSettled == SettledInv /\ [Next]_vars => SettledInv'
<1> SUFFICES ASSUME SettledInv, [Next]_vars PROVE SettledInv'
  OBVIOUS
<1>1. CASE User
  BY <1>1, UserType, EditSettled DEF SettledInv
<1>2. QED
  BY <1>1, StartSettled, FeedSettled, StatusSettled, RestartSettled, StutterSettled
     DEF Next, Work

(***************************************************************************)
(* When all work is done the server's model mirrors the objects, for any   *)
(* number of zones, whatever users change while a request is under way and *)
(* whenever the server restarts.  A request may act on an object that was  *)
(* changed since it was read: then the change has enqueued the zone, and   *)
(* no other request takes it before this one has ended.                    *)
(***************************************************************************)
THEOREM ModelMirrors == Spec => []ModelSettled
<1>1. Init => SettledInv
  BY InitType, ValuesAssumption DEF SettledInv, Init, M!Init, Settles, IsRoot, Calling, Idle
<1>2. SettledInv => ModelSettled
  <2>1. SUFFICES ASSUME SettledInv, Quiet, NEW z \in Zones PROVE Mirrored(z)
    BY DEF ModelSettled
  <2>2. Settles(z)
    BY <2>1, ValuesAssumption DEF SettledInv, Quiet, Decided, Calling, Idle
  <2>3. QED
    BY <2>1, <2>2, SettlesMirrored DEF SettledInv, TypeInv
<1>3. QED
  BY <1>1, <1>2, NextSettled, PTL DEF Spec
=============================================================================
