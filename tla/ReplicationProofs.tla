------------------------- MODULE ReplicationProofs -------------------------
(***************************************************************************)
(* Theorems about Replication, for any sets of zones, entries and class    *)
(* names and any values of the options and bounds.                         *)
(***************************************************************************)
EXTENDS Replication, ResponsibilityProofs

\* An open request of a controller is about an object of its kind, as read.
Wellformed(k, r) ==
    r.step # "idle" => r.obj \in Objects /\ Kind(r.obj) = k /\ r.read \in Object

Requests == {q \in [Kinds -> Request] : \A k \in Kinds : Wellformed(k, q[k])}

TypeInv == TypeOK /\ req \in Requests

Bounds == [edits : 0 .. MaxEdits, failures : 0 .. MaxFailures, crashes : 0 .. MaxCrashes]

-----------------------------------------------------------------------------
(* Lemmas about objects and requests. *)

\* A failing call and a change by a user stay within their bounds.
LEMMA BoundsKept ==
    ASSUME TypeOK, Failure \/ UserEdit
    PROVE  used' \in Bounds
BY ReplicationAssumption DEF TypeOK, Failure, UserEdit, Bounds

\* Kinds are the kinds of the objects.
LEMMA KindType == \A x \in Objects : Kind(x) \in Kinds
BY DEF Kind, Kinds

\* A request may be replaced by a well-formed one.
LEMMA ReplaceRequest ==
    ASSUME TypeInv, NEW k \in Kinds, NEW r \in Request, Wellformed(k, r)
    PROVE  [req EXCEPT ![k] = r] \in Requests
BY DEF TypeInv, Requests

\* No request, as every request ends.
LEMMA IdleType == Idle \in Request /\ \A k \in Kinds : Wellformed(k, Idle)
BY DEF Idle, Request, Steps, States, Wellformed

\* What is known of the request in progress.
LEMMA OpenRequest ==
    ASSUME TypeInv, NEW k \in Kinds, req[k].step # "idle"
    PROVE  /\ req[k] \in Request /\ req[k].obj \in Objects
           /\ Kind(req[k].obj) = k /\ req[k].read \in Object
BY DEF TypeInv, Requests, Wellformed

\* A request that proceeds to another step stays well-formed.
LEMMA AdvanceType ==
    ASSUME TypeInv, NEW k \in Kinds, req[k].step # "idle", NEW s \in Steps
    PROVE  Advance(k, s) \in Requests
<1>1. [req[k] EXCEPT !.step = s] \in Request
  BY OpenRequest DEF Request
<1>2. Wellformed(k, [req[k] EXCEPT !.step = s])
  BY OpenRequest DEF Request, Wellformed
<1>3. Advance(k, s) = [req EXCEPT ![k] = [req[k] EXCEPT !.step = s]]
  BY DEF Advance
<1>4. QED
  BY <1>1, <1>2, <1>3, ReplaceRequest

\* So does one that also takes over the status of the replica.
LEMMA StatusTaken ==
    ASSUME TypeInv, NEW k \in Kinds, req[k].step # "idle", NEW s \in States
    PROVE  [req EXCEPT ![k] = [@ EXCEPT !.step = "status", !.read.state = s]] \in Requests
<1> DEFINE o == [req[k].read EXCEPT !.state = s]
           r == [[req[k] EXCEPT !.step = "status"] EXCEPT !.read = o]
<1>1. o \in Object
  BY OpenRequest DEF Object
<1>2. r \in Request
  BY <1>1, OpenRequest DEF Request, Steps
<1>3. Wellformed(k, r)
  BY <1>1, OpenRequest DEF Request, Wellformed
<1>4. [req[k] EXCEPT !.step = "status", !.read.state = s] = r
  BY OpenRequest DEF Request
<1>5. QED
  BY <1>2, <1>3, <1>4, ReplaceRequest

\* A write by somebody else leaves requests well-formed.
LEMMA OutdateType ==
    ASSUME TypeInv, NEW x \in Objects
    PROVE  Outdate(x) \in Requests
<1>1. \A k \in Kinds : [req[k] EXCEPT !.stale = TRUE] \in Request
  BY DEF TypeInv, Requests, Request
<1>2. \A k \in Kinds : Wellformed(k, [req[k] EXCEPT !.stale = TRUE])
  BY DEF TypeInv, Requests, Request, Wellformed
<1>3. QED
  BY <1>1, <1>2 DEF TypeInv, Requests, Outdate

\* A new request for an object that exists.
LEMMA NewRequestType ==
    ASSUME TypeInv, NEW x \in Objects, src[x] # Absent,
           NEW s \in Steps, NEW o \in Object
    PROVE  [req EXCEPT ![Kind(x)] = NewRequest(x, s, o)] \in Requests
<1>1. src[x] \in Object
  BY DEF TypeInv, TypeOK
<1>2. NewRequest(x, s, o) \in Request
  BY <1>1 DEF NewRequest, Request, Object
<1>3. Wellformed(Kind(x), NewRequest(x, s, o))
  BY DEF NewRequest, Wellformed
<1>4. QED
  BY <1>2, <1>3, KindType, ReplaceRequest

\* The request at the start of Reconcile.
LEMMA ReconcileType ==
    ASSUME TypeInv, NEW x \in Objects, src[x] # Absent
    PROVE  [req EXCEPT ![Kind(x)] = Reconcile(x)] \in Requests
<1>1. src[x] \in Object
  BY DEF TypeInv, TypeOK
<1>2. Reported(x) \in Object
  <2>1. [src[x] EXCEPT !.state = "problem"] \in Object
    BY <1>1 DEF Object, States
  <2>2. QED
    BY <1>1, <2>1 DEF Reported
<1>3. \E s \in Steps : Reconcile(x) = NewRequest(x, s, Reported(x))
  BY DEF Reconcile, Steps
<1>4. QED
  BY <1>2, <1>3, NewRequestType

\* Queues and the handler's map.
LEMMA DependentsType == \A x : Dependents(x) \subseteq Objects
BY DEF Dependents

\* Responsibility is decided.
LEMMA ResponsibleType == \A x : Responsible(x) \in BOOLEAN
<1> SUFFICES ASSUME NEW x PROVE Responsible(x) \in BOOLEAN
  OBVIOUS
<1>1. CASE RootInfo(x).found
  BY <1>1 DEF Responsible, SameClass
<1>2. CASE ~RootInfo(x).found
  BY <1>2 DEF Responsible
<1>3. QED
  BY <1>1, <1>2

\* The handler's map stays well-formed when an object is released.
LEMMA HandlerType ==
    ASSUME TypeOK, NEW x \in Objects, NEW q \in SUBSET Objects, HandlerDelete(x, q)
    PROVE  queue' \in SUBSET Objects /\ unresponsible' \in [Zones -> BOOLEAN \cup {nil}]
BY DependentsType DEF TypeOK, HandlerDelete

\* What SetResponsibility makes of a spec is a spec.
LEMMA TargetSpecType == \A x, s : s \in Specs => TargetSpec(x, s) \in Specs
BY ReplicationAssumption DEF TargetSpec, Specs

\* The effect of the two patches of the finalizer.
LEMMA PatchedType ==
    ASSUME TypeInv, NEW k \in Kinds, req[k].step # "idle",
           NEW o \in Object \cup {Absent}, NEW s \in Steps, Patched(k, o, s)
    PROVE  TypeInv'
<1>1. req[k].obj \in Objects /\ Kind(req[k].obj) = k
  BY OpenRequest
<1>2. src' \in [Objects -> Object \cup {Absent}] /\ queue' \in SUBSET Objects
  BY <1>1 DEF Patched, TypeInv, TypeOK
<1>3. req' \in Requests
  <2>1. CASE o = Absent
    BY <2>1, IdleType, ReplaceRequest DEF Patched
  <2>2. CASE o # Absent
    <3> DEFINE r == [step |-> s, obj |-> req[k].obj, read |-> o,
                     was |-> o.state, stale |-> FALSE]
    <3>1. r \in Request /\ Wellformed(k, r)
      BY <1>1, <2>2 DEF Request, Object, Wellformed
    <3>2. QED
      BY <2>2, <3>1, ReplaceRequest DEF Patched
  <2>3. QED
    BY <2>1, <2>2
<1>4. QED
  BY <1>2, <1>3 DEF Patched, TypeInv, TypeOK, Requests

\* The effect of a change of a replica by somebody else.
LEMMA TargetChangeType ==
    ASSUME TypeInv, NEW x \in Objects, NEW r \in Replica \cup {Absent},
           TargetChange(x, r), used' \in Bounds
    PROVE  TypeInv'
BY DEF TypeInv, TypeOK, Requests, TargetChange, Bounds, Wellformed

\* The effect of a change of an object by a user.
LEMMA EditType ==
    ASSUME TypeInv, NEW x \in Objects, NEW o \in Object \cup {Absent}, Edit(x, o)
    PROVE  TypeInv'
<1>1. used' \in Bounds
  BY BoundsKept DEF TypeInv, Edit
<1>2. req' \in Requests
  BY OutdateType DEF Edit
<1>3. QED
  BY <1>1, <1>2 DEF TypeInv, TypeOK, Requests, Edit, Bounds

-----------------------------------------------------------------------------
(* Type correctness, action by action. *)

\* Steps of users.
LEMMA UserType ==
    ASSUME TypeInv, User
    PROVE  TypeInv'
<1> SUFFICES ASSUME NEW x \in Objects,
                    \/ \E s \in SpecsOf(x) : Create(x, s) \/ Update(x, s)
                    \/ Delete(x) \/ TargetDelete(x)
             PROVE  TypeInv'
  BY DEF User
<1>1. src[x] \in Object \cup {Absent} /\ tgt[x] \in Replica \cup {Absent}
  BY DEF TypeInv, TypeOK
<1>2. ASSUME NEW s \in SpecsOf(x), Create(x, s) PROVE TypeInv'
  <2>1. [spec |-> s, deleting |-> FALSE, fin |-> FALSE, state |-> "none"] \in Object
    BY DEF SpecsOf, Object, States
  <2>2. QED
    BY <1>2, <2>1, EditType DEF Create
<1>3. ASSUME NEW s \in SpecsOf(x), Update(x, s) PROVE TypeInv'
  <2>1. [src[x] EXCEPT !.spec = s] \in Object
    BY <1>1, <1>3 DEF SpecsOf, Object, Update
  <2>2. QED
    BY <1>3, <2>1, EditType DEF Update
<1>4. CASE Delete(x)
  <2>1. [src[x] EXCEPT !.deleting = TRUE] \in Object
    BY <1>1, <1>4 DEF Object, Delete, Living
  <2>2. QED
    BY <1>4, <2>1, EditType DEF Delete
<1>5. CASE TargetDelete(x)
  <2>1. [tgt[x] EXCEPT !.deleting = TRUE] \in Replica
    BY <1>1, <1>5 DEF Replica, TargetDelete
  <2>2. used' \in Bounds
    BY <1>5, BoundsKept DEF TypeInv, TargetDelete
  <2>3. QED
    BY <1>5, <2>1, <2>2, TargetChangeType DEF TargetDelete
<1>6. QED
  BY <1>2, <1>3, <1>4, <1>5

\* The start of a request.
LEMMA StartType ==
    ASSUME TypeInv, NEW x \in Objects, Start(x) \/ StartDeleted(x) \/ LookupFails(x)
    PROVE  TypeInv'
<1>1. src[x] \in Object \cup {Absent}
  BY DEF TypeInv, TypeOK
<1>2. CASE Start(x)
  <2>1. req' \in Requests
    BY <1>2, ReconcileType DEF Start, Living
  <2>2. /\ queue' \in SUBSET Objects
        /\ unresponsible' \in [Zones -> BOOLEAN \cup {nil}]
    BY <1>2, DependentsType, ResponsibleType DEF Start, TypeInv, TypeOK
  <2>3. QED
    BY <1>2, <2>1, <2>2 DEF Start, TypeInv, TypeOK, Requests
<1>3. CASE StartDeleted(x)
  <2>1. req' \in Requests
    <3>1. CASE src[x] = Absent
      BY <1>3, <3>1 DEF StartDeleted, TypeInv
    <3>2. CASE src[x] # Absent
      BY <1>1, <1>3, <3>2, NewRequestType DEF StartDeleted, Steps
    <3>3. QED
      BY <3>1, <3>2
  <2>2. QED
    BY <1>3, <2>1 DEF StartDeleted, TypeInv, TypeOK, Requests
<1>4. CASE LookupFails(x)
  <2>1. used' \in Bounds
    BY <1>4, BoundsKept DEF TypeInv, LookupFails
  <2>2. QED
    BY <1>4, <2>1 DEF LookupFails, TypeInv, TypeOK, Requests, Wellformed, Bounds
<1>5. QED
  BY <1>2, <1>3, <1>4

\* A restart, and the controllers of the target cluster.
LEMMA ClusterType ==
    ASSUME TypeInv, Crash \/ \E x \in Objects : TargetServes(x) \/ TargetReleases(x)
    PROVE  TypeInv'
<1>1. CASE Crash
  <2>1. req' \in Requests
    BY <1>1, IdleType DEF Crash, Requests
  <2>2. used' \in Bounds
    BY <1>1, ReplicationAssumption DEF Crash, TypeInv, TypeOK, Bounds
  <2>3. QED
    BY <1>1, <2>1, <2>2 DEF Crash, TypeInv, TypeOK, Requests, Bounds
<1>2. ASSUME NEW x \in Objects, TargetServes(x) PROVE TypeInv'
  <2>1. [tgt[x] EXCEPT !.held = TRUE, !.state = "ready"] \in Replica
    BY <1>2 DEF TypeInv, TypeOK, TargetServes, Replica, States
  <2>2. QED
    BY <1>2, <2>1, TargetChangeType DEF TargetServes, TypeInv, TypeOK, Bounds
<1>3. ASSUME NEW x \in Objects, TargetReleases(x) PROVE TypeInv'
  BY <1>3, TargetChangeType DEF TargetReleases, TypeInv, TypeOK, Bounds
<1>4. QED
  BY <1>1, <1>2, <1>3
\* The steps of a request.
LEMMA WorkType ==
    ASSUME TypeInv, NEW k \in Kinds, Work(k)
    PROVE  TypeInv'
<1> DEFINE x == req[k].obj
<1>1. req[k].step # "idle"
  BY DEF Work, AddFinalizer, RemoveFinalizer, PatchGone, CreateReplica, AwaitReplica,
         UpdateReplica, UpdateLost, ReplicateFails, ReplicaGone, DeleteReplica,
         ReleaseFails, UpdateStatus, UpdateConflict, WriteFails
<1>2. req[k] \in Request /\ x \in Objects /\ req[k].read \in Object
  BY <1>1, OpenRequest
<1>3. src[x] \in Object \cup {Absent} /\ tgt[x] \in Replica \cup {Absent}
  BY <1>2 DEF TypeInv, TypeOK
<1>4. \A s \in Steps : Advance(k, s) \in Requests
  BY <1>1, AdvanceType
<1>5. [req EXCEPT ![k] = Idle] \in Requests
  BY IdleType, ReplaceRequest
<1>6. Requeue(k) \in SUBSET Objects
  BY <1>2 DEF TypeInv, TypeOK, Requeue
<1>7. Failure => used' \in Bounds
  BY BoundsKept DEF TypeInv
<1>8. CASE AddFinalizer(k)
  <2>1. [src[x] EXCEPT !.fin = TRUE] \in Object
    BY <1>3, <1>8 DEF AddFinalizer, Object
  <2>2. QED
    BY <1>1, <1>8, <2>1, PatchedType DEF AddFinalizer, Steps
<1>9. CASE RemoveFinalizer(k)
  <2>1. src[x] # Absent => [src[x] EXCEPT !.fin = FALSE] \in Object
    BY <1>3 DEF Object
  <2>2. QED
    BY <1>1, <1>9, <2>1, PatchedType DEF RemoveFinalizer, Steps
<1>10. CASE PatchGone(k)
  BY <1>4, <1>10 DEF PatchGone, TypeInv, TypeOK, Requests, Steps
<1>11. CASE CreateReplica(k)
  <2>1. [spec |-> TargetSpec(x, req[k].read.spec),
         deleting |-> FALSE, held |-> FALSE, state |-> "none"] \in Replica
    BY <1>2, TargetSpecType DEF Object, Replica, States
  <2>2. tgt' \in [Objects -> Replica \cup {Absent}]
    BY <1>2, <1>11, <2>1 DEF CreateReplica, TypeInv, TypeOK
  <2>3. QED
    BY <1>2, <1>4, <1>11, <2>2 DEF CreateReplica, TypeInv, TypeOK, Requests, Steps
<1>12. CASE AwaitReplica(k)
  BY <1>4, <1>12 DEF AwaitReplica, TypeInv, TypeOK, Requests, Steps
<1>13. CASE UpdateReplica(k)
  <2>1. tgt' \in [Objects -> Replica \cup {Absent}]
    BY <1>2, <1>3, <1>13, TargetSpecType DEF UpdateReplica, TypeInv, TypeOK, Object, Replica
  <2>2. req' \in Requests
    BY <1>1, <1>3, <1>13, StatusTaken DEF UpdateReplica, Replica
  <2>3. QED
    BY <1>2, <1>13, <2>1, <2>2 DEF UpdateReplica, TypeInv, TypeOK, Requests
<1>14. CASE UpdateLost(k)
  <2>1. req' \in Requests
    BY <1>1, <1>3, <1>14, StatusTaken DEF UpdateLost, Replica
  <2>2. QED
    BY <1>2, <1>7, <1>14, <2>1 DEF UpdateLost, TypeInv, TypeOK, Requests, Bounds
<1>15. CASE ReplicateFails(k)
  BY <1>4, <1>6, <1>7, <1>15
     DEF ReplicateFails, TypeInv, TypeOK, Requests, Steps, Bounds
<1>16. CASE ReplicaGone(k)
  BY <1>4, <1>16 DEF ReplicaGone, TypeInv, TypeOK, Requests, Steps
<1>17. CASE DeleteReplica(k)
  <2>1. [tgt[x] EXCEPT !.deleting = TRUE] \in Replica
    BY <1>3, <1>17 DEF DeleteReplica, Replica
  <2>2. tgt' \in [Objects -> Replica \cup {Absent}]
    BY <1>2, <1>17, <2>1 DEF DeleteReplica, TypeInv, TypeOK
  <2>3. queue' \in SUBSET Objects /\ unresponsible' \in [Zones -> BOOLEAN \cup {nil}]
    BY <1>2, <1>17, HandlerType DEF DeleteReplica, TypeInv, TypeOK
  <2>4. QED
    BY <1>4, <1>17, <2>2, <2>3 DEF DeleteReplica, TypeInv, TypeOK, Requests, Steps
<1>18. CASE ReleaseFails(k)
  <2>1. queue' \in SUBSET Objects /\ unresponsible' \in [Zones -> BOOLEAN \cup {nil}]
    BY <1>2, <1>6, <1>18, HandlerType DEF ReleaseFails, TypeInv, TypeOK
  <2>2. QED
    BY <1>4, <1>7, <1>18, <2>1 DEF ReleaseFails, TypeInv, TypeOK, Requests, Steps, Bounds
<1>19. CASE UpdateStatus(k)
  <2>1. src' \in [Objects -> Object \cup {Absent}] /\ queue' \in SUBSET Objects
    BY <1>2, <1>3, <1>19 DEF UpdateStatus, TypeInv, TypeOK, Object
  <2>2. QED
    BY <1>5, <1>19, <2>1 DEF UpdateStatus, TypeInv, TypeOK, Requests
<1>20. CASE UpdateConflict(k)
  BY <1>5, <1>6, <1>20 DEF UpdateConflict, TypeInv, TypeOK, Requests
<1>21. CASE WriteFails(k)
  <2>1. req' \in Requests
    BY <1>4, <1>5, <1>21 DEF WriteFails, Advance, Steps
  <2>2. QED
    BY <1>6, <1>7, <1>21, <2>1 DEF WriteFails, TypeInv, TypeOK, Requests, Bounds
<1>22. QED
  BY <1>8, <1>9, <1>10, <1>11, <1>12, <1>13, <1>14, <1>15, <1>16, <1>17, <1>18, <1>19,
     <1>20, <1>21 DEF Work

\* Every step keeps the types.
LEMMA NextType ==
    ASSUME TypeInv, [Next]_vars
    PROVE  TypeInv'
<1>1. CASE UNCHANGED vars
  BY <1>1 DEF vars, TypeInv, TypeOK, Requests, Wellformed
<1>2. CASE Next
  BY <1>2, UserType, StartType, WorkType, ClusterType DEF Next
<1>3. QED
  BY <1>1, <1>2

\* The initial state is well-formed.
LEMMA InitType == Init => TypeInv
<1> SUFFICES ASSUME Init PROVE TypeInv
  OBVIOUS
<1>1. req \in Requests
  BY IdleType DEF Init, Requests
<1>2. QED
  BY <1>1, ReplicationAssumption DEF Init, TypeInv, TypeOK, Requests

-----------------------------------------------------------------------------
(* The replica and the finalizer of its original. *)

(***************************************************************************)
(* What a request relies on.  The finalizer it has read is there until it  *)
(* removes it itself; it copies an object only with the finalizer, and     *)
(* removes the finalizer only after it found no replica.                   *)
(***************************************************************************)
Covered(r) ==
    /\ r.step \in {"replicate", "release", "unfinalize"} /\ r.read.fin
       => src[r.obj] # Absent /\ src[r.obj].fin
    /\ r.step \in {"replicate", "unfinalize"} => r.read.fin
    /\ r.step = "unfinalize" => tgt[r.obj] = Absent

Guard == ReplicaGuarded /\ \A k \in Kinds : Covered(req[k])

IInv == TypeInv /\ Guard

\* Requests of different controllers are about different objects, so one
\* that is not involved stays covered when another object changes.
LEMMA OthersCovered ==
    ASSUME TypeInv, Guard, NEW k \in Kinds, NEW x \in Objects, Kind(x) = k,
           \A j \in Kinds \ {k} : req'[j] = req[j],
           \A y \in Objects \ {x} : src'[y] = src[y] /\ tgt'[y] = tgt[y]
    PROVE  \A j \in Kinds \ {k} : Covered(req[j])'
<1> SUFFICES ASSUME NEW j \in Kinds \ {k} PROVE Covered(req[j])'
  OBVIOUS
<1>1. CASE req[j].step = "idle"
  BY <1>1 DEF Covered
<1>2. CASE req[j].step # "idle"
  <2>1. req[j].obj \in Objects \ {x}
    BY <1>2, OpenRequest
  <2>2. QED
    BY <2>1 DEF Covered, Guard
<1>3. QED
  BY <1>1, <1>2

\* A user cannot take a finalizer away.
LEMMA EditGuard ==
    ASSUME TypeInv, Guard, NEW x \in Objects, NEW o \in Object \cup {Absent}, Edit(x, o),
           src[x] # Absent /\ src[x].fin => o # Absent /\ o.fin
    PROVE  Guard'
<1>1. tgt' = tgt /\ \A y \in Objects : src'[y] = IF y = x THEN o ELSE src[y]
  BY DEF Edit, TypeInv, TypeOK
<1>2. ReplicaGuarded'
  BY <1>1 DEF Guard, ReplicaGuarded
<1>3. ASSUME NEW k \in Kinds PROVE Covered(req[k])'
  <2>1. /\ req'[k].step = req[k].step
        /\ req'[k].obj = req[k].obj
        /\ req'[k].read = req[k].read
    BY DEF Edit, Outdate, TypeInv, TypeOK, Request
  <2>2. CASE req[k].step = "idle"
    BY <2>1, <2>2 DEF Covered
  <2>3. CASE req[k].step # "idle"
    <3>1. req[k].obj \in Objects
      BY <2>3, OpenRequest
    <3>2. Covered(req[k])
      BY DEF Guard
    <3>3. QED
      BY <1>1, <2>1, <3>1, <3>2 DEF Covered
  <2>4. QED
    BY <2>2, <2>3
<1>4. QED
  BY <1>2, <1>3 DEF Guard

\* Whoever changes a replica that exists leaves the requests covered.
LEMMA TargetChangeGuard ==
    ASSUME TypeInv, Guard, NEW x \in Objects, NEW r, TargetChange(x, r), tgt[x] # Absent
    PROVE  Guard'
<1>1. /\ src' = src /\ req' = req
      /\ \A y \in Objects : tgt'[y] = IF y = x THEN r ELSE tgt[y]
  BY DEF TargetChange, TypeInv, TypeOK
<1>2. ReplicaGuarded'
  BY <1>1 DEF Guard, ReplicaGuarded
<1>3. ASSUME NEW k \in Kinds PROVE Covered(req[k])'
  <2>1. Covered(req[k])
    BY DEF Guard
  <2>2. req[k].step = "unfinalize" => req[k].obj \in Objects
    BY OpenRequest
  <2>3. QED
    BY <1>1, <2>1, <2>2 DEF Covered
<1>4. QED
  BY <1>2, <1>3 DEF Guard

\* Users keep the guard.
LEMMA UserGuard ==
    ASSUME TypeInv, Guard, User
    PROVE  Guard'
<1> SUFFICES ASSUME NEW x \in Objects,
                    \/ \E s \in SpecsOf(x) : Create(x, s) \/ Update(x, s)
                    \/ Delete(x) \/ TargetDelete(x)
             PROVE  Guard'
  BY DEF User
<1>1. src[x] \in Object \cup {Absent}
  BY DEF TypeInv, TypeOK
<1>2. ASSUME NEW s \in SpecsOf(x), Create(x, s) PROVE Guard'
  <2>1. [spec |-> s, deleting |-> FALSE, fin |-> FALSE, state |-> "none"] \in Object
    BY DEF SpecsOf, Object, States
  <2>2. QED
    BY <1>2, <2>1, EditGuard DEF Create
<1>3. ASSUME NEW s \in SpecsOf(x), Update(x, s) PROVE Guard'
  <2> DEFINE o == [src[x] EXCEPT !.spec = s]
  <2>1. o \in Object /\ o.fin = src[x].fin
    BY <1>1, <1>3 DEF SpecsOf, Object, Update
  <2>2. QED
    BY <1>3, <2>1, EditGuard, ReplicationAssumption DEF Update
<1>4. CASE Delete(x)
  <2> DEFINE o == [src[x] EXCEPT !.deleting = TRUE]
  <2>1. o \in Object /\ o.fin = src[x].fin
    BY <1>1, <1>4 DEF Object, Delete, Living
  <2>2. QED
    BY <1>4, <2>1, EditGuard, ReplicationAssumption DEF Delete
<1>5. CASE TargetDelete(x)
  BY <1>5, TargetChangeGuard DEF TargetDelete
<1>6. QED
  BY <1>2, <1>3, <1>4, <1>5

\* So does the start of a request, which reads the finalizer.
LEMMA StartGuard ==
    ASSUME TypeInv, Guard, NEW x \in Objects, Start(x) \/ StartDeleted(x) \/ LookupFails(x)
    PROVE  Guard'
<1>1. src' = src /\ tgt' = tgt
  BY DEF Start, StartDeleted, LookupFails
<1>2. ReplicaGuarded'
  BY <1>1 DEF Guard, ReplicaGuarded
<1>3. src[x] \in Object \cup {Absent} /\ Kind(x) \in Kinds
  BY KindType DEF TypeInv, TypeOK
<1>4. ASSUME NEW s \in {"patch", "replicate", "release"}, NEW o \in Object,
             src[x] # Absent, o.fin = src[x].fin, s = "replicate" => o.fin,
             req' = [req EXCEPT ![Kind(x)] = NewRequest(x, s, o)]
      PROVE  Guard'
  <2>1. req'[Kind(x)] = NewRequest(x, s, o) /\ \A j \in Kinds \ {Kind(x)} : req'[j] = req[j]
    BY <1>3, <1>4 DEF TypeInv, TypeOK
  <2>2. Covered(req[Kind(x)])'
    BY <1>1, <1>4, <2>1 DEF Covered, NewRequest
  <2>3. \A j \in Kinds \ {Kind(x)} : Covered(req[j])'
    BY <1>1, <1>3, <2>1, OthersCovered
  <2>4. QED
    BY <1>2, <2>2, <2>3 DEF Guard
<1>5. ASSUME req' = req PROVE Guard'
  BY <1>1, <1>2, <1>5 DEF Guard, Covered
<1>6. CASE Start(x)
  <2>1. Reported(x) \in Object /\ Reported(x).fin = src[x].fin
    <3>1. src[x] \in Object
      BY <1>3, <1>6 DEF Start, Living
    <3>2. /\ [src[x] EXCEPT !.state = "problem"] \in Object
          /\ [src[x] EXCEPT !.state = "problem"].fin = src[x].fin
      BY <3>1 DEF Object, States
    <3>3. QED
      BY <3>1, <3>2 DEF Reported
  <2>2. \E s \in {"patch", "replicate", "release"} :
           /\ Reconcile(x) = NewRequest(x, s, Reported(x))
           /\ s = "replicate" => src[x].fin
    BY DEF Reconcile
  <2>3. QED
    BY <1>4, <1>6, <2>1, <2>2 DEF Start, Living
<1>7. CASE StartDeleted(x)
  BY <1>3, <1>4, <1>5, <1>7 DEF StartDeleted
<1>8. CASE LookupFails(x)
  BY <1>5, <1>8 DEF LookupFails
<1>9. QED
  BY <1>6, <1>7, <1>8

\* And a restart, and the controllers of the target cluster.
LEMMA ClusterGuard ==
    ASSUME TypeInv, Guard, Crash \/ \E x \in Objects : TargetServes(x) \/ TargetReleases(x)
    PROVE  Guard'
<1>1. CASE Crash
  BY <1>1 DEF Crash, Guard, ReplicaGuarded, Covered, Idle
<1>2. ASSUME NEW x \in Objects, TargetServes(x) \/ TargetReleases(x) PROVE Guard'
  BY <1>2, TargetChangeGuard DEF TargetServes, TargetReleases
<1>3. QED
  BY <1>1, <1>2

\* The steps of a request, which changes no other object and no other request.
LEMMA WorkGuard ==
    ASSUME TypeInv, Guard, NEW k \in Kinds, Work(k)
    PROVE  Guard'
<1> DEFINE x == req[k].obj
<1>1. req[k].step # "idle"
  BY DEF Work, AddFinalizer, RemoveFinalizer, PatchGone, CreateReplica, AwaitReplica,
         UpdateReplica, UpdateLost, ReplicateFails, ReplicaGone, DeleteReplica,
         ReleaseFails, UpdateStatus, UpdateConflict, WriteFails
<1>2. req[k] \in Request /\ x \in Objects /\ Kind(x) = k /\ req[k].read \in Object
  BY <1>1, OpenRequest
<1>3. src[x] \in Object \cup {Absent} /\ tgt[x] \in Replica \cup {Absent}
  BY <1>2 DEF TypeInv, TypeOK
<1>4. Covered(req[k]) /\ (tgt[x] # Absent => src[x] # Absent /\ src[x].fin)
  BY <1>2 DEF Guard, ReplicaGuarded
\* It is enough to look at the object and the request itself.
<1>5. ASSUME NEW r, req' = [req EXCEPT ![k] = r],
             NEW o, src' = [src EXCEPT ![x] = o],
             NEW t, tgt' = [tgt EXCEPT ![x] = t],
             t # Absent => o # Absent /\ o.fin,
             Covered(req[k])'
      PROVE  Guard'
  <2>1. /\ \A j \in Kinds \ {k} : req'[j] = req[j]
        /\ \A y \in Objects \ {x} : src'[y] = src[y] /\ tgt'[y] = tgt[y]
        /\ src'[x] = o /\ tgt'[x] = t
    BY <1>2, <1>5 DEF TypeInv, TypeOK
  <2>2. \A j \in Kinds \ {k} : Covered(req[j])'
    BY <1>2, <2>1, OthersCovered
  <2>3. ReplicaGuarded'
    BY <1>5, <2>1 DEF Guard, ReplicaGuarded
  <2>4. QED
    BY <1>5, <2>2, <2>3 DEF Guard
<1>6. src = [src EXCEPT ![x] = src[x]] /\ tgt = [tgt EXCEPT ![x] = tgt[x]]
  BY <1>2 DEF TypeInv, TypeOK
<1>7. \A s : Advance(k, s) = [req EXCEPT ![k] = [req[k] EXCEPT !.step = s]]
  BY DEF Advance
\* Requests about to end are covered, wherever they come from.
<1>8. ASSUME NEW r \in Request, r.step \in {"status", "idle"},
             req' = [req EXCEPT ![k] = r],
             src' = src, NEW t, tgt' = [tgt EXCEPT ![x] = t], tgt[x] = Absent => t = Absent
      PROVE  Guard'
  <2>1. req'[k] = r
    BY <1>8 DEF TypeInv, TypeOK
  <2>2. Covered(req[k])'
    BY <1>8, <2>1 DEF Covered
  <2>3. QED
    BY <1>4, <1>5, <1>6, <1>8, <2>2
<1>9. [req[k] EXCEPT !.step = "status"] \in Request /\ Idle \in Request
  BY <1>2, IdleType DEF Request, Steps
<1>10. ASSUME req' = Advance(k, "status"), src' = src, tgt' = tgt PROVE Guard'
  BY <1>2, <1>6, <1>7, <1>8, <1>9, <1>10 DEF Request
<1>11. ASSUME req' = [req EXCEPT ![k] = Idle], src' = src, tgt' = tgt PROVE Guard'
  BY <1>6, <1>8, <1>9, <1>11 DEF Idle
<1>12. CASE AddFinalizer(k)
  <2> DEFINE o == [src[x] EXCEPT !.fin = TRUE]
             r == [step |-> "replicate", obj |-> x, read |-> o,
                   was |-> o.state, stale |-> FALSE]
  <2>1. o \in Object /\ o.fin
    BY <1>3, <1>12 DEF AddFinalizer, Object
  <2>2. /\ o # Absent /\ req' = [req EXCEPT ![k] = r]
        /\ src' = [src EXCEPT ![x] = o] /\ tgt' = tgt
    BY <1>12, <2>1, ReplicationAssumption DEF AddFinalizer, Patched
  <2>3. /\ req'[k].step = "replicate" /\ req'[k].obj = x /\ req'[k].read = o
        /\ src'[x] = o
    BY <1>2, <2>2 DEF TypeInv, TypeOK
  <2>4. Covered(req[k])'
    <3> HIDE DEF o
    <3> QED
      BY <2>1, <2>2, <2>3 DEF Covered
  <2>5. QED
    BY <1>5, <1>6, <2>1, <2>2, <2>4
<1>13. CASE RemoveFinalizer(k)
  <2>1. PICK r, o : /\ req' = [req EXCEPT ![k] = r]
                    /\ src' = [src EXCEPT ![x] = o]
                    /\ r.step \in {"idle", "status"}
    <3> DEFINE o == IF src[x].deleting THEN Absent ELSE [src[x] EXCEPT !.fin = FALSE]
               r == IF o = Absent THEN Idle
                    ELSE [step |-> "status", obj |-> x, read |-> o,
                          was |-> o.state, stale |-> FALSE]
    <3>1. req' = [req EXCEPT ![k] = r] /\ src' = [src EXCEPT ![x] = o]
      BY <1>13 DEF RemoveFinalizer, Patched
    <3>2. r.step \in {"idle", "status"}
      <4> HIDE DEF o
      <4> QED
        BY DEF Idle
    <3> HIDE DEF r, o
    <3>3. QED
      BY <3>1, <3>2
  <2>2. tgt' = tgt /\ tgt[x] = Absent
    BY <1>4, <1>13 DEF RemoveFinalizer, Patched, Covered
  <2>3. req'[k] = r
    BY <2>1 DEF TypeInv, TypeOK
  <2>4. Covered(req[k])'
    BY <2>1, <2>3 DEF Covered
  <2>5. QED
    BY <1>5, <1>6, <2>1, <2>2, <2>4
<1>14. CASE PatchGone(k)
  BY <1>10, <1>14 DEF PatchGone
<1>15. CASE CreateReplica(k)
  <2>1. src[x] # Absent /\ src[x].fin
    BY <1>4, <1>15 DEF CreateReplica, Covered
  <2>2. PICK t : tgt' = [tgt EXCEPT ![x] = t]
    BY <1>15 DEF CreateReplica
  <2>3. req' = [req EXCEPT ![k] = [req[k] EXCEPT !.step = "status"]] /\ src' = src
    BY <1>7, <1>15 DEF CreateReplica
  <2>4. req'[k].step = "status"
    BY <1>2, <2>3 DEF TypeInv, TypeOK, Request
  <2>5. Covered(req[k])'
    BY <2>4 DEF Covered
  <2>6. QED
    BY <1>5, <1>6, <2>1, <2>2, <2>3, <2>5
<1>16. CASE AwaitReplica(k)
  BY <1>10, <1>16 DEF AwaitReplica
<1>17. ASSUME req' = [req EXCEPT ![k] = [@ EXCEPT !.step = "status",
                                                  !.read.state = tgt[x].state]],
              src' = src, NEW t, tgt' = [tgt EXCEPT ![x] = t], tgt[x] # Absent
       PROVE  Guard'
  <2>1. req'[k].step = "status"
    BY <1>2, <1>17 DEF TypeInv, TypeOK, Request
  <2>2. Covered(req[k])'
    BY <2>1 DEF Covered
  <2>3. QED
    BY <1>4, <1>5, <1>6, <1>17, <2>2
<1>18. CASE UpdateReplica(k)
  <2>1. \E t : tgt' = [tgt EXCEPT ![x] = t]
    BY <1>18 DEF UpdateReplica
  <2>2. QED
    BY <1>17, <1>18, <2>1 DEF UpdateReplica
<1>19. CASE UpdateLost(k)
  BY <1>6, <1>17, <1>19 DEF UpdateLost
<1>20. CASE ReplicateFails(k)
  BY <1>10, <1>20 DEF ReplicateFails
<1>21. CASE ReplicaGone(k)
  <2>1. CASE req[k].read.fin
    <3>1. req' = [req EXCEPT ![k] = [req[k] EXCEPT !.step = "unfinalize"]]
      BY <1>7, <1>21, <2>1 DEF ReplicaGone
    <3>2. /\ req'[k].step = "unfinalize" /\ req'[k].obj = x
          /\ req'[k].read = req[k].read
      BY <1>2, <3>1 DEF TypeInv, TypeOK, Request
    <3>3. Covered(req[k])'
      BY <1>4, <1>21, <2>1, <3>2 DEF ReplicaGone, Covered
    <3>4. QED
      BY <1>4, <1>5, <1>6, <1>21, <3>1, <3>3 DEF ReplicaGone
  <2>2. CASE ~req[k].read.fin
    BY <1>10, <1>21, <2>2 DEF ReplicaGone
  <2>3. QED
    BY <2>1, <2>2
<1>22. CASE DeleteReplica(k)
  <2>1. \E t : tgt' = [tgt EXCEPT ![x] = t]
    BY <1>22 DEF DeleteReplica
  <2>2. [req[k] EXCEPT !.step = "status"].step = "status"
    BY <1>2 DEF Request
  <2>3. QED
    BY <1>7, <1>8, <1>9, <1>22, <2>1, <2>2 DEF DeleteReplica
<1>23. CASE ReleaseFails(k)
  BY <1>10, <1>23 DEF ReleaseFails
<1>24. CASE UpdateStatus(k)
  <2>1. PICK o : /\ src' = [src EXCEPT ![x] = o]
                 /\ src[x] # Absent => o # Absent /\ o.fin = src[x].fin
    <3>1. CASE Changed(req[k])
      <4> DEFINE o == [src[x] EXCEPT !.state = req[k].read.state]
      <4>1. o \in Object /\ o.fin = src[x].fin
        BY <1>2, <1>3, <1>24, <3>1 DEF UpdateStatus, Object
      <4>2. src' = [src EXCEPT ![x] = o]
        BY <1>24, <3>1 DEF UpdateStatus
      <4>3. QED
        BY <4>1, <4>2, ReplicationAssumption
    <3>2. CASE ~Changed(req[k])
      BY <1>6, <1>24, <3>2 DEF UpdateStatus
    <3>3. QED
      BY <3>1, <3>2
  <2>2. req' = [req EXCEPT ![k] = Idle] /\ tgt' = tgt
    BY <1>24 DEF UpdateStatus
  <2>3. Covered(req[k])'
    BY <2>2 DEF Covered, TypeInv, TypeOK, Idle
  <2>4. QED
    BY <1>4, <1>5, <1>6, <2>1, <2>2, <2>3
<1>25. CASE UpdateConflict(k)
  BY <1>11, <1>25 DEF UpdateConflict
<1>26. CASE WriteFails(k)
  <2>1. req' = Advance(k, "status") \/ req' = [req EXCEPT ![k] = Idle]
    BY <1>26 DEF WriteFails, Advance
  <2>2. QED
    BY <1>10, <1>11, <1>26, <2>1 DEF WriteFails
<1>27. QED
  BY <1>12, <1>13, <1>14, <1>15, <1>16, <1>18, <1>19, <1>20, <1>21, <1>22, <1>23, <1>24,
     <1>25, <1>26 DEF Work

\* Every step keeps the guard.
LEMMA NextGuard ==
    ASSUME TypeInv, Guard, [Next]_vars
    PROVE  Guard'
<1>1. CASE UNCHANGED vars
  BY <1>1 DEF vars, Guard, ReplicaGuarded, Covered
<1>2. CASE Next
  BY <1>2, UserGuard, StartGuard, WorkGuard, ClusterGuard DEF Next
<1>3. QED
  BY <1>1, <1>2

-----------------------------------------------------------------------------
(***************************************************************************)
(* The state of the replication controllers is well-formed.                *)
(***************************************************************************)
THEOREM TypeCorrect == Spec => []TypeOK
<1>1. Init => TypeInv
  BY InitType
<1>2. TypeInv /\ [Next]_vars => TypeInv'
  BY NextType
<1>3. TypeInv => TypeOK
  BY DEF TypeInv
<1>4. QED
  BY <1>1, <1>2, <1>3, PTL DEF Spec

(***************************************************************************)
(* A replica never outlives its original, nor the finalizer of the         *)
(* original: whenever the user deletes, changes or creates the object      *)
(* again, whatever calls fail, whenever the program restarts, and whatever *)
(* happens to the replica in its own cluster.                              *)
(***************************************************************************)
THEOREM ReplicaNotOrphaned == Spec => []ReplicaGuarded
<1>1. Init => IInv
  <2> SUFFICES ASSUME Init PROVE IInv
    OBVIOUS
  <2>1. TypeInv
    BY InitType
  <2>2. Guard
    BY DEF Init, Guard, ReplicaGuarded, Covered, Idle
  <2>3. QED
    BY <2>1, <2>2 DEF IInv
<1>2. IInv /\ [Next]_vars => IInv'
  BY NextType, NextGuard DEF IInv
<1>3. IInv => ReplicaGuarded
  BY DEF IInv, Guard
<1>4. QED
  BY <1>1, <1>2, <1>3, PTL DEF Spec

-----------------------------------------------------------------------------
(***************************************************************************)
(* The replication controllers implement the protocol of finalizers,       *)
(* module Protection, for any set of objects, in every mode, with any      *)
(* number of changes in both clusters, failing calls and restarts.         *)
(***************************************************************************)

\* Steps of the protocol that change an object and need nothing else.
Free == {<<"absent", "free">>, <<"free", "absent">>, <<"free", "guarded">>,
         <<"guarded", "ending">>}

\* Steps that need the replica to be gone.
Releasing == {<<"guarded", "free">>, <<"ending", "absent">>}

\* A step that writes no object and creates no replica.
LEMMA LosingStep ==
    ASSUME src' = src, \A x \in Objects : tgt'[x] # Absent => tgt[x] # Absent
    PROVE  P!Next
<1>1. P!Lose
  BY DEF P!Lose
<1>2. QED
  BY <1>1 DEF P!Next

\* A step that changes the replica of one object, which has the finalizer.
LEMMA ReplicaStep ==
    ASSUME TypeInv, NEW x \in Objects, NEW r, src' = src, tgt' = [tgt EXCEPT ![x] = r],
           tgt[x] # Absent \/ Phase(src[x]) \in {"guarded", "ending"}
    PROVE  P!Next
<1>1. \A y \in Objects : tgt'[y] = IF y = x THEN r ELSE tgt[y]
  BY DEF TypeInv, TypeOK
<1>2. CASE tgt[x] # Absent \/ r = Absent
  BY <1>1, <1>2, LosingStep
<1>3. CASE tgt[x] = Absent /\ r # Absent
  <2>1. P!Take(x)
    BY <1>1, <1>3 DEF P!Take
  <2>2. QED
    BY <2>1 DEF P!Next
<1>4. QED
  BY <1>2, <1>3

\* A write of one object.
LEMMA WritingStep ==
    ASSUME TypeInv, NEW x \in Objects, NEW o, src' = [src EXCEPT ![x] = o], tgt' = tgt,
           \/ Phase(o) = Phase(src[x])
           \/ <<Phase(src[x]), Phase(o)>> \in Free
           \/ <<Phase(src[x]), Phase(o)>> \in Releasing /\ tgt[x] = Absent
    PROVE  P!Next
<1>1. /\ [y \in Objects |-> Phase(src[y])]'
           = [[y \in Objects |-> Phase(src[y])] EXCEPT ![x] = Phase(o)]
      /\ {y \in Objects : tgt[y] # Absent}' = {y \in Objects : tgt[y] # Absent}
  BY DEF TypeInv, TypeOK
<1>2. CASE Phase(o) = Phase(src[x])
  <2>1. P!Lose
    BY <1>1, <1>2 DEF P!Lose
  <2>2. QED
    BY <2>1 DEF P!Next
<1>3. CASE <<Phase(src[x]), Phase(o)>> \in Free
  <2>1. P!Create(x) \/ P!Vanish(x) \/ P!Protect(x) \/ P!Delete(x)
    BY <1>1, <1>3 DEF Free, P!Create, P!Vanish, P!Protect, P!Delete, P!Becomes
  <2>2. QED
    BY <2>1 DEF P!Next
<1>4. CASE <<Phase(src[x]), Phase(o)>> \in Releasing /\ tgt[x] = Absent
  <2>1. P!Release(x)
    BY <1>1, <1>4 DEF Releasing, P!Release, P!Becomes
  <2>2. QED
    BY <2>1 DEF P!Next
<1>5. QED
  BY <1>2, <1>3, <1>4

-----------------------------------------------------------------------------
\* Users.
LEMMA UserStep ==
    ASSUME TypeInv, User
    PROVE  P!Next
<1> SUFFICES ASSUME NEW x \in Objects,
                    \/ \E s \in SpecsOf(x) : Create(x, s) \/ Update(x, s)
                    \/ Delete(x) \/ TargetDelete(x)
             PROVE  P!Next
  BY DEF User
<1>1. src[x] \in Object \cup {Absent}
  BY DEF TypeInv, TypeOK
<1>2. ASSUME NEW s \in SpecsOf(x), Create(x, s) PROVE P!Next
  <2> DEFINE o == [spec |-> s, deleting |-> FALSE, fin |-> FALSE, state |-> "none"]
  <2>1. src' = [src EXCEPT ![x] = o] /\ tgt' = tgt /\ Phase(src[x]) = "absent"
    BY <1>2 DEF Create, Edit, Phase
  <2>2. o \in Object /\ ~o.deleting /\ ~o.fin
    BY DEF SpecsOf, Object, States
  <2> HIDE DEF o
  <2>3. Phase(o) = "free"
    BY <2>2, ReplicationAssumption DEF Phase
  <2>4. QED
    BY <2>1, <2>3, WritingStep DEF Free
<1>3. ASSUME NEW s \in SpecsOf(x), Update(x, s) PROVE P!Next
  <2> DEFINE o == [src[x] EXCEPT !.spec = s]
  <2>1. src' = [src EXCEPT ![x] = o] /\ tgt' = tgt /\ src[x] \in Object
    BY <1>1, <1>3 DEF Update, Edit
  <2>2. o \in Object /\ o.fin = src[x].fin /\ o.deleting = src[x].deleting
    BY <2>1 DEF SpecsOf, Object
  <2> HIDE DEF o
  <2>3. Phase(o) = Phase(src[x])
    BY <2>1, <2>2, ReplicationAssumption DEF Phase
  <2>4. QED
    BY <2>1, <2>3, WritingStep
<1>4. CASE Delete(x)
  <2> DEFINE o == [src[x] EXCEPT !.deleting = TRUE]
  <2>1. /\ src' = [src EXCEPT ![x] = IF src[x].fin THEN o ELSE Absent] /\ tgt' = tgt
        /\ src[x] \in Object /\ src[x] # Absent /\ ~src[x].deleting
    BY <1>1, <1>4 DEF Delete, Living, Edit
  <2>2. o \in Object /\ o.deleting
    BY <2>1 DEF Object
  <2> HIDE DEF o
  <2>3. Phase(o) = "ending" /\ Phase(Absent) = "absent"
    BY <2>2, ReplicationAssumption DEF Phase
  <2>4. Phase(src[x]) = IF src[x].fin THEN "guarded" ELSE "free"
    BY <2>1 DEF Phase
  <2>5. QED
    BY <2>1, <2>3, <2>4, WritingStep DEF Free
<1>5. CASE TargetDelete(x)
  BY <1>5, ReplicaStep DEF TargetDelete, TargetChange
<1>6. QED
  BY <1>2, <1>3, <1>4, <1>5

\* The finalizer patches.
LEMMA PatchStep ==
    ASSUME IInv, NEW k \in Kinds, AddFinalizer(k) \/ RemoveFinalizer(k)
    PROVE  P!Next
<1> DEFINE x == req[k].obj
<1>1. TypeInv /\ x \in Objects /\ src[x] \in Object /\ src[x] # Absent
  BY OpenRequest DEF IInv, TypeInv, TypeOK, AddFinalizer, RemoveFinalizer
<1>2. ASSUME NEW f \in BOOLEAN
      PROVE  /\ [src[x] EXCEPT !.fin = f] # Absent
             /\ [src[x] EXCEPT !.fin = f].fin = f
             /\ [src[x] EXCEPT !.fin = f].deleting = src[x].deleting
  <2>1. /\ [src[x] EXCEPT !.fin = f] \in Object
        /\ [src[x] EXCEPT !.fin = f].fin = f
        /\ [src[x] EXCEPT !.fin = f].deleting = src[x].deleting
    BY <1>1 DEF Object
  <2>2. QED
    BY <2>1, ReplicationAssumption
<1>3. CASE AddFinalizer(k)
  <2> DEFINE o == [src[x] EXCEPT !.fin = TRUE]
  <2>1. src' = [src EXCEPT ![x] = o] /\ tgt' = tgt
    BY <1>3 DEF AddFinalizer, Patched
  <2>2. o # Absent /\ o.fin /\ o.deleting = src[x].deleting
    BY <1>2
  <2> HIDE DEF o
  <2>3. Phase(o) = Phase(src[x]) \/ <<Phase(src[x]), Phase(o)>> \in Free
    BY <1>1, <2>2 DEF Phase, Free
  <2>4. QED
    BY <1>1, <2>1, <2>3, WritingStep
<1>4. CASE RemoveFinalizer(k)
  <2> DEFINE o == IF src[x].deleting THEN Absent ELSE [src[x] EXCEPT !.fin = FALSE]
  <2>1. src' = [src EXCEPT ![x] = o] /\ tgt' = tgt /\ tgt[x] = Absent
    BY <1>4 DEF RemoveFinalizer, Patched, IInv, Guard, Covered
  <2>2. /\ src[x].deleting => o = Absent
        /\ ~src[x].deleting => o # Absent /\ ~o.fin /\ ~o.deleting
    BY <1>2
  <2> HIDE DEF o
  <2>3. Phase(o) = Phase(src[x]) \/ <<Phase(src[x]), Phase(o)>> \in Releasing
    BY <1>1, <2>2 DEF Phase, Releasing
  <2>4. QED
    BY <1>1, <2>1, <2>3, WritingStep
<1>5. QED
  BY <1>3, <1>4

\* Work on the replica: it is created for an object that has the finalizer.
LEMMA TargetStep ==
    ASSUME IInv, NEW k \in Kinds,
           CreateReplica(k) \/ UpdateReplica(k) \/ DeleteReplica(k)
    PROVE  P!Next
<1> DEFINE x == req[k].obj
<1>1. TypeInv /\ x \in Objects
  BY OpenRequest DEF IInv, CreateReplica, UpdateReplica, DeleteReplica
<1>2. src' = src /\ \E r : tgt' = [tgt EXCEPT ![x] = r]
  BY DEF CreateReplica, UpdateReplica, DeleteReplica
<1>3. tgt[x] # Absent \/ Phase(src[x]) \in {"guarded", "ending"}
  BY DEF CreateReplica, UpdateReplica, DeleteReplica, IInv, Guard, Covered, Phase
<1>4. QED
  BY <1>1, <1>2, <1>3, ReplicaStep

\* The end of a request.
LEMMA StatusStep ==
    ASSUME TypeInv, NEW k \in Kinds, UpdateStatus(k)
    PROVE  P!Next
<1> DEFINE x == req[k].obj
           o == [src[x] EXCEPT !.state = req[k].read.state]
<1>1. tgt' = tgt
  BY DEF UpdateStatus
<1>2. CASE ~Changed(req[k])
  BY <1>1, <1>2, LosingStep DEF UpdateStatus
<1>3. CASE Changed(req[k])
  <2>1. /\ src' = [src EXCEPT ![x] = o] /\ src[x] # Absent
        /\ x \in Objects /\ src[x] \in Object /\ req[k].read \in Object
    BY <1>3, OpenRequest DEF UpdateStatus, TypeInv, TypeOK
  <2>2. o \in Object /\ o.fin = src[x].fin /\ o.deleting = src[x].deleting
    BY <2>1 DEF Object
  <2> HIDE DEF o
  <2>3. Phase(o) = Phase(src[x])
    BY <2>1, <2>2, ReplicationAssumption DEF Phase
  <2>4. QED
    BY <1>1, <2>1, <2>3, WritingStep
<1>4. QED
  BY <1>2, <1>3

\* Every step of the controllers and of what surrounds them.
LEMMA ProtocolStep ==
    ASSUME IInv, [Next]_vars
    PROVE  P!Next
<1>1. CASE User
  BY <1>1, UserStep DEF IInv
<1>2. ASSUME NEW k \in Kinds, Work(k) PROVE P!Next
  <2>1. CASE AddFinalizer(k) \/ RemoveFinalizer(k)
    BY <2>1, PatchStep
  <2>2. CASE CreateReplica(k) \/ UpdateReplica(k) \/ DeleteReplica(k)
    BY <2>2, TargetStep
  <2>3. CASE UpdateStatus(k)
    BY <2>3, StatusStep DEF IInv
  <2>4. CASE \/ PatchGone(k) \/ AwaitReplica(k) \/ UpdateLost(k) \/ ReplicateFails(k)
             \/ ReplicaGone(k) \/ ReleaseFails(k) \/ UpdateConflict(k) \/ WriteFails(k)
    BY <2>4, LosingStep
       DEF PatchGone, AwaitReplica, UpdateLost, ReplicateFails, ReplicaGone,
           ReleaseFails, UpdateConflict, WriteFails
  <2>5. QED
    BY <1>2, <2>1, <2>2, <2>3, <2>4 DEF Work
<1>3. ASSUME NEW x \in Objects, TargetServes(x) \/ TargetReleases(x) PROVE P!Next
  BY <1>3, ReplicaStep DEF TargetServes, TargetReleases, TargetChange, IInv
<1>4. CASE \/ \E x \in Objects : Start(x) \/ StartDeleted(x) \/ LookupFails(x)
           \/ Crash \/ UNCHANGED vars
  BY <1>4, LosingStep DEF Start, StartDeleted, LookupFails, Crash, vars
<1>5. QED
  BY <1>1, <1>2, <1>3, <1>4 DEF Next

-----------------------------------------------------------------------------
(***************************************************************************)
(* A replica is created after the finalizer and gone before it goes: the   *)
(* replication controllers implement Protection.                           *)
(***************************************************************************)
THEOREM ReplicationProtects == Spec => FinalizerProtocol
<1>1. Init => IInv
  BY InitType DEF Init, IInv, Guard, ReplicaGuarded, Covered, Idle
<1>2. IInv /\ [Next]_vars => IInv'
  BY NextType, NextGuard DEF IInv
<1>3. Init => P!Init
  BY DEF Init, P!Init, Phase
<1>4. IInv /\ [Next]_vars => P!Next
  BY ProtocolStep
<1>5. QED
  BY <1>1, <1>2, <1>3, <1>4, PTL DEF Spec, FinalizerProtocol, P!Spec

-----------------------------------------------------------------------------
(* When all work is done, the root zones are replicated. *)

Root(z) == Living(z) /\ src[z].spec.parent = NoZone

\* The replica of a root zone z is as it has to be, if z shows state s.
Replicated(z, s) ==
    IF SameClass(src[z].spec.class)
    THEN /\ tgt[z] # Absent
         /\ ~tgt[z].deleting => /\ s = tgt[z].state
                                /\ z \notin lost => tgt[z].spec = TargetSpec(z, src[z].spec)
    ELSE tgt[z] = Absent \/ tgt[z].deleting

\* What a request r for z goes by, as long as nobody has written the zone or
\* its replica since it started.
OnCourse(z, r) ==
    /\ r.was = src[z].state
    /\ r.step \in {"patch", "replicate"} => SameClass(src[z].spec.class) /\ r.read = src[z]
    /\ r.step \in {"release", "unfinalize"} => ~SameClass(src[z].spec.class)
    /\ r.step = "status" => r.read # Absent /\ Replicated(z, r.read.state)

At(z) == req["zone"].step # "idle" /\ req["zone"].obj = z

\* A root zone that is not waiting is replicated, or a request that sees it
\* as it is now is about to do so.
RootCovered(z) ==
    Root(z) /\ z \notin queue
    => IF At(z) THEN OnCourse(z, req["zone"]) ELSE Replicated(z, src[z].state)

RootsCovered == \A z \in Zones : RootCovered(z)

LEMMA ZoneObjects ==
    /\ \A z \in Zones : z \in Objects /\ Kind(z) = "zone"
    /\ \A e \in Entries : e \in Objects /\ e \notin Zones /\ Kind(e) = "entry"
    /\ "zone" \in Kinds
BY ReplicationAssumption DEF Objects, Kind, Kinds

\* A root zone is responsible for itself.
LEMMA RootItself ==
    ASSUME TypeInv, NEW z \in Zones, Root(z)
    PROVE  /\ RootInfo(z).found /\ Reported(z) = src[z]
           /\ Responsible(z) <=> SameClass(src[z].spec.class)
<1>1. Linked(src)
  BY ReplicationAssumption DEF TypeInv, TypeOK, Linked, Object, Specs, Objects
<1>2. GetRootInfo(src, z) = [found |-> TRUE, root |-> z]
  BY <1>1, RootInfoStep DEF Root, Living
<1>3. QED
  BY <1>2 DEF RootInfo, Reported, Responsible

\* What is about other objects leaves a zone as it is, ...
LEMMA RootKept ==
    ASSUME NEW z \in Zones, RootCovered(z),
           src'[z] = src[z], tgt'[z] = tgt[z], z \in lost <=> z \in lost',
           z \in queue => z \in queue',
           At(z) <=> At(z)',
           At(z) => /\ req'["zone"].step = req["zone"].step
                    /\ req'["zone"].read = req["zone"].read
                    /\ req'["zone"].was = req["zone"].was
    PROVE  RootCovered(z)'
<1> SUFFICES ASSUME Root(z)', z \notin queue'
             PROVE  IF At(z)' THEN OnCourse(z, req["zone"])' ELSE Replicated(z, src[z].state)'
  BY DEF RootCovered
<1>1. Root(z) /\ z \notin queue
  BY DEF Root, Living
<1>2. \A s : Replicated(z, s) => (Replicated(z, s))'
  BY DEF Replicated
<1>3. CASE At(z)
  BY <1>1, <1>2, <1>3 DEF RootCovered, OnCourse
<1>4. CASE ~At(z)
  BY <1>1, <1>2, <1>4 DEF RootCovered
<1>5. QED
  BY <1>3, <1>4

\* A step of a request touches its own object only.
LEMMA WorkLocal ==
    ASSUME TypeInv, NEW k \in Kinds, Work(k), NEW y, y # req[k].obj
    PROVE  /\ src'[y] = src[y] /\ tgt'[y] = tgt[y]
           /\ y \in lost <=> y \in lost'
           /\ y \in queue => y \in queue'
           /\ \A j \in Kinds : j # k => req'[j] = req[j]
           /\ req'[k].step = "idle" \/ req'[k].obj # y
<1> DEFINE Local == /\ src'[y] = src[y] /\ tgt'[y] = tgt[y]
                    /\ y \in lost <=> y \in lost'
                    /\ y \in queue => y \in queue'
                    /\ \A j \in Kinds : j # k => req'[j] = req[j]
                    /\ req'[k].step = "idle" \/ req'[k].obj # y
<1>1. /\ src \in [Objects -> Object \cup {Absent}]
      /\ tgt \in [Objects -> Replica \cup {Absent}]
      /\ req \in [Kinds -> Request]
  BY DEF TypeInv, TypeOK
<1>2. \A s : /\ Advance(k, s) \in [Kinds -> [step : Steps \cup {s}, obj : Objects \cup {NoZone},
                                   read : Object \cup {Absent}, was : States, stale : BOOLEAN]]
             /\ Advance(k, s)[k].obj = req[k].obj
             /\ \A j \in Kinds : j # k => Advance(k, s)[j] = req[j]
  BY <1>1 DEF Advance, Request
<1>3. [req EXCEPT ![k] = Idle][k].step = "idle"
  BY <1>1 DEF Idle
<1>4. CASE AddFinalizer(k) \/ RemoveFinalizer(k)
  <2>1. PICK o, s : Patched(k, o, s)
    BY <1>4 DEF AddFinalizer, RemoveFinalizer
  <2>2. QED
    BY <1>1, <2>1 DEF Patched, Idle
<1>5. CASE PatchGone(k) \/ AwaitReplica(k) \/ ReplicaGone(k)
  BY <1>2, <1>5 DEF PatchGone, AwaitReplica, ReplicaGone
<1>6. CASE CreateReplica(k)
  BY <1>1, <1>2, <1>6 DEF CreateReplica
<1>7. CASE UpdateReplica(k)
  BY <1>1, <1>7 DEF UpdateReplica, Request
<1>8. CASE UpdateLost(k)
  BY <1>1, <1>8 DEF UpdateLost, Request
<1>9. CASE ReplicateFails(k)
  BY <1>2, <1>9 DEF ReplicateFails, Requeue
<1>10. CASE DeleteReplica(k)
  BY <1>1, <1>2, <1>10 DEF DeleteReplica, HandlerDelete
<1>11. CASE ReleaseFails(k)
  BY <1>2, <1>11 DEF ReleaseFails, HandlerDelete, Requeue
<1>12. CASE UpdateStatus(k)
  BY <1>1, <1>3, <1>12 DEF UpdateStatus
<1>13. CASE UpdateConflict(k)
  BY <1>1, <1>3, <1>13 DEF UpdateConflict, Requeue
<1>14. CASE WriteFails(k)
  BY <1>1, <1>14 DEF WriteFails, Idle, Request, Requeue
<1>15. QED
  BY <1>4, <1>5, <1>6, <1>7, <1>8, <1>9, <1>10, <1>11, <1>12, <1>13, <1>14 DEF Work

\* ... and so for a zone that is not the one it is about.
LEMMA WorkElsewhere ==
    ASSUME TypeInv, NEW k \in Kinds, Work(k), NEW z \in Zones, RootCovered(z),
           z # req[k].obj
    PROVE  RootCovered(z)'
<1>1. "zone" \in Kinds
  BY ZoneObjects
<1>2. CASE k = "zone"
  <2>1. ~At(z) /\ ~At(z)'
    BY <1>2, WorkLocal DEF At
  <2>2. QED
    BY <2>1, WorkLocal, RootKept
<1>3. CASE k # "zone"
  <2>1. req'["zone"] = req["zone"]
    BY <1>1, <1>3, WorkLocal
  <2>2. At(z) <=> At(z)'
    BY <2>1 DEF At
  <2>3. QED
    BY <2>1, <2>2, WorkLocal, RootKept
<1>4. QED
  BY <1>2, <1>3

\* A zone that waits need not be covered.
LEMMA RootWaits ==
    ASSUME NEW z \in Zones, z \in queue'
    PROVE  RootCovered(z)'
BY DEF RootCovered

\* A request for a root zone has come to the status, and its read shows the
\* one of the replica.
LEMMA ToStatus ==
    ASSUME TypeInv, NEW z \in Zones, RootCovered(z), At(z), src' = src,
           z \in queue => z \in queue',
           req'["zone"].step = "status", req'["zone"].obj = z,
           req'["zone"].was = req["zone"].was, req'["zone"].read # Absent,
           NEW s, s = req'["zone"].read.state,
           Root(z) /\ OnCourse(z, req["zone"]) => Replicated(z, s)'
    PROVE  RootCovered(z)'
<1> SUFFICES ASSUME Root(z)', z \notin queue' PROVE OnCourse(z, req["zone"])'
  BY DEF RootCovered, At
<1>1. Root(z) /\ z \notin queue
  BY DEF Root, Living
<1>2. OnCourse(z, req["zone"])
  BY <1>1 DEF RootCovered
<1>3. req'["zone"].was = src'[z].state
  BY <1>2 DEF OnCourse
<1>4. Replicated(z, s)'
  BY <1>1, <1>2
<1>5. QED
  BY <1>3, <1>4 DEF OnCourse

\* The steps of a request for the zone itself.
LEMMA WorkHere ==
    ASSUME TypeInv, NEW z \in Zones, RootCovered(z), Work("zone"), z = req["zone"].obj
    PROVE  RootCovered(z)'
<1> DEFINE k == "zone"
<1>1. k \in Kinds /\ z \in Objects
  BY ZoneObjects
<1>2. req[k].step # "idle"
  BY DEF Work, AddFinalizer, RemoveFinalizer, PatchGone, CreateReplica, AwaitReplica,
         UpdateReplica, UpdateLost, ReplicateFails, ReplicaGone, DeleteReplica,
         ReleaseFails, UpdateStatus, UpdateConflict, WriteFails
<1>3. At(z)
  BY <1>2 DEF At
<1>4. req[k] \in Request /\ req[k].read \in Object /\ req[k].read # Absent
  BY <1>1, <1>2, OpenRequest, ReplicationAssumption
<1>5. /\ src \in [Objects -> Object \cup {Absent}]
      /\ tgt \in [Objects -> Replica \cup {Absent}]
      /\ req \in [Kinds -> Request]
  BY DEF TypeInv, TypeOK
<1>6. \A s : /\ Advance(k, s)[k].step = s /\ Advance(k, s)[k].obj = z
             /\ Advance(k, s)[k].was = req[k].was /\ Advance(k, s)[k].read = req[k].read
  BY <1>1, <1>4, <1>5 DEF Advance, Request
<1> HIDE DEF k
<1>7. CASE AddFinalizer(k) \/ RemoveFinalizer(k)
  <2>1. PICK o, s : Patched(k, o, s)
    BY <1>7 DEF AddFinalizer, RemoveFinalizer
  <2>2. z \in queue'
    BY <2>1 DEF Patched, k
  <2>3. QED
    BY <2>2, RootWaits
<1>8. CASE PatchGone(k)
  BY <1>8 DEF PatchGone, RootCovered, Root, Living, k
<1>9. CASE CreateReplica(k) \/ ReplicateFails(k) \/ UpdateConflict(k) \/ WriteFails(k)
  BY <1>9, RootWaits DEF CreateReplica, ReplicateFails, UpdateConflict, WriteFails, Requeue, k
<1>10. CASE ReleaseFails(k)
  BY <1>10, RootWaits DEF ReleaseFails, HandlerDelete, Requeue, k
<1>11. CASE AwaitReplica(k)
  <2>1. Root(z) /\ OnCourse(z, req["zone"]) => Replicated(z, req[k].read.state)'
    BY <1>11 DEF AwaitReplica, OnCourse, Replicated, k
  <2>2. QED
    BY <1>3, <1>4, <1>6, <1>11, <2>1, ToStatus DEF AwaitReplica, k
<1>12. CASE UpdateReplica(k)
  <2>1. CASE tgt' # tgt
    BY <1>12, <2>1, RootWaits DEF UpdateReplica, k
  <2>2. CASE tgt' = tgt
    <3> PICK s : s = tgt[z].state
      OBVIOUS
    <3>1. /\ req'[k].step = "status" /\ req'[k].obj = z /\ req'[k].was = req[k].was
          /\ req'[k].read = [req[k].read EXCEPT !.state = s]
      BY <1>1, <1>4, <1>5, <1>12 DEF UpdateReplica, Request, k
    <3>2. req'[k].read # Absent /\ req'[k].read.state = s
      <4>1. tgt[z] \in Replica
        BY <1>1, <1>5, <1>12 DEF UpdateReplica, k
      <4>2. [req[k].read EXCEPT !.state = s] \in Object
        BY <1>4, <4>1 DEF Object, Replica
      <4>3. QED
        BY <1>4, <3>1, <4>2, ReplicationAssumption DEF Object
    <3>3. tgt[z].spec = TargetSpec(z, req[k].read.spec)
      <4>1. tgt[z] \in Replica /\ tgt'[z].spec = TargetSpec(z, req[k].read.spec)
        BY <1>1, <1>5, <1>12 DEF UpdateReplica, Replica, k
      <4>2. QED
        BY <2>2, <4>1
    <3>4. Root(z) /\ OnCourse(z, req["zone"]) => Replicated(z, s)'
      BY <1>12, <2>2, <3>3 DEF UpdateReplica, OnCourse, Replicated, k
    <3>5. src' = src /\ (z \in queue => z \in queue')
      BY <1>12, <2>2 DEF UpdateReplica, k
    <3>6. QED
      BY <1>3, <3>1, <3>2, <3>4, <3>5, ToStatus DEF k
  <2>3. QED
    BY <2>1, <2>2
<1>13. CASE UpdateLost(k)
  <2> PICK s : s = tgt[z].state
    OBVIOUS
  <2>1. /\ req'[k].step = "status" /\ req'[k].obj = z /\ req'[k].was = req[k].was
        /\ req'[k].read = [req[k].read EXCEPT !.state = s]
    BY <1>1, <1>4, <1>5, <1>13 DEF UpdateLost, Request, k
  <2>2. req'[k].read # Absent /\ req'[k].read.state = s
    <3>1. tgt[z] \in Replica
      BY <1>1, <1>5, <1>13 DEF UpdateLost, k
    <3>2. [req[k].read EXCEPT !.state = s] \in Object
      BY <1>4, <3>1 DEF Object, Replica
    <3>3. QED
      BY <1>4, <2>1, <3>2, ReplicationAssumption DEF Object
  <2>3. z \in lost' /\ src' = src /\ tgt' = tgt /\ queue' = queue
        /\ tgt[z] # Absent /\ req[k].step = "replicate"
    BY <1>13 DEF UpdateLost, k
  <2>4. Root(z) /\ OnCourse(z, req["zone"]) => Replicated(z, s)'
    BY <2>3 DEF OnCourse, Replicated, k
  <2>5. QED
    BY <1>3, <2>1, <2>2, <2>3, <2>4, ToStatus DEF k
<1>14. CASE ReplicaGone(k) \/ DeleteReplica(k)
  <2>1. CASE tgt' # tgt
    BY <1>14, <2>1, RootWaits DEF ReplicaGone, DeleteReplica, HandlerDelete, k
  <2>2. CASE tgt' = tgt
    <3>1. tgt[z] = Absent \/ tgt[z].deleting
      <4>1. CASE ReplicaGone(k)
        BY <4>1 DEF ReplicaGone, k
      <4>2. CASE DeleteReplica(k)
        BY <1>1, <1>5, <2>2, <4>2 DEF DeleteReplica, Replica, k
      <4>3. QED
        BY <1>14, <4>1, <4>2
    <3>2. PICK t \in {"unfinalize", "status"} : req' = Advance(k, t)
      BY <1>14 DEF ReplicaGone, DeleteReplica, k
    <3>3. src' = src /\ (z \in queue => z \in queue') /\ req[k].step = "release"
      BY <1>14 DEF ReplicaGone, DeleteReplica, HandlerDelete, k
    <3>4. CASE t = "status"
      <4>1. Root(z) /\ OnCourse(z, req["zone"]) => Replicated(z, req[k].read.state)'
        BY <2>2, <3>1, <3>3 DEF OnCourse, Replicated, k
      <4>2. QED
        BY <1>3, <1>4, <1>6, <3>2, <3>3, <3>4, <4>1, ToStatus DEF k
    <3>5. CASE t = "unfinalize"
      <4>1. req'[k].step = "unfinalize" /\ req'[k].obj = z /\ req'[k].was = req[k].was
        BY <1>6, <3>2, <3>5
      <4>2. OnCourse(z, req["zone"]) => OnCourse(z, req["zone"])'
        BY <3>3, <4>1 DEF OnCourse, k
      <4>3. QED
        BY <1>3, <3>3, <4>1, <4>2 DEF RootCovered, Root, Living, At, k
    <3>6. QED
      BY <3>2, <3>4, <3>5
  <2>3. QED
    BY <2>1, <2>2
<1>15. CASE UpdateStatus(k)
  <2>1. CASE Changed(req[k])
    BY <1>15, <2>1, RootWaits DEF UpdateStatus, k
  <2>2. CASE ~Changed(req[k])
    <3>1. /\ src' = src /\ tgt' = tgt /\ queue' = queue /\ lost' = lost
          /\ req' = [req EXCEPT ![k] = Idle] /\ req[k].step = "status"
      BY <1>15, <2>2 DEF UpdateStatus
    <3>2. ~At(z)'
      BY <1>1, <1>5, <3>1 DEF At, Idle, k
    <3>3. OnCourse(z, req["zone"]) => Replicated(z, src[z].state)
      BY <2>2, <3>1 DEF OnCourse, Changed, k
    <3>4. Replicated(z, src[z].state) => Replicated(z, src[z].state)'
      BY <3>1 DEF Replicated
    <3>5. QED
      BY <1>3, <3>1, <3>2, <3>3, <3>4 DEF RootCovered, Root, Living
  <2>3. QED
    BY <2>1, <2>2
<1>16. QED
  BY <1>7, <1>8, <1>9, <1>10, <1>11, <1>12, <1>13, <1>14, <1>15 DEF Work, k

\* A change of an object by a user.
LEMMA UserRoots ==
    ASSUME TypeInv, User, NEW z \in Zones, RootCovered(z)
    PROVE  RootCovered(z)'
<1>1. PICK x \in Objects : \/ \E s \in SpecsOf(x) : Create(x, s) \/ Update(x, s)
                           \/ Delete(x) \/ TargetDelete(x)
  BY DEF User
<1>2. x \in queue' /\ \A y \in queue : y \in queue'
  BY <1>1 DEF Create, Update, Delete, TargetDelete, TargetChange, Edit
<1>3. CASE x = z
  BY <1>2, <1>3, RootWaits
<1>4. CASE x # z
  <2>1. src'[z] = src[z] /\ tgt'[z] = tgt[z] /\ lost' = lost
    BY <1>1, <1>4, ZoneObjects
       DEF Create, Update, Delete, TargetDelete, TargetChange, Edit, TypeInv, TypeOK
  <2>2. req' = Outdate(x) \/ req' = req
    BY <1>1 DEF Create, Update, Delete, TargetDelete, TargetChange, Edit
  <2>3. /\ req'["zone"].step = req["zone"].step /\ req'["zone"].obj = req["zone"].obj
        /\ req'["zone"].read = req["zone"].read /\ req'["zone"].was = req["zone"].was
    BY <2>2, ZoneObjects DEF Outdate, TypeInv, TypeOK, Request
  <2>4. At(z) <=> At(z)'
    BY <2>3 DEF At
  <2>5. QED
    BY <1>2, <2>1, <2>3, <2>4, RootKept
<1>5. QED
  BY <1>3, <1>4

\* A change of a replica by the controllers of the target cluster.
LEMMA TargetRoots ==
    ASSUME TypeInv, NEW x \in Objects, TargetServes(x) \/ TargetReleases(x),
           NEW z \in Zones, RootCovered(z)
    PROVE  RootCovered(z)'
<1>1. /\ x \in queue' /\ \A y \in queue : y \in queue'
      /\ src' = src /\ lost' = lost /\ req' = req
  BY DEF TargetServes, TargetReleases, TargetChange
<1>2. CASE x = z
  BY <1>1, <1>2, RootWaits
<1>3. CASE x # z
  <2>1. tgt'[z] = tgt[z]
    BY <1>3, ZoneObjects DEF TargetServes, TargetReleases, TargetChange, TypeInv, TypeOK
  <2>2. At(z) <=> At(z)'
    BY <1>1 DEF At
  <2>3. QED
    BY <1>1, <2>1, <2>2, RootKept
<1>4. QED
  BY <1>2, <1>3

\* A request starts for another object.
LEMMA StartElsewhere ==
    ASSUME TypeInv, NEW x \in Objects, Start(x) \/ StartDeleted(x) \/ LookupFails(x),
           NEW z \in Zones, RootCovered(z), x # z
    PROVE  RootCovered(z)'
<1>1. /\ src' = src /\ tgt' = tgt /\ lost' = lost
      /\ z \in queue => z \in queue'
  BY DEF Start, StartDeleted, LookupFails
<1>2. \/ req' = req
      \/ /\ req[Kind(x)].step = "idle"
         /\ \E s, o : req' = [req EXCEPT ![Kind(x)] = NewRequest(x, s, o)]
  BY DEF Start, StartDeleted, LookupFails, Reconcile
<1>3. CASE req' = req
  <2>1. At(z) <=> At(z)'
    BY <1>3 DEF At
  <2>2. QED
    BY <1>1, <1>3, <2>1, RootKept
<1>4. CASE req' # req
  <2>1. PICK s, o : req' = [req EXCEPT ![Kind(x)] = NewRequest(x, s, o)]
    BY <1>2, <1>4
  <2>2. CASE Kind(x) = "zone"
    <3>1. req'["zone"].obj = x
      BY <2>1, <2>2, ZoneObjects DEF NewRequest, TypeInv, TypeOK
    <3>2. ~At(z) /\ ~At(z)'
      BY <1>2, <1>4, <2>2, <3>1 DEF At
    <3>3. QED
      BY <1>1, <3>2, RootKept
  <2>3. CASE Kind(x) # "zone"
    <3>1. req'["zone"] = req["zone"]
      BY <2>1, <2>3, ZoneObjects DEF TypeInv, TypeOK
    <3>2. At(z) <=> At(z)'
      BY <3>1 DEF At
    <3>3. QED
      BY <1>1, <3>1, <3>2, RootKept
  <2>4. QED
    BY <2>2, <2>3
<1>5. QED
  BY <1>3, <1>4

\* A request starts for the zone itself.
LEMMA StartHere ==
    ASSUME TypeInv, NEW z \in Zones, RootCovered(z),
           Start(z) \/ StartDeleted(z) \/ LookupFails(z)
    PROVE  RootCovered(z)'
<1>1. CASE LookupFails(z)
  <2>1. z \in queue'
    BY <1>1 DEF LookupFails
  <2>2. QED
    BY <2>1, RootWaits
<1>2. CASE StartDeleted(z)
  BY <1>2 DEF StartDeleted, RootCovered, Root, Living
<1>3. CASE Start(z)
  <2> SUFFICES ASSUME Root(z)', z \notin queue'
               PROVE  At(z)' /\ OnCourse(z, req["zone"])'
    BY DEF RootCovered
  <2>1. Root(z) /\ src' = src /\ Kind(z) = "zone"
    BY <1>3, ZoneObjects DEF Start, Root, Living
  <2>2. PICK s : /\ s = IF ~SameClass(src[z].spec.class) THEN "release"
                        ELSE IF src[z].fin THEN "replicate" ELSE "patch"
                 /\ req' = [req EXCEPT !["zone"] = NewRequest(z, s, src[z])]
    BY <1>3, <2>1, RootItself DEF Start, Reconcile
  <2>3. req'["zone"] = NewRequest(z, s, src[z])
    BY <2>2, ZoneObjects DEF TypeInv, TypeOK
  <2>4. At(z)'
    BY <2>2, <2>3 DEF At, NewRequest
  <2>5. OnCourse(z, req["zone"])'
    BY <2>1, <2>2, <2>3 DEF OnCourse, NewRequest
  <2>6. QED
    BY <2>4, <2>5
<1>4. QED
  BY <1>1, <1>2, <1>3

\* Every step keeps the root zones covered.
LEMMA NextRoots ==
    ASSUME TypeInv, RootsCovered, [Next]_vars
    PROVE  RootsCovered'
<1> SUFFICES ASSUME NEW z \in Zones PROVE RootCovered(z)'
  BY DEF RootsCovered
<1>1. RootCovered(z)
  BY DEF RootsCovered
<1>2. CASE User
  BY <1>1, <1>2, UserRoots
<1>3. ASSUME NEW x \in Objects, Start(x) \/ StartDeleted(x) \/ LookupFails(x)
      PROVE  RootCovered(z)'
  BY <1>1, <1>3, StartHere, StartElsewhere
<1>4. ASSUME NEW k \in Kinds, Work(k) PROVE RootCovered(z)'
  <2>1. CASE z = req[k].obj
    <3>1. req[k].step # "idle"
      BY <1>4 DEF Work, AddFinalizer, RemoveFinalizer, PatchGone, CreateReplica,
             AwaitReplica, UpdateReplica, UpdateLost, ReplicateFails, ReplicaGone,
             DeleteReplica, ReleaseFails, UpdateStatus, UpdateConflict, WriteFails
    <3>2. k = "zone"
      BY <2>1, <3>1, OpenRequest, ZoneObjects
    <3>3. QED
      BY <1>1, <1>4, <2>1, <3>2, WorkHere
  <2>2. CASE z # req[k].obj
    BY <1>1, <1>4, <2>2, WorkElsewhere
  <2>3. QED
    BY <2>1, <2>2
<1>5. CASE Crash
  BY <1>5, ZoneObjects DEF Crash, RootCovered, Root, Living
<1>6. ASSUME NEW x \in Objects, TargetServes(x) \/ TargetReleases(x)
      PROVE  RootCovered(z)'
  BY <1>1, <1>6, TargetRoots
<1>7. CASE UNCHANGED vars
  <2>1. At(z) <=> At(z)'
    BY <1>7 DEF vars, At
  <2>2. QED
    BY <1>1, <1>7, <2>1, RootKept DEF vars
<1>8. QED
  BY <1>2, <1>3, <1>4, <1>5, <1>6, <1>7 DEF Next

\* When nothing waits and nothing runs, covered root zones are replicated.
LEMMA RootsReached == RootsCovered => RootsSettled
<1> SUFFICES ASSUME RootsCovered, Quiet, NEW z \in Zones, Root(z)
             PROVE  Replicated(z, src[z].state)
  BY DEF RootsSettled, Root, Replicated
<1>1. z \notin queue /\ ~At(z)
  BY ZoneObjects DEF Quiet, At, Idle
<1>2. QED
  BY <1>1 DEF RootsCovered, RootCovered

-----------------------------------------------------------------------------
(***************************************************************************)
(* However users, failures and restarts come in between: once all work is  *)
(* done, the root zones are replicated as they now are.                    *)
(***************************************************************************)
THEOREM RootsReplicated == Spec => []RootsSettled
<1>1. Init => TypeInv /\ RootsCovered
  BY InitType DEF Init, RootsCovered, RootCovered, Root, Living, Objects
<1>2. TypeInv /\ RootsCovered /\ [Next]_vars => TypeInv' /\ RootsCovered'
  BY NextType, NextRoots
<1>3. QED
  BY <1>1, <1>2, RootsReached, PTL DEF Spec
=============================================================================
