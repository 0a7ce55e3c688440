--------------------------- MODULE OperatorProofs ---------------------------
(***************************************************************************)
(* Theorems about Operator, for any sets of zones, instances and attribute *)
(* values and any values of the bounds.                                    *)
(***************************************************************************)
EXTENDS Operator, ResponsibilityProofs

\* An open request is about a zone; a patch of the finalizers and a change
\* of the status are about an object that has been read.
Wellformed(r) ==
    /\ r.step # "idle" => r.zone \in Zones
    /\ r.step \in {"patch", "unfinalize"} \/ r.dirty => r.obj # Absent

Sound == {r \in Request : Wellformed(r)}

Requests == [Controllers -> Sound]

-----------------------------------------------------------------------------
(* Lemmas about the operators on objects and requests. *)

\* The options of an instance are a possible registration.
LEMMA OptionsOfType ==
    ASSUME NEW c \in Controllers
    PROVE  OptionsOf(c) \in Observations
BY ControllersAssumption DEF OptionsOf, Observations, String

\* Setting the Validation condition keeps an object well-formed.
LEMMA SetValidType ==
    ASSUME NEW o \in HostedZone, NEW v \in Conditions
    PROVE  SetValid(o, v) \in HostedZone
BY DEF SetValid, HostedZone, Status

\* So does the registration of a responsibility.
LEMMA SetObservedType ==
    ASSUME NEW o \in HostedZone, NEW obs \in Observations
    PROVE  SetObserved(o, obs) \in HostedZone
BY DEF SetObserved, HostedZone, Status

\* A new request is well-formed.
LEMMA NewRequestType ==
    ASSUME NEW z \in Zones, NEW s \in Steps, NEW orig, NEW o \in HostedZone
    PROVE  NewRequest(z, s, orig, o) \in Sound
<1>1. NewRequest(z, s, orig, o) \in Request
  BY DEF NewRequest, Request
<1>2. Wellformed(NewRequest(z, s, orig, o))
  BY NamesAssumption DEF NewRequest, Wellformed
<1>3. QED
  BY <1>1, <1>2 DEF Sound

\* So are the ones that the decisions at the start of a request lead to.
LEMMA HandleType ==
    ASSUME NEW c \in Controllers, NEW z \in Zones, NEW o \in HostedZone
    PROVE  /\ handleObject(c, z, o) \in Sound
           /\ handlePatched(c, z, o) \in Sound
<1>1. \A v \in Conditions : SetValid(o, v) \in HostedZone
  BY SetValidType
<1>2. SetObserved(SetValid(o, "true"), OptionsOf(c)) \in HostedZone
  BY <1>1, SetObservedType, OptionsOfType DEF Conditions
<1>3. \A s \in Steps, p \in HostedZone : NewRequest(z, s, o, p) \in Sound
  BY NewRequestType
<1>4. QED
  BY <1>1, <1>2, <1>3 DEF handleObject, handlePatched, Steps, Conditions

\* Reconcile and ReconcileDeleting on an existing object yield a sound request.
LEMMA ReconcileType ==
    ASSUME NEW c \in Controllers, NEW z \in Zones, objs[z] \in HostedZone
    PROVE  /\ Reconcile(c, z) \in Sound
           /\ ReconcileDeleting(c, z) \in Sound
<1>1. SetValid(objs[z], "false") \in HostedZone
  BY SetValidType DEF Conditions
<1>2. \A s \in Steps, p \in HostedZone : NewRequest(z, s, objs[z], p) \in Sound
  BY NewRequestType
<1>3. handleObject(c, z, objs[z]) \in Sound
  BY HandleType
<1>4. Reconcile(c, z) \in Sound
  BY <1>1, <1>2, <1>3 DEF Reconcile, Steps
<1>5. ReconcileDeleting(c, z) \in Sound
  BY <1>2 DEF ReconcileDeleting, Steps
<1>6. QED
  BY <1>4, <1>5

\* So does ReconcileDeleted, whose request carries no object.
LEMMA ReconcileDeletedType ==
    ASSUME NEW c \in Controllers, NEW z \in Zones
    PROVE  ReconcileDeleted(c, z) \in Sound
BY DEF ReconcileDeleted, NewRequest, Sound, Request, Wellformed, Steps

\* Watch events keep the queues well-formed.
LEMMA NotifyType ==
    ASSUME NEW q \in [Controllers -> SUBSET Zones], NEW z \in Zones
    PROVE  Notify(q, z) \in [Controllers -> SUBSET Zones]
BY DEF Notify

\* An instance without a request.
LEMMA IdleType == Idle \in Sound
BY DEF Idle, Sound, Wellformed, Request, Steps

\* The triggers of the secret watch.
LEMMA SecretTriggerType ==
    ASSUME NEW q \in [Controllers -> SUBSET Zones],
           NEW ix \in [Controllers -> SUBSET Zones]
    PROVE  SecretTrigger(q, ix) \in [Controllers -> SUBSET Zones]
BY DEF SecretTrigger

\* The triggers of the watch on deployments: queues only grow, and other
\* instances are not reached.
LEMMA OwnerTriggerType ==
    ASSUME NEW q \in [Controllers -> SUBSET Zones], NEW c \in Controllers, NEW r
    PROVE  /\ OwnerTrigger(q, c, r) \in [Controllers -> SUBSET Zones]
           /\ \A d \in Controllers : q[d] \subseteq OwnerTrigger(q, c, r)[d]
BY DEF OwnerTrigger

\* The services that are being deleted are services of zones.
LEMMA TerminatingType ==
    ASSUME terminating \in [Controllers -> SUBSET Zones], NEW c \in Controllers, NEW ms
    PROVE  [terminating EXCEPT ![c] = Terminating(c, ms)] \in [Controllers -> SUBSET Zones]
BY DEF Terminating

\* A failing call stays within its bound.
LEMMA FailureType ==
    ASSUME TypeOK, Failure
    PROVE  used' \in [edits : 0 .. MaxEdits, failures : 0 .. MaxFailures,
                      crashes : 0 .. MaxCrashes]
BY OperatorAssumption DEF TypeOK, Failure

\* The manifests of a zone.
LEMMA ManifestType ==
    ASSUME NEW z \in Zones
    PROVE  RuntimeManifests(z) \subseteq Manifest
BY DEF RuntimeManifests, Manifest, Service

TypeInv == TypeOK /\ req \in Requests

\* Changing the fields of a request.
LEMMA FieldType ==
    ASSUME NEW r \in Request, NEW s \in Steps, NEW b \in BOOLEAN
    PROVE  /\ [r EXCEPT !.step = s] \in Request
           /\ [r EXCEPT !.stale = b] \in Request
           /\ [r EXCEPT !.step = s, !.stale = b] \in Request
           /\ [r EXCEPT !.step = s, !.repeat = b] \in Request
BY DEF Request

\* A request proceeding to another step.
LEMMA AdvanceType ==
    ASSUME TypeInv, NEW c \in Controllers, NEW s \in Steps \ {"patch"},
           req[c].step # "idle", s = "unfinalize" => req[c].obj # Absent
    PROVE  Advance(c, s) \in Requests
<1>1. req[c] \in Request /\ req[c].zone \in Zones
  BY DEF TypeInv, Requests, Sound, Wellformed
<1>2. [req[c] EXCEPT !.step = s] \in Request
  BY <1>1, FieldType
<1>3. Wellformed([req[c] EXCEPT !.step = s])
  BY <1>1 DEF TypeInv, Requests, Sound, Wellformed, Request
<1>4. QED
  BY <1>2, <1>3 DEF TypeInv, Advance, Requests, Sound

\* A request put back into the queue.
LEMMA RequeueType ==
    ASSUME TypeInv, NEW c \in Controllers, req[c].step # "idle"
    PROVE  Requeue(c) \in [Controllers -> SUBSET Zones]
BY DEF TypeInv, TypeOK, Requeue, Requests, Sound, Wellformed

\* Requests outdated by a write of their object.
LEMMA OutdateType ==
    ASSUME NEW r \in Requests, NEW z \in Zones
    PROVE  Outdate(r, z) \in Requests
<1> SUFFICES ASSUME NEW c \in Controllers
             PROVE  Outdate(r, z)[c] \in Sound
  BY DEF Outdate, Requests, Sound
<1>1. r[c] \in Request /\ Wellformed(r[c])
  BY DEF Requests, Sound
<1>2. [r[c] EXCEPT !.stale = TRUE] \in Request
  BY <1>1, FieldType DEF Steps
<1>3. Wellformed([r[c] EXCEPT !.stale = TRUE])
  BY <1>1 DEF Wellformed, Request
<1>4. QED
  BY <1>1, <1>2, <1>3 DEF Outdate, Sound

-----------------------------------------------------------------------------
(* Type correctness. *)

\* The initial state is type correct.
LEMMA InitType == Init => TypeInv
<1> SUFFICES ASSUME Init PROVE TypeInv
  OBVIOUS
<1>1. req \in [Controllers -> Request]
  BY IdleType DEF Init, Sound
<1>2. TypeOK
  <2>1. used \in [edits : 0 .. MaxEdits, failures : 0 .. MaxFailures,
                  crashes : 0 .. MaxCrashes]
    BY OperatorAssumption DEF Init
  <2>2. account \in BOOLEAN
    BY Zenon DEF Init
  <2>3. QED
    BY <1>1, <2>1, <2>2 DEF Init, TypeOK
<1>3. req \in Requests
  BY IdleType DEF Init, Requests, Sound
<1>4. QED
  BY <1>2, <1>3 DEF TypeInv

\* Users.
LEMMA UserType ==
    ASSUME TypeInv, User
    PROVE  TypeInv'
<1>1. PICK z \in Zones, o \in HostedZone \cup {Absent} : Edit(z, o)
  <2>1. CASE \E z \in Zones, s \in Specs : CreateZone(z, s)
    BY <2>1 DEF CreateZone, NewZone, HostedZone, Status, Conditions
  <2>2. CASE \E z \in Zones, s \in Specs : UpdateZone(z, s)
    <3>1. PICK z \in Zones, s \in Specs : UpdateZone(z, s)
      BY <2>2
    <3>2. objs[z] \in HostedZone
      BY <3>1 DEF UpdateZone, TypeInv, TypeOK
    <3>3. [objs[z] EXCEPT !.spec = s] \in HostedZone
      BY <3>2 DEF HostedZone
    <3>4. QED
      BY <3>1, <3>3 DEF UpdateZone
  <2>3. CASE \E z \in Zones : DeleteZone(z)
    <3>1. PICK z \in Zones : DeleteZone(z)
      BY <2>3
    <3>2. objs[z] \in HostedZone
      BY <3>1 DEF DeleteZone, TypeInv, TypeOK
    <3>3. [objs[z] EXCEPT !.deleting = TRUE] \in HostedZone
      BY <3>2 DEF HostedZone
    <3>4. QED
      BY <3>1, <3>3 DEF DeleteZone
  <2>4. QED
    BY <2>1, <2>2, <2>3 DEF User
<1>2. req' \in Requests /\ queue' \in [Controllers -> SUBSET Zones]
  BY <1>1, OutdateType, NotifyType DEF TypeInv, TypeOK, Edit
<1>3. used' \in [edits : 0 .. MaxEdits, failures : 0 .. MaxFailures,
                 crashes : 0 .. MaxCrashes]
  BY <1>1, OperatorAssumption DEF TypeInv, TypeOK, Edit
<1>4. TypeOK'
  BY <1>1, <1>2, <1>3 DEF TypeInv, TypeOK, Requests, Sound, Edit, clusters
<1>5. QED
  BY <1>2, <1>4 DEF TypeInv, Requests, Sound

\* The start of a request.
LEMMA StartType ==
    ASSUME TypeInv, NEW c \in Controllers, NEW z \in Zones,
           Start(c, z) \/ LookupFails(c, z)
    PROVE  TypeInv'
<1>1. queue' \in [Controllers -> SUBSET Zones]
  BY DEF TypeInv, TypeOK, Start, LookupFails
<1>2. PICK r \in Sound : req' = [req EXCEPT ![c] = r]
  <2>1. CASE Start(c, z) /\ objs[z] = Absent
    BY <2>1, ReconcileDeletedType DEF Start
  <2>2. CASE Start(c, z) /\ objs[z] # Absent
    <3>1. objs[z] \in HostedZone
      BY <2>2 DEF TypeInv, TypeOK
    <3>2. QED
      BY <2>2, <3>1, ReconcileType DEF Start
  <2>3. CASE LookupFails(c, z)
    BY <2>3, NewRequestType DEF TypeInv, TypeOK, LookupFails, Steps
  <2>4. QED
    BY <2>1, <2>2, <2>3
<1>3. req' \in Requests
  BY <1>2 DEF TypeInv, Requests, Sound
<1>4. used' \in [edits : 0 .. MaxEdits, failures : 0 .. MaxFailures,
                 crashes : 0 .. MaxCrashes]
  BY FailureType DEF TypeInv, TypeOK, Start, LookupFails
<1>5. QED
  BY <1>1, <1>3, <1>4
  DEF TypeInv, TypeOK, Requests, Sound, Start, LookupFails, clusters

\* The patches of the finalizers.
LEMMA PatchType ==
    ASSUME TypeInv, NEW c \in Controllers,
           PatchFinalizer(c) \/ RemoveFinalizer(c) \/ PatchGone(c) \/ PatchRefused(c)
    PROVE  TypeInv'
<1> DEFINE z == req[c].zone
<1>1. req[c].step \in {"patch", "unfinalize"}
  BY DEF PatchFinalizer, RemoveFinalizer, PatchGone, PatchRefused
<1>2. z \in Zones /\ req[c].obj \in HostedZone
  BY <1>1 DEF TypeInv, Requests, Sound, Wellformed, Request
<1>3. req[c].obj.fin \subseteq Controllers
  BY <1>2 DEF HostedZone
<1>4. CASE PatchFinalizer(c)
  <2> DEFINE o == [objs[z] EXCEPT !.fin = req[c].obj.fin \cup {c}]
  <2>1. objs[z] \in HostedZone
    BY <1>2, <1>4 DEF TypeInv, TypeOK, PatchFinalizer, Accepts
  <2>2. o \in HostedZone
    BY <1>3, <2>1 DEF HostedZone
  <2>3. handlePatched(c, z, o) \in Sound
    BY <1>2, <2>2, HandleType
  <2>5. Outdate(req, z) \in Requests
    BY <1>2, OutdateType DEF TypeInv
  <2>6. /\ req' = [Outdate(req, z) EXCEPT ![c] = handlePatched(c, z, o)]
        /\ objs' = [objs EXCEPT ![z] = o]
        /\ queue' = Notify(queue, z)
        /\ UNCHANGED <<clusters, used>>
    BY <1>4 DEF PatchFinalizer
  <2>7. req' \in Requests
    BY <2>3, <2>5, <2>6 DEF Requests, Sound
  <2>8. objs' \in [Zones -> HostedZone \cup {Absent}]
    BY <1>2, <2>2, <2>6 DEF TypeInv, TypeOK
  <2>9. queue' \in [Controllers -> SUBSET Zones]
    BY <1>2, <2>6, NotifyType DEF TypeInv, TypeOK
  <2>10. QED
    BY <2>6, <2>7, <2>8, <2>9 DEF TypeInv, TypeOK, Requests, Sound, clusters
<1>5. CASE RemoveFinalizer(c)
  <2> DEFINE fin == req[c].obj.fin \ {c}
             r   == [req[c] EXCEPT !.step = "status", !.stale = FALSE]
             o   == IF objs[z].deleting /\ fin = {} THEN Absent
                    ELSE [objs[z] EXCEPT !.fin = fin]
  <2>1. objs[z] \in HostedZone
    BY <1>2, <1>5 DEF TypeInv, TypeOK, RemoveFinalizer, Accepts
  <2>2. o \in HostedZone \cup {Absent}
    BY <1>3, <2>1 DEF HostedZone
  <2>3. req[c] \in Request
    BY DEF TypeInv, Requests, Sound
  <2>4. r \in Request
    BY <2>3, FieldType DEF Steps
  <2>5. Wellformed(r)
    BY <1>2, <2>3 DEF TypeInv, Requests, Sound, Wellformed, Request
  <2>6. Outdate(req, z) \in Requests
    BY <1>2, OutdateType DEF TypeInv
  <2>7. /\ req' = [Outdate(req, z) EXCEPT ![c] = r]
        /\ objs' = [objs EXCEPT ![z] = o]
        /\ queue' = Notify(queue, z)
        /\ UNCHANGED <<clusters, used>>
    BY <1>5 DEF RemoveFinalizer
  <2>8. req' \in Requests
    BY <2>4, <2>5, <2>6, <2>7 DEF Requests, Sound
  <2>9. objs' \in [Zones -> HostedZone \cup {Absent}]
    BY <1>2, <2>2, <2>7 DEF TypeInv, TypeOK
  <2>10. queue' \in [Controllers -> SUBSET Zones]
    BY <1>2, <2>7, NotifyType DEF TypeInv, TypeOK
  <2>11. QED
    BY <2>7, <2>8, <2>9, <2>10 DEF TypeInv, TypeOK, Requests, Sound, clusters
<1>6. CASE PatchGone(c) \/ PatchRefused(c)
  <2>1. Advance(c, "status") \in Requests
    BY <1>1, AdvanceType DEF Steps
  <2>2. Requeue(c) \in [Controllers -> SUBSET Zones]
    BY <1>1, RequeueType
  <2>3. QED
    BY <1>6, <2>1, <2>2
    DEF TypeInv, TypeOK, Requests, Sound, PatchGone, PatchRefused, clusters
<1>7. QED
  BY <1>4, <1>5, <1>6

\* The deployment of a root zone.
LEMMA DeployType ==
    ASSUME TypeInv, NEW c \in Controllers,
           \/ Prepare(c) \/ PrepareFails(c) \/ AccessFails(c)
           \/ ApplyDataplane(c) \/ ApplyDataplaneFails(c)
           \/ ApplyRuntime(c) \/ ApplyRuntimeFails(c) \/ ApplyRuntimeRefused(c)
           \/ NotModifiable(c)
    PROVE  TypeInv'
<1> DEFINE z == req[c].zone
<1>1. req[c].step # "idle"
  BY DEF Prepare, PrepareFails, AccessFails, ApplyDataplane, ApplyDataplaneFails,
         ApplyRuntime, ApplyRuntimeFails, ApplyRuntimeRefused, NotModifiable
<1>2. z \in Zones /\ req[c] \in Request
  BY <1>1 DEF TypeInv, Requests, Sound, Wellformed
<1>3. RuntimeManifests(z) \subseteq Manifest
  BY <1>2, ManifestType
<1>4. /\ Advance(c, "status") \in Requests
      /\ Advance(c, "runtime") \in Requests
  BY <1>1, AdvanceType DEF Steps
<1>5. \A b \in BOOLEAN :
        [req EXCEPT ![c] = [@ EXCEPT !.step = "dataplane", !.repeat = b]] \in Requests
  <2> SUFFICES ASSUME NEW b \in BOOLEAN
               PROVE  [req EXCEPT ![c] = [req[c] EXCEPT !.step = "dataplane",
                                                        !.repeat = b]] \in Requests
    OBVIOUS
  <2>1. [req[c] EXCEPT !.step = "dataplane", !.repeat = b] \in Request
    BY <1>2, FieldType DEF Steps
  <2>2. Wellformed([req[c] EXCEPT !.step = "dataplane", !.repeat = b])
    BY <1>2 DEF TypeInv, Requests, Sound, Wellformed, Request
  <2>3. QED
    BY <2>1, <2>2 DEF TypeInv, Requests, Sound
<1>6. Requeue(c) \in [Controllers -> SUBSET Zones]
  BY <1>1, RequeueType
<1>7. Failure => used' \in [edits : 0 .. MaxEdits, failures : 0 .. MaxFailures,
                            crashes : 0 .. MaxCrashes]
  BY FailureType DEF TypeInv
<1>8. CASE Prepare(c)
  <2>1. req' \in Requests
    BY <1>5, <1>8 DEF Prepare
  <2>2. index' \in [Controllers -> SUBSET Zones]
    BY <1>2, <1>8 DEF TypeInv, TypeOK, Prepare
  <2>3. queue' \in [Controllers -> SUBSET Zones]
    BY <1>8, <2>2, SecretTriggerType DEF TypeInv, TypeOK, Prepare
  <2>4. /\ ns' \in [Controllers -> {"none", "active", "terminating"}]
        /\ secret' \in {"none", "pending", "token"}
    BY <1>8 DEF TypeInv, TypeOK, Prepare
  <2>5. QED
    BY <1>8, <2>1, <2>2, <2>3, <2>4 DEF TypeInv, TypeOK, Requests, Sound, Prepare
<1>9. CASE PrepareFails(c) \/ ApplyRuntimeRefused(c)
  BY <1>4, <1>6, <1>7, <1>9
  DEF TypeInv, TypeOK, Requests, Sound, PrepareFails, ApplyRuntimeRefused, clusters
<1>10. CASE AccessFails(c)
  <2>1. req' \in Requests
    BY <1>5, <1>10 DEF AccessFails
  <2>2. QED
    BY <1>2, <1>7, <1>10, <2>1 DEF TypeInv, TypeOK, Requests, Sound, AccessFails
<1>11. CASE ApplyDataplane(c)
  <2>1. req' \in Requests
    BY <1>4, <1>11 DEF ApplyDataplane
  <2>2. QED
    BY <1>11, <2>1 DEF TypeInv, TypeOK, Requests, Sound, ApplyDataplane
<1>12. CASE ApplyDataplaneFails(c)
  <2>1. account' \in BOOLEAN
    BY <1>12 DEF TypeInv, TypeOK, ApplyDataplaneFails
  <2>2. QED
    BY <1>4, <1>6, <1>7, <1>12, <2>1 DEF TypeInv, TypeOK, Requests, Sound, ApplyDataplaneFails
<1>13. CASE ApplyRuntime(c) \/ ApplyRuntimeFails(c) \/ NotModifiable(c)
  <2>1. req' \in Requests
    BY <1>4, <1>13 DEF ApplyRuntime, ApplyRuntimeFails, NotModifiable
  <2>2. queue' \in [Controllers -> SUBSET Zones]
    BY <1>6, <1>13, OwnerTriggerType
    DEF ApplyRuntime, ApplyRuntimeFails, NotModifiable, TypeInv, TypeOK
  <2>3. rt' \in [Controllers -> SUBSET Manifest]
    <3>1. CASE ApplyRuntime(c)
      BY <1>3, <3>1 DEF ApplyRuntime, Applied, TypeInv, TypeOK
    <3>2. CASE ApplyRuntimeFails(c)
      BY <1>3, <3>2 DEF ApplyRuntimeFails, Applied, TypeInv, TypeOK
    <3>3. CASE NotModifiable(c)
      BY <1>3, <3>3 DEF NotModifiable, TypeInv, TypeOK
    <3>4. QED
      BY <1>13, <3>1, <3>2, <3>3
  <2>4. terminating' \in [Controllers -> SUBSET Zones]
    BY <1>13, TerminatingType
    DEF ApplyRuntime, ApplyRuntimeFails, NotModifiable, TypeInv, TypeOK
  <2>5. entries' \in SUBSET Zones
    BY <1>2, <1>13
    DEF ApplyRuntime, ApplyRuntimeFails, NotModifiable, Published, TypeInv, TypeOK
  <2>6. used' \in [edits : 0 .. MaxEdits, failures : 0 .. MaxFailures,
                   crashes : 0 .. MaxCrashes]
    BY <1>7, <1>13 DEF ApplyRuntime, ApplyRuntimeFails, NotModifiable, TypeInv, TypeOK
  <2>7. QED
    BY <1>13, <2>1, <2>2, <2>3, <2>4, <2>5, <2>6
    DEF TypeInv, TypeOK, Requests, Sound, ApplyRuntime, ApplyRuntimeFails, NotModifiable
<1>14. QED
  BY <1>8, <1>9, <1>10, <1>11, <1>12, <1>13

\* The removal of everything deployed for a zone.
LEMMA DeleteType ==
    ASSUME TypeInv, NEW c \in Controllers,
           \/ DeleteResources(c) \/ DeleteResourcesPending(c) \/ DeleteResourcesFails(c)
           \/ Cleanup(c) \/ CleanupFails(c)
    PROVE  TypeInv'
<1> DEFINE z == req[c].zone
<1>1. req[c].step # "idle"
  BY DEF DeleteResources, DeleteResourcesPending, DeleteResourcesFails, Cleanup, CleanupFails
<1>2. z \in Zones /\ req[c] \in Request
  BY <1>1 DEF TypeInv, Requests, Sound, Wellformed
<1>3. /\ Advance(c, "status") \in Requests
      /\ Advance(c, "cleanup") \in Requests
  BY <1>1, AdvanceType DEF Steps
<1>4. Requeue(c) \in [Controllers -> SUBSET Zones]
  BY <1>1, RequeueType
<1>5. Failure => used' \in [edits : 0 .. MaxEdits, failures : 0 .. MaxFailures,
                            crashes : 0 .. MaxCrashes]
  BY FailureType DEF TypeInv
<1>6. CASE DeleteResources(c) \/ DeleteResourcesPending(c) \/ DeleteResourcesFails(c)
  <2>1. PICK q \in {queue, Requeue(c)} : queue' = OwnerTrigger(q, c, rt'[c])
    BY <1>6 DEF DeleteResources, DeleteResourcesPending, DeleteResourcesFails
  <2>2. queue' \in [Controllers -> SUBSET Zones]
    <3>1. q \in [Controllers -> SUBSET Zones]
      BY <1>4, <2>1 DEF TypeInv, TypeOK
    <3>2. QED
      BY <2>1, <3>1, OwnerTriggerType
  <2>3. PICK ms : rt' = [rt EXCEPT ![c] = @ \ ms]
    BY <1>6 DEF DeleteResources, DeleteResourcesPending, DeleteResourcesFails
  <2>4. rt' \in [Controllers -> SUBSET Manifest]
    BY <2>3 DEF TypeInv, TypeOK
  <2>5. index' = [index EXCEPT ![c] = IF LocalMode THEN @ \ {z} ELSE @ \cup {z}]
    BY <1>6 DEF DeleteResources, DeleteResourcesPending, DeleteResourcesFails
  <2>6. index' \in [Controllers -> SUBSET Zones]
    BY <1>2, <2>5 DEF TypeInv, TypeOK
  <2>7. \/ UNCHANGED terminating
        \/ \E del : terminating' = [terminating EXCEPT ![c] = Terminating(c, del)]
    BY <1>6 DEF DeleteResources, DeleteResourcesPending, DeleteResourcesFails
  <2>8. terminating' \in [Controllers -> SUBSET Zones]
    BY <2>7, TerminatingType DEF TypeInv, TypeOK
  <2>9. req' \in Requests /\ account' \in BOOLEAN
    BY <1>3, <1>6 DEF DeleteResources, DeleteResourcesPending, DeleteResourcesFails,
                      TypeInv, TypeOK
  <2>10. used' \in [edits : 0 .. MaxEdits, failures : 0 .. MaxFailures,
                    crashes : 0 .. MaxCrashes]
    BY <1>5, <1>6 DEF DeleteResources, DeleteResourcesPending, DeleteResourcesFails,
                      TypeInv, TypeOK
  <2>11. UNCHANGED <<objs, ns, secret, entries, lb>>
    BY <1>6 DEF DeleteResources, DeleteResourcesPending, DeleteResourcesFails
  <2>12. QED
    BY <2>2, <2>4, <2>6, <2>8, <2>9, <2>10, <2>11 DEF TypeInv, TypeOK, Requests, Sound
<1>7. CASE Cleanup(c)
  <2>1. req' \in Requests
    <3>1. CASE req[c].obj = Absent
      <4>1. req' = [req EXCEPT ![c] = Idle]
        BY <1>7, <3>1 DEF Cleanup, AfterCleanup, TypeInv, TypeOK
      <4>2. QED
        BY <4>1, IdleType DEF Idle, Wellformed, TypeInv, Requests, Sound
    <3>2. CASE req[c].obj # Absent
      <4>1. req' = Advance(c, "unfinalize")
        BY <1>7, <3>2 DEF Cleanup, AfterCleanup, Advance, TypeInv, TypeOK
      <4>2. QED
        BY <1>1, <3>2, <4>1, AdvanceType DEF Steps
    <3>3. QED
      BY <3>1, <3>2
  <2>2. index' \in [Controllers -> SUBSET Zones]
    BY <1>7 DEF TypeInv, TypeOK, Cleanup
  <2>3. queue' \in [Controllers -> SUBSET Zones]
    BY <1>7, <2>2, SecretTriggerType DEF TypeInv, TypeOK, Cleanup
  <2>4. /\ ns' \in [Controllers -> {"none", "active", "terminating"}]
        /\ secret' \in {"none", "pending", "token"}
    BY <1>7 DEF TypeInv, TypeOK, Cleanup
  <2>5. QED
    BY <1>7, <2>1, <2>2, <2>3, <2>4 DEF TypeInv, TypeOK, Requests, Sound, Cleanup
<1>8. CASE CleanupFails(c)
  BY <1>3, <1>4, <1>5, <1>8 DEF TypeInv, TypeOK, Requests, Sound, CleanupFails
<1>9. QED
  BY <1>6, <1>7, <1>8

\* The end of a request, and of an instance.
LEMMA EndType ==
    ASSUME TypeInv, NEW c \in Controllers,
           UpdateStatus(c) \/ UpdateConflict(c) \/ WriteFails(c) \/ Crash(c)
    PROVE  TypeInv'
<1> DEFINE z == req[c].zone
<1>1. \A rs \in Requests : [rs EXCEPT ![c] = Idle] \in Requests
  BY IdleType DEF Idle, Wellformed, Requests, Sound
<1>2. req \in Requests
  BY DEF TypeInv
<1>3. CASE UpdateStatus(c)
  <2>1. z \in Zones /\ req[c] \in Request
    BY <1>3 DEF UpdateStatus, TypeInv, Requests, Sound, Wellformed
  <2>2. Outdate(req, z) \in Requests
    BY <1>2, <2>1, OutdateType
  <2>3. req' \in Requests
    BY <1>1, <1>2, <1>3, <2>2 DEF UpdateStatus
  <2>4. queue' \in [Controllers -> SUBSET Zones]
    BY <1>3, <2>1, NotifyType DEF UpdateStatus, TypeInv, TypeOK, Children
  <2>5. objs' \in [Zones -> HostedZone \cup {Absent}]
    <3>1. CASE ~req[c].dirty
      BY <1>3, <3>1 DEF UpdateStatus, TypeInv, TypeOK
    <3>2. CASE req[c].dirty
      <4>1. objs[z] \in HostedZone
        BY <1>3, <2>1, <3>2 DEF UpdateStatus, TypeInv, TypeOK
      <4>2. req[c].obj.status \in Status
        <5>1. req[c].obj # Absent
          BY <1>3, <3>2 DEF UpdateStatus, TypeInv, Requests, Sound, Wellformed
        <5>2. QED
          BY <2>1, <5>1 DEF Request, HostedZone
      <4>3. [objs[z] EXCEPT !.status = req[c].obj.status] \in HostedZone
        BY <4>1, <4>2 DEF HostedZone
      <4>4. QED
        BY <1>3, <2>1, <3>2, <4>3 DEF UpdateStatus, TypeInv, TypeOK
    <3>3. QED
      BY <3>1, <3>2
  <2>6. QED
    BY <1>3, <2>3, <2>4, <2>5 DEF UpdateStatus, TypeInv, TypeOK, Requests, Sound, clusters
<1>4. CASE UpdateConflict(c)
  BY <1>1, <1>2, <1>4, RequeueType
  DEF UpdateConflict, TypeInv, TypeOK, Requests, Sound, clusters
<1>5. CASE WriteFails(c)
  <2>1. req[c].step # "idle"
    BY <1>5 DEF WriteFails
  <2>2. req' \in Requests
    <3>1. CASE req[c].step = "status"
      BY <1>1, <1>2, <1>5, <3>1 DEF WriteFails, TypeInv, TypeOK
    <3>2. CASE req[c].step # "status"
      <4>1. req' = Advance(c, "status")
        BY <1>5, <3>2 DEF WriteFails, Advance, TypeInv, TypeOK
      <4>2. QED
        BY <2>1, <4>1, AdvanceType DEF Steps
    <3>3. QED
      BY <3>1, <3>2
  <2>3. queue' \in [Controllers -> SUBSET Zones]
    BY <1>5, <2>1, RequeueType DEF WriteFails
  <2>4. QED
    BY <1>5, <2>2, <2>3, FailureType
    DEF WriteFails, TypeInv, TypeOK, Requests, Sound, clusters
<1>6. CASE Crash(c)
  <2>1. used' \in [edits : 0 .. MaxEdits, failures : 0 .. MaxFailures,
                   crashes : 0 .. MaxCrashes]
    BY <1>6, OperatorAssumption DEF Crash, TypeInv, TypeOK
  <2>2. req' \in Requests
    BY <1>1, <1>2, <1>6 DEF Crash
  <2>3. QED
    BY <1>6, <2>1, <2>2 DEF Crash, TypeInv, TypeOK, Requests, Sound
<1>7. QED
  BY <1>3, <1>4, <1>5, <1>6

\* The clusters, and the periodic repetition.
LEMMA ClusterType ==
    ASSUME TypeInv, Cluster \/ \E c \in Controllers, z \in Zones : Repeat(c, z)
    PROVE  TypeInv'
<1>1. CASE TokenIssued \/ TokenRevoked
  <2>1. queue' \in [Controllers -> SUBSET Zones]
    BY <1>1, SecretTriggerType DEF TokenIssued, TokenRevoked, TypeInv, TypeOK
  <2>2. QED
    BY <1>1, <2>1 DEF TokenIssued, TokenRevoked, TypeInv, TypeOK, Requests, Sound
<1>2. CASE \E c \in Controllers : NamespaceEmptied(c)
  <2>1. /\ queue' \in [Controllers -> SUBSET Zones]
        /\ terminating' \in [Controllers -> SUBSET Zones]
        /\ rt' \in [Controllers -> SUBSET Manifest]
    BY <1>2, OwnerTriggerType, TerminatingType DEF NamespaceEmptied, TypeInv, TypeOK
  <2>2. QED
    BY <1>2, <2>1 DEF NamespaceEmptied, TypeInv, TypeOK, Requests, Sound
<1>3. CASE \/ \E c \in Controllers : NamespaceGone(c)
           \/ \E c \in Controllers, z \in Zones : ServiceGone(c, z) \/ LoadBalancerReady(c, z)
  BY <1>3 DEF NamespaceGone, ServiceGone, LoadBalancerReady, TypeInv, TypeOK, Requests, Sound
<1>4. CASE \E c \in Controllers, z \in Zones : Repeat(c, z)
  BY <1>4 DEF Repeat, TypeInv, TypeOK, Requests, Sound, clusters
<1>5. QED
  BY <1>1, <1>2, <1>3, <1>4 DEF Cluster

\* Every step preserves type correctness, with sound requests.
LEMMA NextType ==
    ASSUME TypeInv, [Next]_vars
    PROVE  TypeInv'
<1>1. CASE UNCHANGED vars
  BY <1>1 DEF vars, TypeInv, TypeOK, Requests, Sound
<1>2. CASE \E c \in Controllers : Work(c)
  BY <1>2, PatchType, DeployType, DeleteType, EndType DEF Work
<1>3. QED
  BY <1>1, <1>2, UserType, StartType, EndType, ClusterType DEF Next

\* Type correctness of the operator: every reachable state of objects,
\* queues, requests and clusters has its type.
THEOREM TypeCorrect == Spec => []TypeOK
<1>1. Init => TypeInv
  BY InitType
<1>2. TypeInv /\ [Next]_vars => TypeInv'
  BY NextType
<1>3. TypeInv => TypeOK
  BY DEF TypeInv
<1>4. QED
  BY <1>1, <1>2, <1>3, PTL DEF Spec

-----------------------------------------------------------------------------
(***************************************************************************)
(* A registered responsibility stays.  A request that will write a status  *)
(* has the registration of its object in it, unless the object was written *)
(* since; and a request that removes or patches something writes none.     *)
(***************************************************************************)
Late(r) == r.dirty => r.step \in {"prepare", "dataplane", "runtime", "status"}

Registered(r) ==
    /\ r.dirty /\ ~r.stale
    /\ objs[r.zone] # Absent /\ objs[r.zone].status.observed # nil
    => r.obj.status.observed = objs[r.zone].status.observed

RegInv == TypeInv /\ \A c \in Controllers : Late(req[c]) /\ Registered(req[c])

\* What RegistrationStable says of a step.
Stable ==
    \A z \in Zones :
        /\ objs[z] # Absent /\ objs'[z] # Absent
        /\ objs[z].status.observed # nil
        => objs'[z].status.observed = objs[z].status.observed

\* Request q continues request r.
Continues(q, r) ==
    /\ q.zone = r.zone /\ q.obj = r.obj /\ q.dirty = r.dirty /\ q.stale = r.stale
    /\ Late(q)

\* A step that writes no object.
LEMMA ReadingKeeps ==
    ASSUME RegInv, [Next]_vars, objs' = objs,
           \A c \in Controllers :
              ~req'[c].dirty \/ Continues(req'[c], req[c]) \/ (Late(req[c]) /\ Registered(req[c]))'
    PROVE  RegInv' /\ Stable
<1>1. TypeInv'
  BY NextType DEF RegInv
<1>2. ASSUME NEW c \in Controllers PROVE (Late(req[c]) /\ Registered(req[c]))'
  <2>1. CASE ~req'[c].dirty
    BY <2>1 DEF Late, Registered
  <2>2. CASE Continues(req'[c], req[c])
    BY <2>2 DEF Continues, RegInv, Late, Registered
  <2>3. QED
    BY <2>1, <2>2
<1>3. QED
  BY <1>1, <1>2 DEF RegInv, Stable

\* A step that writes one object, and keeps what is registered there.
LEMMA WritingKeeps ==
    ASSUME RegInv, [Next]_vars, NEW z \in Zones, NEW o, objs' = [objs EXCEPT ![z] = o],
           objs[z] # Absent /\ o # Absent /\ objs[z].status.observed # nil
           => o.status.observed = objs[z].status.observed,
           \A c \in Controllers :
              \/ ~req'[c].dirty
              \/ (Late(req[c]) /\ Registered(req[c]))'
              \/ req'[c] = Outdate(req, z)[c]
    PROVE  RegInv' /\ Stable
<1>1. TypeInv'
  BY NextType DEF RegInv
<1>2. \A y \in Zones : objs'[y] = IF y = z THEN o ELSE objs[y]
  BY DEF RegInv, TypeInv, TypeOK
<1>3. ASSUME NEW c \in Controllers PROVE (Late(req[c]) /\ Registered(req[c]))'
  <2>1. CASE ~req'[c].dirty
    BY <2>1 DEF Late, Registered
  <2>2. CASE req'[c] = Outdate(req, z)[c] /\ req[c].zone = z
    <3>1. req'[c] = [req[c] EXCEPT !.stale = TRUE] /\ req[c] \in Request
      BY <2>2 DEF Outdate, RegInv, TypeInv, TypeOK
    <3>2. /\ req'[c].stale /\ req'[c].dirty = req[c].dirty
          /\ req'[c].step = req[c].step
      BY <3>1 DEF Request
    <3>3. QED
      BY <3>2 DEF RegInv, Late, Registered
  <2>3. CASE req'[c] = Outdate(req, z)[c] /\ req[c].zone # z
    <3>1. req'[c] = req[c]
      BY <2>3 DEF Outdate
    <3>2. Late(req[c]) /\ Registered(req[c]) /\ Wellformed(req[c])
      BY DEF RegInv, TypeInv, Requests, Sound
    <3>3. CASE req[c].dirty
      <4>1. req[c].zone \in Zones
        BY <3>2, <3>3 DEF Late, Wellformed
      <4>2. objs'[req[c].zone] = objs[req[c].zone]
        BY <1>2, <2>3, <4>1
      <4>3. QED
        BY <3>1, <3>2, <4>2 DEF Late, Registered
    <3>4. CASE ~req[c].dirty
      BY <3>1, <3>4 DEF Late, Registered
    <3>5. QED
      BY <3>3, <3>4
  <2>4. QED
    BY <2>1, <2>2, <2>3
<1>4. QED
  BY <1>1, <1>2, <1>3 DEF RegInv, Stable

\* A request r made of object o of zone z has the registration of o.
Made(r, z, o) ==
    /\ r.zone = z /\ Late(r)
    /\ r.dirty /\ o.status.observed # nil => r.obj.status.observed = o.status.observed

\* The ways an object is changed before its status is written.
LEMMA ChangeKeeps ==
    ASSUME NEW o \in HostedZone, NEW v \in Conditions, NEW obs
    PROVE  /\ SetValid(o, v).status.observed = o.status.observed
           /\ o.status.observed # nil
              => SetObserved(SetValid(o, v), obs).status.observed = o.status.observed
<1>1. o.status \in Status
  BY DEF HostedZone
<1>2. SetValid(o, v).status = [o.status EXCEPT !.valid = v]
  BY DEF SetValid, HostedZone
<1>3. SetValid(o, v).status.observed = o.status.observed
  BY <1>1, <1>2 DEF Status
<1>4. QED
  BY <1>3 DEF SetObserved

\* A request that is still to write, or to read, made of a changed object.
LEMMA NewRequestMade ==
    ASSUME NEW z, NEW o, NEW p, NEW s \in {"status", "prepare"},
           o.status.observed # nil => p.status.observed = o.status.observed
    PROVE  Made(NewRequest(z, s, o, p), z, o)
BY DEF NewRequest, Made, Late

\* The decisions of handleObject, at the start and after the patch.
LEMMA DecisionMade ==
    ASSUME NEW c \in Controllers, NEW z \in Zones, NEW o \in HostedZone
    PROVE  Made(handleObject(c, z, o), z, o) /\ Made(handlePatched(c, z, o), z, o)
<1>1. \A v \in Conditions : Made(NewRequest(z, "status", o, SetValid(o, v)), z, o)
  BY ChangeKeeps, NewRequestMade
<1>2. Made(NewRequest(z, "prepare", o, SetObserved(SetValid(o, "true"), OptionsOf(c))), z, o)
  BY ChangeKeeps, NewRequestMade DEF Conditions
<1>3. \A v \in {"unknown", "true", "false"} : v \in Conditions
  BY DEF Conditions
<1>4. Made(handleObject(c, z, o), z, o)
  BY <1>1, <1>2, <1>3 DEF handleObject
<1>5. Made(handlePatched(c, z, o), z, o)
  BY <1>1, <1>2, <1>3 DEF handlePatched
<1>6. QED
  BY <1>4, <1>5

\* The start of a request: what it has to write is made of the object read.
LEMMA StartKeeps ==
    ASSUME RegInv, NEW c \in Controllers, NEW z \in Zones,
           Start(c, z) \/ LookupFails(c, z)
    PROVE  RegInv' /\ Stable
<1>1. objs' = objs /\ \A d \in Controllers \ {c} : req'[d] = req[d]
  BY DEF Start, LookupFails, RegInv, TypeInv, TypeOK
<1>2. \A s, o : ~NewRequest(z, s, o, o).dirty
  BY DEF NewRequest
<1>3. ~req'[c].dirty \/ (Late(req[c]) /\ Registered(req[c]))'
  <2>1. CASE Start(c, z) /\ objs[z] = Absent
    BY <1>2, <2>1 DEF Start, ReconcileDeleted, RegInv, TypeInv, TypeOK
  <2>2. CASE Start(c, z) /\ objs[z] # Absent /\ objs[z].deleting
    BY <1>2, <2>2 DEF Start, ReconcileDeleting, RegInv, TypeInv, TypeOK
  <2>3. CASE Start(c, z) /\ objs[z] # Absent /\ ~objs[z].deleting
    <3>1. req'[c] = Reconcile(c, z) /\ objs[z] \in HostedZone
      BY <2>3 DEF Start, RegInv, TypeInv, TypeOK
    <3>2. Made(NewRequest(z, "status", objs[z], SetValid(objs[z], "false")), z, objs[z])
      BY <3>1, ChangeKeeps, NewRequestMade DEF Conditions
    <3>3. ~req'[c].dirty \/ Made(req'[c], z, objs[z])
      BY <1>2, <3>1, <3>2, DecisionMade DEF Reconcile
    <3>4. QED
      BY <1>1, <3>3 DEF Made, Late, Registered
  <2>4. CASE LookupFails(c, z)
    BY <1>2, <2>4 DEF LookupFails, RegInv, TypeInv, TypeOK
  <2>5. QED
    BY <2>1, <2>2, <2>3, <2>4
<1>4. \A d \in Controllers :
         ~req'[d].dirty \/ Continues(req'[d], req[d]) \/ (Late(req[d]) /\ Registered(req[d]))'
  BY <1>1, <1>3 DEF RegInv, Continues
<1>5. [Next]_vars
  BY DEF Next
<1>6. QED
  BY <1>1, <1>4, <1>5, ReadingKeeps

\* Users change no status; a new object has no registration.
LEMMA UserKeeps ==
    ASSUME RegInv, User
    PROVE  RegInv' /\ Stable
<1>1. PICK z \in Zones, o \in HostedZone \cup {Absent} :
         /\ Edit(z, o)
         /\ objs[z] # Absent /\ o # Absent => o.status = objs[z].status
  <2>1. CASE \E z \in Zones, s \in Specs : CreateZone(z, s)
    BY <2>1 DEF CreateZone, NewZone, HostedZone, Status, Conditions
  <2>2. CASE \E z \in Zones, s \in Specs : UpdateZone(z, s)
    <3>1. PICK z \in Zones, s \in Specs : UpdateZone(z, s)
      BY <2>2
    <3>2. objs[z] \in HostedZone
      BY <3>1 DEF UpdateZone, RegInv, TypeInv, TypeOK
    <3>3. /\ [objs[z] EXCEPT !.spec = s] \in HostedZone
          /\ [objs[z] EXCEPT !.spec = s].status = objs[z].status
      BY <3>2 DEF HostedZone
    <3>4. QED
      BY <3>1, <3>3 DEF UpdateZone
  <2>3. CASE \E z \in Zones : DeleteZone(z)
    <3>1. PICK z \in Zones : DeleteZone(z)
      BY <2>3
    <3>2. objs[z] \in HostedZone
      BY <3>1 DEF DeleteZone, RegInv, TypeInv, TypeOK
    <3>3. /\ [objs[z] EXCEPT !.deleting = TRUE] \in HostedZone
          /\ [objs[z] EXCEPT !.deleting = TRUE].status = objs[z].status
      BY <3>2 DEF HostedZone
    <3>4. QED
      BY <3>1, <3>3 DEF DeleteZone
  <2>4. QED
    BY <2>1, <2>2, <2>3 DEF User
<1>2. objs' = [objs EXCEPT ![z] = o] /\ req' = Outdate(req, z)
  BY <1>1 DEF Edit
<1>3. [Next]_vars
  BY DEF Next
<1>4. QED
  BY <1>1, <1>2, <1>3, WritingKeeps

\* The patches of the finalizers leave the status alone; after the one that
\* takes responsibility the request goes on with the object as it is now.
LEMMA PatchKeeps ==
    ASSUME RegInv, NEW c \in Controllers,
           PatchFinalizer(c) \/ RemoveFinalizer(c)
    PROVE  RegInv' /\ Stable
<1>1. PICK z \in Zones : z = req[c].zone
  BY DEF PatchFinalizer, RemoveFinalizer, RegInv, TypeInv, Requests, Sound, Wellformed
<1>2. objs[z] \in HostedZone
  BY <1>1 DEF PatchFinalizer, RemoveFinalizer, Accepts, RegInv, TypeInv, TypeOK
<1>3. [Next]_vars
  BY DEF Next, Work
<1>4. \A d \in Controllers \ {c} : req'[d] = Outdate(req, z)[d]
  BY <1>1 DEF PatchFinalizer, RemoveFinalizer, Outdate
<1>5. CASE PatchFinalizer(c)
  <2> DEFINE o == [objs[z] EXCEPT !.fin = req[c].obj.fin \cup {c}]
  <2>1. objs' = [objs EXCEPT ![z] = o] /\ req'[c] = handlePatched(c, z, o)
    BY <1>1, <1>5 DEF PatchFinalizer, Outdate
  <2>2. o.status = objs[z].status
    BY <1>2 DEF HostedZone
  <2>3. req[c].obj \in HostedZone
    BY <1>5 DEF PatchFinalizer, RegInv, TypeInv, Requests, Sound, Wellformed, Request
  <2>4. req[c].obj.fin \cup {c} \subseteq Controllers
    BY <2>3 DEF HostedZone
  <2>5. o \in HostedZone /\ objs'[z] = o
    BY <1>2, <2>1, <2>4 DEF HostedZone, RegInv, TypeInv, TypeOK
  <2>6. Made(req'[c], z, o)
    BY <2>1, <2>5, DecisionMade
  <2>7. (Late(req[c]) /\ Registered(req[c]))'
    BY <2>5, <2>6 DEF Made, Late, Registered
  <2> HIDE DEF o
  <2>8. QED
    BY <1>3, <1>4, <2>1, <2>2, <2>7, WritingKeeps
<1>6. CASE RemoveFinalizer(c)
  <2>1. PICK o : /\ objs' = [objs EXCEPT ![z] = o]
                 /\ o = Absent \/ o = [objs[z] EXCEPT !.fin = req[c].obj.fin \ {c}]
    BY <1>1, <1>6 DEF RemoveFinalizer
  <2>2. o # Absent => o.status = objs[z].status
    BY <1>2, <2>1 DEF HostedZone
  <2>3. ~req[c].dirty
    BY <1>6 DEF RemoveFinalizer, RegInv, Late
  <2>4. req'[c] = [req[c] EXCEPT !.step = "status", !.stale = FALSE]
    BY <1>6 DEF RemoveFinalizer, Outdate
  <2>5. ~req'[c].dirty
    BY <2>3, <2>4 DEF RegInv, TypeInv, TypeOK, Request
  <2>6. QED
    BY <1>3, <1>4, <2>1, <2>2, <2>5, WritingKeeps
<1>7. QED
  BY <1>5, <1>6

\* The status update writes a registration that is the one found there.
LEMMA StatusKeeps ==
    ASSUME RegInv, NEW c \in Controllers, UpdateStatus(c)
    PROVE  RegInv' /\ Stable
<1>1. [Next]_vars
  BY DEF Next, Work
<1>2. ~req'[c].dirty
  BY DEF UpdateStatus, Idle, Outdate, RegInv, TypeInv, TypeOK
<1>3. CASE ~req[c].dirty
  <2>1. objs' = objs /\ \A d \in Controllers \ {c} : req'[d] = req[d]
    BY <1>3 DEF UpdateStatus, RegInv, TypeInv, TypeOK
  <2>2. \A d \in Controllers :
           ~req'[d].dirty \/ Continues(req'[d], req[d])
    BY <1>2, <2>1 DEF RegInv, Continues
  <2>3. QED
    BY <1>1, <2>1, <2>2, ReadingKeeps
<1>4. CASE req[c].dirty
  <2>1. PICK z \in Zones : z = req[c].zone
    BY DEF UpdateStatus, RegInv, TypeInv, Requests, Sound, Wellformed
  <2>2. objs[z] \in HostedZone /\ ~req[c].stale
    BY <1>4, <2>1 DEF UpdateStatus, RegInv, TypeInv, TypeOK
  <2> DEFINE o == [objs[z] EXCEPT !.status = req[c].obj.status]
  <2>3. /\ objs' = [objs EXCEPT ![z] = o]
        /\ \A d \in Controllers \ {c} : req'[d] = Outdate(req, z)[d]
    BY <1>4, <2>1 DEF UpdateStatus, Outdate
  <2>4. o.status = req[c].obj.status
    BY <2>2 DEF HostedZone
  <2>5. objs[z] # Absent /\ objs[z].status.observed # nil
        => o.status.observed = objs[z].status.observed
    BY <1>4, <2>1, <2>2, <2>4 DEF RegInv, Registered
  <2> HIDE DEF o
  <2>6. QED
    BY <1>1, <1>2, <2>1, <2>3, <2>5, WritingKeeps
<1>5. QED
  BY <1>3, <1>4

\* A request that advances carries on what it read.
LEMMA AdvanceContinues ==
    ASSUME RegInv, NEW c \in Controllers,
           NEW q, q.zone = req[c].zone, q.obj = req[c].obj,
           q.dirty = req[c].dirty, q.stale = req[c].stale,
           \/ ~req[c].dirty
           \/ q.step \in {"prepare", "dataplane", "runtime", "status"}
    PROVE  Continues(q, req[c])
BY DEF Continues, Late

\* The steps of a request that only change the clusters, and the ones that
\* give up.
LEMMA QuietKeeps ==
    ASSUME RegInv, NEW c \in Controllers, Work(c),
           ~PatchFinalizer(c), ~RemoveFinalizer(c), ~UpdateStatus(c)
    PROVE  RegInv' /\ Stable
<1>1. [Next]_vars
  BY DEF Next
<1>2. objs' = objs /\ \A d \in Controllers \ {c} : req'[d] = req[d]
  BY DEF Work, PatchGone, PatchRefused, Prepare, PrepareFails, AccessFails,
         ApplyDataplane, ApplyDataplaneFails, ApplyRuntime, ApplyRuntimeFails,
         ApplyRuntimeRefused, NotModifiable, DeleteResources, DeleteResourcesPending,
         DeleteResourcesFails,
         Cleanup, CleanupFails, AfterCleanup, UpdateConflict, WriteFails, Advance,
         clusters, RegInv, TypeInv, TypeOK
<1>3. req[c] \in Request /\ Late(req[c])
  BY DEF RegInv, TypeInv, TypeOK
<1>4. ~req'[c].dirty \/ Continues(req'[c], req[c])
  <2>1. CASE \E s \in {"dataplane", "runtime", "status"} : req' = Advance(c, s)
    <3>1. PICK s \in {"dataplane", "runtime", "status"} : req' = Advance(c, s)
      BY <2>1
    <3>2. req'[c] = [req[c] EXCEPT !.step = s]
      BY <3>1 DEF Advance, RegInv, TypeInv, TypeOK
    <3>3. /\ req'[c].zone = req[c].zone /\ req'[c].obj = req[c].obj
          /\ req'[c].dirty = req[c].dirty /\ req'[c].stale = req[c].stale
          /\ req'[c].step = s
      BY <1>3, <3>2 DEF Request
    <3>4. QED
      BY <3>3, AdvanceContinues
  <2>2. CASE Prepare(c) \/ AccessFails(c)
    <3>1. PICK b : req'[c] = [req[c] EXCEPT !.step = "dataplane", !.repeat = b]
      BY <2>2 DEF Prepare, AccessFails, RegInv, TypeInv, TypeOK
    <3>2. /\ req'[c].zone = req[c].zone /\ req'[c].obj = req[c].obj
          /\ req'[c].dirty = req[c].dirty /\ req'[c].stale = req[c].stale
          /\ req'[c].step = "dataplane"
      BY <1>3, <3>1 DEF Request
    <3>3. QED
      BY <3>2, AdvanceContinues
  <2>3. CASE DeleteResources(c) \/ Cleanup(c)
    <3>1. ~req[c].dirty
      BY <1>3, <2>3 DEF DeleteResources, Cleanup, Late
    <3>2. PICK s : req'[c] = Idle \/ req'[c] = [req[c] EXCEPT !.step = s]
      BY <2>3 DEF DeleteResources, Cleanup, AfterCleanup, Advance, RegInv, TypeInv, TypeOK
    <3>3. QED
      BY <1>3, <3>1, <3>2 DEF Idle, Request
  <2>4. CASE UpdateConflict(c) \/ WriteFails(c)
    <3>1. CASE req'[c] = Idle
      BY <3>1 DEF Idle
    <3>2. CASE req'[c] = [req[c] EXCEPT !.step = "status"]
      <4>1. /\ req'[c].zone = req[c].zone /\ req'[c].obj = req[c].obj
            /\ req'[c].dirty = req[c].dirty /\ req'[c].stale = req[c].stale
            /\ req'[c].step = "status"
        BY <1>3, <3>2 DEF Request
      <4>2. QED
        BY <4>1, AdvanceContinues
    <3>3. QED
      BY <2>4, <3>1, <3>2 DEF UpdateConflict, WriteFails, RegInv, TypeInv, TypeOK
  <2>5. QED
    BY <2>1, <2>2, <2>3, <2>4
    DEF Work, PatchGone, PatchRefused, PrepareFails, ApplyDataplane,
        ApplyDataplaneFails, ApplyRuntime, ApplyRuntimeFails, ApplyRuntimeRefused,
        NotModifiable, DeleteResourcesPending, DeleteResourcesFails, CleanupFails
<1>5. \A d \in Controllers : ~req'[d].dirty \/ Continues(req'[d], req[d])
  BY <1>2, <1>4 DEF RegInv, Continues
<1>6. QED
  BY <1>1, <1>2, <1>5, ReadingKeeps

\* Restarts, repetitions and the clusters.
LEMMA OtherKeeps ==
    ASSUME RegInv,
           \/ \E c \in Controllers : Crash(c)
           \/ \E c \in Controllers, z \in Zones : Repeat(c, z)
           \/ Cluster
    PROVE  RegInv' /\ Stable
<1>1. [Next]_vars
  BY DEF Next
<1>2. objs' = objs /\ \A d \in Controllers : req'[d] = req[d] \/ req'[d] = Idle
  BY DEF Crash, Repeat, Cluster, TokenIssued, TokenRevoked, NamespaceEmptied,
         NamespaceGone, ServiceGone, LoadBalancerReady, RegInv, TypeInv, TypeOK
<1>3. \A d \in Controllers : ~req'[d].dirty \/ Continues(req'[d], req[d])
  BY <1>2 DEF RegInv, Continues, Idle
<1>4. QED
  BY <1>1, <1>2, <1>3, ReadingKeeps

\* RegistrationStable for any number of instances that race for the zones:
\* what Status.Observed says is kept by every request, restart and user.
THEOREM RegistrationKept == Spec => RegistrationStable
<1>1. Init => RegInv
  <2>1. Init => \A c \in Controllers : ~req[c].dirty
    BY DEF Init, Idle
  <2>2. QED
    BY <2>1, InitType DEF RegInv, Late, Registered
<1>2. RegInv /\ [Next]_vars => RegInv' /\ Stable
  <2> SUFFICES ASSUME RegInv, [Next]_vars PROVE RegInv' /\ Stable
    OBVIOUS
  <2>1. CASE UNCHANGED vars
    BY <2>1, ReadingKeeps DEF vars, RegInv, Continues
  <2>2. CASE \E c \in Controllers : Work(c)
    BY <2>2, PatchKeeps, StatusKeeps, QuietKeeps
  <2>3. QED
    BY <2>1, <2>2, UserKeeps, StartKeeps, OtherKeeps DEF Next
<1>3. RegInv /\ [Next]_vars => [Stable]_vars
  BY <1>2
<1>4. QED
  BY <1>1, <1>2, <1>3, PTL DEF Spec, RegistrationStable, Stable

-----------------------------------------------------------------------------
(***************************************************************************)
(* Validation settles.  A zone that shows something else than it should is *)
(* waiting for a request, or one on the way to its root is: the triggers   *)
(* at the end of each request then pass it down.                           *)
(***************************************************************************)

\* The open request of instance c is about the object of zone z.
Handles(c, z) == req[c].step # "idle" /\ req[c].zone = z /\ req[c].obj # Absent

Due(c, z) == z \in queue[c] \/ Handles(c, z)

\* A living zone with none missing above it.
Whole(z) == Alive(objs, z) /\ \A w \in Passed(objs, z) : objs[w] # Absent

\* The Validation condition a request would report now: a nested zone follows
\* a root that has not been looked at yet.
ValidNow(z) ==
    IF /\ ExpectedValid(z) = "true" /\ objs[z].spec.parent # NoZone
       /\ objs[GetRootInfo(objs, z).root].status.valid = "unknown"
    THEN "unknown" ELSE ExpectedValid(z)

\* A nested zone is not served any more.
Parted(c, z) ==
    objs[z].spec.parent # NoZone /\ AlnumFields(objs[z].spec) /\ GetRootInfo(objs, z).found
    => c \notin objs[z].fin

Rested(c, z) == objs[z].status.valid = ValidNow(z) /\ Parted(c, z)

\* The request has a write to come, which queues the zone again.
Underway(r) == r.dirty \/ r.step \in {"patch", "delete", "cleanup", "unfinalize"}

\* Nothing is due on the way to the root, apart from a request for z itself.
Calm(c, z) ==
    /\ Whole(z) /\ Validates(c, z)
    /\ z \notin queue[c] /\ \A w \in Passed(objs, z) \ {z} : ~Due(c, w)

ZoneCovered(c, z) ==
    Calm(c, z) => \/ Handles(c, z) /\ Underway(req[c])
                  \/ Rested(c, z)

ZonesCovered == \A c \in Controllers, z \in Zones : ZoneCovered(c, z)

\* The references in typed objects can be followed.
LEMMA ObjectsLinked ==
    ASSUME NEW os, os \in [Zones -> HostedZone \cup {Absent}]
    PROVE  Linked(os)
BY DEF Linked, HostedZone, Specs

\* What a zone shows and should show depends on the zones above it only.
LEMMA AgreeAbove ==
    ASSUME TypeInv, TypeInv', NEW c \in Controllers, NEW z \in Zones, Whole(z)',
           \A w \in Passed(objs', z) : objs'[w] = objs[w]
    PROVE  /\ Passed(objs, z) = Passed(objs', z)
           /\ Whole(z)
           /\ Validates(c, z)' <=> Validates(c, z)
           /\ Rested(c, z)' <=> Rested(c, z)
<1> Linked(objs) /\ Linked(objs')
  BY ObjectsLinked DEF TypeInv, TypeOK
<1>1. z \in Passed(objs', z) /\ Passed(objs', z) \subseteq Zones
  BY PassedLeast
<1>2. objs'[z] = objs[z] /\ objs[z] # Absent
  BY <1>1 DEF Whole, Alive
<1>3. Passed(objs, z) = Passed(objs', z)
  BY <1>1, PassedAgree DEF Up
<1>4. Whole(z)
  BY <1>1, <1>3 DEF Whole, Alive
<1>5. GetRootInfo(objs, z) = GetRootInfo(objs', z)
  BY <1>2, RootAgree
<1>6. GetRootInfo(objs, z).found
      => objs'[GetRootInfo(objs, z).root] = objs[GetRootInfo(objs, z).root]
  <2> SUFFICES ASSUME GetRootInfo(objs, z).found
               PROVE  GetRootInfo(objs, z).root \in Passed(objs', z)
    OBVIOUS
  <2>1. QED
    BY <1>2, <1>3, RootInfoCorrect, EndShared DEF ChainInfo
<1>7. Validate(objs, objs[z].spec)' <=> Validate(objs, objs[z].spec)
  <2>1. objs[z].spec.parent # NoZone => objs[z].spec.parent \in Passed(objs', z)
    BY <1>1, <1>2, PassedLeast DEF Closed, Up
  <2>2. QED
    BY <1>2, <2>1 DEF Validate
<1>8. ExpectedValid(z)' = ExpectedValid(z)
  BY <1>2, <1>5, <1>7 DEF ExpectedValid
<1>9. ValidNow(z)' = ValidNow(z)
  <2>1. ExpectedValid(z) = "true" => GetRootInfo(objs, z).found
    BY DEF ExpectedValid
  <2>2. QED
    BY <1>2, <1>5, <1>6, <1>8, <2>1 DEF ValidNow
<1>10. QED
  BY <1>2, <1>3, <1>4, <1>5, <1>6, <1>9 DEF Validates, Rested, Parted

\* A zone stays covered in steps that queue what they write and, when they
\* are done with a zone, the ones nested in it.
LEMMA CoverKept ==
    ASSUME TypeInv, TypeInv', NEW c \in Controllers, NEW z \in Zones, ZoneCovered(c, z),
           \A w \in Zones : objs'[w] = objs[w] \/ w \in queue'[c],
           \A w \in Zones \ {z} : Due(c, w) /\ ~Due(c, w)' =>
               \/ objs'[w] = Absent
               \/ \A y \in Children(objs, w) : y \in queue'[c],
           Whole(z)' /\ z \notin queue'[c] => z \notin queue[c],
           Whole(z)' /\ z \notin queue'[c] /\ Handles(c, z) /\ Underway(req[c])
           => Handles(c, z)' /\ Underway(req'[c])
    PROVE  ZoneCovered(c, z)'
<1> Linked(objs) /\ Linked(objs')
  BY ObjectsLinked DEF TypeInv, TypeOK
<1> SUFFICES ASSUME Calm(c, z)'
             PROVE  (Handles(c, z)' /\ Underway(req'[c])) \/ Rested(c, z)'
  BY DEF ZoneCovered
<1>1. /\ Whole(z)' /\ Validates(c, z)'
      /\ z \notin queue'[c] /\ \A w \in Passed(objs', z) \ {z} : ~Due(c, w)'
  BY DEF Calm
<1>2. z \in Passed(objs', z) /\ Passed(objs', z) \subseteq Zones
  BY PassedLeast
<1>3. \A w \in Passed(objs', z) : w \notin queue'[c]
  BY <1>1 DEF Due
<1>4. \A w \in Passed(objs', z) : objs'[w] = objs[w]
  BY <1>2, <1>3
<1>5. /\ Passed(objs, z) = Passed(objs', z) /\ Whole(z) /\ Validates(c, z)
      /\ Rested(c, z)' <=> Rested(c, z)
  BY <1>1, <1>4, AgreeAbove
<1>6. ASSUME NEW w \in Passed(objs, z) \ {z}, Due(c, w) PROVE FALSE
  <2>1. w \in Zones /\ ~Due(c, w)'
    BY <1>1, <1>2, <1>5, <1>6
  <2>2. objs'[w] # Absent
    BY <1>1, <1>5 DEF Whole
  <2>3. PICK y \in Passed(objs, z) : objs[y] # Absent /\ objs[y].spec.parent = w
    BY <1>6, PassedVia
  <2>4. y \in Children(objs, w)
    BY <1>2, <1>5, <2>3 DEF Children
  <2>5. y \in queue'[c]
    BY <1>6, <2>1, <2>2, <2>4
  <2>6. QED
    BY <1>3, <1>5, <2>5
<1>7. Calm(c, z)
  BY <1>1, <1>5, <1>6 DEF Calm
<1>8. QED
  BY <1>1, <1>5, <1>7 DEF ZoneCovered

\* A request goes on, or its zone is queued.
Continued(c) ==
    \A z \in Zones :
        Handles(c, z) /\ z \notin queue'[c]
        => /\ Handles(c, z)'
           /\ Underway(req[c]) => Underway(req'[c]) \/ objs[z] = Absent

\* Steps that write no object, and give up no request without repeating it.
LEMMA ContinuedKeeps ==
    ASSUME TypeInv, TypeInv', ZonesCovered, objs' = objs,
           \A c \in Controllers : queue[c] \subseteq queue'[c] /\ Continued(c)
    PROVE  ZonesCovered'
<1> SUFFICES ASSUME NEW c \in Controllers, NEW z \in Zones
             PROVE  ZoneCovered(c, z)'
  BY DEF ZonesCovered
<1>1. ZoneCovered(c, z) /\ queue[c] \subseteq queue'[c] /\ Continued(c)
  BY DEF ZonesCovered
<1>2. \A w \in Zones : Due(c, w) => Due(c, w)'
  BY <1>1 DEF Due, Continued
<1>3. Whole(z)' => objs[z] # Absent
  BY DEF Whole, Alive
<1>4. QED
  BY <1>1, <1>2, <1>3, CoverKept DEF Continued

\* A request that advances.
LEMMA AdvanceHandles ==
    ASSUME TypeInv, NEW c \in Controllers, req[c].step # "idle",
           NEW s \in Steps \ {"idle"}, req' = Advance(c, s)
    PROVE  /\ \A d \in Controllers \ {c} : req'[d] = req[d]
           /\ req'[c].step = s /\ req'[c].dirty = req[c].dirty
           /\ \A z \in Zones : Handles(c, z) => Handles(c, z)'
<1>1. req[c] \in Request /\ req'[c] = [req[c] EXCEPT !.step = s]
  BY DEF TypeInv, TypeOK, Advance
<1>2. /\ req'[c].step = s /\ req'[c].dirty = req[c].dirty
      /\ req'[c].zone = req[c].zone /\ req'[c].obj = req[c].obj
  BY <1>1 DEF Request
<1>3. \A d \in Controllers \ {c} : req'[d] = req[d]
  BY DEF TypeInv, TypeOK, Advance
<1>4. QED
  BY <1>2, <1>3 DEF Handles

\* A trigger adds to the queues, also to the one of a request that is repeated.
LEMMA TriggerGrows ==
    \A c \in Controllers : \A q, ix : q[c] \subseteq SecretTrigger(q, ix)[c]
BY DEF SecretTrigger

LEMMA RequeueGrows ==
    ASSUME TypeInv, NEW c \in Controllers, req[c].step # "idle", NEW q,
           q = Requeue(c) \/ \E r : q = OwnerTrigger(Requeue(c), c, r)
    PROVE  req[c].zone \in q[c] /\ \A d \in Controllers : queue[d] \subseteq q[d]
<1>1. Requeue(c) \in [Controllers -> SUBSET Zones]
  BY RequeueType
<1>2. req[c].zone \in Requeue(c)[c] /\ \A d \in Controllers : queue[d] \subseteq Requeue(c)[d]
  BY DEF Requeue, TypeInv, TypeOK
<1>3. QED
  BY <1>1, <1>2, OwnerTriggerType

\* The steps of a request that only change the clusters, and the ones that
\* give up.
LEMMA QuietCovers ==
    ASSUME TypeInv, TypeInv', ZonesCovered, NEW c \in Controllers, Work(c),
           ~PatchFinalizer(c), ~RemoveFinalizer(c), ~UpdateStatus(c)
    PROVE  ZonesCovered'
<1>1. objs' = objs /\ req[c].step # "idle"
  BY DEF Work, PatchGone, PatchRefused, Prepare, PrepareFails, AccessFails,
         ApplyDataplane, ApplyDataplaneFails, ApplyRuntime, ApplyRuntimeFails,
         ApplyRuntimeRefused, NotModifiable, DeleteResources, DeleteResourcesPending,
         DeleteResourcesFails,
         Cleanup, CleanupFails, UpdateConflict, WriteFails, clusters
<1>2. /\ req \in [Controllers -> Request] /\ queue \in [Controllers -> SUBSET Zones]
      /\ req[c].zone \in Zones
  BY <1>1 DEF TypeInv, TypeOK, Requests, Sound, Wellformed
<1>3. \A z \in Zones : Handles(c, z) => z = req[c].zone
  BY DEF Handles
<1>4. \A d \in Controllers : queue[d] \subseteq queue'[d]
  <2>1. \/ queue' = queue \/ queue' = Requeue(c)
        \/ \E ix : queue' = SecretTrigger(queue, ix)
        \/ \E r : queue' = OwnerTrigger(queue, c, r) \/ queue' = OwnerTrigger(Requeue(c), c, r)
    BY DEF Work, PatchGone, PatchRefused, Prepare, PrepareFails, AccessFails,
         ApplyDataplane, ApplyDataplaneFails, ApplyRuntime, ApplyRuntimeFails,
         ApplyRuntimeRefused, NotModifiable, DeleteResources, DeleteResourcesPending, DeleteResourcesFails,
         Cleanup, CleanupFails, UpdateConflict, WriteFails
  <2>2. CASE queue' = queue \/ \E ix : queue' = SecretTrigger(queue, ix)
    BY <2>2, TriggerGrows
  <2>3. CASE \E r : queue' = OwnerTrigger(queue, c, r)
    BY <1>2, <2>3, OwnerTriggerType
  <2>4. CASE queue' = Requeue(c) \/ \E r : queue' = OwnerTrigger(Requeue(c), c, r)
    BY <1>1, <2>4, RequeueGrows
  <2>5. QED
    BY <2>1, <2>2, <2>3, <2>4
<1>5. \A d \in Controllers \ {c} : Continued(d)
  <2>1. \A d \in Controllers \ {c} : req'[d] = req[d]
    BY <1>2 DEF Work, PatchGone, PatchRefused, Prepare, PrepareFails, AccessFails,
         ApplyDataplane, ApplyDataplaneFails, ApplyRuntime, ApplyRuntimeFails,
         ApplyRuntimeRefused, NotModifiable, DeleteResources, DeleteResourcesPending,
         DeleteResourcesFails,
         Cleanup, CleanupFails, AfterCleanup, UpdateConflict, WriteFails, Advance
  <2>2. QED
    BY <2>1 DEF Continued, Handles
<1>6. Continued(c)
  <2>1. CASE req[c].zone \in queue'[c]
    BY <1>3, <2>1 DEF Continued
  <2>2. CASE PatchGone(c)
    <3>1. req' = Advance(c, "status") /\ objs[req[c].zone] = Absent
      BY <2>2 DEF PatchGone
    <3>2. QED
      BY <1>1, <1>3, <3>1, AdvanceHandles DEF Continued, Steps
  <2>3. CASE ApplyDataplane(c) \/ ApplyRuntime(c)
    <3>1. PICK s \in {"runtime", "status"} : req' = Advance(c, s)
      BY <2>3 DEF ApplyDataplane, ApplyRuntime
    <3>2. Underway(req[c]) => Underway(req'[c])
      BY <1>1, <2>3, <3>1, AdvanceHandles DEF ApplyDataplane, ApplyRuntime, Underway, Steps
    <3>3. QED
      BY <1>1, <3>1, <3>2, AdvanceHandles DEF Continued, Steps
  <2>4. CASE Prepare(c) \/ AccessFails(c)
    <3>1. PICK b : req'[c] = [req[c] EXCEPT !.step = "dataplane", !.repeat = b]
      BY <1>2, <2>4 DEF Prepare, AccessFails
    <3>2. /\ req'[c].zone = req[c].zone /\ req'[c].obj = req[c].obj
          /\ req'[c].dirty = req[c].dirty /\ req'[c].step = "dataplane"
      BY <1>2, <3>1 DEF Request
    <3>3. req[c].step = "prepare"
      BY <2>4 DEF Prepare, AccessFails
    <3>4. QED
      BY <3>2, <3>3 DEF Continued, Handles, Underway
  <2>5. CASE DeleteResources(c)
    <3>1. req' = Advance(c, "cleanup")
      BY <2>5 DEF DeleteResources
    <3>2. Underway(req'[c])
      BY <1>1, <3>1, AdvanceHandles DEF Underway, Steps
    <3>3. QED
      BY <1>1, <3>1, <3>2, AdvanceHandles DEF Continued, Steps
  <2>6. CASE Cleanup(c)
    <3>1. CASE req[c].obj = Absent
      BY <3>1 DEF Continued, Handles
    <3>2. CASE req[c].obj # Absent
      <4>1. req' = Advance(c, "unfinalize")
        BY <2>6, <3>2, <1>2 DEF Cleanup, AfterCleanup, Advance
      <4>2. Underway(req'[c])
        BY <1>1, <4>1, AdvanceHandles DEF Underway, Steps
      <4>3. QED
        BY <1>1, <4>1, <4>2, AdvanceHandles DEF Continued, Steps
    <3>3. QED
      BY <3>1, <3>2
  <2>7. CASE \/ PatchRefused(c) \/ PrepareFails(c) \/ ApplyDataplaneFails(c)
             \/ ApplyRuntimeFails(c) \/ ApplyRuntimeRefused(c) \/ NotModifiable(c)
             \/ DeleteResourcesPending(c) \/ DeleteResourcesFails(c) \/ CleanupFails(c)
             \/ UpdateConflict(c) \/ WriteFails(c)
    <3>1. queue' = Requeue(c) \/ \E r : queue' = OwnerTrigger(Requeue(c), c, r)
      BY <2>7 DEF PatchRefused, PrepareFails, ApplyDataplaneFails, ApplyRuntimeFails,
         ApplyRuntimeRefused, NotModifiable, DeleteResourcesPending, DeleteResourcesFails,
         CleanupFails, UpdateConflict, WriteFails
    <3>2. req[c].zone \in queue'[c]
      BY <1>1, <3>1, RequeueGrows
    <3>3. QED
      BY <2>1, <3>2
  <2>8. QED
    BY <2>2, <2>3, <2>4, <2>5, <2>6, <2>7 DEF Work
<1>7. QED
  BY <1>1, <1>4, <1>5, <1>6, ContinuedKeeps

\* The clusters, and the periodic repetition.
LEMMA ClusterCovers ==
    ASSUME TypeInv, TypeInv', ZonesCovered,
           \/ Cluster
           \/ \E c \in Controllers, z \in Zones : Repeat(c, z)
           \/ UNCHANGED vars
    PROVE  ZonesCovered'
<1>1. objs' = objs /\ req' = req
  BY DEF Cluster, TokenIssued, TokenRevoked, NamespaceEmptied, NamespaceGone, ServiceGone,
         LoadBalancerReady, Repeat, vars
<1>2. \A c \in Controllers : queue[c] \subseteq queue'[c]
  <2>1. \/ queue' = queue \/ \E ix : queue' = SecretTrigger(queue, ix)
        \/ \E c \in Controllers : \E zs : queue' = [queue EXCEPT ![c] = @ \cup zs]
    BY DEF Cluster, TokenIssued, TokenRevoked, NamespaceEmptied, NamespaceGone, ServiceGone,
           LoadBalancerReady, Repeat, OwnerTrigger, vars
  <2>2. \A c \in Controllers : \A zs : queue' = [queue EXCEPT ![c] = @ \cup zs]
            => \A d \in Controllers : queue[d] \subseteq queue'[d]
    BY DEF TypeInv, TypeOK
  <2>3. QED
    BY <2>1, <2>2, TriggerGrows
<1>3. \A c \in Controllers : Continued(c)
  BY <1>1 DEF Continued, Handles
<1>4. QED
  BY <1>1, <1>2, <1>3, ContinuedKeeps

\* A write of a zone queues it everywhere.
LEMMA WriteCovers ==
    ASSUME TypeInv, TypeInv', ZonesCovered, NEW y \in Zones,
           \A w \in Zones \ {y} : objs'[w] = objs[w],
           \A d \in Controllers : y \in queue'[d] /\ queue[d] \subseteq queue'[d],
           \A d \in Controllers, w \in Zones \ {y} : Handles(d, w)
               => Handles(d, w)' /\ (Underway(req[d]) => Underway(req'[d]))
    PROVE  ZonesCovered'
<1> SUFFICES ASSUME NEW c \in Controllers, NEW z \in Zones
             PROVE  ZoneCovered(c, z)'
  BY DEF ZonesCovered
<1>1. ZoneCovered(c, z)
  BY DEF ZonesCovered
<1>2. \A w \in Zones : objs'[w] = objs[w] \/ w \in queue'[c]
  OBVIOUS
<1>3. \A w \in Zones : Due(c, w) => Due(c, w)'
  BY DEF Due
<1>4. QED
  BY <1>1, <1>2, <1>3, CoverKept

\* It leaves the requests for other zones as they are.
LEMMA OutdateHandles ==
    ASSUME TypeInv, NEW y, NEW d \in Controllers, req'[d] = Outdate(req, y)[d], NEW w
    PROVE  /\ Handles(d, w)' <=> Handles(d, w)
           /\ Underway(req'[d]) <=> Underway(req[d])
<1>1. req[d] \in Request
  BY DEF TypeInv, TypeOK
<1>2. req'[d] = req[d] \/ req'[d] = [req[d] EXCEPT !.stale = TRUE]
  BY DEF Outdate
<1>3. /\ req'[d].step = req[d].step /\ req'[d].zone = req[d].zone
      /\ req'[d].obj = req[d].obj /\ req'[d].dirty = req[d].dirty
  BY <1>1, <1>2 DEF Request
<1>4. QED
  BY <1>3 DEF Handles, Underway

\* Users.
LEMMA UserCovers ==
    ASSUME TypeInv, TypeInv', ZonesCovered, User
    PROVE  ZonesCovered'
<1>1. PICK y \in Zones : \E o : Edit(y, o)
  BY DEF User, CreateZone, UpdateZone, DeleteZone
<1>2. \A w \in Zones \ {y} : objs'[w] = objs[w]
  BY <1>1 DEF Edit, TypeInv, TypeOK
<1>3. \A d \in Controllers : y \in queue'[d] /\ queue[d] \subseteq queue'[d]
  BY <1>1 DEF Edit, Notify
<1>4. \A d \in Controllers : req'[d] = Outdate(req, y)[d]
  BY <1>1 DEF Edit
<1>5. QED
  BY <1>2, <1>3, <1>4, OutdateHandles, WriteCovers

\* The patches of the finalizers, and a status that is written.
Writes(c) ==
    PatchFinalizer(c) \/ RemoveFinalizer(c) \/ (UpdateStatus(c) /\ req[c].dirty)

LEMMA WritesCover ==
    ASSUME TypeInv, TypeInv', ZonesCovered, NEW c \in Controllers, Writes(c)
    PROVE  ZonesCovered'
<1>1. PICK y \in Zones : y = req[c].zone /\ req[c].step # "idle"
  BY DEF Writes, PatchFinalizer, RemoveFinalizer, UpdateStatus, TypeInv, Requests, Sound, Wellformed
<1>2. \A w \in Zones \ {y} : objs'[w] = objs[w]
  BY <1>1 DEF Writes, PatchFinalizer, RemoveFinalizer, UpdateStatus, TypeInv, TypeOK
<1>3. \A d \in Controllers : y \in queue'[d] /\ queue[d] \subseteq queue'[d]
  <2>1. \A d \in Controllers :
            y \in Notify(queue, y)[d] /\ queue[d] \subseteq Notify(queue, y)[d]
    BY DEF Notify
  <2>2. \/ queue' = Notify(queue, y)
        \/ \E cs : queue' = [Notify(queue, y) EXCEPT ![c] = @ \cup cs]
    BY <1>1 DEF Writes, PatchFinalizer, RemoveFinalizer, UpdateStatus
  <2>3. \A cs : \A d \in Controllers :
            Notify(queue, y)[d] \subseteq [Notify(queue, y) EXCEPT ![c] = @ \cup cs][d]
    BY DEF Notify
  <2>4. QED
    BY <2>1, <2>2, <2>3
<1>4. \A d \in Controllers \ {c} : req'[d] = Outdate(req, y)[d]
  BY <1>1 DEF Writes, PatchFinalizer, RemoveFinalizer, UpdateStatus, Outdate
<1>5. \A w \in Zones \ {y} : ~Handles(c, w)
  BY <1>1 DEF Handles
<1>6. \A d \in Controllers, w \in Zones \ {y} : Handles(d, w)
          => Handles(d, w)' /\ (Underway(req[d]) => Underway(req'[d]))
  BY <1>4, <1>5, OutdateHandles
<1>7. QED
  BY <1>2, <1>3, <1>6, WriteCovers

\* A request that found nothing to write ends, and the nested zones are queued.
LEMMA EndCovers ==
    ASSUME TypeInv, TypeInv', ZonesCovered, NEW c \in Controllers,
           UpdateStatus(c), ~req[c].dirty
    PROVE  ZonesCovered'
<1> SUFFICES ASSUME NEW d \in Controllers, NEW z \in Zones
             PROVE  ZoneCovered(d, z)'
  BY DEF ZonesCovered
<1>1. ZoneCovered(d, z)
  BY DEF ZonesCovered
<1>2. /\ objs' = objs /\ req' = [req EXCEPT ![c] = Idle] /\ req[c].step = "status"
      /\ queue' = [queue EXCEPT ![c] = @ \cup Children(objs, req[c].zone)]
  BY DEF UpdateStatus
<1>3. queue[d] \subseteq queue'[d]
  BY <1>2 DEF TypeInv, TypeOK
<1>4. CASE d # c
  <2>1. req'[d] = req[d]
    BY <1>2, <1>4 DEF TypeInv, TypeOK
  <2>2. \A w \in Zones : Handles(d, w)' <=> Handles(d, w)
    BY <2>1 DEF Handles
  <2>3. \A w \in Zones : Due(d, w) => Due(d, w)'
    BY <1>3, <2>2 DEF Due
  <2>4. QED
    BY <1>1, <1>2, <1>3, <2>1, <2>2, <2>3, CoverKept
<1>5. CASE d = c
  <2>1. ~Underway(req[c])
    BY <1>2 DEF Underway
  <2>2. \A w \in Zones : Due(c, w) /\ ~Due(c, w)' => w = req[c].zone
    BY <1>3, <1>5 DEF Due, Handles
  <2>3. \A y \in Children(objs, req[c].zone) : y \in queue'[c]
    BY <1>2 DEF TypeInv, TypeOK
  <2>4. QED
    BY <1>1, <1>2, <1>3, <1>5, <2>1, <2>2, <2>3, CoverKept
<1>6. QED
  BY <1>4, <1>5

\* A restart queues all zones.
LEMMA CrashCovers ==
    ASSUME TypeInv, TypeInv', ZonesCovered, NEW c \in Controllers, Crash(c)
    PROVE  ZonesCovered'
<1> SUFFICES ASSUME NEW d \in Controllers, NEW z \in Zones
             PROVE  ZoneCovered(d, z)'
  BY DEF ZonesCovered
<1>1. objs' = objs /\ \A y \in Zones : objs[y] # Absent => y \in queue'[c]
  BY DEF Crash, TypeInv, TypeOK
<1>2. CASE d = c
  BY <1>1, <1>2 DEF ZoneCovered, Calm, Whole, Alive
<1>3. CASE d # c
  <2>1. req'[d] = req[d] /\ queue'[d] = queue[d]
    BY <1>3 DEF Crash, TypeInv, TypeOK
  <2>2. \A w \in Zones : Handles(d, w)' <=> Handles(d, w)
    BY <2>1 DEF Handles
  <2>3. \A w \in Zones : Due(d, w)' <=> Due(d, w)
    BY <2>1, <2>2 DEF Due
  <2>4. ZoneCovered(d, z)
    BY DEF ZonesCovered
  <2>5. QED
    BY <1>1, <2>1, <2>2, <2>3, <2>4, CoverKept
<1>4. QED
  BY <1>2, <1>3

\* A request for an object that exists is about it.
LEMMA StartHandles ==
    ASSUME TypeInv, NEW c \in Controllers, NEW y \in Zones, Start(c, y), objs[y] # Absent
    PROVE  Handles(c, y)'
<1> DEFINE o == objs[y]
<1>1. o \in HostedZone
  BY DEF TypeInv, TypeOK
<1>2. \A v \in Conditions : SetValid(o, v) \in HostedZone
  BY <1>1, SetValidType
<1>3. SetObserved(SetValid(o, "true"), OptionsOf(c)) \in HostedZone
  BY <1>2, SetObservedType, OptionsOfType DEF Conditions
<1>4. \E s \in {"status", "delete", "patch", "prepare"}, p \in HostedZone :
          req'[c] = NewRequest(y, s, o, p)
  <2>1. req'[c] = IF o.deleting THEN ReconcileDeleting(c, y) ELSE Reconcile(c, y)
    BY DEF Start, TypeInv, TypeOK
  <2>2. CASE o.deleting
    BY <1>1, <2>1, <2>2 DEF ReconcileDeleting
  <2>3. CASE ~o.deleting /\ Reconcile(c, y) # handleObject(c, y, o)
    BY <1>1, <1>2, <2>1, <2>3 DEF Reconcile, Conditions
  <2>4. CASE ~o.deleting /\ Reconcile(c, y) = handleObject(c, y, o)
    BY <1>2, <1>3, <2>1, <2>4 DEF handleObject, Conditions
  <2>5. QED
    BY <2>2, <2>3, <2>4
<1>5. QED
  BY <1>4, NamesAssumption DEF NewRequest, Handles

\* A request starts, or fails to, for instance c and zone y; seen from any
\* other instance or zone.
LEMMA StartElsewhere ==
    ASSUME TypeInv, TypeInv', ZonesCovered, NEW c \in Controllers, NEW y \in Zones,
           Start(c, y) \/ LookupFails(c, y),
           NEW d \in Controllers, NEW z \in Zones,
           d # c \/ z # y \/ LookupFails(c, y)
    PROVE  ZoneCovered(d, z)'
<1>1. ZoneCovered(d, z)
  BY DEF ZonesCovered
<1>2. objs' = objs /\ req[c].step = "idle" /\ y \in queue[c]
  BY DEF Start, LookupFails
<1>3. \A w \in Zones : ~Handles(c, w)
  BY <1>2 DEF Handles
<1>4. CASE d # c
  <2>1. req'[d] = req[d] /\ queue'[d] = queue[d]
    BY <1>4 DEF Start, LookupFails, TypeInv, TypeOK
  <2>2. \A w \in Zones : Handles(d, w)' <=> Handles(d, w)
    BY <2>1 DEF Handles
  <2>3. \A w \in Zones : Due(d, w)' <=> Due(d, w)
    BY <2>1, <2>2 DEF Due
  <2>4. QED
    BY <1>1, <1>2, <2>1, <2>2, <2>3, CoverKept
<1>5. CASE d = c /\ LookupFails(c, y)
  <2>1. queue' = queue
    BY <1>5 DEF LookupFails
  <2>2. \A w \in Zones : Due(c, w) => Due(c, w)'
    BY <1>3, <2>1 DEF Due
  <2>3. QED
    BY <1>1, <1>2, <1>3, <1>5, <2>1, <2>2, CoverKept
<1>6. CASE d = c /\ Start(c, y) /\ z # y
  <2>1. \A w \in Zones \ {y} : w \in queue[c] => w \in queue'[c]
    BY <1>6 DEF Start, TypeInv, TypeOK
  <2>2. \A w \in Zones \ {y} : Due(c, w) => Due(c, w)'
    BY <1>3, <2>1 DEF Due
  <2>3. objs'[y] = Absent \/ Due(c, y)'
    <3>1. CASE objs[y] # Absent
      <4>1. objs[y] \in HostedZone
        BY <3>1 DEF TypeInv, TypeOK
      <4>2. Handles(c, y)'
        BY <1>6, <3>1, <4>1, StartHandles
      <4>3. QED
        BY <4>2 DEF Due
    <3>2. QED
      BY <1>2, <3>1
  <2>4. QED
    BY <1>1, <1>2, <1>3, <1>6, <2>1, <2>2, <2>3, CoverKept
<1>7. QED
  BY <1>4, <1>5, <1>6

\* For the zone itself: the new request reports what is right, or it changes
\* the zone.
LEMMA StartHere ==
    ASSUME TypeInv, TypeInv', NEW c \in Controllers, NEW z \in Zones, Start(c, z)
    PROVE  ZoneCovered(c, z)'
<1> SUFFICES ASSUME Calm(c, z)'
             PROVE  (Handles(c, z)' /\ Underway(req'[c])) \/ Rested(c, z)'
  BY DEF ZoneCovered
<1> DEFINE o == objs[z]
           info == GetRootInfo(objs, z)
<1>1. objs' = objs
  BY DEF Start
<1>2. o \in HostedZone /\ o # Absent /\ ~o.deleting /\ Validates(c, z)
  BY <1>1 DEF Calm, Whole, Alive, TypeInv, TypeOK, Validates
<1>3. Handles(c, z)'
  BY <1>2, StartHandles
<1>4. req'[c] = Reconcile(c, z)
  BY <1>2 DEF Start, TypeInv, TypeOK
<1>5. Rested(c, z)' <=> Rested(c, z)
  BY <1>1 DEF Rested, ValidNow, ExpectedValid, Parted
<1> SUFFICES ASSUME ~Underway(Reconcile(c, z)) PROVE Rested(c, z)
  BY <1>3, <1>4, <1>5
<1>6. \A s, p : Reconcile(c, z) = NewRequest(z, s, o, p)
                => p = o /\ s \notin {"patch", "delete"}
  <2> SUFFICES ASSUME NEW s, NEW p, Reconcile(c, z) = NewRequest(z, s, o, p)
               PROVE  p = o /\ s \notin {"patch", "delete"}
    OBVIOUS
  <2>1. ~NewRequest(z, s, o, p).dirty /\ NewRequest(z, s, o, p).step \notin {"patch", "delete"}
    BY DEF Underway
  <2>2. QED
    BY <2>1 DEF NewRequest
<1>7. \A v \in Conditions : SetValid(o, v) = o => o.status.valid = v
  BY <1>2 DEF SetValid, HostedZone, Status
<1>8. CASE ~AlnumFields(o.spec) \/ ~info.found
  <2>1. Reconcile(c, z) = NewRequest(z, "status", o, SetValid(o, "false"))
    BY <1>8 DEF Reconcile
  <2>2. o.status.valid = "false"
    BY <1>6, <1>7, <2>1 DEF Conditions
  <2>3. ValidNow(z) = "false"
    BY <1>8 DEF ValidNow, ExpectedValid
  <2>4. QED
    BY <1>8, <2>2, <2>3 DEF Rested, Parted
<1>9. CASE AlnumFields(o.spec) /\ info.found
  <2>1. IsResponsible(c, o, objs[info.root])
    BY <1>2, <1>9 DEF Validates
  <2>2. ~ChangedResponsibility(c, o) /\ (o.spec.parent # NoZone \/ c \in o.fin)
        /\ Reconcile(c, z) = handleObject(c, z, o)
    BY <1>6, <1>9, <2>1 DEF Reconcile
  <2>3. Parted(c, z)
    BY <2>2 DEF Parted, ChangedResponsibility
  <2>4. CASE ~Validate(objs, o.spec)
    <3>1. o.status.valid = "false"
      BY <1>6, <1>7, <2>2, <2>4 DEF handleObject, Conditions
    <3>2. ValidNow(z) = "false"
      BY <2>4 DEF ValidNow, ExpectedValid
    <3>3. QED
      BY <2>3, <3>1, <3>2 DEF Rested
  <2>5. CASE Validate(objs, o.spec) /\ o.spec.parent # NoZone
    <3> DEFINE v == IF objs[info.root].status.valid = "unknown" THEN "unknown" ELSE "true"
    <3>1. handleObject(c, z, o) = NewRequest(z, "status", o, SetValid(o, v))
      BY <2>5 DEF handleObject
    <3>2. o.status.valid = v
      BY <1>6, <1>7, <2>2, <3>1 DEF Conditions
    <3>3. ValidNow(z) = v
      BY <1>9, <2>5 DEF ValidNow, ExpectedValid
    <3>4. QED
      BY <2>3, <3>2, <3>3 DEF Rested
  <2>6. CASE Validate(objs, o.spec) /\ o.spec.parent = NoZone
    <3> DEFINE p == SetObserved(SetValid(o, "true"), OptionsOf(c))
    <3>1. handleObject(c, z, o) = NewRequest(z, "prepare", o, p)
      BY <2>6 DEF handleObject
    <3>2. p = o
      BY <1>6, <2>2, <3>1
    <3>3. p.status.valid = "true"
      BY <1>2 DEF SetObserved, SetValid, HostedZone, Status
    <3>4. ValidNow(z) = "true"
      BY <1>9, <2>6 DEF ValidNow, ExpectedValid
    <3>5. QED
      BY <2>3, <3>2, <3>3, <3>4 DEF Rested
  <2>7. QED
    BY <2>4, <2>5, <2>6
<1>10. QED
  BY <1>8, <1>9

\* Every step keeps the zones covered.
LEMMA NextCovers ==
    ASSUME TypeInv, ZonesCovered, [Next]_vars
    PROVE  ZonesCovered'
<1>1. TypeInv'
  BY NextType
<1>2. ASSUME NEW c \in Controllers, NEW y \in Zones, Start(c, y) \/ LookupFails(c, y)
      PROVE  ZonesCovered'
  BY <1>1, <1>2, StartHere, StartElsewhere DEF ZonesCovered
<1>3. ASSUME NEW c \in Controllers, Work(c) PROVE ZonesCovered'
  <2>1. CASE Writes(c)
    BY <1>1, <2>1, WritesCover
  <2>2. CASE UpdateStatus(c) /\ ~Writes(c)
    <3>1. ~req[c].dirty
      BY <2>2 DEF Writes, TypeInv, TypeOK, Request
    <3>2. QED
      BY <1>1, <2>2, <3>1, EndCovers
  <2>3. CASE ~PatchFinalizer(c) /\ ~RemoveFinalizer(c) /\ ~UpdateStatus(c)
    BY <1>1, <1>3, <2>3, QuietCovers
  <2>4. QED
    BY <2>1, <2>2, <2>3 DEF Writes
<1>4. QED
  BY <1>1, <1>2, <1>3, UserCovers, CrashCovers, ClusterCovers DEF Next

\* When nothing waits and nothing runs, covered zones show what they should.
LEMMA CoverSettles ==
    ASSUME TypeInv, ZonesCovered
    PROVE  ValidationSettled
<1> Linked(objs)
  BY ObjectsLinked DEF TypeInv, TypeOK
<1> SUFFICES ASSUME Quiet, NEW z \in Zones, Whole(z),
                    NEW c \in Controllers, Validates(c, z)
             PROVE  objs[z].status.valid = ExpectedValid(z)
  BY DEF ValidationSettled, Whole
<1>1. \A y \in Zones : y \notin queue[c] /\ ~Handles(c, y) /\ ~Due(c, y)
  BY DEF Quiet, Idle, Handles, Due
<1>2. \A y \in Zones : Whole(y) /\ Validates(c, y) => Rested(c, y)
  <2> SUFFICES ASSUME NEW y \in Zones, Whole(y), Validates(c, y) PROVE Rested(c, y)
    OBVIOUS
  <2>1. Passed(objs, y) \subseteq Zones
    BY PassedLeast
  <2>2. Calm(c, y)
    BY <1>1, <2>1 DEF Calm
  <2>3. QED
    BY <1>1, <2>2 DEF ZonesCovered, ZoneCovered
<1>3. Rested(c, z)
  BY <1>2
<1> SUFFICES ASSUME ExpectedValid(z) = "true", objs[z].spec.parent # NoZone,
                    NEW r, r = GetRootInfo(objs, z).root,
                    objs[r].status.valid = "unknown"
             PROVE  FALSE
  BY <1>3 DEF Rested, ValidNow
<1>4. AlnumFields(objs[z].spec) /\ GetRootInfo(objs, z).found
  BY DEF ExpectedValid
<1>5. objs[z] # Absent
  BY DEF Whole, Alive
<1>6. r \in Zones /\ objs[r] # Absent /\ objs[r].spec.parent = NoZone
  BY <1>4, <1>5, RootType
<1>7. Alive(objs, r)
  BY <1>4, <1>5, <1>6, RootType
<1>8. Passed(objs, r) = {r} /\ GetRootInfo(objs, r) = [found |-> TRUE, root |-> r]
  BY <1>6, PassedStep, RootInfoStep DEF Up
<1>9. Validates(c, r)
  <2>1. c \notin objs[z].fin
    BY <1>3, <1>4 DEF Rested, Parted
  <2>2. IsResponsible(c, objs[r], objs[r])
    BY <1>4, <2>1 DEF Validates, IsResponsible
  <2>3. QED
    BY <1>8, <2>2 DEF Validates
<1>10. objs[r].status.valid = ExpectedValid(r)
  BY <1>2, <1>6, <1>7, <1>8, <1>9 DEF Whole, Rested, ValidNow
<1>11. QED
  BY <1>10 DEF ExpectedValid

\* ValidationSettled for any zones, references, options and number of
\* instances: no change that matters to a nested zone goes unnoticed.
THEOREM ValidationSettles == Spec => []ValidationSettled
<1>1. Init => TypeInv /\ ZonesCovered
  <2>1. Init => ZonesCovered
    BY DEF Init, ZonesCovered, ZoneCovered, Calm, Whole, Alive
  <2>2. QED
    BY <2>1, InitType
<1>2. TypeInv /\ ZonesCovered /\ [Next]_vars => TypeInv' /\ ZonesCovered'
  BY NextType, NextCovers
<1>3. TypeInv /\ ZonesCovered => ValidationSettled
  BY CoverSettles
<1>4. QED
  BY <1>1, <1>2, <1>3, PTL DEF Spec

-----------------------------------------------------------------------------
(* What the operator deploys for a zone is guarded: by the finalizer of    *)
(* the object, as module Protection says, and in the case of the generated *)
(* namespace by the index of its users.                                    *)

(***************************************************************************)
(* Nothing deployed is left behind, as long as there is one instance only. *)
(* (Two instances responsible for the same zone overwrite each other's     *)
(* finalizer.)                                                             *)
(***************************************************************************)
Alone == \A c, d \in Controllers : c = d

Holds(c, z) == objs[z] # Absent /\ c \in objs[z].fin

\* While a request deploys, the instance holds the finalizer; once it has
\* deleted the manifests, nothing of the zone is left until it ends.
Guard ==
    /\ ResourcesGuarded
    /\ \A c \in Controllers :
          /\ req[c].step \in {"prepare", "dataplane", "runtime"} => Holds(c, req[c].zone)
          /\ req[c].step \in {"cleanup", "unfinalize"} => ~Deployed(c, req[c].zone)

GuardInv == TypeInv /\ Guard

\* Applying the manifests of a zone deploys this zone only.
LEMMA ApplyEffect ==
    ASSUME NEW z \in Zones, NEW y \in Zones,
           NEW before, NEW m \in before \cup RuntimeManifests(z), m.name = y
    PROVE  y = z \/ \E k \in before : k.name = y
BY OperatorAssumption DEF RuntimeManifests, Service

\* Deleting all the manifests of a zone leaves nothing of it.
LEMMA DeleteEffect ==
    ASSUME NEW z \in Zones, NEW before \in SUBSET Manifest,
           NEW m \in before \ RuntimeManifests(z)
    PROVE  m.name # z
BY OperatorAssumption DEF RuntimeManifests, Service, Manifest

\* A request that starts deploying holds the finalizer already.
LEMMA StartEffect ==
    ASSUME NEW c \in Controllers, NEW z \in Zones, objs[z] # Absent
    PROVE  /\ Reconcile(c, z).zone = z
           /\ Reconcile(c, z).step \in {"status", "delete", "patch", "prepare"}
           /\ Reconcile(c, z).step = "prepare" => Holds(c, z)
BY DEF Reconcile, handleObject, NewRequest, Holds

\* A write of the status keeps the finalizers.
LEMMA StatusEffect ==
    ASSUME TypeInv, NEW c \in Controllers, UpdateStatus(c),
           NEW d \in Controllers, NEW y \in Zones, Holds(d, y)
    PROVE  Holds(d, y)'
<1>1. CASE ~req[c].dirty
  BY <1>1 DEF UpdateStatus, Holds
<1>2. CASE req[c].dirty
  <2> DEFINE z == req[c].zone
             o == [objs[z] EXCEPT !.status = req[c].obj.status]
  <2>1. z \in Zones
    BY DEF UpdateStatus, TypeInv, Requests, Sound, Wellformed
  <2>2. objs[z] \in HostedZone
    BY <1>2, <2>1 DEF UpdateStatus, TypeInv, TypeOK
  <2>3. req[c].obj.status \in Status
    BY <1>2 DEF TypeInv, Requests, Sound, Wellformed, Request, HostedZone
  <2>4. o \in HostedZone /\ o.fin = objs[z].fin
    BY <2>2, <2>3 DEF HostedZone
  <2>5. objs' = [objs EXCEPT ![z] = o]
    BY <1>2 DEF UpdateStatus
  <2>6. QED
    BY <2>1, <2>4, <2>5, NamesAssumption DEF TypeInv, TypeOK, Holds
<1>3. QED
  BY <1>1, <1>2

\* An API user creating, changing or deleting a zone exposes no deployed object.
LEMMA UserGuard ==
    ASSUME GuardInv, User
    PROVE  Guard'
<1>1. PICK z \in Zones, o \in HostedZone \cup {Absent} :
        /\ Edit(z, o)
        /\ \A c \in Controllers : Holds(c, z) => o # Absent /\ c \in o.fin
  <2>1. CASE \E z \in Zones, s \in Specs : CreateZone(z, s)
    BY <2>1 DEF CreateZone, NewZone, HostedZone, Status, Conditions, Holds
  <2>2. CASE \E z \in Zones, s \in Specs : UpdateZone(z, s)
    <3>1. PICK z \in Zones, s \in Specs : UpdateZone(z, s)
      BY <2>2
    <3>2. objs[z] \in HostedZone
      BY <3>1 DEF UpdateZone, GuardInv, TypeInv, TypeOK
    <3>3. /\ [objs[z] EXCEPT !.spec = s] \in HostedZone
          /\ [objs[z] EXCEPT !.spec = s].fin = objs[z].fin
      BY <3>2 DEF HostedZone
    <3>4. QED
      BY <3>1, <3>3, NamesAssumption DEF UpdateZone, Holds
  <2>3. CASE \E z \in Zones : DeleteZone(z)
    <3>1. PICK z \in Zones : DeleteZone(z)
      BY <2>3
    <3>2. objs[z] \in HostedZone
      BY <3>1 DEF DeleteZone, GuardInv, TypeInv, TypeOK
    <3>3. /\ [objs[z] EXCEPT !.deleting = TRUE] \in HostedZone
          /\ [objs[z] EXCEPT !.deleting = TRUE].fin = objs[z].fin
      BY <3>2 DEF HostedZone
    <3>4. QED
      BY <3>1, <3>3, NamesAssumption DEF DeleteZone, Holds
  <2>4. QED
    BY <2>1, <2>2, <2>3 DEF User
<1>2. \A c \in Controllers, y \in Zones : Holds(c, y) => Holds(c, y)'
  BY <1>1 DEF Edit, Holds, GuardInv, TypeInv, TypeOK
<1>3. \A c \in Controllers : req'[c].step = req[c].step /\ req'[c].zone = req[c].zone
  BY <1>1 DEF Edit, Outdate, GuardInv, TypeInv, TypeOK, Request
<1>4. \A c \in Controllers : req[c].step # "idle" => req[c].zone \in Zones
  BY DEF GuardInv, TypeInv, Requests, Sound, Wellformed
<1>5. \A c \in Controllers : \A y : Deployed(c, y)' <=> Deployed(c, y)
  BY <1>1 DEF Edit, clusters, Deployed
<1>6. QED
  BY <1>2, <1>3, <1>4, <1>5 DEF Guard, GuardInv, ResourcesGuarded, Holds

\* With one instance, c, it is enough to look at what c has and does.
LEMMA AloneGuard ==
    ASSUME Alone, NEW c \in Controllers,
           \A y \in Zones : Deployed(c, y)' => Holds(c, y)',
           req'[c].step \in {"prepare", "dataplane", "runtime"} => Holds(c, req[c].zone)',
           req'[c].step \in {"cleanup", "unfinalize"} => ~Deployed(c, req[c].zone)'
    PROVE  Guard'
<1>1. \A d \in Controllers : d = c
  BY DEF Alone
<1>2. QED
  BY <1>1 DEF Guard, ResourcesGuarded, Holds, Deployed

\* A step that ends the work of a request on the clusters, and deploys
\* nothing new.
LEMMA EndingGuard ==
    ASSUME Alone, GuardInv, NEW c \in Controllers,
           req'[c].step \in {"idle", "status"},
           \A y \in Zones : Holds(c, y) => Holds(c, y)',
           \A y \in Zones : Deployed(c, y)' => Deployed(c, y)
    PROVE  Guard'
<1>1. \A y \in Zones : Deployed(c, y)' => Holds(c, y)'
  BY DEF GuardInv, Guard, ResourcesGuarded, Holds
<1>2. QED
  BY <1>1, AloneGuard

\* A request that advances stays with its zone.
LEMMA AdvanceEffect ==
    ASSUME TypeInv, NEW c \in Controllers, NEW s, req' = Advance(c, s)
    PROVE  req'[c].step = s /\ req'[c].zone = req[c].zone
<1>1. req[c] \in Request
  BY DEF TypeInv, TypeOK
<1>2. \A r \in Request : /\ [r EXCEPT !.step = s].step = s
                         /\ [r EXCEPT !.step = s].zone = r.zone
  BY DEF Request
<1>3. req'[c] = [req[c] EXCEPT !.step = s]
  BY DEF Advance, TypeInv, TypeOK
<1>4. QED
  BY <1>1, <1>2, <1>3

\* The first step of a request, when it deploys and when it does not.
LEMMA StartStep ==
    ASSUME TypeInv, NEW c \in Controllers, NEW z \in Zones,
           Start(c, z) \/ LookupFails(c, z)
    PROVE  /\ req'[c].step \in {"status", "delete", "patch", "prepare"}
           /\ req'[c].step = "prepare" => Holds(c, req'[c].zone)
<1>1. CASE Start(c, z) /\ objs[z] = Absent
  <2>1. req'[c] = ReconcileDeleted(c, z)
    BY <1>1 DEF Start, TypeInv, TypeOK
  <2>2. QED
    BY <2>1 DEF ReconcileDeleted, NewRequest
<1>2. CASE Start(c, z) /\ objs[z] # Absent /\ objs[z].deleting
  <2>1. req'[c] = ReconcileDeleting(c, z)
    BY <1>2 DEF Start, TypeInv, TypeOK
  <2>2. QED
    BY <2>1 DEF ReconcileDeleting, NewRequest
<1>3. CASE Start(c, z) /\ objs[z] # Absent /\ ~objs[z].deleting
  <2>1. req'[c] = Reconcile(c, z)
    BY <1>3 DEF Start, TypeInv, TypeOK
  <2>2. QED
    BY <1>3, <2>1, StartEffect
<1>4. CASE LookupFails(c, z)
  <2>1. req'[c] = NewRequest(z, "status", objs[z], objs[z])
    BY <1>4 DEF LookupFails, TypeInv, TypeOK
  <2>2. QED
    BY <2>1 DEF NewRequest
<1>5. QED
  BY <1>1, <1>2, <1>3, <1>4

\* A request that starts (Reconcile and its variants) reads the finalizer set it relies on.
LEMMA StartGuard ==
    ASSUME Alone, GuardInv, NEW c \in Controllers, NEW z \in Zones,
           Start(c, z) \/ LookupFails(c, z)
    PROVE  Guard'
<1>1. UNCHANGED <<objs, rt>>
  BY DEF Start, LookupFails, clusters
<1>2. /\ req'[c].step \in {"status", "delete", "patch", "prepare"}
      /\ req'[c].step = "prepare" => Holds(c, req'[c].zone)
  BY StartStep DEF GuardInv
<1>3. Holds(c, req'[c].zone) => Holds(c, req[c].zone)'
  BY <1>1 DEF Holds
<1>4. \A y \in Zones : Deployed(c, y)' => Holds(c, y)'
  BY <1>1 DEF GuardInv, Guard, ResourcesGuarded, Deployed, Holds
<1>5. QED
  BY <1>2, <1>3, <1>4, AloneGuard

\* Setting the finalizer precedes any deployment, removing it follows the deletion.
LEMMA PatchGuard ==
    ASSUME Alone, GuardInv, NEW c \in Controllers,
           PatchFinalizer(c) \/ RemoveFinalizer(c) \/ PatchGone(c) \/ PatchRefused(c)
    PROVE  Guard'
<1>1. req[c].step \in {"patch", "unfinalize"}
  BY DEF PatchFinalizer, RemoveFinalizer, PatchGone, PatchRefused
<1>2. PICK z \in Zones : z = req[c].zone
  BY <1>1 DEF GuardInv, TypeInv, Requests, Sound, Wellformed
<1>3. req[c].obj \in HostedZone /\ req[c].obj.fin \subseteq Controllers
  BY <1>1 DEF GuardInv, TypeInv, Requests, Sound, Wellformed, Request, HostedZone
<1>4. UNCHANGED rt /\ \A y : Deployed(c, y)' <=> Deployed(c, y)
  BY DEF PatchFinalizer, RemoveFinalizer, PatchGone, PatchRefused, clusters, Deployed
<1>5. CASE PatchFinalizer(c)
  <2>1. PICK o : /\ o = [objs[z] EXCEPT !.fin = req[c].obj.fin \cup {c}]
                 /\ objs' = [objs EXCEPT ![z] = o]
                 /\ req'[c] = handlePatched(c, z, o)
    BY <1>2, <1>5 DEF PatchFinalizer, Outdate
  <2>2. objs[z] \in HostedZone
    BY <1>2, <1>5 DEF GuardInv, TypeInv, TypeOK, PatchFinalizer, Accepts
  <2>3. o \in HostedZone /\ c \in o.fin
    BY <1>3, <2>1, <2>2 DEF HostedZone
  <2>4. Holds(c, z)'
    BY <2>1, <2>3, NamesAssumption DEF Holds, GuardInv, TypeInv, TypeOK
  <2>5. \A y \in Zones : Holds(c, y) => Holds(c, y)'
    BY <2>1, <2>4 DEF Holds, GuardInv, TypeInv, TypeOK
  <2>6. req'[c].zone = z /\ req'[c].step \in {"status", "prepare"}
    BY <2>1 DEF handlePatched, NewRequest
  <2>7. \A y \in Zones : Deployed(c, y)' => Holds(c, y)'
    BY <1>4, <2>5 DEF GuardInv, Guard, ResourcesGuarded, Holds
  <2>8. QED
    BY <2>4, <2>6, <2>7, AloneGuard
<1>6. CASE RemoveFinalizer(c)
  <2>1. ~Deployed(c, z)
    BY <1>2, <1>6 DEF RemoveFinalizer, GuardInv, Guard
  <2>2. \A y \in Zones \ {z} : objs'[y] = objs[y]
    BY <1>2, <1>6 DEF RemoveFinalizer, GuardInv, TypeInv, TypeOK
  <2>3. req'[c].step = "status"
    <3>1. req'[c] = [req[c] EXCEPT !.step = "status", !.stale = FALSE]
      BY <1>6 DEF RemoveFinalizer, Outdate
    <3>2. QED
      BY <3>1 DEF GuardInv, TypeInv, TypeOK, Request
  <2>4. \A y \in Zones : Deployed(c, y)' => Holds(c, y)'
    BY <1>4, <2>1, <2>2 DEF GuardInv, Guard, ResourcesGuarded, Holds
  <2>5. QED
    BY <2>3, <2>4, AloneGuard
<1>7. CASE PatchGone(c) \/ PatchRefused(c)
  <2>1. req' = Advance(c, "status") /\ UNCHANGED objs
    BY <1>7 DEF PatchGone, PatchRefused
  <2>2. req'[c].step = "status"
    BY <2>1, AdvanceEffect DEF GuardInv
  <2>3. QED
    BY <1>4, <2>1, <2>2, EndingGuard DEF Holds
<1>8. QED
  BY <1>5, <1>6, <1>7

\* The deployment steps of HandleExternalResources only deploy below a finalizer.
LEMMA DeployGuard ==
    ASSUME Alone, GuardInv, NEW c \in Controllers,
           \/ Prepare(c) \/ PrepareFails(c) \/ AccessFails(c)
           \/ ApplyDataplane(c) \/ ApplyDataplaneFails(c)
           \/ ApplyRuntime(c) \/ ApplyRuntimeFails(c) \/ ApplyRuntimeRefused(c)
           \/ NotModifiable(c)
    PROVE  Guard'
<1>1. UNCHANGED objs
  BY DEF Prepare, PrepareFails, AccessFails, ApplyDataplane, ApplyDataplaneFails,
         ApplyRuntime, ApplyRuntimeFails, ApplyRuntimeRefused, NotModifiable
<1>2. req[c].step \in {"prepare", "dataplane", "runtime"}
  BY DEF Prepare, PrepareFails, AccessFails, ApplyDataplane, ApplyDataplaneFails,
         ApplyRuntime, ApplyRuntimeFails, ApplyRuntimeRefused, NotModifiable
<1>3. PICK z \in Zones : z = req[c].zone
  BY <1>2 DEF GuardInv, TypeInv, Requests, Sound, Wellformed
<1>4. Holds(c, z)
  BY <1>2, <1>3 DEF GuardInv, Guard
<1>5. /\ req'[c].zone = z
      /\ req'[c].step \in {"dataplane", "runtime", "status"}
  <2>1. CASE Prepare(c) \/ AccessFails(c)
    <3>1. PICK b : req'[c] = [req[c] EXCEPT !.step = "dataplane", !.repeat = b]
      BY <2>1 DEF Prepare, AccessFails, GuardInv, TypeInv, TypeOK
    <3>2. QED
      BY <1>3, <3>1 DEF GuardInv, TypeInv, TypeOK, Request
  <2>2. CASE ~(Prepare(c) \/ AccessFails(c))
    <3>1. PICK s \in {"runtime", "status"} : req' = Advance(c, s)
      BY <2>2 DEF PrepareFails, ApplyDataplane, ApplyDataplaneFails,
         ApplyRuntime, ApplyRuntimeFails, ApplyRuntimeRefused, NotModifiable
    <3>2. QED
      BY <1>3, <3>1, AdvanceEffect DEF GuardInv
  <2>3. QED
    BY <2>1, <2>2
<1>6. rt'[c] \subseteq rt[c] \cup RuntimeManifests(z)
  <2>1. CASE ApplyRuntime(c)
    BY <1>3, <2>1 DEF ApplyRuntime, Applied, GuardInv, TypeInv, TypeOK
  <2>2. CASE ApplyRuntimeFails(c)
    BY <1>3, <2>2 DEF ApplyRuntimeFails, Applied, GuardInv, TypeInv, TypeOK
  <2>3. CASE NotModifiable(c)
    BY <1>3, <2>3 DEF NotModifiable, GuardInv, TypeInv, TypeOK
  <2>4. CASE ~(ApplyRuntime(c) \/ ApplyRuntimeFails(c) \/ NotModifiable(c))
    BY <2>4 DEF Prepare, PrepareFails, AccessFails, ApplyDataplane,
                ApplyDataplaneFails, ApplyRuntimeRefused, clusters
  <2>5. QED
    BY <2>1, <2>2, <2>3, <2>4
<1>7. \A y \in Zones : Deployed(c, y)' => y = z \/ Deployed(c, y)
  BY <1>6, ApplyEffect DEF Deployed
<1>8. \A y \in Zones : Deployed(c, y)' => Holds(c, y)'
  BY <1>1, <1>4, <1>7 DEF GuardInv, Guard, ResourcesGuarded, Holds
<1>9. Holds(c, req[c].zone)'
  BY <1>1, <1>4, <1>5 DEF Holds
<1>10. QED
  BY <1>5, <1>8, <1>9, AloneGuard

\* DeleteExternalResources and Cleanup leave nothing when they go on to the finalizer.
LEMMA DeleteGuard ==
    ASSUME Alone, GuardInv, NEW c \in Controllers,
           \/ DeleteResources(c) \/ DeleteResourcesPending(c) \/ DeleteResourcesFails(c)
           \/ Cleanup(c) \/ CleanupFails(c)
    PROVE  Guard'
<1>1. UNCHANGED objs
  BY DEF DeleteResources, DeleteResourcesPending, DeleteResourcesFails,
         Cleanup, CleanupFails
<1>2. PICK z \in Zones : z = req[c].zone
  BY DEF DeleteResources, DeleteResourcesPending, DeleteResourcesFails,
         Cleanup, CleanupFails,
         GuardInv, TypeInv, Requests, Sound, Wellformed
<1>3. rt'[c] \subseteq rt[c]
  <2>1. CASE DeleteResources(c) \/ DeleteResourcesPending(c)
    BY <2>1 DEF DeleteResources, DeleteResourcesPending, GuardInv, TypeInv, TypeOK
  <2>2. CASE DeleteResourcesFails(c)
    BY <2>2 DEF DeleteResourcesFails, GuardInv, TypeInv, TypeOK
  <2>3. CASE Cleanup(c) \/ CleanupFails(c)
    BY <2>3 DEF Cleanup, CleanupFails
  <2>4. QED
    BY <2>1, <2>2, <2>3
<1>4. \A y \in Zones : /\ Deployed(c, y)' => Deployed(c, y)
                       /\ Holds(c, y) => Holds(c, y)'
  BY <1>1, <1>3 DEF Deployed, Holds
<1>5. \A y \in Zones : Deployed(c, y)' => Holds(c, y)'
  BY <1>4 DEF GuardInv, Guard, ResourcesGuarded, Holds
<1>6. CASE DeleteResources(c)
  <2>1. req' = Advance(c, "cleanup")
    BY <1>6 DEF DeleteResources
  <2>2. req'[c].step = "cleanup" /\ req'[c].zone = z
    BY <1>2, <2>1, AdvanceEffect DEF GuardInv
  <2>3. rt'[c] = rt[c] \ RuntimeManifests(z) /\ rt[c] \in SUBSET Manifest
    BY <1>2, <1>6 DEF DeleteResources, GuardInv, TypeInv, TypeOK
  <2>4. \A m \in rt'[c] : m.name # z
    BY <2>3, DeleteEffect
  <2>5. ~Deployed(c, req[c].zone)'
    BY <2>2, <2>4 DEF Deployed
  <2>6. QED
    BY <1>5, <2>2, <2>5, AloneGuard
<1>7. CASE Cleanup(c)
  <2>1. req'[c] = IF req[c].obj = Absent THEN Idle ELSE [req[c] EXCEPT !.step = "unfinalize"]
    BY <1>7 DEF Cleanup, AfterCleanup, GuardInv, TypeInv, TypeOK
  <2>2. CASE req[c].obj = Absent
    <3>1. req'[c].step = "idle"
      BY <2>1, <2>2 DEF Idle
    <3>2. QED
      BY <1>5, <3>1, AloneGuard
  <2>3. CASE req[c].obj # Absent
    <3>1. req'[c] = [req[c] EXCEPT !.step = "unfinalize"]
      BY <2>1, <2>3
    <3>2. req'[c].step = "unfinalize" /\ req'[c].zone = z
      BY <1>2, <3>1 DEF GuardInv, TypeInv, TypeOK, Request
    <3>3. ~Deployed(c, z)
      BY <1>2, <1>7 DEF Cleanup, GuardInv, Guard
    <3>4. ~Deployed(c, req[c].zone)'
      BY <1>3, <3>2, <3>3 DEF Deployed
    <3>5. QED
      BY <1>5, <3>2, <3>4, AloneGuard
  <2>4. QED
    BY <2>2, <2>3
<1>8. CASE DeleteResourcesPending(c) \/ DeleteResourcesFails(c) \/ CleanupFails(c)
  <2>1. req' = Advance(c, "status")
    BY <1>8 DEF DeleteResourcesPending, DeleteResourcesFails, CleanupFails
  <2>2. req'[c].step = "status"
    BY <2>1, AdvanceEffect DEF GuardInv
  <2>3. QED
    BY <1>5, <2>2, AloneGuard
<1>9. QED
  BY <1>6, <1>7, <1>8

\* The end of a request, or a crash, leaves finalizers and deployments alone.
LEMMA EndGuard ==
    ASSUME Alone, GuardInv, NEW c \in Controllers,
           UpdateStatus(c) \/ UpdateConflict(c) \/ WriteFails(c) \/ Crash(c)
    PROVE  Guard'
<1>1. UNCHANGED rt
  BY DEF UpdateStatus, UpdateConflict, WriteFails, Crash, clusters
<1>2. \A y \in Zones : Holds(c, y) => Holds(c, y)'
  <2>1. CASE UpdateStatus(c)
    BY <2>1, StatusEffect DEF GuardInv
  <2>2. CASE ~UpdateStatus(c)
    BY <2>2 DEF UpdateConflict, WriteFails, Crash, Holds
  <2>3. QED
    BY <2>1, <2>2
<1>3. req'[c].step \in {"idle", "status"}
  <2>1. CASE WriteFails(c)
    <3>1. req'[c] = IF req[c].step = "status" THEN Idle
                                              ELSE [req[c] EXCEPT !.step = "status"]
      BY <2>1 DEF WriteFails, GuardInv, TypeInv, TypeOK
    <3>2. QED
      BY <3>1 DEF Idle, GuardInv, TypeInv, TypeOK, Request
  <2>2. CASE UpdateStatus(c)
    <3>1. req'[c] = Idle
      BY <2>2 DEF UpdateStatus, Outdate, GuardInv, TypeInv, TypeOK
    <3>2. QED
      BY <3>1 DEF Idle
  <2>3. CASE UpdateConflict(c) \/ Crash(c)
    <3>1. req'[c] = Idle
      BY <2>3 DEF UpdateConflict, Crash, GuardInv, TypeInv, TypeOK
    <3>2. QED
      BY <3>1 DEF Idle
  <2>4. QED
    BY <2>1, <2>2, <2>3
<1>4. QED
  BY <1>1, <1>2, <1>3, EndingGuard DEF Deployed

\* The clusters only take deployed objects away; a repetition changes the queue alone.
LEMMA ClusterGuard ==
    ASSUME GuardInv, Cluster \/ \E c \in Controllers, z \in Zones : Repeat(c, z)
    PROVE  Guard'
<1>1. UNCHANGED <<objs, req>>
  BY DEF Cluster, TokenIssued, TokenRevoked, NamespaceEmptied, NamespaceGone, ServiceGone,
         LoadBalancerReady, Repeat
<1>2. \A c \in Controllers : rt'[c] \subseteq rt[c]
  BY DEF Cluster, TokenIssued, TokenRevoked, NamespaceEmptied, NamespaceGone, ServiceGone,
         LoadBalancerReady, Repeat, clusters, GuardInv, TypeInv, TypeOK
<1>3. \A c \in Controllers : \A y : Deployed(c, y)' => Deployed(c, y)
  BY <1>2 DEF Deployed
<1>4. \A c \in Controllers : /\ req'[c] = req[c]
                             /\ Deployed(c, req[c].zone)' => Deployed(c, req[c].zone)
  BY <1>1, <1>2 DEF Deployed
<1>5. QED
  BY <1>1, <1>3, <1>4 DEF GuardInv, Guard, ResourcesGuarded, Holds

\* Every step of a lone instance preserves GuardInv.
LEMMA NextGuard ==
    ASSUME Alone, GuardInv, [Next]_vars
    PROVE  GuardInv'
<1>1. TypeInv'
  BY NextType DEF GuardInv
<1>2. CASE UNCHANGED vars
  BY <1>2 DEF vars, GuardInv, Guard, ResourcesGuarded, Deployed, Holds, TypeInv, TypeOK,
              Requests, Sound
<1>3. CASE \E c \in Controllers : Work(c)
  BY <1>1, <1>3, PatchGuard, DeployGuard, DeleteGuard, EndGuard DEF Work, GuardInv
<1>4. QED
  BY <1>1, <1>2, <1>3, UserGuard, StartGuard, EndGuard, ClusterGuard DEF Next, GuardInv

(***************************************************************************)
(* With a single instance no server outlives its zone object: whatever is  *)
(* deployed is protected by the finalizer, in every interleaving of users, *)
(* failing calls and restarts (Reconcile, delete, HandleExternalResources, *)
(* DeleteExternalResources).                                               *)
(***************************************************************************)
THEOREM NothingLeftBehind ==
    ASSUME Alone
    PROVE  Spec => []ResourcesGuarded
<1>1. Init => GuardInv
  BY InitType DEF Init, GuardInv, Guard, ResourcesGuarded, Deployed, Idle
<1>2. GuardInv /\ [Next]_vars => GuardInv'
  BY NextGuard
<1>3. GuardInv => ResourcesGuarded
  BY DEF GuardInv, Guard
<1>4. QED
  BY <1>1, <1>2, <1>3, PTL DEF Spec

-----------------------------------------------------------------------------
(***************************************************************************)
(* The generated namespace of the runtime cluster is deleted only when it  *)
(* is not used, for any number of zones and instances, as long as no       *)
(* instance restarts: the index of the users is kept in memory only.       *)
(***************************************************************************)

(***************************************************************************)
(* What one instance knows: every zone it has deployed is in the index,    *)
(* and so is the zone it is about to deploy; once the manifests of a zone  *)
(* are deleted nothing of it is left when the index entry goes.            *)
(***************************************************************************)
Shares(c) ==
    /\ LocalMode => ns[c] = "none"
    /\ ns[c] = "terminating" => \A z \in Zones : ~Deployed(c, z)
    /\ ~LocalMode => \A z \in Zones : Deployed(c, z) => z \in index[c]
    /\ ~LocalMode /\ req[c].step \in {"dataplane", "runtime"} => req[c].zone \in index[c]
    /\ req[c].step = "cleanup" => ~Deployed(c, req[c].zone)

SharesInv == TypeInv /\ \A c \in Controllers : Shares(c)

\* Nothing of instance d changes but the data of its request.
Untouched(d) ==
    /\ rt'[d] = rt[d] /\ ns'[d] = ns[d] /\ index'[d] = index[d]
    /\ req'[d].step = req[d].step /\ req'[d].zone = req[d].zone

\* An instance of which no step is taken keeps its part of the invariant.
LEMMA UntouchedShares ==
    ASSUME NEW d \in Controllers, Shares(d), Untouched(d)
    PROVE  Shares(d)'
<1>1. \A y : Deployed(d, y)' <=> Deployed(d, y)
  BY DEF Untouched, Deployed
<1>2. Deployed(d, req[d].zone)' <=> Deployed(d, req[d].zone)
  BY DEF Untouched, Deployed
<1>3. QED
  BY <1>1, <1>2 DEF Shares, Untouched

\* A step of instance d that ends its deployment, or prepares one, without
\* a change to the index and the namespace.
LEMMA ResumeShares ==
    ASSUME NEW d \in Controllers, Shares(d),
           rt'[d] \subseteq rt[d], ns'[d] = ns[d], index'[d] = index[d],
           req'[d].step \notin {"dataplane", "runtime", "cleanup"}
    PROVE  Shares(d)'
<1>1. \A y : Deployed(d, y)' => Deployed(d, y)
  BY DEF Deployed
<1>2. QED
  BY <1>1 DEF Shares

\* Edits by users.
LEMMA UserShares ==
    ASSUME SharesInv, User
    PROVE  \A d \in Controllers : Untouched(d)
<1>1. PICK z, o : Edit(z, o)
  BY DEF User, CreateZone, UpdateZone, DeleteZone
<1>2. \A d \in Controllers : req'[d].step = req[d].step /\ req'[d].zone = req[d].zone
  BY <1>1 DEF Edit, Outdate, SharesInv, TypeInv, TypeOK, Request
<1>3. QED
  BY <1>1, <1>2 DEF Edit, clusters, Untouched

\* A step of an instance leaves all others alone.
LEMMA OthersUntouched ==
    ASSUME SharesInv, NEW c \in Controllers,
           Work(c) \/ \E z \in Zones : Start(c, z) \/ LookupFails(c, z),
           NEW d \in Controllers \ {c}
    PROVE  Untouched(d)
<1>1. rt'[d] = rt[d] /\ ns'[d] = ns[d] /\ index'[d] = index[d]
  <2>1. CASE \/ DeleteResources(c) \/ DeleteResourcesPending(c) \/ DeleteResourcesFails(c)
             \/ Cleanup(c) \/ CleanupFails(c)
    BY <2>1 DEF DeleteResources, DeleteResourcesPending, DeleteResourcesFails,
         Cleanup, CleanupFails, SharesInv, TypeInv, TypeOK
  <2>2. CASE ApplyRuntime(c) \/ ApplyRuntimeFails(c) \/ NotModifiable(c)
    BY <2>2 DEF ApplyRuntime, ApplyRuntimeFails, NotModifiable, SharesInv, TypeInv, TypeOK
  <2>3. CASE Prepare(c) \/ AccessFails(c)
    BY <2>3 DEF Prepare, AccessFails, SharesInv, TypeInv, TypeOK
  <2>4. CASE UNCHANGED <<rt, ns, index>>
    BY <2>4
  <2>5. QED
    BY <2>1, <2>2, <2>3, <2>4
    DEF Work, Start, LookupFails, PatchFinalizer, PatchGone, PatchRefused, PrepareFails,
        ApplyDataplane, ApplyDataplaneFails, ApplyRuntimeRefused, RemoveFinalizer,
        UpdateStatus, UpdateConflict, WriteFails, clusters
<1>2. req'[d].step = req[d].step /\ req'[d].zone = req[d].zone
  <2>1. \A z : Outdate(req, z)[d].step = req[d].step /\ Outdate(req, z)[d].zone = req[d].zone
    BY DEF Outdate, SharesInv, TypeInv, TypeOK, Request
  <2>2. CASE PatchFinalizer(c) \/ RemoveFinalizer(c)
    <3>1. PICK z : req'[d] = Outdate(req, z)[d]
      BY <2>2 DEF PatchFinalizer, RemoveFinalizer, Outdate
    <3>2. QED
      BY <2>1, <3>1
  <2>3. CASE UpdateStatus(c)
    <3>1. req'[d] = req[d] \/ \E z : req'[d] = Outdate(req, z)[d]
      BY <2>3 DEF UpdateStatus, Outdate, SharesInv, TypeInv, TypeOK
    <3>2. QED
      BY <2>1, <3>1
  <2>4. CASE ~(PatchFinalizer(c) \/ RemoveFinalizer(c) \/ UpdateStatus(c))
    <3>1. \E r : req' = [req EXCEPT ![c] = r]
      BY <2>4
      DEF Work, Start, LookupFails, PatchGone, PatchRefused, Prepare, PrepareFails,
          AccessFails, ApplyDataplane, ApplyDataplaneFails, ApplyRuntime, ApplyRuntimeFails,
          ApplyRuntimeRefused, NotModifiable, DeleteResources, DeleteResourcesPending,
          DeleteResourcesFails, Cleanup, CleanupFails, AfterCleanup, UpdateConflict, WriteFails, Advance
    <3>2. QED
      BY <3>1 DEF SharesInv, TypeInv, TypeOK
  <2>5. QED
    BY <2>2, <2>3, <2>4
<1>3. QED
  BY <1>1, <1>2 DEF Untouched

\* A request that takes responsibility, removes the finalizer or ends.
LEMMA FinalizerShares ==
    ASSUME SharesInv, NEW c \in Controllers,
           \/ PatchFinalizer(c) \/ RemoveFinalizer(c) \/ PatchGone(c) \/ PatchRefused(c)
           \/ UpdateStatus(c) \/ UpdateConflict(c) \/ WriteFails(c)
    PROVE  Shares(c)'
<1>1. UNCHANGED <<rt, ns, index>>
  BY DEF PatchFinalizer, RemoveFinalizer, PatchGone, PatchRefused, UpdateStatus,
         UpdateConflict, WriteFails, clusters
<1>2. req'[c].step \in {"idle", "status", "prepare"}
  <2>1. CASE PatchFinalizer(c)
    <3>1. \E z, o : req'[c] = handlePatched(c, z, o)
      BY <2>1 DEF PatchFinalizer, Outdate
    <3>2. QED
      BY <3>1 DEF handlePatched, NewRequest
  <2>2. CASE RemoveFinalizer(c)
    <3>1. req'[c] = [req[c] EXCEPT !.step = "status", !.stale = FALSE]
      BY <2>2 DEF RemoveFinalizer, Outdate
    <3>2. QED
      BY <3>1 DEF SharesInv, TypeInv, TypeOK, Request
  <2>3. CASE PatchGone(c) \/ PatchRefused(c)
    <3>1. req' = Advance(c, "status")
      BY <2>3 DEF PatchGone, PatchRefused
    <3>2. QED
      BY <3>1, AdvanceEffect DEF SharesInv
  <2>4. CASE WriteFails(c)
    <3>1. req'[c] = IF req[c].step = "status" THEN Idle
                                              ELSE [req[c] EXCEPT !.step = "status"]
      BY <2>4 DEF WriteFails, SharesInv, TypeInv, TypeOK
    <3>2. QED
      BY <3>1 DEF Idle, SharesInv, TypeInv, TypeOK, Request
  <2>5. CASE UpdateStatus(c)
    <3>1. req'[c] = Idle
      BY <2>5 DEF UpdateStatus, Outdate, SharesInv, TypeInv, TypeOK
    <3>2. QED
      BY <3>1 DEF Idle
  <2>6. CASE UpdateConflict(c)
    <3>1. req'[c] = Idle
      BY <2>6 DEF UpdateConflict, SharesInv, TypeInv, TypeOK
    <3>2. QED
      BY <3>1 DEF Idle
  <2>7. QED
    BY <2>1, <2>2, <2>3, <2>4, <2>5, <2>6
<1>3. Shares(c)
  BY DEF SharesInv
<1>4. QED
  BY <1>1, <1>2, <1>3, ResumeShares

\* The deployment of a zone registers it in the index first, and needs an
\* active namespace.
LEMMA DeployShares ==
    ASSUME SharesInv, NEW c \in Controllers,
           \/ Prepare(c) \/ PrepareFails(c) \/ AccessFails(c)
           \/ ApplyDataplane(c) \/ ApplyDataplaneFails(c)
           \/ ApplyRuntime(c) \/ ApplyRuntimeFails(c) \/ ApplyRuntimeRefused(c)
           \/ NotModifiable(c)
    PROVE  Shares(c)'
<1>1. Shares(c)
  BY DEF SharesInv
<1>2. PICK z \in Zones : z = req[c].zone
  BY DEF Prepare, PrepareFails, AccessFails, ApplyDataplane, ApplyDataplaneFails,
         ApplyRuntime, ApplyRuntimeFails, ApplyRuntimeRefused, NotModifiable,
         SharesInv, TypeInv, Requests, Sound, Wellformed
<1>3. CASE PrepareFails(c) \/ ApplyDataplaneFails(c) \/ ApplyRuntimeRefused(c)
  <2>1. req' = Advance(c, "status") /\ UNCHANGED <<rt, ns, index>>
    BY <1>3 DEF PrepareFails, ApplyDataplaneFails, ApplyRuntimeRefused, clusters
  <2>2. req'[c].step = "status"
    BY <2>1, AdvanceEffect DEF SharesInv
  <2>3. QED
    BY <1>1, <2>1, <2>2, ResumeShares
<1>4. CASE Prepare(c) \/ AccessFails(c)
  <2>1. PICK b : req'[c] = [req[c] EXCEPT !.step = "dataplane", !.repeat = b]
    BY <1>4 DEF Prepare, AccessFails, SharesInv, TypeInv, TypeOK
  <2>2. req'[c].step = "dataplane" /\ req'[c].zone = z
    BY <1>2, <2>1 DEF SharesInv, TypeInv, TypeOK, Request
  <2>3. rt' = rt
    BY <1>4 DEF Prepare, AccessFails
  <2>4. \A y : Deployed(c, y)' <=> Deployed(c, y)
    BY <2>3 DEF Deployed
  <2>5. /\ ~LocalMode => index'[c] = index[c] \cup {z}
        /\ ns'[c] = ns[c] \/ (~LocalMode /\ ns'[c] = "active")
    <3>1. CASE Prepare(c)
      <4>1. /\ index' = [index EXCEPT ![c] = IF LocalMode THEN @ \ {z} ELSE @ \cup {z}]
            /\ ns' = [ns EXCEPT ![c] = IF ~LocalMode /\ @ = "none" THEN "active" ELSE @]
        BY <1>2, <3>1 DEF Prepare
      <4>2. QED
        BY <4>1 DEF SharesInv, TypeInv, TypeOK
    <3>2. CASE AccessFails(c)
      BY <1>2, <3>2 DEF AccessFails, SharesInv, TypeInv, TypeOK
    <3>3. QED
      BY <1>4, <3>1, <3>2
  <2>6. QED
    BY <1>1, <2>2, <2>4, <2>5 DEF Shares
<1>5. CASE ApplyDataplane(c)
  <2>1. UNCHANGED <<rt, ns, index>> /\ req[c].step = "dataplane"
    BY <1>5 DEF ApplyDataplane
  <2>2. PICK s \in {"status", "runtime"} : req' = Advance(c, s)
    BY <1>5 DEF ApplyDataplane
  <2>3. req'[c].step \in {"status", "runtime"} /\ req'[c].zone = z
    BY <1>2, <2>2, AdvanceEffect DEF SharesInv
  <2>4. \A y : Deployed(c, y)' <=> Deployed(c, y)
    BY <2>1 DEF Deployed
  <2>5. QED
    BY <1>1, <1>2, <2>1, <2>3, <2>4 DEF Shares
<1>6. CASE ApplyRuntime(c) \/ ApplyRuntimeFails(c) \/ NotModifiable(c)
  <2>1. /\ UNCHANGED <<ns, index>> /\ req[c].step = "runtime"
        /\ NamespaceUsable(c) /\ req' = Advance(c, "status")
    BY <1>6 DEF ApplyRuntime, ApplyRuntimeFails, NotModifiable
  <2>2. req'[c].step = "status"
    BY <2>1, AdvanceEffect DEF SharesInv
  <2>3. rt'[c] \subseteq rt[c] \cup RuntimeManifests(z)
    <3>1. CASE ApplyRuntime(c)
      BY <1>2, <3>1 DEF ApplyRuntime, Applied, SharesInv, TypeInv, TypeOK
    <3>2. CASE ApplyRuntimeFails(c)
      BY <1>2, <3>2 DEF ApplyRuntimeFails, Applied, SharesInv, TypeInv, TypeOK
    <3>3. CASE NotModifiable(c)
      BY <1>2, <3>3 DEF NotModifiable, SharesInv, TypeInv, TypeOK
    <3>4. QED
      BY <1>6, <3>1, <3>2, <3>3
  <2>4. \A y \in Zones : Deployed(c, y)' => y = z \/ Deployed(c, y)
    BY <2>3, ApplyEffect DEF Deployed
  <2>5. ~LocalMode => z \in index[c]
    BY <1>1, <1>2, <2>1 DEF Shares
  <2>6. ns'[c] # "terminating"
    BY <1>1, <2>1 DEF NamespaceUsable, Shares
  <2>7. QED
    BY <1>1, <2>1, <2>2, <2>4, <2>5, <2>6 DEF Shares
<1>7. QED
  BY <1>3, <1>4, <1>5, <1>6

\* The removal of a zone: the index entry goes when nothing is left, and the
\* namespace with the last entry.
LEMMA DeleteShares ==
    ASSUME SharesInv, NEW c \in Controllers,
           \/ DeleteResources(c) \/ DeleteResourcesPending(c) \/ DeleteResourcesFails(c)
           \/ Cleanup(c) \/ CleanupFails(c)
    PROVE  Shares(c)'
<1>1. Shares(c)
  BY DEF SharesInv
<1>2. PICK z \in Zones : z = req[c].zone
  BY DEF DeleteResources, DeleteResourcesPending, DeleteResourcesFails,
         Cleanup, CleanupFails,
         SharesInv, TypeInv, Requests, Sound, Wellformed
<1>3. CASE DeleteResources(c)
  <2>1. req' = Advance(c, "cleanup") /\ UNCHANGED ns
    BY <1>3 DEF DeleteResources
  <2>2. req'[c].step = "cleanup" /\ req'[c].zone = z
    BY <1>2, <2>1, AdvanceEffect DEF SharesInv
  <2>3. rt'[c] = rt[c] \ RuntimeManifests(z) /\ rt[c] \in SUBSET Manifest
    BY <1>2, <1>3 DEF DeleteResources, SharesInv, TypeInv, TypeOK
  <2>4. \A m \in rt'[c] : m.name # z
    BY <2>3, DeleteEffect
  <2>5. ~Deployed(c, req[c].zone)'
    BY <2>2, <2>4 DEF Deployed
  <2>6. \A y : Deployed(c, y)' => Deployed(c, y)
    BY <2>3 DEF Deployed
  <2>7. ~LocalMode => index'[c] = index[c] \cup {z}
    BY <1>2, <1>3 DEF DeleteResources, SharesInv, TypeInv, TypeOK
  <2>8. QED
    BY <1>1, <2>1, <2>2, <2>5, <2>6, <2>7 DEF Shares
<1>4. CASE DeleteResourcesPending(c) \/ DeleteResourcesFails(c)
  <2>1. req' = Advance(c, "status") /\ UNCHANGED ns
    BY <1>4 DEF DeleteResourcesPending, DeleteResourcesFails
  <2>2. req'[c].step = "status"
    BY <2>1, AdvanceEffect DEF SharesInv
  <2>3. rt'[c] \subseteq rt[c]
    <3>1. PICK ms : rt' = [rt EXCEPT ![c] = @ \ ms]
      BY <1>4 DEF DeleteResourcesPending, DeleteResourcesFails
    <3>2. QED
      BY <3>1 DEF SharesInv, TypeInv, TypeOK
  <2>4. \A y : Deployed(c, y)' => Deployed(c, y)
    BY <2>3 DEF Deployed
  <2>5. ~LocalMode => index'[c] = index[c] \cup {z}
    BY <1>2, <1>4 DEF DeleteResourcesPending, DeleteResourcesFails, SharesInv, TypeInv, TypeOK
  <2>6. QED
    BY <1>1, <2>1, <2>2, <2>4, <2>5 DEF Shares
<1>5. CASE Cleanup(c) \/ CleanupFails(c)
  <2>1. UNCHANGED rt /\ \A y : Deployed(c, y)' <=> Deployed(c, y)
    BY <1>5 DEF Cleanup, CleanupFails, Deployed
  <2>2. ~Deployed(c, z)
    BY <1>1, <1>2, <1>5 DEF Cleanup, CleanupFails, Shares
  <2>3. index'[c] = index[c] \ {z}
    BY <1>2, <1>5 DEF Cleanup, CleanupFails, SharesInv, TypeInv, TypeOK
  <2>4. ns'[c] = ns[c] \/ (~LocalMode /\ index[c] \subseteq {z} /\ ns'[c] = "terminating")
    <3>1. CASE Cleanup(c)
      <4>1. PICK last \in BOOLEAN :
              /\ last <=> ~LocalMode /\ index[c] \subseteq {z}
              /\ ns' = [ns EXCEPT ![c] = IF last /\ ~FixedNamespace /\ @ = "active"
                                         THEN "terminating" ELSE @]
        BY <1>2, <3>1 DEF Cleanup
      <4>2. QED
        BY <4>1 DEF SharesInv, TypeInv, TypeOK
    <3>2. CASE CleanupFails(c)
      BY <3>2 DEF CleanupFails
    <3>3. QED
      BY <1>5, <3>1, <3>2
  <2>5. req'[c].step \in {"idle", "unfinalize", "status"}
    <3>1. CASE CleanupFails(c)
      <4>1. req' = Advance(c, "status")
        BY <3>1 DEF CleanupFails
      <4>2. QED
        BY <4>1, AdvanceEffect DEF SharesInv
    <3>2. CASE Cleanup(c)
      <4>1. req'[c] = Idle \/ req'[c] = [req[c] EXCEPT !.step = "unfinalize"]
        BY <3>2 DEF Cleanup, AfterCleanup, SharesInv, TypeInv, TypeOK
      <4>2. QED
        BY <4>1 DEF Idle, SharesInv, TypeInv, TypeOK, Request
    <3>3. QED
      BY <1>5, <3>1, <3>2
  <2>6. \A y \in Zones : Deployed(c, y)' /\ ~LocalMode => y \in index'[c]
    BY <1>1, <2>1, <2>2, <2>3 DEF Shares
  <2>7. ns'[c] = "terminating" => \A y \in Zones : ~Deployed(c, y)'
    BY <1>1, <2>1, <2>2, <2>4 DEF Shares
  <2>8. QED
    BY <1>1, <2>4, <2>5, <2>6, <2>7 DEF Shares
<1>6. QED
  BY <1>3, <1>4, <1>5

\* The clusters, and the periodic repetition.
LEMMA ClusterShares ==
    ASSUME SharesInv, Cluster \/ \E c \in Controllers, z \in Zones : Repeat(c, z),
           NEW d \in Controllers
    PROVE  Shares(d)'
<1>1. Shares(d)
  BY DEF SharesInv
<1>2. CASE UNCHANGED <<rt, ns, index, req>>
  BY <1>1, <1>2, UntouchedShares DEF Untouched
<1>3. CASE \E c \in Controllers : NamespaceEmptied(c) \/ NamespaceGone(c)
  <2>1. UNCHANGED <<index, req>>
    BY <1>3 DEF NamespaceEmptied, NamespaceGone
  <2>2. \/ rt'[d] = rt[d] /\ ns'[d] = ns[d]
        \/ rt'[d] = {} /\ ns'[d] \in {ns[d], "none"}
    BY <1>3 DEF NamespaceEmptied, NamespaceGone, SharesInv, TypeInv, TypeOK
  <2>3. CASE rt'[d] = rt[d] /\ ns'[d] = ns[d]
    BY <1>1, <2>1, <2>3, UntouchedShares DEF Untouched
  <2>4. CASE rt'[d] = {} /\ ns'[d] \in {ns[d], "none"}
    <3>1. \A y : ~Deployed(d, y)'
      BY <2>4 DEF Deployed
    <3>2. ~Deployed(d, req[d].zone)'
      BY <2>4 DEF Deployed
    <3>3. QED
      BY <1>1, <2>1, <2>4, <3>1, <3>2 DEF Shares
  <2>5. QED
    BY <2>2, <2>3, <2>4
<1>4. QED
  BY <1>2, <1>3
  DEF Cluster, TokenIssued, TokenRevoked, ServiceGone, LoadBalancerReady, Repeat, clusters

\* Every step preserves the invariant on the users of the generated namespace.
LEMMA NextShares ==
    ASSUME MaxCrashes = 0, SharesInv, [Next]_vars
    PROVE  SharesInv'
<1>1. TypeInv'
  BY NextType DEF SharesInv
<1>2. ASSUME NEW c \in Controllers, Work(c) PROVE Shares(c)'
  BY <1>2, FinalizerShares, DeployShares, DeleteShares DEF Work
<1>3. ASSUME NEW c \in Controllers, NEW z \in Zones, Start(c, z) \/ LookupFails(c, z)
      PROVE  Shares(c)'
  <2>1. UNCHANGED <<rt, ns, index>>
    BY <1>3 DEF Start, LookupFails, clusters
  <2>2. req'[c].step \in {"status", "delete", "patch", "prepare"}
    BY <1>3, StartStep DEF SharesInv
  <2>3. QED
    BY <2>1, <2>2, ResumeShares DEF SharesInv
<1>4. ~\E c \in Controllers : Crash(c)
  BY DEF Crash, SharesInv, TypeInv, TypeOK
<1>5. CASE UNCHANGED vars \/ User
  <2>1. \A d \in Controllers : Untouched(d)
    BY <1>5, UserShares DEF vars, Untouched
  <2>2. QED
    BY <1>1, <2>1, UntouchedShares DEF SharesInv
<1>6. CASE Cluster \/ \E c \in Controllers, z \in Zones : Repeat(c, z)
  BY <1>1, <1>6, ClusterShares DEF SharesInv
<1>7. CASE \E c \in Controllers : Work(c) \/ \E z \in Zones : Start(c, z) \/ LookupFails(c, z)
  <2>1. PICK c \in Controllers : Work(c) \/ \E z \in Zones : Start(c, z) \/ LookupFails(c, z)
    BY <1>7
  <2>2. \A d \in Controllers \ {c} : Shares(d)'
    BY <2>1, OthersUntouched, UntouchedShares DEF SharesInv
  <2>3. Shares(c)'
    BY <1>2, <1>3, <2>1
  <2>4. QED
    BY <1>1, <2>2, <2>3 DEF SharesInv
<1>8. QED
  BY <1>4, <1>5, <1>6, <1>7 DEF Next

(***************************************************************************)
(* No generated namespace is deleted under a running server, as long as    *)
(* the index of the users of the shared secret is complete, that is, as    *)
(* long as no instance restarts (AccessValues, Prepare and Cleanup).       *)
(***************************************************************************)
THEOREM NamespaceKept ==
    ASSUME MaxCrashes = 0
    PROVE  Spec => []NamespaceUnused
<1>1. Init => SharesInv
  BY InitType DEF Init, SharesInv, Shares, Deployed, Idle
<1>2. SharesInv /\ [Next]_vars => SharesInv'
  BY NextShares
<1>3. SharesInv => NamespaceUnused
  BY DEF SharesInv, Shares, NamespaceUnused
<1>4. QED
  BY <1>1, <1>2, <1>3, PTL DEF Spec

-----------------------------------------------------------------------------
(***************************************************************************)
(* A lone instance of the operator implements the protocol of finalizers,  *)
(* module Protection, for any set of zones, in every mode, with any number *)
(* of changes by users, failing calls and restarts.                        *)
(***************************************************************************)
\* Something is deployed for zone z.
Held(z) == \E c \in Controllers : Deployed(c, z)

\* Steps of the protocol that change an object and need nothing else.
Free == {<<"absent", "free">>, <<"free", "absent">>, <<"free", "guarded">>,
         <<"guarded", "ending">>}

\* Steps that need everything to be deleted.
Releasing == {<<"guarded", "free">>, <<"ending", "absent">>}

\* A step that leaves the objects as they are and deploys nothing.
LEMMA LosingStep ==
    ASSUME \A z \in Zones : Phase(objs[z])' = Phase(objs[z]),
           \A z \in Zones : Held(z)' => Held(z)
    PROVE  P!Next
<1>1. P!Lose
  BY DEF P!Lose, Held
<1>2. QED
  BY <1>1 DEF P!Next

\* A step that deploys for one zone, whose object has the finalizer.
LEMMA TakingStep ==
    ASSUME NEW z \in Zones, \A y \in Zones : Phase(objs[y])' = Phase(objs[y]),
           Phase(objs[z]) \in {"guarded", "ending"},
           \A y \in Zones \ {z} : Held(y)' <=> Held(y)
    PROVE  P!Next
<1>1. CASE ~Held(z)' \/ Held(z)
  <2>1. \A y \in Zones : Held(y)' => Held(y)
    BY <1>1
  <2>2. QED
    BY <2>1, LosingStep
<1>2. CASE Held(z)' /\ ~Held(z)
  <2>1. P!Take(z)
    BY <1>2 DEF P!Take, Held
  <2>2. QED
    BY <2>1 DEF P!Next
<1>3. QED
  BY <1>1, <1>2

\* A write of one object.
LEMMA WritingStep ==
    ASSUME NEW z \in Zones, objs \in [Zones -> HostedZone \cup {Absent}],
           NEW o, objs' = [objs EXCEPT ![z] = o], rt' = rt,
           \/ Phase(o) = Phase(objs[z])
           \/ <<Phase(objs[z]), Phase(o)>> \in Free
           \/ <<Phase(objs[z]), Phase(o)>> \in Releasing /\ ~Held(z)
    PROVE  P!Next
<1>1. \A y \in Zones : Held(y)' <=> Held(y)
  BY DEF Held, Deployed
<1>2. /\ [y \in Zones |-> Phase(objs[y])]'
           = [[y \in Zones |-> Phase(objs[y])] EXCEPT ![z] = Phase(o)]
      /\ {y \in Zones : \E c \in Controllers : Deployed(c, y)}'
           = {y \in Zones : \E c \in Controllers : Deployed(c, y)}
  BY <1>1 DEF Held
<1>3. CASE Phase(o) = Phase(objs[z])
  <2>1. \A y \in Zones : Phase(objs[y])' = Phase(objs[y])
    BY <1>3
  <2>2. QED
    BY <1>1, <2>1, LosingStep
<1>4. CASE <<Phase(objs[z]), Phase(o)>> \in Free
  <2>1. P!Create(z) \/ P!Vanish(z) \/ P!Protect(z) \/ P!Delete(z)
    BY <1>2, <1>4 DEF Free, P!Create, P!Vanish, P!Protect, P!Delete, P!Becomes
  <2>2. QED
    BY <2>1 DEF P!Next
<1>5. CASE <<Phase(objs[z]), Phase(o)>> \in Releasing /\ ~Held(z)
  <2>1. P!Release(z)
    BY <1>2, <1>5 DEF Releasing, Held, P!Release, P!Becomes
  <2>2. QED
    BY <2>1 DEF P!Next
<1>6. QED
  BY <1>3, <1>4, <1>5

-----------------------------------------------------------------------------
\* Users.
LEMMA UserStep ==
    ASSUME GuardInv, User
    PROVE  P!Next
<1> USE DEF GuardInv, TypeInv, TypeOK
<1>1. ASSUME NEW z \in Zones, NEW s \in Specs, CreateZone(z, s) PROVE P!Next
  <2>1. /\ objs' = [objs EXCEPT ![z] = NewZone(s)] /\ rt' = rt
        /\ Phase(objs[z]) = "absent"
    BY <1>1 DEF CreateZone, Edit, clusters, Phase
  <2>2. NewZone(s) \in HostedZone /\ Phase(NewZone(s)) = "free"
    <3>1. NewZone(s) \in HostedZone
      BY DEF NewZone, HostedZone, Status, Conditions
    <3>2. ~NewZone(s).deleting /\ NewZone(s).fin = {}
      BY DEF NewZone
    <3>3. QED
      BY <3>1, <3>2, NamesAssumption DEF Phase
  <2>3. QED
    BY <2>1, <2>2, WritingStep DEF Free
<1>2. ASSUME NEW z \in Zones, NEW s \in Specs, UpdateZone(z, s) PROVE P!Next
  <2> DEFINE o == [objs[z] EXCEPT !.spec = s]
  <2>1. objs' = [objs EXCEPT ![z] = o] /\ rt' = rt /\ objs[z] \in HostedZone
    BY <1>2 DEF UpdateZone, Edit, clusters
  <2>2. o \in HostedZone /\ o.fin = objs[z].fin /\ o.deleting = objs[z].deleting
    BY <2>1 DEF HostedZone
  <2>3. Phase(o) = Phase(objs[z])
    BY <2>1, <2>2, NamesAssumption DEF Phase
  <2> HIDE DEF o
  <2>4. QED
    BY <2>1, <2>3, WritingStep
<1>3. ASSUME NEW z \in Zones, DeleteZone(z) PROVE P!Next
  <2> DEFINE o == [objs[z] EXCEPT !.deleting = TRUE]
  <2>1. /\ objs' = [objs EXCEPT ![z] = IF objs[z].fin = {} THEN Absent ELSE o]
        /\ rt' = rt /\ objs[z] \in HostedZone /\ objs[z] # Absent /\ ~objs[z].deleting
    BY <1>3 DEF DeleteZone, Edit, clusters
  <2>2. o \in HostedZone /\ o.deleting
    BY <2>1 DEF HostedZone
  <2>3. Phase(o) = "ending"
    BY <2>2, NamesAssumption DEF Phase
  <2> HIDE DEF o
  <2>4. CASE objs[z].fin = {}
    <3>1. Phase(objs[z]) = "free" /\ Phase(Absent) = "absent"
      BY <2>1, <2>4 DEF Phase
    <3>2. QED
      BY <2>1, <2>4, <3>1, WritingStep DEF Free
  <2>5. CASE objs[z].fin # {}
    <3>1. Phase(objs[z]) = "guarded"
      BY <2>1, <2>5 DEF Phase
    <3>2. QED
      BY <2>1, <2>3, <2>5, <3>1, WritingStep DEF Free
  <2>6. QED
    BY <2>4, <2>5
<1>4. QED
  BY <1>1, <1>2, <1>3 DEF User

\* The finalizer patches.
LEMMA PatchStep ==
    ASSUME Alone, GuardInv, NEW c \in Controllers,
           PatchFinalizer(c) \/ RemoveFinalizer(c)
    PROVE  P!Next
<1> DEFINE z == req[c].zone
<1>1. req[c].step \in {"patch", "unfinalize"} /\ rt' = rt
  BY DEF PatchFinalizer, RemoveFinalizer, clusters
<1>2. z \in Zones /\ req[c].obj \in HostedZone
  BY <1>1 DEF GuardInv, TypeInv, Requests, Sound, Wellformed, Request
<1>3. objs[z] \in HostedZone /\ objs[z] # Absent
  BY <1>2 DEF PatchFinalizer, RemoveFinalizer, Accepts, GuardInv, TypeInv, TypeOK
<1>4. objs \in [Zones -> HostedZone \cup {Absent}]
  BY DEF GuardInv, TypeInv, TypeOK
<1>5. ASSUME NEW fin \in SUBSET Controllers
      PROVE  /\ [objs[z] EXCEPT !.fin = fin] # Absent
             /\ [objs[z] EXCEPT !.fin = fin].fin = fin
             /\ [objs[z] EXCEPT !.fin = fin].deleting = objs[z].deleting
  <2>1. /\ [objs[z] EXCEPT !.fin = fin] \in HostedZone
        /\ [objs[z] EXCEPT !.fin = fin].fin = fin
        /\ [objs[z] EXCEPT !.fin = fin].deleting = objs[z].deleting
    BY <1>3 DEF HostedZone
  <2>2. QED
    BY <2>1, NamesAssumption
<1>6. req[c].obj.fin \in SUBSET Controllers
  BY <1>2 DEF HostedZone
<1>7. CASE PatchFinalizer(c)
  <2> DEFINE fin == req[c].obj.fin \cup {c}
             o   == [objs[z] EXCEPT !.fin = fin]
  <2>1. objs' = [objs EXCEPT ![z] = o] /\ (objs[z].deleting => fin \subseteq objs[z].fin)
    BY <1>7 DEF PatchFinalizer, Accepts
  <2>2. o # Absent /\ o.fin # {} /\ o.deleting = objs[z].deleting
    <3>1. fin \in SUBSET Controllers
      BY <1>6
    <3>2. o # Absent /\ o.fin = fin /\ o.deleting = objs[z].deleting
      BY <1>5, <3>1
    <3>3. QED
      BY <3>2
  <2> HIDE DEF o
  <2>3. Phase(o) = Phase(objs[z]) \/ <<Phase(objs[z]), Phase(o)>> \in Free
    BY <1>3, <2>2 DEF Phase, Free
  <2>4. QED
    BY <1>1, <1>2, <1>4, <2>1, <2>3, WritingStep
<1>8. CASE RemoveFinalizer(c)
  <2> DEFINE fin == req[c].obj.fin \ {c}
             o   == IF objs[z].deleting THEN Absent ELSE [objs[z] EXCEPT !.fin = {}]
  <2>1. fin = {}
    BY <1>6 DEF Alone
  <2>2. objs' = [objs EXCEPT ![z] = o]
    BY <1>8, <2>1 DEF RemoveFinalizer
  <2>3. ~Held(z)
    BY <1>2, <1>8 DEF RemoveFinalizer, GuardInv, Guard, Alone, Held
  <2>4. /\ objs[z].deleting => o = Absent
        /\ ~objs[z].deleting => o # Absent /\ ~o.deleting /\ o.fin = {}
    BY <1>5
  <2> HIDE DEF o
  <2>5. \/ Phase(o) = Phase(objs[z])
        \/ <<Phase(objs[z]), Phase(o)>> \in Releasing
    BY <1>3, <2>4 DEF Phase, Releasing
  <2>6. QED
    BY <1>1, <1>2, <1>4, <2>2, <2>3, <2>5, WritingStep
<1>9. QED
  BY <1>7, <1>8

\* The deployment: with the finalizer on the object.
LEMMA DeployStep ==
    ASSUME Alone, GuardInv, NEW c \in Controllers,
           ApplyRuntime(c) \/ ApplyRuntimeFails(c) \/ NotModifiable(c)
    PROVE  P!Next
<1> DEFINE z == req[c].zone
<1>1. req[c].step = "runtime" /\ objs' = objs
  BY DEF ApplyRuntime, ApplyRuntimeFails, NotModifiable
<1>2. z \in Zones /\ Holds(c, z)
  BY <1>1 DEF GuardInv, Guard, TypeInv, Requests, Sound, Wellformed
<1>3. Phase(objs[z]) \in {"guarded", "ending"}
  BY <1>2 DEF Holds, Phase
<1>4. /\ rt'[c] \subseteq rt[c] \cup RuntimeManifests(z)
      /\ rt[c] \ RuntimeManifests(z) \subseteq rt'[c]
  BY DEF ApplyRuntime, ApplyRuntimeFails, NotModifiable, Applied, RuntimeManifests, Service,
         GuardInv, TypeInv, TypeOK
<1>5. ASSUME NEW y \in Zones \ {z} PROVE Deployed(c, y)' <=> Deployed(c, y)
  <2>1. \A m \in RuntimeManifests(z) : m.name # y
    BY OperatorAssumption DEF RuntimeManifests, Service
  <2>2. QED
    BY <1>4, <2>1 DEF Deployed
<1>6. \A y \in Zones \ {z} : Held(y)' <=> Held(y)
  BY <1>5 DEF Held, Alone
<1>7. QED
  BY <1>1, <1>2, <1>3, <1>6, TakingStep

\* Steps that write no object and at most take something away.
LEMMA QuietStep ==
    ASSUME objs' = objs, \A c \in Controllers : rt'[c] \subseteq rt[c]
    PROVE  P!Next
<1>1. \A z \in Zones : Held(z)' => Held(z)
  BY DEF Held, Deployed
<1>2. QED
  BY <1>1, LosingStep

\* The end of a request.
LEMMA StatusStep ==
    ASSUME GuardInv, NEW c \in Controllers, UpdateStatus(c)
    PROVE  P!Next
<1> DEFINE z == req[c].zone
           o == [objs[z] EXCEPT !.status = req[c].obj.status]
<1>1. rt' = rt
  BY DEF UpdateStatus, clusters
<1>2. CASE ~req[c].dirty
  BY <1>1, <1>2, QuietStep DEF UpdateStatus
<1>3. CASE req[c].dirty
  <2>1. z \in Zones /\ objs \in [Zones -> HostedZone \cup {Absent}]
    BY DEF UpdateStatus, GuardInv, TypeInv, TypeOK, Requests, Sound, Wellformed
  <2>2. objs[z] \in HostedZone /\ objs' = [objs EXCEPT ![z] = o]
    BY <1>3, <2>1 DEF UpdateStatus
  <2>3. req[c].obj.status \in Status
    BY <1>3 DEF GuardInv, TypeInv, Requests, Sound, Wellformed, Request, HostedZone
  <2>4. o \in HostedZone /\ o.fin = objs[z].fin /\ o.deleting = objs[z].deleting
    BY <2>2, <2>3 DEF HostedZone
  <2> HIDE DEF o
  <2>5. Phase(o) = Phase(objs[z])
    BY <2>2, <2>4, NamesAssumption DEF Phase
  <2>6. QED
    BY <1>1, <2>1, <2>2, <2>5, WritingStep
<1>4. QED
  BY <1>2, <1>3

\* Every step of an open request.
LEMMA WorkStep ==
    ASSUME Alone, GuardInv, NEW c \in Controllers, Work(c)
    PROVE  P!Next
<1>1. CASE PatchFinalizer(c) \/ RemoveFinalizer(c)
  BY <1>1, PatchStep
<1>2. CASE ApplyRuntime(c) \/ ApplyRuntimeFails(c) \/ NotModifiable(c)
  BY <1>2, DeployStep
<1>3. CASE UpdateStatus(c)
  BY <1>3, StatusStep
<1>4. CASE DeleteResources(c) \/ DeleteResourcesPending(c) \/ DeleteResourcesFails(c)
  <2>1. objs' = objs /\ \E ms : rt' = [rt EXCEPT ![c] = @ \ ms]
    BY <1>4 DEF DeleteResources, DeleteResourcesPending, DeleteResourcesFails
  <2>2. \A d \in Controllers : rt'[d] \subseteq rt[d]
    BY <2>1 DEF GuardInv, TypeInv, TypeOK
  <2>3. QED
    BY <2>1, <2>2, QuietStep
<1>5. CASE \/ PatchGone(c) \/ PatchRefused(c) \/ Prepare(c) \/ PrepareFails(c)
           \/ AccessFails(c) \/ ApplyDataplane(c) \/ ApplyDataplaneFails(c)
           \/ ApplyRuntimeRefused(c) \/ Cleanup(c) \/ CleanupFails(c)
           \/ UpdateConflict(c) \/ WriteFails(c)
  <2>1. objs' = objs /\ rt' = rt
    BY <1>5 DEF PatchGone, PatchRefused, Prepare, PrepareFails, AccessFails,
                ApplyDataplane, ApplyDataplaneFails, ApplyRuntimeRefused, Cleanup,
                CleanupFails, UpdateConflict, WriteFails, clusters
  <2>2. QED
    BY <2>1, QuietStep
<1>6. QED
  BY <1>1, <1>2, <1>3, <1>4, <1>5 DEF Work

\* Every step of the operator and of what surrounds it.
LEMMA ProtocolStep ==
    ASSUME Alone, GuardInv, [Next]_vars
    PROVE  P!Next
<1>1. CASE User
  BY <1>1, UserStep
<1>2. ASSUME NEW c \in Controllers, Work(c) PROVE P!Next
  BY <1>2, WorkStep
<1>3. ASSUME NEW c \in Controllers, NamespaceEmptied(c) PROVE P!Next
  <2>1. objs' = objs /\ \A d \in Controllers : rt'[d] \subseteq rt[d]
    BY <1>3 DEF NamespaceEmptied, GuardInv, TypeInv, TypeOK
  <2>2. QED
    BY <2>1, QuietStep
<1>4. CASE \/ \E c \in Controllers, z \in Zones :
                 \/ Start(c, z) \/ LookupFails(c, z) \/ Repeat(c, z)
                 \/ ServiceGone(c, z) \/ LoadBalancerReady(c, z)
           \/ \E c \in Controllers : Crash(c) \/ NamespaceGone(c)
           \/ TokenIssued \/ TokenRevoked
           \/ UNCHANGED vars
  <2>1. objs' = objs /\ rt' = rt
    BY <1>4 DEF Start, LookupFails, Repeat, ServiceGone, LoadBalancerReady, Crash,
                NamespaceGone, TokenIssued, TokenRevoked, clusters, vars
  <2>2. QED
    BY <2>1, QuietStep
<1>5. QED
  BY <1>1, <1>2, <1>3, <1>4 DEF Next, Cluster

-----------------------------------------------------------------------------
(***************************************************************************)
(* The finalizer comes before the first object deployed and goes after the *)
(* last one: a lone instance of the operator implements Protection.        *)
(***************************************************************************)
THEOREM OperatorProtects ==
    ASSUME Alone
    PROVE  Spec => FinalizerProtocol
<1>1. Init => GuardInv
  BY InitType DEF Init, GuardInv, Guard, ResourcesGuarded, Deployed, Idle
<1>2. GuardInv /\ [Next]_vars => GuardInv'
  BY NextGuard
<1>3. Init => P!Init
  BY DEF Init, P!Init, Phase, Deployed
<1>4. GuardInv /\ [Next]_vars => P!Next
  BY ProtocolStep
<1>5. QED
  BY <1>1, <1>2, <1>3, <1>4, PTL DEF Spec, FinalizerProtocol, P!Spec
=============================================================================
