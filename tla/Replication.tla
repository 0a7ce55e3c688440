---------------------------- MODULE Replication ----------------------------
(***************************************************************************)
(* The controllers of group "replication" (replicate): they copy zones and *)
(* entries of a source cluster into a target cluster, bring the status of  *)
(* the copies back, and take the copies away again.                        *)
(*                                                                         *)
(* Zones and entries have a controller each, with the same generic logic   *)
(* and one worker.  A reconcile request makes its calls to the clusters    *)
(* one after the other, so users, the controllers of the target cluster    *)
(* and a restart may come in between.  Objects that are copies themselves  *)
(* (with the replication annotation) are left alone and not modelled.      *)
(***************************************************************************)
EXTENDS Responsibility

CONSTANTS
    Entries,        \* names of CoreDNSEntry objects
    OwnClass,       \* option --class of the program
    TargetClass,    \* option --target-class, nil if not given
    MaxEdits,       \* bound on changes by users, of source or target
    MaxFailures,    \* bound on failing calls to a cluster
    MaxCrashes      \* bound on restarts

Objects == Zones \cup Entries

Kinds == {"zone", "entry"}

Kind(x) == IF x \in Zones THEN "zone" ELSE "entry"

States == {"none", "ready", "problem"}

\* An object of the source.  The parent of an entry is its zone; "ok" stands
\* for the rest of the spec, which is copied as it is.
Object == [spec : Specs, deleting : BOOLEAN, fin : BOOLEAN, state : States]

\* Its replica; held by the finalizers of the target's own controllers.
Replica == [spec : Specs, deleting : BOOLEAN, held : BOOLEAN, state : States]

ASSUME ReplicationAssumption ==
    /\ Zones \cap Entries = {} /\ NoZone \notin Entries
    /\ {OwnClass, TargetClass} \subseteq Names \cup {nil}
    /\ Absent \notin Object /\ Absent \notin Replica
    /\ MaxEdits \in Nat /\ MaxFailures \in Nat /\ MaxCrashes \in Nat

VARIABLES
    src,            \* the objects in the source cluster
    tgt,            \* their replicas in the target cluster
    queue,          \* objects waiting for a reconcile request
    req,            \* per controller: the request in progress
    unresponsible,  \* the zone handler's map, which holds the responsible ones
    lost,           \* objects whose last update did not reach the replica
    used            \* how much of each bound has been consumed

vars == <<src, tgt, queue, req, unresponsible, lost, used>>

Steps == {"idle", "patch", "replicate", "release", "unfinalize", "status"}

Request == [step  : Steps,
            obj   : Objects \cup {NoZone},   \* the key
            read  : Object \cup {Absent},    \* r.Object, as changed so far
            was   : States,    \* the status as read
            stale : BOOLEAN]   \* the object was written by somebody else

Idle == [step |-> "idle", obj |-> NoZone, read |-> Absent,
         was |-> "none", stale |-> FALSE]

NewRequest(x, s, o) ==
    [step |-> s, obj |-> x, read |-> o, was |-> src[x].state, stale |-> FALSE]

Advance(k, s) == [req EXCEPT ![k].step = s]

\* A write of x by somebody else makes an open read old.
Outdate(x) ==
    [k \in Kinds |-> IF req[k].obj = x THEN [req[k] EXCEPT !.stale = TRUE] ELSE req[k]]

Living(x) == src[x] # Absent /\ ~src[x].deleting

\* The request is repeated after a temporary problem.
Requeue(k) == queue \cup {req[k].obj}

\* Children and entries of a zone, as the indices find them.
Dependents(x) == {y \in Objects : src[y] # Absent /\ src[y].spec.parent = x}

Failure ==
    /\ used.failures < MaxFailures
    /\ used' = [used EXCEPT !.failures = @ + 1]

-----------------------------------------------------------------------------
Init ==
    /\ src = [x \in Objects |-> Absent]
    /\ tgt = [x \in Objects |-> Absent]
    /\ queue = {}
    /\ req = [k \in Kinds |-> Idle]
    /\ unresponsible = [z \in Zones |-> nil]
    /\ lost = {}
    /\ used = [edits |-> 0, failures |-> 0, crashes |-> 0]

-----------------------------------------------------------------------------
(* Users. *)

UserEdit ==
    /\ used.edits < MaxEdits
    /\ used' = [used EXCEPT !.edits = @ + 1]

Edit(x, o) ==
    /\ UserEdit
    /\ src' = [src EXCEPT ![x] = o]
    /\ queue' = queue \cup {x}
    /\ req' = Outdate(x)
    /\ UNCHANGED <<tgt, unresponsible, lost>>

\* Runtimes do not matter here; of an entry only its zone does.
SpecsOf(x) ==
    {s \in Specs : Admitted(s) /\ s.runtime = nil /\ (x \in Entries => s.class = nil /\ s.ok)}

Create(x, s) ==
    /\ src[x] = Absent
    /\ Edit(x, [spec |-> s, deleting |-> FALSE, fin |-> FALSE, state |-> "none"])

Update(x, s) ==
    /\ src[x] # Absent
    /\ s # src[x].spec
    /\ AdmittedUpdate(src[x].spec, s)
    /\ Edit(x, [src[x] EXCEPT !.spec = s])

Delete(x) ==
    /\ Living(x)
    /\ Edit(x, IF src[x].fin THEN [src[x] EXCEPT !.deleting = TRUE] ELSE Absent)

-----------------------------------------------------------------------------
(* The start of a request: who is responsible? *)

(***************************************************************************)
(* Classes are compared as pointers, and the one of an object is never the *)
(* one of the options: they are equal only when neither is set.            *)
(***************************************************************************)
SameClass(class) == class = nil /\ OwnClass = nil

\* GetRootInfo for a zone, GetRootInfoForEntry for an entry.
RootInfo(x) ==
    IF x \in Zones THEN GetRootInfo(src, x)
    ELSE LET z == src[x].spec.parent IN
         IF z = NoZone \/ src[z] = Absent \/ src[z].deleting
         THEN [found |-> FALSE, root |-> NoZone]
         ELSE GetRootInfo(src, z)

\* A zone without a root is replicated anyway, an entry is not.
Responsible(x) ==
    IF RootInfo(x).found THEN SameClass(src[RootInfo(x).root].spec.class)
                         ELSE x \in Zones

\* The object as IsResponsible leaves it: configuration problems are reported.
Reported(x) ==
    IF RootInfo(x).found THEN src[x] ELSE [src[x] EXCEPT !.state = "problem"]

Reconcile_unprotected(x) ==
    NewRequest(x, IF ~Responsible(x) THEN "release" ELSE "replicate", Reported(x))

Reconcile(x) ==
    NewRequest(x, IF ~Responsible(x) THEN "release"
                  ELSE IF src[x].fin THEN "replicate" ELSE "patch", Reported(x))

StartDeleted_responsible(x) ==
    /\ req[Kind(x)].step = "idle"
    /\ x \in queue
    /\ ~Living(x)
    /\ queue' = queue \ {x}
    /\ req' = IF src[x] = Absent \/ ~Responsible(x) THEN req
              ELSE [req EXCEPT ![Kind(x)] = NewRequest(x, "release", src[x])]
    /\ UNCHANGED <<src, tgt, unresponsible, lost, used>>

\* ReconcileDeleting has the work of "release", ReconcileDeleted does nothing.
StartDeleted(x) ==
    /\ req[Kind(x)].step = "idle"
    /\ x \in queue
    /\ ~Living(x)
    /\ queue' = queue \ {x}
    /\ req' = IF src[x] = Absent THEN req
              ELSE [req EXCEPT ![Kind(x)] = NewRequest(x, "release", src[x])]
    /\ UNCHANGED <<src, tgt, unresponsible, lost, used>>

\* A zone whose responsibility changed triggers its children and entries.
Start(x) ==
    LET changed == x \in Zones /\ unresponsible[x] # Responsible(x) IN
    /\ req[Kind(x)].step = "idle"
    /\ x \in queue
    /\ Living(x)
    /\ req' = [req EXCEPT ![Kind(x)] = Reconcile(x)]
    /\ unresponsible' = IF changed THEN [unresponsible EXCEPT ![x] = Responsible(x)]
                                   ELSE unresponsible
    /\ queue' = (queue \ {x}) \cup (IF changed THEN Dependents(x) ELSE {})
    /\ UNCHANGED <<src, tgt, lost, used>>

\* A parent cannot be read: the request is repeated later.
LookupFails(x) ==
    /\ req[Kind(x)].step = "idle"
    /\ x \in queue
    /\ Living(x) /\ src[x].spec.parent # NoZone
    /\ Failure
    /\ UNCHANGED <<src, tgt, queue, req, unresponsible, lost>>

-----------------------------------------------------------------------------
(* The finalizer of the source object. *)

\* The answer to a patch replaces the object, with a status not yet written.
Patched(k, o, s) ==
    LET x == req[k].obj IN
    /\ src' = [src EXCEPT ![x] = o]
    /\ queue' = queue \cup {x}
    /\ req' = [req EXCEPT ![k] =
                 IF o = Absent THEN Idle
                 ELSE [step |-> s, obj |-> x, read |-> o, was |-> o.state, stale |-> FALSE]]
    /\ UNCHANGED <<tgt, unresponsible, lost, used>>

\* Without a finalizer the object, if it is still there, is not under deletion.
AddFinalizer(k) ==
    LET o == src[req[k].obj] IN
    /\ req[k].step = "patch"
    /\ o # Absent
    /\ Patched(k, [o EXCEPT !.fin = TRUE], "replicate")

\* The replica is gone.
RemoveFinalizer(k) ==
    LET o == src[req[k].obj] IN
    /\ req[k].step = "unfinalize"
    /\ o # Absent
    /\ Patched(k, IF o.deleting THEN Absent ELSE [o EXCEPT !.fin = FALSE], "status")

PatchGone(k) ==
    /\ req[k].step \in {"patch", "unfinalize"}
    /\ src[req[k].obj] = Absent
    /\ req' = Advance(k, "status")
    /\ UNCHANGED <<src, tgt, queue, unresponsible, lost, used>>

-----------------------------------------------------------------------------
(* Reconcile: create or update the replica. *)

TargetSpec_always(x, s) ==
    IF x \in Zones /\ s.parent = NoZone
    THEN [s EXCEPT !.class = String(TargetClass)] ELSE s

\* SetResponsibility: root zones get the class for the target.
TargetSpec(x, s) ==
    IF x \in Zones /\ s.parent = NoZone THEN [s EXCEPT !.class = TargetClass] ELSE s

CreateReplica(k) ==
    LET x == req[k].obj IN
    /\ req[k].step = "replicate"
    /\ tgt[x] = Absent
    /\ tgt' = [tgt EXCEPT ![x] = [spec |-> TargetSpec(x, req[k].read.spec),
                                  deleting |-> FALSE, held |-> FALSE, state |-> "none"]]
    /\ queue' = queue \cup {x}
    /\ req' = Advance(k, "status")
    /\ lost' = lost \ {x}
    /\ UNCHANGED <<src, unresponsible, used>>

\* A replica that is going has to be gone before it is created again.
AwaitReplica(k) ==
    /\ req[k].step = "replicate"
    /\ tgt[req[k].obj] # Absent /\ tgt[req[k].obj].deleting
    /\ req' = Advance(k, "status")
    /\ UNCHANGED <<src, tgt, queue, unresponsible, lost, used>>

UpdateReplica_specOnly(k) ==
    LET x    == req[k].obj
        spec == TargetSpec(x, req[k].read.spec)
    IN  /\ req[k].step = "replicate"
        /\ tgt[x] # Absent /\ ~tgt[x].deleting
        /\ tgt' = [tgt EXCEPT ![x].spec = spec]
        /\ queue' = IF tgt' # tgt THEN queue \cup {x} ELSE queue
        /\ req' = Advance(k, "status")
        /\ lost' = lost \ {x}
        /\ UNCHANGED <<src, unresponsible, used>>

\* The status comes back, and the replica is updated where it differs.
UpdateReplica(k) ==
    LET x    == req[k].obj
        spec == TargetSpec(x, req[k].read.spec)
    IN  /\ req[k].step = "replicate"
        /\ tgt[x] # Absent /\ ~tgt[x].deleting
        /\ tgt' = [tgt EXCEPT ![x].spec = spec]
        /\ queue' = IF tgt' # tgt THEN queue \cup {x} ELSE queue
        /\ req' = [req EXCEPT ![k] = [@ EXCEPT !.step = "status",
                                               !.read.state = tgt[x].state]]
        /\ lost' = lost \ {x}
        /\ UNCHANGED <<src, unresponsible, used>>

\* The error of the update is assigned to a variable of the inner block, and
\* the request ends as if all went well.
UpdateLost(k) ==
    LET x == req[k].obj IN
    /\ req[k].step = "replicate"
    /\ tgt[x] # Absent /\ ~tgt[x].deleting
    /\ Failure
    /\ req' = [req EXCEPT ![k] = [@ EXCEPT !.step = "status",
                                           !.read.state = tgt[x].state]]
    /\ lost' = lost \cup {x}
    /\ UNCHANGED <<src, tgt, queue, unresponsible>>

\* Any other call of Reconcile: a temporary problem.
ReplicateFails(k) ==
    /\ req[k].step = "replicate"
    /\ Failure
    /\ req' = Advance(k, "status")
    /\ queue' = Requeue(k)
    /\ UNCHANGED <<src, tgt, unresponsible, lost>>

-----------------------------------------------------------------------------
(* ReconcileDeleting: remove the replica, and then the finalizer. *)

\* The handler forgets the zone and triggers its children and entries.
HandlerDelete(x, q) ==
    /\ unresponsible' = IF x \in Zones THEN [unresponsible EXCEPT ![x] = nil]
                                       ELSE unresponsible
    /\ queue' = q \cup (IF x \in Zones THEN Dependents(x) ELSE {})

ReplicaGone(k) ==
    /\ req[k].step = "release"
    /\ tgt[req[k].obj] = Absent
    /\ req' = Advance(k, IF req[k].read.fin THEN "unfinalize" ELSE "status")
    /\ UNCHANGED <<src, tgt, queue, unresponsible, lost, used>>

DeleteReplica_early(k) ==
    LET x == req[k].obj IN
    /\ req[k].step = "release"
    /\ tgt[x] # Absent
    /\ tgt' = [tgt EXCEPT ![x] = IF @.held THEN [@ EXCEPT !.deleting = TRUE] ELSE Absent]
    /\ HandlerDelete(x, IF tgt' # tgt THEN queue \cup {x} ELSE queue)
    /\ req' = Advance(k, IF req[k].read.fin THEN "unfinalize" ELSE "status")
    /\ UNCHANGED <<src, lost, used>>

DeleteReplica(k) ==
    LET x == req[k].obj IN
    /\ req[k].step = "release"
    /\ tgt[x] # Absent
    /\ tgt' = [tgt EXCEPT ![x] = IF @.held THEN [@ EXCEPT !.deleting = TRUE] ELSE Absent]
    /\ HandlerDelete(x, IF tgt' # tgt THEN queue \cup {x} ELSE queue)
    /\ req' = Advance(k, "status")
    /\ UNCHANGED <<src, lost, used>>

\* The replica cannot be read, or not be deleted.
ReleaseFails(k) ==
    LET x == req[k].obj IN
    /\ req[k].step = "release"
    /\ Failure
    /\ \/ queue' = Requeue(k) /\ UNCHANGED unresponsible
       \/ tgt[x] # Absent /\ HandlerDelete(x, Requeue(k))
    /\ req' = Advance(k, "status")
    /\ UNCHANGED <<src, tgt, lost>>

-----------------------------------------------------------------------------
(* The end of a request. *)

Changed(r) == r.read # Absent /\ r.read.state # r.was

\* A changed status is written, guarded by the resource version.
UpdateStatus(k) ==
    LET r == req[k] IN
    /\ r.step = "status"
    /\ Changed(r) => src[r.obj] # Absent /\ ~r.stale
    /\ src' = IF Changed(r) THEN [src EXCEPT ![r.obj].state = r.read.state] ELSE src
    /\ queue' = IF Changed(r) THEN queue \cup {r.obj} ELSE queue
    /\ req' = [req EXCEPT ![k] = Idle]
    /\ UNCHANGED <<tgt, unresponsible, lost, used>>

UpdateConflict(k) ==
    LET r == req[k] IN
    /\ r.step = "status"
    /\ Changed(r) /\ (src[r.obj] = Absent \/ r.stale)
    /\ req' = [req EXCEPT ![k] = Idle]
    /\ queue' = Requeue(k)
    /\ UNCHANGED <<src, tgt, unresponsible, lost, used>>

\* A write to the source fails.
WriteFails(k) ==
    /\ req[k].step \in {"patch", "unfinalize", "status"}
    /\ req[k].step = "status" => Changed(req[k])
    /\ Failure
    /\ req' = [req EXCEPT ![k] = IF @.step = "status" THEN Idle
                                                      ELSE [@ EXCEPT !.step = "status"]]
    /\ queue' = Requeue(k)
    /\ UNCHANGED <<src, tgt, unresponsible, lost>>

\* A restarted program lists both clusters; the map starts empty.
Crash ==
    /\ used.crashes < MaxCrashes
    /\ used' = [used EXCEPT !.crashes = @ + 1]
    /\ req' = [k \in Kinds |-> Idle]
    /\ queue' = {x \in Objects : src[x] # Absent \/ tgt[x] # Absent}
    /\ unresponsible' = [z \in Zones |-> nil]
    /\ UNCHANGED <<src, tgt, lost>>

-----------------------------------------------------------------------------
(* The target cluster.  The owner trigger reports every change of a replica. *)

TargetChange(x, r) ==
    /\ tgt' = [tgt EXCEPT ![x] = r]
    /\ queue' = queue \cup {x}
    /\ UNCHANGED <<src, req, unresponsible, lost>>

\* A controller there takes responsibility and deploys.
TargetServes(x) ==
    /\ tgt[x] # Absent /\ ~tgt[x].deleting /\ ~tgt[x].held
    /\ TargetChange(x, [tgt[x] EXCEPT !.held = TRUE, !.state = "ready"])
    /\ UNCHANGED used

TargetReleases(x) ==
    /\ tgt[x] # Absent /\ tgt[x].deleting
    /\ TargetChange(x, Absent)
    /\ UNCHANGED used

\* Somebody deletes a replica.
TargetDelete(x) ==
    /\ tgt[x] # Absent /\ ~tgt[x].deleting
    /\ UserEdit
    /\ TargetChange(x, IF tgt[x].held THEN [tgt[x] EXCEPT !.deleting = TRUE] ELSE Absent)

-----------------------------------------------------------------------------
User ==
    \E x \in Objects : \/ \E s \in SpecsOf(x) : Create(x, s) \/ Update(x, s)
                       \/ Delete(x) \/ TargetDelete(x)

\* The next step of the request in progress.
Work(k) ==
    \/ AddFinalizer(k) \/ RemoveFinalizer(k) \/ PatchGone(k)
    \/ CreateReplica(k) \/ AwaitReplica(k) \/ UpdateReplica(k) \/ UpdateLost(k)
    \/ ReplicateFails(k)
    \/ ReplicaGone(k) \/ DeleteReplica(k) \/ ReleaseFails(k)
    \/ UpdateStatus(k) \/ UpdateConflict(k) \/ WriteFails(k)

Next ==
    \/ User
    \/ \E x \in Objects : Start(x) \/ StartDeleted(x) \/ LookupFails(x)
    \/ \E k \in Kinds : Work(k)
    \/ Crash
    \/ \E x \in Objects : TargetServes(x) \/ TargetReleases(x)

Spec == Init /\ [][Next]_vars

\* A queue is worked off in order, and the target's controllers run.
Fairness ==
    /\ \A k \in Kinds : WF_vars(Work(k))
    /\ \A x \in Objects : SF_vars(Start(x) \/ StartDeleted(x))
    /\ \A x \in Objects : WF_vars(TargetReleases(x))

FairSpec == Spec /\ Fairness

-----------------------------------------------------------------------------
(* Correctness. *)

TypeOK ==
    /\ src \in [Objects -> Object \cup {Absent}]
    /\ tgt \in [Objects -> Replica \cup {Absent}]
    /\ queue \in SUBSET Objects
    /\ req \in [Kinds -> Request]
    /\ unresponsible \in [Zones -> BOOLEAN \cup {nil}]
    /\ lost \in SUBSET Objects
    /\ used \in [edits : 0 .. MaxEdits, failures : 0 .. MaxFailures,
                 crashes : 0 .. MaxCrashes]

(***************************************************************************)
(* A replica never outlives its original: as long as there is one in the   *)
(* target, its original exists in the source and carries the finalizer.    *)
(***************************************************************************)
ReplicaGuarded ==
    \A x \in Objects : tgt[x] # Absent => src[x] # Absent /\ src[x].fin

\* The object of the source, as its finalizer matters.
Phase(o) ==
    IF o = Absent THEN "absent"
    ELSE IF o.deleting THEN "ending"
    ELSE IF o.fin THEN "guarded" ELSE "free"

P == INSTANCE Protection WITH
        Keys  <- Objects,
        phase <- [x \in Objects |-> Phase(src[x])],
        held  <- {x \in Objects : tgt[x] # Absent}

(***************************************************************************)
(* The replicas are held by the protocol of finalizers: each step of the   *)
(* controllers, of users or of the target cluster is a step of it or       *)
(* changes nothing in it.                                                  *)
(***************************************************************************)
FinalizerProtocol == P!Spec

Quiet == queue = {} /\ \A k \in Kinds : req[k] = Idle

(***************************************************************************)
(* When all work is done a root zone has a replica of its present content, *)
(* or an old one that is on its way out, exactly if its class asks for it, *)
(* and it shows the status of the replica.  (A zone whose last update got  *)
(* lost may have older content.)                                           *)
(***************************************************************************)
RootsSettled ==
    Quiet => \A z \in Zones :
        Living(z) /\ src[z].spec.parent = NoZone
        => IF SameClass(src[z].spec.class)
           THEN /\ tgt[z] # Absent
                /\ ~tgt[z].deleting =>
                      /\ src[z].state = tgt[z].state
                      /\ z \notin lost => tgt[z].spec = TargetSpec(z, src[z].spec)
           ELSE tgt[z] = Absent \/ tgt[z].deleting

\* A deletion in the source completes, once the target lets the replica go.
DeletionCompletes ==
    \A x \in Objects : []<>(src[x] = Absent \/ ~src[x].deleting)

=============================================================================
