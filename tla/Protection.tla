----------------------------- MODULE Protection -----------------------------
(***************************************************************************)
(* What a finalizer is for.  A controller holds something in another       *)
(* cluster for an object of the API (the deployment of a zone, the replica *)
(* of an object).  It puts its finalizer on the object before it takes     *)
(* hold of anything, and removes it only when it holds nothing any more;   *)
(* so nothing is held for an object that is gone.                          *)
(*                                                                         *)
(* Operator (with one instance) and Replication implement this module.     *)
(***************************************************************************)
EXTENDS TLAPS

CONSTANT Keys

VARIABLES
    phase,  \* the object of each key
    held    \* the keys something is held for

\* "guarded" carries the finalizer; so does "ending", whose deletion waits.
Phases == {"absent", "free", "guarded", "ending"}

Init ==
    /\ phase = [k \in Keys |-> "absent"]
    /\ held = {}

Becomes(k, p) == phase' = [phase EXCEPT ![k] = p]

\* Users create and delete objects.
Create(k) == phase[k] = "absent" /\ Becomes(k, "free") /\ UNCHANGED held

Vanish(k) == phase[k] = "free" /\ Becomes(k, "absent") /\ UNCHANGED held

Delete(k) == phase[k] = "guarded" /\ Becomes(k, "ending") /\ UNCHANGED held

\* The controller puts its finalizer on an object, ...
Protect(k) == phase[k] = "free" /\ Becomes(k, "guarded") /\ UNCHANGED held

\* ... takes hold of something for it, ...
Take(k) ==
    /\ phase[k] \in {"guarded", "ending"}
    /\ held' = held \cup {k}
    /\ UNCHANGED phase

\* ... lets go, or loses it, ...
Lose ==
    /\ held' \in SUBSET held
    /\ UNCHANGED phase

\* ... and takes the finalizer away again.
Release(k) ==
    /\ k \notin held
    /\ \/ phase[k] = "guarded" /\ Becomes(k, "free")
       \/ phase[k] = "ending" /\ Becomes(k, "absent")
    /\ UNCHANGED held

Next ==
    \/ \E k \in Keys : \/ Create(k) \/ Vanish(k) \/ Delete(k)
                       \/ Protect(k) \/ Take(k) \/ Release(k)
    \/ Lose

Spec == Init /\ [][Next]_<<phase, held>>

\* Whatever is held is held for an object with the finalizer.
Protected == \A k \in held : phase[k] \in {"guarded", "ending"}

-----------------------------------------------------------------------------
TypeOK ==
    /\ phase \in [Keys -> Phases]
    /\ held \in SUBSET Keys

(***************************************************************************)
(* The protocol is good for what it is made for: whoever keeps it never    *)
(* leaves anything behind when an object goes.                             *)
(***************************************************************************)
THEOREM ProtocolProtects == Spec => [](TypeOK /\ Protected)
<1>1. Init => TypeOK /\ Protected
  BY DEF Init, TypeOK, Protected, Phases
<1>2. TypeOK /\ Protected /\ [Next]_<<phase, held>> => (TypeOK /\ Protected)'
  <2> SUFFICES ASSUME TypeOK, Protected, [Next]_<<phase, held>>
               PROVE  (TypeOK /\ Protected)'
    OBVIOUS
  <2>1. CASE UNCHANGED <<phase, held>>
    BY <2>1 DEF TypeOK, Protected
  <2>2. CASE Lose
    BY <2>2 DEF Lose, TypeOK, Protected
  <2>3. ASSUME NEW k \in Keys, Take(k) PROVE (TypeOK /\ Protected)'
    BY <2>3 DEF Take, TypeOK, Protected
  <2>4. ASSUME NEW k \in Keys,
               Create(k) \/ Vanish(k) \/ Delete(k) \/ Protect(k) \/ Release(k)
        PROVE  (TypeOK /\ Protected)'
    <3>1. PICK p \in Phases : Becomes(k, p) /\ (p \in {"free", "absent"} => k \notin held)
      BY <2>4 DEF Create, Vanish, Delete, Protect, Release, Phases, Protected
    <3>2. held' = held
      BY <2>4 DEF Create, Vanish, Delete, Protect, Release
    <3>3. QED
      BY <3>1, <3>2 DEF Becomes, TypeOK, Protected, Phases
  <2>5. QED
    BY <2>1, <2>2, <2>3, <2>4 DEF Next
<1>3. QED
  BY <1>1, <1>2, PTL DEF Spec
=============================================================================
