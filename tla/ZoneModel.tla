----------------------------- MODULE ZoneModel -----------------------------
(***************************************************************************)
(* The zone model of the REST server (server/zonemodel): Zone objects in   *)
(* memory, linked by parent pointers and children maps, and registered by  *)
(* their key.  Pointers matter: an object that is not registered any more  *)
(* may still be reached through the links of others.                       *)
(*                                                                         *)
(* The keys are the names of the HostedZone objects of one namespace.  The *)
(* domain names and serial numbers of a zone are left out; the walk to the *)
(* root that hands on the serial number is not, for it may not end.        *)
(***************************************************************************)
EXTENDS Naturals, FiniteSets

CONSTANTS
    Zones,     \* keys
    NoZone,    \* the empty parent reference
    Obj,       \* addresses of Zone objects, a bound on how many are created
    nil        \* the pointer to no object

Pointer == Obj \cup {nil}

Zone == [key        : Zones,
         parent     : Pointer,
         parentName : Zones \cup {NoZone},
         children   : [Zones -> Pointer]]

ASSUME ZoneModelAssumption ==
    /\ IsFiniteSet(Obj)
    /\ NoZone \notin Zones
    /\ nil \notin Obj
    /\ nil \notin Zone

VARIABLES
    zones,     \* Model.zones: the registered object of a key
    heap,      \* the Zone object at an address, nil if there is none yet
    lock       \* Model.lock: "held" for ever by a call that does not end

vars == <<zones, heap, lock>>

Init ==
    /\ zones = [k \in Zones |-> nil]
    /\ heap = [o \in Obj |-> nil]
    /\ lock = "free"

-----------------------------------------------------------------------------
\* The registered keys that name key as their parent.
Below(key) == {k \in Zones : zones[k] # nil /\ heap[zones[k]].parentName = key}

NewZone_noMap(key) ==
    [key |-> key, parent |-> nil, parentName |-> NoZone, children |-> nil]

NewZone(key) ==
    [key |-> key, parent |-> nil, parentName |-> NoZone,
     children |-> [k \in Zones |-> IF k \in Below(key) THEN zones[k] ELSE nil]]

\* The registered zones below a new object o are linked to it.
Relink_forgotten(o, key) == [heap EXCEPT ![o] = NewZone(key)]

Relink(o, key) ==
    [x \in Obj |-> IF x = o THEN NewZone(key)
                   ELSE IF \E k \in Below(key) : zones[k] = x
                   THEN [heap[x] EXCEPT !.parent = o]
                   ELSE heap[x]]

\* The entry with this name in the children map of zone z.
SetChild(z, name, o) == [z EXCEPT !.children = [z.children EXCEPT ![name] = o]]

SetParent(z, p, parentRef) == [z EXCEPT !.parent = p, !.parentName = parentRef]

\* A zone that changes its parent is taken out of the old one's children.
Unlink(h, o, key, parentRef) ==
    LET p == h[o].parent IN
    IF p # nil /\ h[p].key # parentRef
    THEN [h EXCEPT ![p] = SetChild(h[p], key, nil)]
    ELSE h

\* The entry in the new parent's children has the name of the parent.
Link(h, p, o, parentRef) ==
    IF p = nil THEN h ELSE [h EXCEPT ![p] = SetChild(h[p], parentRef, o)]

\* A walk along the parents never leaves these objects.
Trapped(h, S) == \A o \in S : h[o] # nil /\ h[o].parent \in S

\* The walk along the parents from p does not end.
Endless(h, p) == \E S \in SUBSET Obj : p \in S /\ Trapped(h, S)

Assign_early(zs, h, o, key, parentRef) ==
    LET p  == IF parentRef = NoZone THEN nil ELSE zs[parentRef]
        h1 == Link(Unlink(h, o, key, parentRef), p, o, parentRef)
    IN  /\ heap' = [h1 EXCEPT ![o] = SetParent(h1[o], p, parentRef)]
        /\ lock' = IF Endless(h1, p) THEN "held" ELSE "free"

\* AddZone on the object o, registered by zs, with the other objects in h.
Assign(zs, h, o, key, parentRef) ==
    LET p  == IF parentRef = NoZone THEN nil ELSE zs[parentRef]
        h1 == Link(Unlink(h, o, key, parentRef), p, o, parentRef)
        h2 == [h1 EXCEPT ![o] = SetParent(h1[o], p, parentRef)]
    IN  /\ heap' = h2
        /\ lock' = IF Endless(h2, p) THEN "held" ELSE "free"

AddZone(key, parentRef) ==
    /\ lock = "free"
    /\ \/ /\ zones[key] # nil
          /\ zones' = zones
          /\ Assign(zones, heap, zones[key], key, parentRef)
       \/ /\ zones[key] = nil
          /\ \E o \in Obj :
                /\ heap[o] = nil
                /\ zones' = [zones EXCEPT ![key] = o]
                /\ Assign(zones', Relink(o, key), o, key, parentRef)

RemoveZone(key) ==
    /\ lock = "free"
    /\ zones' = [zones EXCEPT ![key] = nil]
    /\ UNCHANGED <<heap, lock>>

-----------------------------------------------------------------------------
\* Calls in any order; a zone that is its own parent is refused before.
Next ==
    \E key \in Zones :
        \/ \E parentRef \in (Zones \ {key}) \cup {NoZone} : AddZone(key, parentRef)
        \/ RemoveZone(key)

Spec == Init /\ [][Next]_vars

-----------------------------------------------------------------------------
TypeOK ==
    /\ zones \in [Zones -> Pointer]
    /\ heap \in [Obj -> Zone \cup {nil}]
    /\ lock \in {"free", "held"}

\* A registered zone whose parent is registered, too.
Attached(k) ==
    /\ zones[k] # nil
    /\ heap[zones[k]].parentName # NoZone
    /\ zones[heap[zones[k]].parentName] # nil

(***************************************************************************)
(* Whatever the order in which zones are added, moved, removed and added   *)
(* again, a registered zone points to the object now registered for its    *)
(* parent, never to one that was replaced.                                 *)
(***************************************************************************)
ParentCurrent ==
    \A k \in Zones :
        Attached(k) => heap[zones[k]].parent = zones[heap[zones[k]].parentName]

(***************************************************************************)
(* As long as every call has ended, no object is its own ancestor: from    *)
(* any object, registered or not, the walk along the parents ends.  A      *)
(* cycle is only looked at by the call that closes it, and by no other.    *)
(***************************************************************************)
ChainsEnd == lock = "free" => \A S \in SUBSET Obj : Trapped(heap, S) => S = {}

=============================================================================
