-------------------------- MODULE ZoneModelProofs --------------------------
(***************************************************************************)
(* Theorems about ZoneModel, for any sets of keys and any finite number of *)
(* objects.                                                                *)
(***************************************************************************)
EXTENDS ZoneModel, TLAPS

\* Children maps lead to objects.
ChildrenExist(h) ==
    \A x \in Obj : h[x] # nil =>
        \A k \in Zones : h[x].children[k] # nil => h[h[x].children[k]] # nil

\* The objects h registered by zs are well-formed: what is registered for a
\* key exists and has this key, and pointers lead to objects.
Wellformed(zs, h) ==
    /\ zs \in [Zones -> Pointer]
    /\ h \in [Obj -> Zone \cup {nil}]
    /\ \A k \in Zones : zs[k] # nil => h[zs[k]] # nil /\ h[zs[k]].key = k
    /\ \A x \in Obj : h[x] # nil /\ h[x].parent # nil => h[h[x].parent] # nil
    /\ ChildrenExist(h)

\* ParentCurrent for one key.
Current(zs, h, k) ==
    /\ zs[k] # nil
    /\ h[zs[k]].parentName # NoZone
    /\ zs[h[zs[k]].parentName] # nil
    => h[zs[k]].parent = zs[h[zs[k]].parentName]

Inv ==
    /\ TypeOK
    /\ Wellformed(zones, heap)
    /\ \A k \in Zones : Current(zones, heap, k)
    /\ ChainsEnd

\* A registered object has a type.
LEMMA RegisteredType ==
    ASSUME NEW zs, NEW h, Wellformed(zs, h), NEW k \in Zones, zs[k] # nil
    PROVE  zs[k] \in Obj /\ h[zs[k]] \in Zone /\ h[zs[k]].key = k
BY DEF Wellformed, Pointer

\* Writing an entry of the children map keeps the rest of a zone.
LEMMA SetChildType ==
    ASSUME NEW z \in Zone, NEW name \in Zones, NEW o \in Pointer
    PROVE  /\ SetChild(z, name, o) \in Zone
           /\ SetChild(z, name, o).key = z.key
           /\ SetChild(z, name, o).parent = z.parent
           /\ SetChild(z, name, o).parentName = z.parentName
           /\ \A k \in Zones : SetChild(z, name, o).children[k] \in {z.children[k], o}
<1>1. [z.children EXCEPT ![name] = o] \in [Zones -> Pointer]
  BY DEF Zone
<1>2. \A k \in Zones : [z.children EXCEPT ![name] = o][k] \in {z.children[k], o}
  BY DEF Zone
<1>3. QED
  BY <1>1, <1>2 DEF SetChild, Zone

\* SetParent sets the parent of a zone and keeps everything else.
LEMMA SetParentType ==
    ASSUME NEW z \in Zone, NEW p \in Pointer, NEW parentRef \in Zones \cup {NoZone}
    PROVE  /\ SetParent(z, p, parentRef) \in Zone
           /\ SetParent(z, p, parentRef).key = z.key
           /\ SetParent(z, p, parentRef).parent = p
           /\ SetParent(z, p, parentRef).parentName = parentRef
           /\ SetParent(z, p, parentRef).children = z.children
BY DEF SetParent, Zone

\* The objects g are those of h, but for their children.
SameLinks(g, h) ==
    /\ g \in [Obj -> Zone \cup {nil}]
    /\ \A x \in Obj : /\ g[x] = nil <=> h[x] = nil
                      /\ h[x] # nil => /\ g[x].key = h[x].key
                                       /\ g[x].parent = h[x].parent
                                       /\ g[x].parentName = h[x].parentName
    /\ ChildrenExist(h) => ChildrenExist(g)

\* A change of a children map leaves keys and parents of all objects alone.
LEMMA ChildrenOnly ==
    ASSUME NEW h \in [Obj -> Zone \cup {nil}], NEW p \in Obj, h[p] # nil,
           NEW name \in Zones, NEW o \in Pointer, o # nil => h[o] # nil
    PROVE  SameLinks([h EXCEPT ![p] = SetChild(h[p], name, o)], h)
<1>1. h[p] \in Zone
  OBVIOUS
<1>2. PICK z \in Zone : /\ z = SetChild(h[p], name, o)
                        /\ z.key = h[p].key
                        /\ z.parent = h[p].parent
                        /\ z.parentName = h[p].parentName
                        /\ \A k \in Zones : z.children[k] \in {h[p].children[k], o}
  BY <1>1, SetChildType
<1>3. PICK g : g = [h EXCEPT ![p] = z]
  OBVIOUS
<1>4. /\ g \in [Obj -> Zone \cup {nil}] /\ g[p] = z /\ z # nil
      /\ \A x \in Obj \ {p} : g[x] = h[x]
  BY <1>2, <1>3, ZoneModelAssumption
<1>5. ChildrenExist(h) => ChildrenExist(g)
  <2> SUFFICES ASSUME ChildrenExist(h), NEW x \in Obj, g[x] # nil, NEW k \in Zones,
                      g[x].children[k] # nil
               PROVE  g[g[x].children[k]] # nil
    BY DEF ChildrenExist
  <2>1. g[x].children[k] \in Obj
    BY <1>4 DEF Zone, Pointer
  <2>2. h[g[x].children[k]] # nil
    BY <1>2, <1>4, <2>1 DEF ChildrenExist
  <2>3. QED
    BY <1>4, <2>1, <2>2
<1>6. QED
  BY <1>2, <1>3, <1>4, <1>5 DEF SameLinks

\* Unlink and Link write children only.
LEMMA UnlinkEffect ==
    ASSUME NEW zs, NEW h, Wellformed(zs, h), NEW o \in Obj, h[o] # nil,
           NEW key \in Zones, NEW parentRef
    PROVE  SameLinks(Unlink(h, o, key, parentRef), h)
<1>1. h[o] \in Zone /\ h[o].parent \in Pointer
  BY DEF Wellformed, Zone
<1>2. CASE h[o].parent # nil /\ h[h[o].parent].key # parentRef
  <2>1. h[o].parent \in Obj /\ h[h[o].parent] # nil
    BY <1>1, <1>2 DEF Wellformed, Pointer
  <2>2. nil \in Pointer
    BY DEF Pointer
  <2>3. SameLinks([h EXCEPT ![h[o].parent] = SetChild(h[h[o].parent], key, nil)], h)
    BY <2>1, <2>2, ChildrenOnly DEF Wellformed
  <2>4. QED
    BY <1>2, <2>3 DEF Unlink
<1>3. CASE ~(h[o].parent # nil /\ h[h[o].parent].key # parentRef)
  BY <1>3 DEF Unlink, SameLinks, Wellformed
<1>4. QED
  BY <1>2, <1>3

\* So does Link, the entry in the map of the new parent.
LEMMA LinkEffect ==
    ASSUME NEW h \in [Obj -> Zone \cup {nil}], NEW o \in Obj, h[o] # nil, NEW p \in Pointer,
           NEW parentRef, p # nil => h[p] # nil /\ parentRef \in Zones
    PROVE  SameLinks(Link(h, p, o, parentRef), h)
<1>1. CASE p = nil
  BY <1>1 DEF Link, SameLinks
<1>2. CASE p # nil
  <2>1. p \in Obj /\ o \in Pointer
    BY <1>2 DEF Pointer
  <2>2. SameLinks([h EXCEPT ![p] = SetChild(h[p], parentRef, o)], h)
    BY <1>2, <2>1, ChildrenOnly
  <2>3. QED
    BY <1>2, <2>2 DEF Link
<1>3. QED
  BY <1>1, <1>2

\* AddZone on a registered object sets its parent, and leaves all others.
LEMMA AssignLinks ==
    ASSUME NEW zs, NEW h, Wellformed(zs, h),
           NEW key \in Zones, NEW o \in Obj, zs[key] = o,
           NEW parentRef \in Zones \cup {NoZone},
           Assign(zs, h, o, key, parentRef),
           NEW p, p = IF parentRef = NoZone THEN nil ELSE zs[parentRef]
    PROVE  /\ h[o] # nil /\ p \in Pointer /\ (p # nil => h[p] # nil)
           /\ heap' \in [Obj -> Zone \cup {nil}]
           /\ \A x \in Obj : heap'[x] = nil <=> h[x] = nil
           /\ \A x \in Obj : h[x] # nil => heap'[x].key = h[x].key
           /\ \A x \in Obj \ {o} : h[x] # nil => /\ heap'[x].parent = h[x].parent
                                                /\ heap'[x].parentName = h[x].parentName
           /\ heap'[o].parent = p /\ heap'[o].parentName = parentRef
           /\ ChildrenExist(heap')
           /\ lock' = IF Endless(heap', p) THEN "held" ELSE "free"
<1> DEFINE u  == Unlink(h, o, key, parentRef)
           h1 == Link(u, p, o, parentRef)
<1>1. h[o] # nil
  BY ZoneModelAssumption DEF Wellformed
<1>2. SameLinks(u, h)
  BY <1>1, UnlinkEffect
<1>3. p \in Pointer /\ (p # nil => h[p] # nil /\ parentRef \in Zones)
  BY DEF Wellformed, Pointer
<1>4. SameLinks(h1, u)
  <2>1. (p # nil => u[p] # nil) /\ u[o] # nil
    BY <1>1, <1>2, <1>3 DEF SameLinks, Pointer
  <2>2. u \in [Obj -> Zone \cup {nil}]
    BY <1>2 DEF SameLinks
  <2>3. QED
    BY <1>3, <2>1, <2>2, LinkEffect
<1>5. SameLinks(h1, h)
  BY <1>2, <1>4 DEF SameLinks
<1>6. h1[o] \in Zone
  BY <1>1, <1>5 DEF SameLinks
<1>7. PICK z \in Zone : /\ z = SetParent(h1[o], p, parentRef)
                        /\ z.key = h1[o].key /\ z.parent = p /\ z.parentName = parentRef
                        /\ z.children = h1[o].children
  BY <1>3, <1>6, SetParentType
<1>8. heap' = [h1 EXCEPT ![o] = z]
  BY <1>7 DEF Assign
<1>9. /\ heap' \in [Obj -> Zone \cup {nil}]
      /\ \A x \in Obj : heap'[x] = nil <=> h[x] = nil
      /\ \A x \in Obj : h[x] # nil => heap'[x].key = h[x].key
      /\ \A x \in Obj \ {o} : h[x] # nil => /\ heap'[x].parent = h[x].parent
                                           /\ heap'[x].parentName = h[x].parentName
      /\ heap'[o].parent = p /\ heap'[o].parentName = parentRef
  BY <1>1, <1>5, <1>7, <1>8, ZoneModelAssumption DEF SameLinks
<1>10. ChildrenExist(heap')
  <2>1. ChildrenExist(h1)
    BY <1>5 DEF SameLinks, Wellformed
  <2>2. /\ h1 \in [Obj -> Zone \cup {nil}] /\ z # nil
        /\ \A x \in Obj : heap'[x] = nil <=> h1[x] = nil
        /\ \A x \in Obj : heap'[x] # nil => heap'[x].children = h1[x].children
    BY <1>5, <1>6, <1>7, <1>8, ZoneModelAssumption DEF SameLinks
  <2>3. QED
    BY <2>1, <2>2 DEF ChildrenExist, Zone, Pointer
<1>11. QED
  BY <1>1, <1>3, <1>7, <1>8, <1>9, <1>10 DEF Assign

\* No walk gets trapped by AddZone, if the one it makes itself is not.
LEMMA AssignEnds ==
    ASSUME NEW zs, NEW h, Wellformed(zs, h),
           NEW key \in Zones, NEW o \in Obj, zs[key] = o,
           NEW parentRef \in Zones \cup {NoZone},
           Assign(zs, h, o, key, parentRef),
           \A S \in SUBSET (Obj \ {o}) : Trapped(h, S) => S = {}
    PROVE  ChainsEnd'
<1> SUFFICES ASSUME lock' = "free", NEW S \in SUBSET Obj, Trapped(heap', S)
             PROVE  S = {}
  BY DEF ChainsEnd
<1>1. PICK p : p = IF parentRef = NoZone THEN nil ELSE zs[parentRef]
  OBVIOUS
<1>2. CASE o \in S
  <2>1. p \in S
    BY <1>1, <1>2, AssignLinks DEF Trapped
  <2>2. Endless(heap', p)
    BY <2>1 DEF Endless
  <2>3. lock' = "held"
    BY <1>1, <2>2, AssignLinks
  <2>4. QED
    BY <2>3
<1>3. CASE o \notin S
  <2>1. Trapped(h, S)
    BY <1>1, <1>3, AssignLinks DEF Trapped
  <2>2. QED
    BY <1>3, <2>1
<1>4. QED
  BY <1>2, <1>3

\* AddZone on a registered object: its parent is the registered one, and
\* every other zone keeps what it had.
LEMMA AssignEffect ==
    ASSUME NEW zs, NEW h, Wellformed(zs, h),
           NEW key \in Zones, NEW o \in Obj, zs[key] = o,
           NEW parentRef \in Zones \cup {NoZone},
           \A k \in Zones \ {key} : Current(zs, h, k),
           Assign(zs, h, o, key, parentRef)
    PROVE  /\ Wellformed(zs, heap')
           /\ \A k \in Zones : Current(zs, heap', k)
           /\ lock' \in {"free", "held"}
           /\ heap'[o].parentName = parentRef
           /\ \A k \in Zones \ {key} :
                 zs[k] # nil => heap'[zs[k]].parentName = h[zs[k]].parentName
<1>1. PICK p : p = IF parentRef = NoZone THEN nil ELSE zs[parentRef]
  OBVIOUS
<1>3. h[o] # nil /\ p \in Pointer /\ (p # nil => h[p] # nil)
  BY <1>1, AssignLinks
<1>9. /\ heap' \in [Obj -> Zone \cup {nil}]
      /\ \A x \in Obj : heap'[x] = nil <=> h[x] = nil
      /\ \A x \in Obj : h[x] # nil => heap'[x].key = h[x].key
      /\ \A x \in Obj \ {o} : h[x] # nil => /\ heap'[x].parent = h[x].parent
                                           /\ heap'[x].parentName = h[x].parentName
      /\ heap'[o].parent = p /\ heap'[o].parentName = parentRef
      /\ ChildrenExist(heap')
  BY <1>1, AssignLinks
<1>10. Wellformed(zs, heap')
  <2>1. \A k \in Zones : zs[k] # nil => zs[k] \in Obj
    BY DEF Wellformed, Pointer
  <2>2. \A k \in Zones : zs[k] # nil => heap'[zs[k]] # nil /\ heap'[zs[k]].key = k
    BY <1>9, <2>1 DEF Wellformed
  <2>3. ASSUME NEW x \in Obj, heap'[x] # nil, heap'[x].parent # nil
        PROVE  heap'[heap'[x].parent] # nil
    <3>1. CASE x = o
      BY <1>3, <1>9, <2>3, <3>1 DEF Pointer
    <3>2. CASE x # o
      <4>1. h[x] # nil /\ heap'[x].parent = h[x].parent
        BY <1>9, <2>3, <3>2
      <4>2. h[x].parent \in Obj /\ h[h[x].parent] # nil
        BY <2>3, <4>1 DEF Wellformed, Zone, Pointer
      <4>3. QED
        BY <1>9, <4>1, <4>2
    <3>3. QED
      BY <3>1, <3>2
  <2>4. QED
    BY <1>9, <2>2, <2>3 DEF Wellformed
<1>11. ASSUME NEW k \in Zones PROVE Current(zs, heap', k)
  <2>1. CASE k = key
    BY <1>1, <1>9, <2>1 DEF Current
  <2>2. CASE k # key /\ zs[k] # nil
    <3>1. zs[k] \in Obj /\ h[zs[k]] # nil /\ h[zs[k]].key = k
      BY <2>2, RegisteredType, ZoneModelAssumption
    <3>2. zs[k] # o
      BY <2>2, <3>1, RegisteredType, ZoneModelAssumption
    <3>3. QED
      BY <1>9, <2>2, <3>1, <3>2 DEF Current
  <2>3. CASE zs[k] = nil
    BY <2>3 DEF Current
  <2>4. QED
    BY <2>1, <2>2, <2>3
<1>12. lock' \in {"free", "held"}
  BY DEF Assign
<1>13. ASSUME NEW k \in Zones \ {key}, zs[k] # nil
       PROVE  heap'[zs[k]].parentName = h[zs[k]].parentName
  <2>1. zs[k] \in Obj /\ h[zs[k]] # nil /\ zs[k] # o
    BY <1>13, RegisteredType, ZoneModelAssumption
  <2>2. QED
    BY <1>9, <2>1
<1>14. QED
  BY <1>9, <1>10, <1>11, <1>12, <1>13

\* A new object has its type.
LEMMA NewZoneType ==
    ASSUME TypeOK, NEW key \in Zones
    PROVE  /\ NewZone(key) \in Zone
           /\ NewZone(key).key = key
           /\ NewZone(key).parent = nil /\ NewZone(key).parentName = NoZone
           /\ \A k \in Zones : NewZone(key).children[k] \in {zones[k], nil}
BY DEF NewZone, Zone, TypeOK, Pointer

\* The keys but this one are registered as before, with the same parents.
OthersKept(zs, h, key) ==
    \A k \in Zones \ {key} :
        /\ zs[k] = zones[k]
        /\ zs[k] # nil => h[zs[k]].parentName = heap[zs[k]].parentName

\* The creation of an object for a key: all registered zones below it are
\* linked to the new object, and nothing else changes.
LEMMA RelinkEffect ==
    ASSUME Inv, NEW key \in Zones, zones[key] = nil,
           NEW o \in Obj, heap[o] = nil,
           NEW zs, zs = [zones EXCEPT ![key] = o],
           NEW h, h = Relink(o, key)
    PROVE  /\ Wellformed(zs, h)
           /\ \A k \in Zones \ {key} : Current(zs, h, k)
           /\ OthersKept(zs, h, key)
           /\ \A S \in SUBSET (Obj \ {o}) : Trapped(h, S) => Trapped(heap, S)
<1>1. zs \in [Zones -> Pointer] /\ zs[key] = o /\ \A k \in Zones \ {key} : zs[k] = zones[k]
  BY DEF Inv, TypeOK, Pointer
<1>2. \A k \in Zones : zones[k] # nil =>
         zones[k] \in Obj /\ zones[k] # o /\ heap[zones[k]] \in Zone /\ heap[zones[k]].key = k
  BY DEF Inv, Wellformed, Pointer
<1>3. h[o] = NewZone(key)
  BY DEF Relink
<1>4. ASSUME NEW x \in Obj \ {o}
      PROVE  /\ h[x] \in Zone \cup {nil}
             /\ h[x] = nil <=> heap[x] = nil
             /\ h[x] # nil => /\ h[x].key = heap[x].key
                              /\ h[x].parentName = heap[x].parentName
                              /\ h[x].parent \in {heap[x].parent, o}
                              /\ h[x].children = heap[x].children
             /\ (\E k \in Below(key) : zones[k] = x) => h[x].parent = o
             /\ ~(\E k \in Below(key) : zones[k] = x) => h[x] = heap[x]
  <2>1. CASE \E k \in Below(key) : zones[k] = x
    <3>1. heap[x] \in Zone
      BY <1>2, <2>1 DEF Below
    <3>2. h[x] = [heap[x] EXCEPT !.parent = o]
      BY <2>1 DEF Relink
    <3>3. /\ h[x] \in Zone /\ h[x].key = heap[x].key
          /\ h[x].parentName = heap[x].parentName /\ h[x].parent = o
          /\ h[x].children = heap[x].children
      BY <3>1, <3>2 DEF Zone, Pointer
    <3>4. QED
      BY <2>1, <3>1, <3>3, ZoneModelAssumption
  <2>2. CASE ~\E k \in Below(key) : zones[k] = x
    BY <2>2 DEF Relink, Inv, TypeOK
  <2>3. QED
    BY <2>1, <2>2
<1>5. /\ h[o] \in Zone /\ h[o] # nil /\ h[o].key = key /\ h[o].parent = nil
      /\ \A k \in Zones : h[o].children[k] \in {zones[k], nil}
  BY <1>3, NewZoneType, ZoneModelAssumption DEF Inv
<1>6. h \in [Obj -> Zone \cup {nil}]
  <2>1. \A x \in Obj : h[x] \in Zone \cup {nil}
    BY <1>4, <1>5
  <2>2. h = [x \in Obj |-> h[x]]
    BY DEF Relink
  <2>3. QED
    BY <2>1, <2>2
<1>7. Wellformed(zs, h)
  <2>1. \A k \in Zones : zs[k] # nil => h[zs[k]] # nil /\ h[zs[k]].key = k
    BY <1>1, <1>2, <1>4, <1>5, ZoneModelAssumption
  <2>2. ASSUME NEW x \in Obj, h[x] # nil, h[x].parent # nil
        PROVE  h[h[x].parent] # nil
    <3>1. CASE x = o \/ h[x].parent = o
      BY <1>5, <2>2, <3>1
    <3>2. CASE x # o /\ h[x].parent # o
      <4>1. heap[x] \in Zone /\ h[x].parent = heap[x].parent
        BY <1>4, <2>2, <3>2 DEF Inv, TypeOK
      <4>2. h[x].parent \in Obj /\ heap[h[x].parent] # nil
        BY <2>2, <4>1, ZoneModelAssumption DEF Inv, Wellformed, Zone, Pointer
      <4>3. QED
        BY <1>4, <3>2, <4>2
    <3>3. QED
      BY <3>1, <3>2
  <2>3. ASSUME NEW x \in Obj, h[x] # nil, NEW k \in Zones, h[x].children[k] # nil
        PROVE  h[h[x].children[k]] # nil
    <3>1. CASE x = o
      BY <1>2, <1>4, <1>5, <2>3, <3>1, ZoneModelAssumption
    <3>2. CASE x # o
      <4>1. heap[x] \in Zone /\ h[x].children = heap[x].children
        BY <1>4, <2>3, <3>2 DEF Inv, TypeOK
      <4>2. heap[x].children[k] \in Obj /\ heap[heap[x].children[k]] # nil
        BY <2>3, <4>1, ZoneModelAssumption DEF Inv, Wellformed, ChildrenExist, Zone, Pointer
      <4>3. QED
        BY <1>4, <1>5, <4>1, <4>2
    <3>3. QED
      BY <3>1, <3>2
  <2>4. QED
    BY <1>1, <1>6, <2>1, <2>2, <2>3 DEF Wellformed, ChildrenExist
<1>8. ASSUME NEW k \in Zones \ {key} PROVE Current(zs, h, k)
  <2>1. CASE zones[k] = nil
    BY <1>1, <2>1 DEF Current
  <2>2. CASE zones[k] # nil /\ heap[zones[k]].parentName = key
    <3>1. k \in Below(key)
      BY <2>2 DEF Below
    <3>2. h[zones[k]].parent = o /\ h[zones[k]].parentName = key
      BY <1>2, <1>4, <2>2, <3>1
    <3>3. QED
      BY <1>1, <3>2 DEF Current
  <2>3. CASE zones[k] # nil /\ heap[zones[k]].parentName # key
    <3>1. \A j \in Below(key) : zones[j] # zones[k]
      BY <1>2, <2>3 DEF Below
    <3>2. h[zones[k]] = heap[zones[k]]
      BY <1>2, <1>4, <2>3, <3>1
    <3>3. heap[zones[k]].parentName \in (Zones \ {key}) \cup {NoZone}
      BY <1>2, <2>3 DEF Zone
    <3>4. Current(zones, heap, k)
      BY DEF Inv
    <3>5. QED
      BY <1>1, <2>3, <3>2, <3>3, <3>4 DEF Current
  <2>4. QED
    BY <2>1, <2>2, <2>3
<1>9. OthersKept(zs, h, key)
  BY <1>1, <1>2, <1>4, ZoneModelAssumption DEF OthersKept
<1>10. \A S \in SUBSET (Obj \ {o}) : Trapped(h, S) => Trapped(heap, S)
  BY <1>4 DEF Trapped
<1>11. QED
  BY <1>7, <1>8, <1>9, <1>10

\* What a call of AddZone is for: key is registered with this parent, and
\* every other key as before.
Adds(key, parentRef) ==
    /\ zones'[key] # nil /\ heap'[zones'[key]].parentName = parentRef
    /\ OthersKept(zones', heap', key)

\* A call of AddZone keeps the links right.
LEMMA AddZoneInv ==
    ASSUME Inv, NEW key \in Zones, NEW parentRef \in Zones \cup {NoZone},
           AddZone(key, parentRef)
    PROVE  Inv' /\ Adds(key, parentRef)
<1>1. /\ Wellformed(zones', heap')
      /\ \A k \in Zones : Current(zones', heap', k)
      /\ lock' \in {"free", "held"}
      /\ Adds(key, parentRef)
      /\ ChainsEnd'
  <2>1. CASE zones[key] # nil
    <3>1. zones' = zones /\ Assign(zones, heap, zones[key], key, parentRef)
      BY <2>1 DEF AddZone
    <3>2. Wellformed(zones, heap) /\ \A k \in Zones : Current(zones, heap, k)
      BY DEF Inv
    <3>3. zones[key] \in Obj
      BY <2>1 DEF Inv, TypeOK, Pointer
    <3>4. /\ Wellformed(zones, heap')
          /\ \A k \in Zones : Current(zones, heap', k)
          /\ lock' \in {"free", "held"}
          /\ heap'[zones[key]].parentName = parentRef
          /\ \A k \in Zones \ {key} :
                zones[k] # nil => heap'[zones[k]].parentName = heap[zones[k]].parentName
      BY <3>1, <3>2, <3>3, AssignEffect
    <3>5. ChainsEnd'
      BY <3>1, <3>2, <3>3, AssignEnds DEF Inv, ChainsEnd, AddZone
    <3>6. QED
      BY <2>1, <3>1, <3>3, <3>4, <3>5, ZoneModelAssumption DEF Adds, OthersKept
  <2>2. CASE zones[key] = nil
    <3>1. PICK o \in Obj : /\ heap[o] = nil
                           /\ zones' = [zones EXCEPT ![key] = o]
                           /\ Assign(zones', Relink(o, key), o, key, parentRef)
      BY <2>2 DEF AddZone
    <3>2. PICK zs, h : zs = [zones EXCEPT ![key] = o] /\ h = Relink(o, key)
      OBVIOUS
    <3>3. /\ Wellformed(zs, h) /\ OthersKept(zs, h, key)
          /\ \A k \in Zones \ {key} : Current(zs, h, k)
      BY <2>2, <3>1, <3>2, RelinkEffect
    <3>4. zs[key] = o
      BY <3>2 DEF Inv, TypeOK
    <3>5. Assign(zs, h, o, key, parentRef)
      BY <3>1, <3>2
    <3>6. /\ Wellformed(zs, heap')
          /\ \A k \in Zones : Current(zs, heap', k)
          /\ lock' \in {"free", "held"}
          /\ heap'[o].parentName = parentRef
          /\ \A k \in Zones \ {key} :
                zs[k] # nil => heap'[zs[k]].parentName = h[zs[k]].parentName
      BY <3>3, <3>4, <3>5, AssignEffect
    <3>7. zones' = zs /\ o # nil
      BY <3>1, <3>2, ZoneModelAssumption
    <3>8. Adds(key, parentRef)
      <4>1. zones'[key] # nil /\ heap'[zones'[key]].parentName = parentRef
        BY <3>4, <3>6, <3>7
      <4>2. OthersKept(zs, heap', key)
        BY <3>3, <3>6 DEF OthersKept
      <4>3. QED
        BY <3>7, <4>1, <4>2 DEF Adds
    <3>9. ChainsEnd'
      <4>1. \A S \in SUBSET (Obj \ {o}) : Trapped(h, S) => S = {}
        BY <2>2, <3>1, <3>2, RelinkEffect DEF Inv, ChainsEnd, AddZone
      <4>2. QED
        BY <3>3, <3>4, <3>5, <4>1, AssignEnds
    <3>10. QED
      BY <3>6, <3>7, <3>8, <3>9
  <2>3. QED
    BY <2>1, <2>2
<1>2. QED
  BY <1>1 DEF Inv, TypeOK, Wellformed, Current

\* So does a call of RemoveZone.
LEMMA RemoveZoneInv ==
    ASSUME Inv, NEW key \in Zones, RemoveZone(key)
    PROVE  /\ Inv' /\ zones'[key] = nil /\ heap' = heap
           /\ \A k \in Zones \ {key} : zones'[k] = zones[k]
<1>1. zones' \in [Zones -> Pointer] /\ heap' = heap /\ lock' = lock
  BY DEF RemoveZone, Inv, TypeOK, Pointer
<1>2. \A k \in Zones : zones'[k] \in {zones[k], nil}
  BY DEF RemoveZone, Inv, TypeOK
<1>3. Wellformed(zones, heap)'
  BY <1>1, <1>2 DEF Inv, Wellformed
<1>4. ASSUME NEW k \in Zones PROVE Current(zones, heap, k)'
  <2>1. CASE zones'[k] = nil
    BY <2>1 DEF Current
  <2>2. CASE zones'[k] # nil
    <3>1. zones'[k] = zones[k] /\ heap[zones[k]].parentName \in Zones \cup {NoZone}
      BY <1>2, <2>2 DEF Inv, Wellformed, Pointer, Zone
    <3>2. Current(zones, heap, k)
      BY DEF Inv
    <3>3. QED
      BY <1>1, <1>2, <3>1, <3>2 DEF Current
  <2>3. QED
    BY <2>1, <2>2
<1>5. zones'[key] = nil /\ \A k \in Zones \ {key} : zones'[k] = zones[k]
  BY DEF RemoveZone, Inv, TypeOK
<1>6. QED
  BY <1>1, <1>3, <1>4, <1>5 DEF Inv, TypeOK, ChainsEnd

\* Every call to the zone model keeps the invariant, which holds at the start.
LEMMA InvInductive == (Init => Inv) /\ (Inv /\ [Next]_vars => Inv')
<1>1. Init => Inv
  BY ZoneModelAssumption DEF Init, Inv, TypeOK, Wellformed, Current, Pointer, ChainsEnd, Trapped,
         ChildrenExist
<1>2. Inv /\ [Next]_vars => Inv'
  <2>1. ASSUME Inv, UNCHANGED vars PROVE Inv'
    BY <2>1 DEF vars, Inv, TypeOK, Wellformed, Current, ChainsEnd
  <2>2. QED
    BY <2>1, AddZoneInv, RemoveZoneInv DEF Next
<1>3. QED
  BY <1>1, <1>2

(***************************************************************************)
(* Type correctness: no call of AddZone or RemoveZone, in any order, makes *)
(* an index, a pointer or a children map lead to something that is none.   *)
(***************************************************************************)
THEOREM TypeCorrect == Spec => []TypeOK
<1>1. Inv => TypeOK
  BY DEF Inv
<1>2. QED
  BY <1>1, InvInductive, PTL DEF Spec

(***************************************************************************)
(* After any sequence of AddZone and RemoveZone a registered zone points   *)
(* to the object now registered for its parent.  The induction needs that  *)
(* a registered object has the key it is registered for, and that parent   *)
(* pointers never lead to an address without object.                       *)
(***************************************************************************)
THEOREM ParentsCurrent == Spec => []ParentCurrent
<1>1. Inv => ParentCurrent
  BY DEF Inv, Current, ParentCurrent, Attached
<1>2. QED
  BY <1>1, InvInductive, PTL DEF Spec

(***************************************************************************)
(* As long as no call hangs, no object is its own ancestor, and every walk *)
(* along the parents ends: the only call that can close a cycle is one     *)
(* that walks along it, although the objects a removed zone leaves behind  *)
(* keep their links.                                                       *)
(***************************************************************************)
THEOREM WalksEnd == Spec => []ChainsEnd
<1>1. Inv => ChainsEnd
  BY DEF Inv
<1>2. QED
  BY <1>1, InvInductive, PTL DEF Spec

=============================================================================
