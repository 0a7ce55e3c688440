----------------------------- MODULE Resolution -----------------------------
(***************************************************************************)
(* The lookups of the REST server (servercomp, zonemodel): the resolution  *)
(* of domain names and of addresses by the linked zones of ZoneModel.      *)
(*                                                                         *)
(* A lookup holds the lock of the model for reading, so it is an operator  *)
(* on the state.  A domain name is the sequence of its labels, absolute or *)
(* relative: its final dot is dropped (Rdn) and added again (Fqdn, Join)   *)
(* wherever it matters.  Maps are iterated in any order, so a lookup has a *)
(* set of possible answers.                                                *)
(***************************************************************************)
EXTENDS ZoneModel, SequencesExt

CONSTANTS
    DomainNames,   \* of the zone with a key, which stay as they are
    Entries,       \* the entries in the two indices of the component
    Queries        \* names asked for

\* Sequences of labels.
Domains == Seq(STRING)

\* A zone has at least one name, and the empty one is not configured; the root
\* domain "." is not modelled.
ASSUME ResolutionAssumption ==
    /\ IsFiniteSet(Zones)
    /\ \A k \in Zones : /\ DomainNames[k] \subseteq Domains \ {<<>>}
                        /\ DomainNames[k] # {} /\ IsFiniteSet(DomainNames[k])
    /\ \A e \in Entries : /\ e.zone \in Zones /\ e.names \subseteq Domains \ {<<>>}
                          /\ {e.ns, e.addressed} \subseteq BOOLEAN
    /\ Queries \subseteq Domains

Names(o) == DomainNames[heap[o].key]

Children(o) == {heap[o].children[k] : k \in Zones} \ {nil}

\* The name without its last labels.
Without(name, last) == SubSeq(name, 1, Len(name) - Len(last))

\* Its last n labels.
End(name, n) == SubSeq(name, Len(name) - n + 1, Len(name))

\* The index of entries by name.
LookupRelativeDomainName(key, rel) ==
    {e \in Entries : e.zone = key /\ rel \in e.names}

\* The index of entries by address, for the one address asked for.
LookupIP(key) == {e \in Entries : e.zone = key /\ e.addressed}

-----------------------------------------------------------------------------
(* Names. *)

Matches_shortest(o, qname) ==
    LET m == {n \in Names(o) : IsSuffix(n, qname)}
    IN  IF m = {} THEN <<>> ELSE CHOOSE n \in m : \A x \in m : Len(x) >= Len(n)

\* The longest domain name of the zone that qname ends with, if any.
Matches(o, qname) ==
    LET m == {n \in Names(o) : IsSuffix(n, qname)}
    IN  IF m = {} THEN <<>> ELSE CHOOSE n \in m : \A x \in m : Len(x) <= Len(n)

\* From zone z with the rest sub of the name down the nested zones, as far as
\* they match: the zones and rests where this may end.
Forward(z, sub) ==
    LET ends[p \in {o \in Obj : heap[o] # nil} \X Domains] ==
            LET nested == {c \in Children(p[1]) : Matches(c, p[2]) # <<>>}
            IN  IF nested = {} THEN {p}
                ELSE UNION {ends[<<c, Without(p[2], Matches(c, p[2]))>>] : c \in nested}
    IN  ends[<<z, sub>>]

\* The ways to cut off the first labels of sub where the entries of the zone
\* delegate it.
Cuts(z, sub) ==
    {n \in 1 .. Len(sub) :
        \E e \in LookupRelativeDomainName(heap[z].key, End(sub, n)) : e.ns}

\* The search for a delegation goes from the zone's domain to the name.
Records(qname, z, sub) ==
    IF Cuts(z, sub) # {}
    THEN LET n    == CHOOSE n \in Cuts(z, sub) : \A m \in Cuts(z, sub) : n <= m
             name == End(qname, Len(qname) - Len(sub) + n)
         IN  {[zone |-> nil, zoneName |-> name, entries |-> {e}, name |-> name] :
                 e \in {x \in LookupRelativeDomainName(heap[z].key, End(sub, n)) : x.ns}}
    ELSE {[zone     |-> z,
           zoneName |-> End(qname, Len(qname) - Len(sub)),
           entries  |-> IF sub = <<>> THEN {} ELSE LookupRelativeDomainName(heap[z].key, sub),
           name     |-> qname]}

ResolveFQDN(z, qname) ==
    LET zn == Matches(z, qname) IN
    IF zn = <<>> THEN {}
    ELSE UNION {Records(qname, end[1], end[2]) : end \in Forward(z, Without(qname, zn))}

-----------------------------------------------------------------------------
(* Addresses. *)

expand_swapped(names, fqdns) == {f \o n : n \in names, f \in fqdns}

expand(names, fqdns) == {n \o f : n \in names, f \in fqdns}

\* The answers come from the zone and from all zones found below it.
resolveIP(z, fqdns) ==
    LET infos[p \in {o \in Obj : heap[o] # nil} \X SUBSET Domains] ==
            LET key   == heap[p[1]].key
                list  == LookupIP(key)
                below == expand(DomainNames[key], p[2])
            IN  (IF list = {} THEN {}
                 ELSE {[zone |-> p[1], zoneNames |-> below, entries |-> list,
                        names |-> UNION {expand(e.names, below) : e \in list}]})
                \cup UNION {infos[<<c, below>>] : c \in Children(p[1])}
    IN  infos[<<z, fqdns>>]

ResolveIP(z) == resolveIP(z, {<<>>})

-----------------------------------------------------------------------------
(* What the answers should be, from the objects of the zones alone. *)

\* The full names of zone c seen from zone k: a name of every zone on the way
\* up to k.  There are none if c is not k and not nested below it.
FullNames(k, c) ==
    LET full[z \in Zones] ==
            LET p == heap[zones[z]].parentName IN
            IF zones[z] = nil THEN {}
            ELSE IF z = k THEN DomainNames[k]
            ELSE IF p = NoZone THEN {}
            ELSE {d \o f : d \in DomainNames[z], f \in full[p]}
    IN  full[c]

Subtree(k) == {c \in Zones : FullNames(k, c) # {}}

\* The children found below k are the zones that refer to their parent there.
Exact(k) == \A c \in Subtree(k) : Children(zones[c]) = {zones[x] : x \in Below(c)}

Comparable(a, b) == IsSuffix(a, b) \/ IsSuffix(b, a)

\* No two names of zones below k lay claim to the same domain.
Unambiguous(k) ==
    \A p \in Subtree(k) : \A c \in Below(p) : \A n \in DomainNames[c] :
        /\ \A x \in Below(p) \ {c} : \A m \in DomainNames[x] : ~Comparable(n, m)
        /\ \A s, l \in DomainNames[p] :
              IsStrictSuffix(s, l) => ~Comparable(n, Without(l, s))

\* The zone below k with the longest full name that qname ends with.
Authority(k, qname) ==
    LET all == {a \in UNION {{c} \X FullNames(k, c) : c \in Zones} : IsSuffix(a[2], qname)}
    IN  {a \in all : \A b \in all : Len(b[2]) <= Len(a[2])}

\* The delegations of zone c, named f, for qname.
Delegations(c, f, qname) ==
    {d \in UNION {{e} \X {n \o f : n \in e.names} : e \in Entries} :
        d[1].zone = c /\ d[1].ns /\ IsSuffix(d[2], qname)}

Expected(k, qname) ==
    UNION {LET c == a[1]
               f == a[2]
               all == Delegations(c, f, qname)
           IN  IF all = {}
               THEN {[zone |-> zones[c], zoneName |-> f, name |-> qname,
                      entries |-> {e \in Entries : e.zone = c /\ \E n \in e.names : n \o f = qname}]}
               ELSE {[zone |-> nil, zoneName |-> d[2], entries |-> {d[1]}, name |-> d[2]] :
                        d \in {y \in all : \A x \in all : Len(y[2]) <= Len(x[2])}} :
           a \in Authority(k, qname)}

(***************************************************************************)
(* "This request also handles local nested zones": where the links are     *)
(* right and the names unambiguous, a name is answered by the zone with    *)
(* the longest matching full name, or by the topmost delegation below it.  *)
(* A delegation is answered as the code does it, by no zone and the        *)
(* delegated name.  (The test "provide forwarded NS", model_test.go:243,   *)
(* expects the zone that holds the entry, and its names, instead.)         *)
(***************************************************************************)
NamesResolved ==
    lock = "free" =>
        \A k \in Zones : zones[k] # nil /\ Exact(k) /\ Unambiguous(k) =>
            \A q \in Queries : ResolveFQDN(zones[k], q) = Expected(k, q)

\* What zone c should tell of the address, asked by way of zone k.
Host(k, c) ==
    [zone |-> zones[c], zoneNames |-> FullNames(k, c), entries |-> LookupIP(c),
     names |-> UNION {{n \o f : n \in e.names, f \in FullNames(k, c)} : e \in LookupIP(c)}]

(***************************************************************************)
(* "a complete list of matching names for the IP address": where the links *)
(* are right every entry with the address is found below a zone, with all  *)
(* the full names it has, and nothing else.                                *)
(***************************************************************************)
AddressesResolved ==
    lock = "free" =>
        \A k \in Zones : zones[k] # nil /\ Exact(k) =>
            ResolveIP(zones[k]) =
                {Host(k, c) : c \in {x \in Subtree(k) : LookupIP(x) # {}}}

=============================================================================
