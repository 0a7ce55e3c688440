------------------------ MODULE ResponsibilityProofs ------------------------
(***************************************************************************)
(* The walk of GetRootInfo always ends, and computes the root that the     *)
(* parent references lead to, for any objects and any number of zones.     *)
(***************************************************************************)
EXTENDS Responsibility, TLAPS, FiniteSetTheorems, WellFoundedInduction

\* Parent references name zones, or nothing.
Linked(os) ==
    \A z \in Zones : os[z] # Absent => os[z].spec.parent \in Zones \cup {NoZone}

-----------------------------------------------------------------------------
(* Zones passed on the way up. *)

\* What is passed from z contains z and all parents, and nothing else.
LEMMA PassedLeast ==
    ASSUME NEW os, Linked(os), NEW z \in Zones
    PROVE  /\ z \in Passed(os, z) /\ Passed(os, z) \subseteq Zones
           /\ Closed(os, Passed(os, z))
           /\ \A S \in SUBSET Zones : z \in S /\ Closed(os, S) => Passed(os, z) \subseteq S
<1>1. z \in Passed(os, z) /\ Passed(os, z) \subseteq Zones
  BY DEF Passed
<1>2. ASSUME NEW w \in Passed(os, z), Up(os, w) # NoZone
      PROVE  Up(os, w) \in Passed(os, z)
  <2>1. Up(os, w) \in Zones
    BY <1>1, <1>2 DEF Linked, Up
  <2>2. ASSUME NEW S \in SUBSET Zones, z \in S, Closed(os, S)
        PROVE  Up(os, w) \in S
    BY <1>2, <2>2 DEF Passed, Closed
  <2>3. QED
    BY <2>1, <2>2 DEF Passed
<1>3. QED
  BY <1>1, <1>2 DEF Passed, Closed

\* What is passed from z is z, and what is passed from its parent.
LEMMA PassedStep ==
    ASSUME NEW os, Linked(os), NEW z \in Zones
    PROVE  /\ Up(os, z) = NoZone => Passed(os, z) = {z}
           /\ Up(os, z) # NoZone => /\ Up(os, z) \in Zones
                                    /\ Passed(os, z) = {z} \cup Passed(os, Up(os, z))
<1>1. CASE Up(os, z) = NoZone
  <2>1. Closed(os, {z})
    BY <1>1 DEF Closed
  <2>2. Passed(os, z) \subseteq {z}
    BY <2>1, PassedLeast
  <2>3. QED
    BY <1>1, <2>2, PassedLeast
<1>2. CASE Up(os, z) # NoZone
  <2> DEFINE p == Up(os, z)
  <2>1. p \in Zones
    BY <1>2 DEF Linked, Up
  <2>2. /\ Passed(os, p) \subseteq Zones /\ Closed(os, Passed(os, p)) /\ p \in Passed(os, p)
        /\ \A S \in SUBSET Zones : p \in S /\ Closed(os, S) => Passed(os, p) \subseteq S
    BY <2>1, PassedLeast
  <2>3. /\ z \in Passed(os, z) /\ Passed(os, z) \subseteq Zones /\ Closed(os, Passed(os, z))
        /\ \A S \in SUBSET Zones : z \in S /\ Closed(os, S) => Passed(os, z) \subseteq S
    BY PassedLeast
  <2>4. Closed(os, {z} \cup Passed(os, p))
    BY <2>2 DEF Closed
  <2>5. Passed(os, z) \subseteq {z} \cup Passed(os, p)
    BY <2>2, <2>3, <2>4
  <2>6. Passed(os, p) \subseteq Passed(os, z)
    BY <1>2, <2>2, <2>3 DEF Closed
  <2>7. QED
    BY <1>2, <2>1, <2>3, <2>5, <2>6
<1>3. QED
  BY <1>1, <1>2

\* A way up that comes back to its start has no end.
LEMMA CycleEndless ==
    ASSUME NEW os, Linked(os), NEW z \in Zones, Up(os, z) # NoZone,
           z \in Passed(os, Up(os, z)),
           NEW r \in Passed(os, Up(os, z))
    PROVE  Up(os, r) # NoZone
<1> DEFINE C == {w \in Zones : z \in Passed(os, w)}
<1>1. \A w \in C : Up(os, w) # NoZone
  BY PassedStep
<1>2. ASSUME NEW w \in C PROVE Up(os, w) \in C
  <2>1. Up(os, w) \in Zones /\ z \in {w} \cup Passed(os, Up(os, w))
    BY <1>1, PassedStep
  <2>2. QED
    BY <2>1
<1>3. Up(os, z) \in C /\ Closed(os, C)
  BY <1>2, PassedStep DEF Closed
<1>4. Passed(os, Up(os, z)) \subseteq C
  BY <1>3, PassedLeast
<1>5. QED
  BY <1>1, <1>4

\* A way up has one end only.
LEMMA OneEnd ==
    ASSUME NEW os, Linked(os), NEW z \in Zones,
           NEW r \in Passed(os, z), Up(os, r) = NoZone,
           NEW s \in Passed(os, z), Up(os, s) = NoZone
    PROVE  r = s
<1> SUFFICES ASSUME r # s PROVE FALSE
  OBVIOUS
<1> DEFINE C == {w \in Zones : r \in Passed(os, w) /\ s \in Passed(os, w)}
<1>1. ASSUME NEW w \in C PROVE Up(os, w) # NoZone /\ Up(os, w) \in C
  <2>1. Up(os, w) # NoZone
    BY PassedStep
  <2>2. w # r /\ w # s
    BY <2>1
  <2>3. Up(os, w) \in Zones /\ Passed(os, w) = {w} \cup Passed(os, Up(os, w))
    BY <2>1, PassedStep
  <2>4. QED
    BY <2>1, <2>2, <2>3
<1>2. z \in C /\ Closed(os, C)
  BY <1>1 DEF Closed
<1>3. Passed(os, z) \subseteq C
  BY <1>2, PassedLeast
<1>4. QED
  BY <1>1, <1>3

-----------------------------------------------------------------------------
(* The recursion of GetRootInfo, and the function it defines. *)

Present(os) == {y \in Zones : os[y] # Absent}

Walks(os) == Present(os) \X SUBSET Zones

Step(os, f, p) ==
    LET up == os[p[1]].spec.parent IN
    IF up = NoZone THEN [found |-> TRUE, root |-> p[1]]
    ELSE IF up \in p[2] \/ os[up] = Absent \/ os[up].deleting
         THEN [found |-> FALSE, root |-> NoZone]
         ELSE f[<<up, p[2] \cup {up}>>]

Climb(os) == CHOOSE f : f = [p \in Walks(os) |-> Step(os, f, p)]

\* From y the walk ends at the root, without meeting one of the zones in u.
Arrives(os, y, u) ==
    /\ \E r \in Passed(os, y) : Up(os, r) = NoZone
    /\ \A w \in Passed(os, y) \ {y} : Alive(os, w) /\ w \notin u

Outcome(os, y, u) ==
    IF Arrives(os, y, u) THEN [found |-> TRUE, root |-> TopZone(os, y)]
    ELSE [found |-> FALSE, root |-> NoZone]

\* The end of the way up is passed, and the parent's is the same.
LEMMA EndShared ==
    ASSUME NEW os, Linked(os), NEW z \in Zones,
           \E r \in Passed(os, z) : Up(os, r) = NoZone
    PROVE  /\ TopZone(os, z) \in Passed(os, z) /\ Up(os, TopZone(os, z)) = NoZone
           /\ Up(os, z) = NoZone => TopZone(os, z) = z
           /\ Up(os, z) # NoZone => TopZone(os, z) = TopZone(os, Up(os, z))
<1>1. TopZone(os, z) \in Passed(os, z) /\ Up(os, TopZone(os, z)) = NoZone
  BY DEF TopZone
<1>2. Up(os, z) = NoZone => TopZone(os, z) = z
  BY <1>1, PassedStep
<1>3. ASSUME Up(os, z) # NoZone PROVE TopZone(os, z) = TopZone(os, Up(os, z))
  <2>1. Up(os, z) \in Zones /\ Passed(os, z) = {z} \cup Passed(os, Up(os, z))
    BY <1>3, PassedStep
  <2>2. TopZone(os, z) \in Passed(os, Up(os, z))
    BY <1>1, <1>3, <2>1
  <2>3. TopZone(os, Up(os, z)) \in Passed(os, Up(os, z)) /\ Up(os, TopZone(os, Up(os, z))) = NoZone
    BY <1>1, <2>2 DEF TopZone
  <2>4. QED
    BY <1>1, <2>1, <2>2, <2>3, OneEnd
<1>4. QED
  BY <1>1, <1>2, <1>3

\* The outcomes satisfy the equation of the recursion.
LEMMA OutcomeStep ==
    ASSUME NEW os, Linked(os), NEW y \in Present(os), NEW u \in SUBSET Zones
    PROVE  LET p == Up(os, y) IN
           Outcome(os, y, u) =
               IF p = NoZone THEN [found |-> TRUE, root |-> y]
               ELSE IF p \in u \/ ~Alive(os, p) THEN [found |-> FALSE, root |-> NoZone]
               ELSE Outcome(os, p, u \cup {p})
<1> DEFINE p == Up(os, y)
<1>1. y \in Zones
  BY DEF Present
<1>2. CASE p = NoZone
  <2>1. Passed(os, y) = {y}
    BY <1>1, <1>2, PassedStep
  <2>2. Arrives(os, y, u) /\ TopZone(os, y) = y
    BY <1>1, <1>2, <2>1, EndShared DEF Arrives
  <2>3. QED
    BY <1>2, <2>2 DEF Outcome
<1>3. CASE p # NoZone
  <2>1. p \in Zones /\ Passed(os, y) = {y} \cup Passed(os, p) /\ p \in Passed(os, p)
    BY <1>1, <1>3, PassedStep, PassedLeast
  <2>2. y \in Passed(os, p) => \A r \in Passed(os, p) : Up(os, r) # NoZone
    BY <1>1, <1>3, CycleEndless
  <2>3. CASE p \in u \/ ~Alive(os, p)
    <3>1. ~Arrives(os, y, u)
      BY <1>3, <2>1, <2>2, <2>3 DEF Arrives
    <3>2. QED
      BY <1>3, <2>3, <3>1 DEF Outcome
  <2>4. CASE ~(p \in u \/ ~Alive(os, p))
    <3>1. Arrives(os, y, u) <=> Arrives(os, p, u \cup {p})
      BY <1>3, <2>1, <2>2, <2>4 DEF Arrives
    <3>2. Arrives(os, y, u) => TopZone(os, y) = TopZone(os, p)
      BY <1>1, <1>3, EndShared DEF Arrives
    <3>3. QED
      BY <1>3, <2>4, <3>1, <3>2 DEF Outcome
  <2>5. QED
    BY <2>3, <2>4
<1>4. QED
  BY <1>2, <1>3

Outcomes(os) == [p \in Walks(os) |-> Outcome(os, p[1], p[2])]

LEMMA OutcomesSolve ==
    ASSUME NEW os, Linked(os)
    PROVE  Outcomes(os) = [p \in Walks(os) |-> Step(os, Outcomes(os), p)]
<1> DEFINE f == Outcomes(os)
<1>1. ASSUME NEW p \in Walks(os) PROVE f[p] = Step(os, f, p)
  <2>1. PICK y \in Present(os), u \in SUBSET Zones : p = <<y, u>>
    BY DEF Walks
  <2>2. f[p] = Outcome(os, y, u)
    BY <2>1 DEF Outcomes
  <2>3. Up(os, y) = os[y].spec.parent /\ Up(os, y) \in Zones \cup {NoZone}
    BY DEF Up, Present, Linked
  <2>4. CASE Up(os, y) = NoZone \/ Up(os, y) \in u \/ ~Alive(os, Up(os, y))
    BY <2>1, <2>2, <2>3, <2>4, OutcomeStep DEF Step, Alive
  <2>5. CASE ~(Up(os, y) = NoZone \/ Up(os, y) \in u \/ ~Alive(os, Up(os, y)))
    <3>1. <<Up(os, y), u \cup {Up(os, y)}>> \in Walks(os)
      BY <2>3, <2>5 DEF Walks, Present, Alive
    <3>2. f[<<Up(os, y), u \cup {Up(os, y)}>>] = Outcome(os, Up(os, y), u \cup {Up(os, y)})
      BY <3>1 DEF Outcomes
    <3>3. Step(os, f, p) = f[<<Up(os, y), u \cup {Up(os, y)}>>]
      BY <2>1, <2>3, <2>5 DEF Step, Alive
    <3>4. QED
      BY <2>2, <2>5, <3>2, <3>3, OutcomeStep
  <2>6. QED
    BY <2>4, <2>5
<1>2. QED
  BY <1>1 DEF Outcomes

\* It has no other solution: two solutions that differ somewhere differ at
\* the next step as well, and each step adds a zone to a finite set.
LEMMA OneSolution ==
    ASSUME NEW os, Linked(os),
           NEW f, f = [p \in Walks(os) |-> Step(os, f, p)],
           NEW g, g = [p \in Walks(os) |-> Step(os, g, p)]
    PROVE  f = g
<1> DEFINE Left == {V \in SUBSET Zones :
                       \E y \in Present(os) : f[<<y, Zones \ V>>] # g[<<y, Zones \ V>>]}
<1>1. IsWellFoundedOn(StrictSubsetOrdering(Zones), FiniteSubsetsOf(Zones))
  BY FS_StrictSubsetOrderingWellFounded
<1>2. SUBSET Zones = FiniteSubsetsOf(Zones)
  BY ZonesAssumption, FS_FiniteSubsetsOfFinite
<1>3. ASSUME NEW V \in Left
      PROVE  \E W \in Left : <<W, V>> \in StrictSubsetOrdering(Zones)
  <2>1. PICK y \in Present(os) : f[<<y, Zones \ V>>] # g[<<y, Zones \ V>>]
    OBVIOUS
  <2> DEFINE u  == Zones \ V
             p  == os[y].spec.parent
             up == <<p, u \cup {p}>>
  <2>2. /\ f[<<y, u>>] = Step(os, f, <<y, u>>)
        /\ g[<<y, u>>] = Step(os, g, <<y, u>>)
    <3>1. <<y, u>> \in Walks(os)
      BY DEF Walks
    <3>2. QED
      BY <3>1
  <2>3. /\ p # NoZone /\ p \notin u /\ os[p] # Absent /\ f[up] # g[up]
    BY <2>1, <2>2 DEF Step
  <2>4. p \in Zones /\ p \in V
    BY <2>3 DEF Present, Linked
  <2>5. Zones \ (V \ {p}) = u \cup {p}
    BY <2>4
  <2>6. V \ {p} \in Left
    BY <2>3, <2>4, <2>5 DEF Present
  <2>7. <<V \ {p}, V>> \in StrictSubsetOrdering(Zones)
    BY <2>4 DEF StrictSubsetOrdering
  <2>8. QED
    BY <2>6, <2>7
<1>4. Left = {}
  <2>1. SUFFICES ASSUME Left # {} PROVE FALSE
    OBVIOUS
  <2>2. Left \subseteq FiniteSubsetsOf(Zones)
    BY <1>2
  <2>3. \E V \in Left : \A W \in Left : <<W, V>> \notin StrictSubsetOrdering(Zones)
    BY <1>1, <2>1, <2>2, WFMin
  <2>4. QED
    BY <1>3, <2>3
<1>5. ASSUME NEW y \in Present(os), NEW u \in SUBSET Zones PROVE f[<<y, u>>] = g[<<y, u>>]
  <2>1. Zones \ (Zones \ u) = u /\ Zones \ u \in SUBSET Zones
    OBVIOUS
  <2>2. QED
    BY <1>4, <2>1
<1>6. ASSUME NEW p \in Walks(os) PROVE f[p] = g[p]
  <2>1. PICK y \in Present(os), u \in SUBSET Zones : p = <<y, u>>
    BY DEF Walks
  <2>2. QED
    BY <1>5, <2>1
<1>7. QED
  BY <1>6

(***************************************************************************)
(* GetRootInfo is well-defined, for chains and cycles of any length, and   *)
(* finds the root zone exactly if the parent references lead to one and no *)
(* zone above the start is missing or under deletion.                      *)
(***************************************************************************)
THEOREM RootInfoCorrect ==
    ASSUME NEW os, Linked(os), NEW z \in Zones, os[z] # Absent
    PROVE  GetRootInfo(os, z) = ChainInfo(os, z)
<1>1. Climb(os) = [p \in Walks(os) |-> Step(os, Climb(os), p)]
  BY OutcomesSolve DEF Climb
<1>2. Climb(os) = Outcomes(os)
  BY <1>1, OutcomesSolve, OneSolution
<1>3. <<z, {z}>> \in Walks(os)
  BY DEF Walks, Present
<1>4. Outcomes(os)[<<z, {z}>>] = Outcome(os, z, {z})
  BY <1>3 DEF Outcomes
<1>5. GetRootInfo(os, z) = Climb(os)[<<z, {z}>>]
  BY DEF GetRootInfo, Climb, Step, Walks, Present
<1>6. Outcome(os, z, {z}) = ChainInfo(os, z)
  BY DEF Outcome, Arrives, ChainInfo
<1>7. QED
  BY <1>2, <1>4, <1>5, <1>6

(***************************************************************************)
(* The equations of GetRootInfo a caller relies on: a zone without parent  *)
(* is its own root, and another one has the root of its parent, if that    *)
(* one is alive and has one.                                               *)
(***************************************************************************)
THEOREM RootInfoStep ==
    ASSUME NEW os, Linked(os), NEW z \in Zones, os[z] # Absent
    PROVE  LET p == os[z].spec.parent IN
           /\ p = NoZone => GetRootInfo(os, z) = [found |-> TRUE, root |-> z]
           /\ p # NoZone => GetRootInfo(os, z) =
                 IF Alive(os, p) THEN GetRootInfo(os, p)
                 ELSE [found |-> FALSE, root |-> NoZone]
<1> DEFINE p == os[z].spec.parent
<1>1. GetRootInfo(os, z) = Outcome(os, z, {z})
  BY RootInfoCorrect DEF Outcome, Arrives, ChainInfo
<1>2. Up(os, z) = p /\ z \in Present(os)
  BY DEF Up, Present
<1>3. CASE p = NoZone
  BY <1>1, <1>2, <1>3, OutcomeStep
<1>4. CASE p # NoZone /\ ~Alive(os, p)
  <2>1. PICK u \in SUBSET Zones : u = {z}
    OBVIOUS
  <2> HIDE DEF p
  <2>2. Outcome(os, z, u) = [found |-> FALSE, root |-> NoZone]
    BY <1>2, <1>4, OutcomeStep
  <2>3. GetRootInfo(os, z) = [found |-> FALSE, root |-> NoZone]
    BY <1>1, <2>1, <2>2
  <2>4. QED
    BY <1>4, <2>3 DEF p
<1>5. CASE p # NoZone /\ Alive(os, p)
  <2>1. /\ p \in Zones /\ Passed(os, z) = {z} \cup Passed(os, p)
        /\ p \in Passed(os, p)
        /\ z \in Passed(os, p) => \A r \in Passed(os, p) : Up(os, r) # NoZone
    BY <1>2, <1>5, PassedStep, PassedLeast, CycleEndless
  <2>2. GetRootInfo(os, p) = Outcome(os, p, {p})
    BY <1>5, <2>1, RootInfoCorrect DEF Outcome, Arrives, ChainInfo, Alive
  <2>3. Arrives(os, z, {z}) <=> Arrives(os, p, {p})
    BY <1>2, <1>5, <2>1 DEF Arrives
  <2>4. Arrives(os, z, {z}) => TopZone(os, z) = TopZone(os, p)
    BY <1>2, <1>5, EndShared DEF Arrives
  <2>5. QED
    BY <1>1, <1>5, <2>2, <2>3, <2>4 DEF Outcome
<1>6. QED
  BY <1>3, <1>4, <1>5

\* A root that is found is a zone without parent, and not under deletion if
\* it is not the start itself.
LEMMA RootType ==
    ASSUME NEW os, Linked(os), NEW z \in Zones, os[z] # Absent
    PROVE  LET i == GetRootInfo(os, z) IN
           /\ i.found \in BOOLEAN
           /\ i.found => /\ i.root \in Zones /\ os[i.root] # Absent
                         /\ os[i.root].spec.parent = NoZone
                         /\ i.root = z \/ Alive(os, i.root)
<1>1. CASE GetRootInfo(os, z) = [found |-> FALSE, root |-> NoZone]
  BY <1>1
<1>2. CASE /\ \E r \in Passed(os, z) : Up(os, r) = NoZone
           /\ \A w \in Passed(os, z) \ {z} : Alive(os, w)
           /\ GetRootInfo(os, z) = [found |-> TRUE, root |-> TopZone(os, z)]
  <2>1. TopZone(os, z) \in Passed(os, z) /\ Up(os, TopZone(os, z)) = NoZone
    BY <1>2, EndShared
  <2>2. TopZone(os, z) \in Zones /\ (TopZone(os, z) = z \/ Alive(os, TopZone(os, z)))
    BY <1>2, <2>1, PassedLeast
  <2>3. QED
    BY <1>2, <2>1, <2>2 DEF Up, Alive
<1>3. QED
  BY <1>1, <1>2, RootInfoCorrect DEF ChainInfo

-----------------------------------------------------------------------------
(* What the root depends on. *)

\* Every zone passed after the start is the parent of one passed before.
LEMMA PassedVia ==
    ASSUME NEW os, Linked(os), NEW z \in Zones, NEW w \in Passed(os, z), w # z
    PROVE  \E c \in Passed(os, z) : os[c] # Absent /\ os[c].spec.parent = w
<1> SUFFICES ASSUME \A c \in Passed(os, z) : Up(os, c) # w PROVE FALSE
  BY PassedLeast, NamesAssumption DEF Up
<1> DEFINE S == Passed(os, z) \ {w}
<1>1. S \in SUBSET Zones /\ z \in S /\ Closed(os, S)
  BY PassedLeast DEF Closed
<1>2. Passed(os, z) \subseteq S
  BY <1>1, PassedLeast
<1>3. QED
  BY <1>2

\* Objects that agree on what is passed from z have the same root of z.
LEMMA PassedAgree ==
    ASSUME NEW os, Linked(os), NEW pt, Linked(pt), NEW z \in Zones,
           \A w \in Passed(pt, z) : Up(os, w) = Up(pt, w)
    PROVE  Passed(os, z) = Passed(pt, z)
<1>1. /\ z \in Passed(pt, z) /\ Passed(pt, z) \subseteq Zones
      /\ Closed(pt, Passed(pt, z))
      /\ \A S \in SUBSET Zones : z \in S /\ Closed(pt, S) => Passed(pt, z) \subseteq S
  BY PassedLeast
<1>2. /\ z \in Passed(os, z) /\ Passed(os, z) \subseteq Zones
      /\ Closed(os, Passed(os, z))
      /\ \A S \in SUBSET Zones : z \in S /\ Closed(os, S) => Passed(os, z) \subseteq S
  BY PassedLeast
<1>3. Passed(os, z) \subseteq Passed(pt, z)
  BY <1>1, <1>2 DEF Closed
<1>4. Closed(pt, Passed(os, z))
  BY <1>2, <1>3 DEF Closed
<1>5. Passed(pt, z) \subseteq Passed(os, z)
  BY <1>1, <1>2, <1>4
<1>6. QED
  BY <1>3, <1>5

\* The root found from z depends on the zones passed, and nothing else.
LEMMA RootAgree ==
    ASSUME NEW os, Linked(os), NEW pt, Linked(pt), NEW z \in Zones, pt[z] # Absent,
           \A w \in Passed(pt, z) : os[w] = pt[w]
    PROVE  GetRootInfo(os, z) = GetRootInfo(pt, z)
<1>1. \A w \in Passed(pt, z) : Up(os, w) = Up(pt, w) /\ (Alive(os, w) <=> Alive(pt, w))
  BY DEF Up, Alive
<1>2. Passed(os, z) = Passed(pt, z)
  BY <1>1, PassedAgree
<1>3. (\E r \in Passed(pt, z) : Up(pt, r) = NoZone) => TopZone(os, z) = TopZone(pt, z)
  <2> SUFFICES ASSUME \E r \in Passed(pt, z) : Up(pt, r) = NoZone
               PROVE  TopZone(os, z) = TopZone(pt, z)
    OBVIOUS
  <2>1. TopZone(os, z) \in Passed(os, z) /\ Up(os, TopZone(os, z)) = NoZone
    BY <1>1, <1>2, EndShared
  <2>2. TopZone(pt, z) \in Passed(pt, z) /\ Up(pt, TopZone(pt, z)) = NoZone
    BY EndShared
  <2>3. QED
    BY <1>1, <1>2, <2>1, <2>2, OneEnd
<1>4. ChainInfo(os, z) = ChainInfo(pt, z)
  BY <1>1, <1>2, <1>3 DEF ChainInfo
<1>5. os[z] # Absent
  BY PassedLeast
<1>6. QED
  BY <1>4, <1>5, RootInfoCorrect

\* A zone is not found to have a root if one on the way is missing.
LEMMA RootMissing ==
    ASSUME NEW os, Linked(os), NEW z \in Zones, os[z] # Absent,
           NEW w \in Passed(os, z), os[w] = Absent
    PROVE  ~GetRootInfo(os, z).found
BY RootInfoCorrect DEF ChainInfo, Alive
=============================================================================
