-------------------------- MODULE ResolutionProofs --------------------------
(***************************************************************************)
(* Theorems about the lookups, for any finite set of zones with any names  *)
(* and entries.                                                            *)
(***************************************************************************)
EXTENDS Resolution, ZoneModelProofs, FiniteSetTheorems, WellFoundedInduction, SequenceTheorems

-----------------------------------------------------------------------------
(* Ends of names. *)

\* What has the same labels is the same name.
LEMMA SameName ==
    ASSUME NEW s \in Domains, NEW t \in Domains,
           Len(s) = Len(t), \A i \in 1 .. Len(s) : s[i] = t[i]
    PROVE  s = t
BY SeqEqual DEF Domains

\* Two names joined.
LEMMA Joined ==
    ASSUME NEW r \in Domains, NEW s \in Domains
    PROVE  /\ r \o s \in Domains
           /\ Len(r) \in Nat /\ Len(s) \in Nat
           /\ Len(r \o s) = Len(r) + Len(s)
           /\ \A i \in 1 .. Len(r) : (r \o s)[i] = r[i]
           /\ \A i \in 1 .. Len(s) : (r \o s)[Len(r) + i] = s[i]
<1>1. /\ r \o s \in Domains
      /\ Len(r \o s) = Len(r) + Len(s)
      /\ \A i \in 1 .. Len(r) + Len(s) : (r \o s)[i] = IF i <= Len(r) THEN r[i] ELSE s[i - Len(r)]
  BY ConcatProperties DEF Domains
<1>2. Len(r) \in Nat /\ Len(s) \in Nat
  BY LenProperties DEF Domains
<1>3. ASSUME NEW i \in 1 .. Len(s) PROVE (r \o s)[Len(r) + i] = s[i]
  <2>1. Len(r) + i \in 1 .. Len(r) + Len(s) /\ ~(Len(r) + i <= Len(r)) /\ Len(r) + i - Len(r) = i
    BY <1>2
  <2>2. QED
    BY <1>1, <2>1
<1>4. ASSUME NEW i \in 1 .. Len(r) PROVE (r \o s)[i] = r[i]
  BY <1>1, <1>2
<1>5. QED
  BY <1>1, <1>2, <1>3, <1>4

\* A name is cut in two at any place.
LEMMA Parts ==
    ASSUME NEW t \in Domains, NEW n \in 0 .. Len(t)
    PROVE  /\ SubSeq(t, 1, Len(t) - n) \in Domains /\ Len(SubSeq(t, 1, Len(t) - n)) = Len(t) - n
           /\ End(t, n) \in Domains /\ Len(End(t, n)) = n
           /\ t = SubSeq(t, 1, Len(t) - n) \o End(t, n)
<1> DEFINE a == SubSeq(t, 1, Len(t) - n)
<1>1. Len(t) \in Nat /\ \A i \in 1 .. Len(t) : t[i] \in STRING
  BY LenProperties, ElementOfSeq DEF Domains
<1>2. /\ a \in Domains /\ Len(a) = Len(t) - n
      /\ \A i \in 1 .. Len(t) - n : a[i] = t[i]
  BY <1>1 DEF Domains
<1>3. /\ End(t, n) \in Domains /\ Len(End(t, n)) = n
      /\ \A i \in 1 .. n : End(t, n)[i] = t[Len(t) - n + i]
  BY <1>1 DEF Domains, End
<1> HIDE DEF a
<1>4. t = a \o End(t, n)
  <2>1. Len(a \o End(t, n)) = Len(t) /\ a \o End(t, n) \in Domains
    <3>1. /\ a \o End(t, n) \in Domains
          /\ Len(a \o End(t, n)) = Len(a) + Len(End(t, n))
      BY <1>2, <1>3, Joined
    <3>2. QED
      BY <1>1, <1>2, <1>3, <3>1
  <2>2. ASSUME NEW i \in 1 .. Len(t) PROVE t[i] = (a \o End(t, n))[i]
    <3>1. CASE i <= Len(t) - n
      BY <1>1, <1>2, <1>3, <3>1, Joined
    <3>2. CASE i > Len(t) - n
      <4>1. PICK j \in 1 .. n : i = Len(t) - n + j
        <5>1. i - (Len(t) - n) \in 1 .. n /\ i = Len(t) - n + (i - (Len(t) - n))
          BY <1>1, <3>2
        <5>2. QED
          BY <5>1
      <4>2. \A x \in 1 .. Len(End(t, n)) : (a \o End(t, n))[Len(a) + x] = End(t, n)[x]
        BY <1>2, <1>3, Joined
      <4>3. End(t, n)[j] = t[Len(t) - n + j]
        BY <1>3
      <4>4. QED
        BY <1>2, <1>3, <4>1, <4>2, <4>3
    <3>3. i <= Len(t) - n \/ i > Len(t) - n
      BY ONLY <1>1, i \in 1 .. Len(t), n \in 0 .. Len(t)
    <3>4. QED
      BY ONLY <3>1, <3>2, <3>3
  <2>3. QED
    BY <2>1, <2>2, SameName
<1>5. QED
  BY <1>2, <1>3, <1>4 DEF a

\* Two names joined from parts of the same lengths have the same parts.
LEMMA PartsUnique ==
    ASSUME NEW a \in Domains, NEW b \in Domains, NEW c \in Domains, NEW d \in Domains,
           a \o b = c \o d, Len(b) = Len(d)
    PROVE  a = c /\ b = d
<1>1. Len(a) = Len(c)
  <2>1. Len(a \o b) = Len(a) + Len(b) /\ Len(c \o d) = Len(c) + Len(d)
    BY Joined
  <2>2. Len(a) \in Nat /\ Len(b) \in Nat /\ Len(c) \in Nat
    BY Joined
  <2>3. QED
    BY <2>1, <2>2
<1>2. \A i \in 1 .. Len(a) : a[i] = c[i]
  BY <1>1, Joined
<1>3. ASSUME NEW i \in 1 .. Len(b) PROVE b[i] = d[i]
  <2>1. (a \o b)[Len(a) + i] = b[i]
    BY Joined
  <2>2. (c \o d)[Len(c) + i] = d[i]
    BY Joined
  <2>3. QED
    BY <1>1, <2>1, <2>2
<1>4. QED
  BY <1>1, <1>2, <1>3, SameName

\* The parts of a joined name are found again.
LEMMA JoinedParts ==
    ASSUME NEW r \in Domains, NEW s \in Domains
    PROVE  Without(r \o s, s) = r /\ End(r \o s, Len(s)) = s
<1>1. Len(s) \in 0 .. Len(r \o s) /\ r \o s \in Domains
  BY Joined
<1>2. /\ Without(r \o s, s) \in Domains
      /\ End(r \o s, Len(s)) \in Domains /\ Len(End(r \o s, Len(s))) = Len(s)
      /\ r \o s = Without(r \o s, s) \o End(r \o s, Len(s))
  BY <1>1, Parts DEF Without
<1>3. \A a, b \in Domains : r \o s = a \o b /\ Len(s) = Len(b) => r = a /\ s = b
  BY PartsUnique
<1> HIDE DEF Without
<1>4. QED
  BY <1>2, <1>3

\* The end of a name is what something is joined to, and Without is that.
LEMMA SuffixParts ==
    ASSUME NEW s \in Domains, NEW t \in Domains
    PROVE  /\ IsSuffix(s, t) <=> Len(s) <= Len(t) /\ End(t, Len(s)) = s
           /\ IsSuffix(s, t) <=> \E r \in Domains : t = r \o s
           /\ IsSuffix(s, t) => Without(t, s) \in Domains /\ t = Without(t, s) \o s
<1>1. Len(s) \in Nat /\ Len(t) \in Nat
  BY LenProperties DEF Domains
<1> DEFINE rs == Reverse(s)
           rt == Reverse(t)
<1>2. /\ rs \in Domains /\ Len(rs) = Len(s) /\ \A i \in 1 .. Len(s) : rs[i] = s[Len(s) - i + 1]
      /\ rt \in Domains /\ Len(rt) = Len(t) /\ \A i \in 1 .. Len(t) : rt[i] = t[Len(t) - i + 1]
  BY <1>1 DEF Reverse, Domains
<1> HIDE DEF rs, rt
<1>3. ASSUME Len(s) <= Len(t)
      PROVE  SubSeq(rs, 1, Len(s)) = SubSeq(rt, 1, Len(s)) <=> End(t, Len(s)) = s
  <2>1. /\ SubSeq(rs, 1, Len(s)) = rs
        /\ SubSeq(rt, 1, Len(s)) \in Domains /\ Len(SubSeq(rt, 1, Len(s))) = Len(s)
        /\ \A i \in 1 .. Len(s) : SubSeq(rt, 1, Len(s))[i] = rt[i]
    BY <1>1, <1>2, <1>3 DEF Domains
  <2>2. /\ End(t, Len(s)) \in Domains /\ Len(End(t, Len(s))) = Len(s)
        /\ \A i \in 1 .. Len(s) : End(t, Len(s))[i] = t[Len(t) - Len(s) + i]
    BY <1>1, <1>3 DEF Domains, End
  <2>3. ASSUME SubSeq(rs, 1, Len(s)) = SubSeq(rt, 1, Len(s)), NEW i \in 1 .. Len(s)
        PROVE  End(t, Len(s))[i] = s[i]
    <3>1. Len(s) - i + 1 \in 1 .. Len(s) /\ Len(s) - (Len(s) - i + 1) + 1 = i
          /\ Len(t) - (Len(s) - i + 1) + 1 = Len(t) - Len(s) + i
      BY <1>1
    <3>2. rs[Len(s) - i + 1] = rt[Len(s) - i + 1]
      BY <2>1, <2>3, <3>1
    <3>3. rs[Len(s) - i + 1] = s[i]
      BY <1>2, <3>1
    <3>4. Len(s) - i + 1 \in 1 .. Len(t)
      BY <1>1, <1>3, <3>1
    <3>5. rt[Len(s) - i + 1] = t[Len(t) - Len(s) + i]
      BY <1>2, <3>1, <3>4
    <3>6. QED
      BY <2>2, <3>2, <3>3, <3>5
  <2>4. ASSUME End(t, Len(s)) = s, NEW i \in 1 .. Len(s)
        PROVE  rs[i] = SubSeq(rt, 1, Len(s))[i]
    <3>1. Len(s) - i + 1 \in 1 .. Len(s)
          /\ Len(t) - Len(s) + (Len(s) - i + 1) = Len(t) - i + 1 /\ i \in 1 .. Len(t)
      BY <1>1, <1>3
    <3>2. rs[i] = s[Len(s) - i + 1] /\ rt[i] = t[Len(t) - i + 1]
      BY <1>2, <3>1
    <3>3. s[Len(s) - i + 1] = t[Len(t) - i + 1]
      BY <2>2, <2>4, <3>1
    <3>4. QED
      BY <2>1, <3>2, <3>3
  <2>5. QED
    BY <1>2, <2>1, <2>2, <2>3, <2>4, SameName
<1>4. IsSuffix(s, t) <=> Len(s) <= Len(t) /\ End(t, Len(s)) = s
  BY <1>1, <1>2, <1>3 DEF IsSuffix, IsPrefix, rs, rt
<1>5. IsSuffix(s, t) => Without(t, s) \in Domains /\ t = Without(t, s) \o s
  <2>1. IsSuffix(s, t) => Len(s) \in 0 .. Len(t) /\ End(t, Len(s)) = s
    BY <1>1, <1>4
  <2>2. QED
    BY <2>1, Parts DEF Without
<1>6. ASSUME NEW r \in Domains, t = r \o s PROVE IsSuffix(s, t)
  <2>1. Len(t) = Len(r) + Len(s) /\ Len(r) \in Nat
    BY <1>6, Joined
  <2>2. End(t, Len(s)) = s
    BY <1>6, JoinedParts
  <2>3. QED
    BY <1>1, <1>4, <2>1, <2>2
<1>7. QED
  BY <1>4, <1>5, <1>6
\* Names may be joined in any order.
LEMMA Regrouped ==
    ASSUME NEW u \in Domains, NEW v \in Domains, NEW w \in Domains
    PROVE  (u \o v) \o w = u \o (v \o w) /\ u \o v \in Domains /\ v \o w \in Domains
<1>1. u \o v \in Domains /\ v \o w \in Domains
  BY Joined
<1>2. /\ (u \o v) \o w \in Domains /\ u \o (v \o w) \in Domains
      /\ Len(u) \in Nat /\ Len(v) \in Nat /\ Len(w) \in Nat
      /\ Len(u \o v) = Len(u) + Len(v) /\ Len(v \o w) = Len(v) + Len(w)
      /\ Len((u \o v) \o w) = Len(u) + Len(v) + Len(w)
      /\ Len(u \o (v \o w)) = Len(u) + Len(v) + Len(w)
  BY <1>1 DEF Domains
<1>3. (u \o v) \o w = u \o (v \o w)
  BY <1>1, <1>2 DEF Domains
<1>4. QED
  BY <1>1, <1>3

\* Names that end alike may be compared without their common end.
LEMMA SuffixJoined ==
    ASSUME NEW d \in Domains, NEW rest \in Domains, NEW f \in Domains
    PROVE  IsSuffix(d \o f, rest \o f) <=> IsSuffix(d, rest)
<1>1. d \o f \in Domains /\ rest \o f \in Domains
  BY Joined
<1>2. ASSUME NEW r \in Domains PROVE r \o d \in Domains /\ r \o (d \o f) = (r \o d) \o f
  BY Regrouped
<1>3. ASSUME IsSuffix(d, rest) PROVE IsSuffix(d \o f, rest \o f)
  <2>1. PICK r \in Domains : rest = r \o d
    BY <1>3, SuffixParts
  <2>2. rest \o f = r \o (d \o f)
    BY <1>2, <2>1
  <2>3. QED
    BY <1>1, <2>2, SuffixParts
<1>4. ASSUME IsSuffix(d \o f, rest \o f) PROVE IsSuffix(d, rest)
  <2>1. PICK r \in Domains : rest \o f = r \o (d \o f)
    BY <1>1, <1>4, SuffixParts
  <2>2. PICK x \in Domains : x = r \o d /\ rest \o f = x \o f
    BY <1>2, <2>1
  <2>3. rest = x
    <3>1. Without(rest \o f, f) = rest /\ Without(x \o f, f) = x
      BY JoinedParts
    <3>2. QED
      BY <2>2, <3>1
  <2>4. QED
    BY <2>2, <2>3, SuffixParts
<1>5. QED
  BY <1>3, <1>4

\* Of two ends of a name, the shorter one is an end of the longer one.
LEMMA SuffixesNested ==
    ASSUME NEW s \in Domains, NEW l \in Domains, NEW t \in Domains,
           IsSuffix(s, t), IsSuffix(l, t), Len(s) <= Len(l)
    PROVE  IsSuffix(s, l) /\ (Len(s) = Len(l) => s = l)
<1>1. PICK r \in Domains : t = r \o l
  BY SuffixParts
<1>2. PICK a \in Domains : t = a \o s
  BY SuffixParts
<1>3. Len(s) \in 0 .. Len(l)
  BY Joined
<1>4. /\ SubSeq(l, 1, Len(l) - Len(s)) \in Domains
      /\ End(l, Len(s)) \in Domains /\ Len(End(l, Len(s))) = Len(s)
      /\ l = SubSeq(l, 1, Len(l) - Len(s)) \o End(l, Len(s))
  BY <1>3, Parts
<1>5. PICK b \in Domains, c \in Domains : Len(c) = Len(s) /\ l = b \o c
  BY <1>4
<1>6. PICK x \in Domains : t = x \o c
  <2>1. t = r \o (b \o c)
    BY <1>1, <1>5
  <2>2. t = (r \o b) \o c /\ r \o b \in Domains
    <3>1. (r \o b) \o c = r \o (b \o c)
      BY DEF Domains
    <3>2. r \o b \in Domains
      BY DEF Domains
    <3>3. QED
      BY <2>1, <3>1, <3>2
  <2>3. QED
    BY <2>2
<1>7. c = s
  <2>1. End(t, Len(c)) = c
    BY <1>6, JoinedParts
  <2>2. End(t, Len(s)) = s
    BY <1>2, JoinedParts
  <2>3. QED
    BY <1>5, <2>1, <2>2
<1>8. IsSuffix(s, l)
  BY <1>5, <1>7, SuffixParts
<1>9. ASSUME Len(s) = Len(l) PROVE s = l
  <2>1. End(t, Len(l)) = l
    BY <1>1, JoinedParts
  <2>2. End(t, Len(s)) = s
    BY <1>2, JoinedParts
  <2>3. QED
    BY <1>9, <2>1, <2>2
<1>10. QED
  BY <1>8, <1>9

\* The end of a name that is longer than its known end f.
LEMMA EndJoined ==
    ASSUME NEW rest \in Domains, NEW f \in Domains, NEW n \in 0 .. Len(rest)
    PROVE  /\ End(rest \o f, Len(f) + n) = End(rest, n) \o f
           /\ Len(rest \o f) - Len(rest) = Len(f)
<1>1. PICK a \in Domains, b \in Domains : Len(b) = n /\ rest = a \o b /\ b = End(rest, n)
  BY Parts
<1>2. rest \o f = a \o (b \o f) /\ b \o f \in Domains /\ Len(b \o f) = n + Len(f)
  <2>1. rest \o f = a \o (b \o f) /\ b \o f \in Domains
    <3>1. (a \o b) \o f = a \o (b \o f) /\ b \o f \in Domains
      BY Regrouped, Zenon
    <3>2. QED
      BY <1>1, <3>1
  <2>2. Len(b \o f) = Len(b) + Len(f) 
    BY Joined
  <2>3. QED
    BY <1>1, <2>1, <2>2
<1>3. End(rest \o f, Len(b \o f)) = b \o f
  BY <1>2, JoinedParts
<1>4. Len(f) \in Nat /\ Len(rest) \in Nat /\ Len(rest \o f) = Len(rest) + Len(f)
  BY Joined
<1>5. Len(b \o f) = Len(f) + n
  BY <1>2, <1>4
<1>6. Len(rest \o f) - Len(rest) = Len(f)
  BY <1>4
<1>7. QED
  BY <1>1, <1>3, <1>5, <1>6

\* A set of numbers has a least one.
LEMMA LeastNumber ==
    ASSUME NEW S \in SUBSET Nat, S # {}
    PROVE  \E n \in S : \A m \in S : n <= m
<1> DEFINE UpToN(n) == 0 .. n
           I == {UpToN(n) : n \in S}
<1>1. IsWellFoundedOn(StrictSubsetOrdering(Nat), FiniteSubsetsOf(Nat))
  BY FS_StrictSubsetOrderingWellFounded
<1>2. ASSUME NEW n \in Nat PROVE UpToN(n) \in FiniteSubsetsOf(Nat)
  <2>1. IsFiniteSet(UpToN(n))
    BY FS_Interval
  <2>2. QED
    BY <2>1 DEF FiniteSubsetsOf
<1>3. I # {} /\ I \subseteq FiniteSubsetsOf(Nat)
  <2> HIDE DEF UpToN
  <2>1. QED
    BY <1>2
<1>4. PICK T \in I : \A U \in I : <<U, T>> \notin StrictSubsetOrdering(Nat)
  <2> HIDE DEF I
  <2>1. QED
    BY <1>1, <1>3, WFMin
<1>5. PICK n \in S : T = UpToN(n)
  BY <1>4
<1>6. ASSUME NEW m \in S, ~(n <= m) PROVE FALSE
  <2>1. UpToN(m) \subseteq UpToN(n) /\ n \in UpToN(n) /\ n \notin UpToN(m)
    BY <1>6
  <2>2. UpToN(m) \in SUBSET Nat /\ UpToN(n) \in SUBSET Nat /\ UpToN(m) \in I
    BY <1>5
  <2> HIDE DEF UpToN, I
  <2>3. <<UpToN(m), UpToN(n)>> \in StrictSubsetOrdering(Nat)
    BY <2>1, <2>2 DEF StrictSubsetOrdering
  <2>4. QED
    BY <1>4, <1>5, <2>2, <2>3
<1>7. QED
  BY <1>6

\* Of the ends of a name among these, one is the longest.
LEMMA LongestName ==
    ASSUME NEW S \in SUBSET Domains, S # {}, NEW t \in Domains, \A n \in S : IsSuffix(n, t)
    PROVE  \E n \in S : \A x \in S : Len(x) <= Len(n)
<1>1. ASSUME NEW n \in S PROVE Len(n) \in Nat /\ Len(t) - Len(n) \in Nat
  <2>1. Len(n) \in Nat /\ Len(t) \in Nat /\ Len(n) <= Len(t)
    BY Joined, SuffixParts
  <2>2. QED
    BY <2>1
<1> DEFINE D == {Len(t) - Len(n) : n \in S}
<1>2. PICK m \in D : \A x \in D : m <= x
  <2>1. D \in SUBSET Nat /\ D # {}
    BY <1>1
  <2> HIDE DEF D
  <2>2. QED
    BY <2>1, LeastNumber
<1>3. PICK n \in S : m = Len(t) - Len(n)
  BY <1>2
<1>4. ASSUME NEW x \in S PROVE Len(x) <= Len(n)
  <2>1. Len(t) - Len(n) <= Len(t) - Len(x)
    BY <1>2, <1>3
  <2>2. Len(t) \in Nat
    BY Joined
  <2>3. QED
    BY <1>1, <2>1, <2>2
<1>5. QED
  BY <1>4

\* What Matches chooses.
LEMMA MatchesLongest ==
    ASSUME NEW o, heap[o].key \in Zones, NEW q \in Domains
    PROVE  \/ Matches(o, q) = <<>> /\ \A n \in Names(o) : ~IsSuffix(n, q)
           \/ /\ Matches(o, q) \in Names(o) /\ IsSuffix(Matches(o, q), q) /\ Matches(o, q) # <<>>
              /\ \A n \in Names(o) : IsSuffix(n, q) => Len(n) <= Len(Matches(o, q))
<1> DEFINE m == {n \in Names(o) : IsSuffix(n, q)}
           l == CHOOSE n \in m : \A x \in m : Len(x) <= Len(n)
<1>1. Names(o) \subseteq Domains \ {<<>>}
  BY ResolutionAssumption DEF Names
<1>2. CASE m = {}
  <2>1. Matches(o, q) = <<>>
    BY <1>2 DEF Matches
  <2>2. \A n \in Names(o) : ~IsSuffix(n, q)
    BY <1>2
  <2>3. QED
    BY <2>1, <2>2
<1>3. CASE m # {}
  <2>1. \E n \in m : \A x \in m : Len(x) <= Len(n)
    BY <1>1, <1>3, LongestName
  <2>2. l \in m /\ \A x \in m : Len(x) <= Len(l)
    BY <2>1
  <2>3. Matches(o, q) = l
    BY <1>3 DEF Matches
  <2>4. QED
    BY <1>1, <2>2, <2>3
<1>4. QED
  BY <1>2, <1>3

-----------------------------------------------------------------------------
ParentName(c) == heap[zones[c]].parentName

\* Zone c refers to one of these as its parent.
Refers(c, S) == zones[c] # nil /\ ParentName(c) \in S

-----------------------------------------------------------------------------
(* Chains of zones. *)

\* Registered zones whose parents are all among themselves form a cycle.
LEMMA ZonesEnd ==
    ASSUME Inv, lock = "free", NEW S \in SUBSET Zones, \A c \in S : Refers(c, S)
    PROVE  S = {}
<1> DEFINE T == {zones[c] : c \in S}
<1>1. \A c \in S : zones[c] \in Obj /\ heap[zones[c]] # nil
  BY DEF Refers, Inv, Wellformed, Pointer
<1>2. ASSUME NEW c \in S PROVE heap[zones[c]].parent \in T
  <2>1. ParentName(c) \in S /\ zones[ParentName(c)] # nil /\ zones[c] # nil
    BY DEF Refers
  <2>2. ParentName(c) # NoZone
    BY <2>1, ZoneModelAssumption
  <2>3. heap[zones[c]].parent = zones[ParentName(c)]
    BY <2>1, <2>2 DEF Inv, Current, ParentName
  <2>4. QED
    BY <2>1, <2>3
<1>3. Trapped(heap, T)
  BY <1>1, <1>2 DEF Trapped
<1>4. T = {}
  BY <1>1, <1>3 DEF Inv, ChainsEnd
<1>5. QED
  BY <1>4

\* Below some zone of a finite set there is no other one of the set.
LEMMA LeavesExist ==
    ASSUME Inv, lock = "free", NEW S \in SUBSET Zones, S # {}
    PROVE  \E c \in S : \A x \in S : ~Refers(x, {c})
<1> SUFFICES ASSUME \A c \in S : \E x \in S : Refers(x, {c})
             PROVE  FALSE
  OBVIOUS
<1> DEFINE Full == {T \in SUBSET Zones : T # {} /\ \A c \in T : \E x \in T : Refers(x, {c})}
<1>1. IsWellFoundedOn(StrictSubsetOrdering(Zones), FiniteSubsetsOf(Zones))
  BY FS_StrictSubsetOrderingWellFounded
<1>2. SUBSET Zones = FiniteSubsetsOf(Zones)
  <2>1. IsFiniteSet(Zones)
    BY ResolutionAssumption
  <2>2. QED
    BY <2>1, FS_FiniteSubsetsOfFinite
<1>3. Full # {} /\ Full \subseteq FiniteSubsetsOf(Zones)
  <2>1. S \in Full
    OBVIOUS
  <2>2. QED
    BY <1>2, <2>1
<1>4. PICK T \in Full : \A U \in Full : <<U, T>> \notin StrictSubsetOrdering(Zones)
  BY <1>1, <1>3, WFMin
<1>5. PICK c \in T : ~Refers(c, T)
  <2>1. T \in SUBSET Zones /\ T # {}
    BY <1>4
  <2>2. QED
    BY <2>1, ZonesEnd
<1>6. T \ {c} \in Full
  <2>1. PICK x \in T : Refers(x, {c})
    BY <1>5
  <2>2. x # c
    BY <1>5, <2>1 DEF Refers
  <2>3. ASSUME NEW y \in T \ {c} PROVE \E w \in T \ {c} : Refers(w, {y})
    <3>1. PICK w \in T : Refers(w, {y})
      BY <2>3
    <3>2. w # c
      BY <1>5, <2>3, <3>1 DEF Refers
    <3>3. QED
      BY <3>1, <3>2
  <2>4. QED
    BY <2>1, <2>2, <2>3
<1>7. <<T \ {c}, T>> \in StrictSubsetOrdering(Zones)
  BY <1>5 DEF StrictSubsetOrdering
<1>8. QED
  BY <1>4, <1>6, <1>7

-----------------------------------------------------------------------------
(* The recursions have solutions. *)

\* A monotone function on the subsets of a set has a fixed point.
LEMMA FixedPoint ==
    ASSUME NEW A, NEW G \in [SUBSET A -> SUBSET A],
           \A S, T \in SUBSET A : S \subseteq T => G[S] \subseteq G[T]
    PROVE  \E R \in SUBSET A : G[R] = R
<1> DEFINE R == {x \in A : \A S \in SUBSET A : G[S] \subseteq S => x \in S}
<1>1. \A S \in SUBSET A : G[S] \subseteq S => G[R] \subseteq G[S]
  OBVIOUS
<1>2. G[R] \subseteq R
  BY <1>1
<1>3. R \subseteq G[R]
  <2>1. G[R] \in SUBSET A /\ G[G[R]] \subseteq G[R]
    BY <1>2
  <2>2. QED
    BY <2>1
<1>4. R \in SUBSET A /\ G[R] = R
  <2>1. R \in SUBSET A
    OBVIOUS
  <2> HIDE DEF R
  <2>2. QED
    BY <1>2, <1>3, <2>1
<1>5. QED
  BY <1>4

\* G takes larger sets, one of R for each of D, to larger ones.
Monotone(G, D, R) ==
    /\ G \in [[D -> SUBSET R] -> [D -> SUBSET R]]
    /\ \A f, g \in [D -> SUBSET R] :
          (\A x \in D : f[x] \subseteq g[x]) => \A x \in D : G[f][x] \subseteq G[g][x]

\* A recursion that does that has a solution.
LEMMA Solution ==
    ASSUME NEW D, NEW R, NEW G, Monotone(G, D, R)
    PROVE  \E f \in [D -> SUBSET R] : f = G[f]
<1> DEFINE A == D \X R
           Of(S) == [x \in D |-> {r \in R : <<x, r>> \in S}]
           H == [S \in SUBSET A |-> {q \in A : q[2] \in G[Of(S)][q[1]]}]
<1>1. ASSUME NEW S \in SUBSET A PROVE Of(S) \in [D -> SUBSET R]
  OBVIOUS
<1>2. H \in [SUBSET A -> SUBSET A]
  OBVIOUS
<1>3. ASSUME NEW S \in SUBSET A, NEW T \in SUBSET A, S \subseteq T PROVE H[S] \subseteq H[T]
  <2>1. \A x \in D : Of(S)[x] \subseteq Of(T)[x]
    BY <1>3
  <2> HIDE DEF Of
  <2>2. \A x \in D : G[Of(S)][x] \subseteq G[Of(T)][x]
    BY <1>1, <2>1 DEF Monotone
  <2>3. QED
    BY <2>2
<1>4. PICK S \in SUBSET A : H[S] = S
  <2> HIDE DEF H
  <2>1. QED
    BY <1>2, <1>3, FixedPoint
<1>5. ASSUME NEW x \in D PROVE Of(S)[x] = G[Of(S)][x]
  <2>1. \A r \in R : <<x, r>> \in S <=> r \in G[Of(S)][x]
    <3> HIDE DEF Of
    <3>1. QED
      BY <1>4
  <2>2. G[Of(S)][x] \subseteq R
    <3> HIDE DEF Of
    <3>1. QED
      BY <1>1 DEF Monotone
  <2>3. QED
    BY <2>1, <2>2
<1>6. QED
  <2> HIDE DEF Of
  <2>1. Of(S) = G[Of(S)]
    BY <1>1, <1>5 DEF Monotone
  <2>2. QED
    BY <1>1, <2>1

\* The names of zone z seen from k, if those of its parent are known.
NamesStep(k, full, z) ==
    IF zones[z] = nil THEN {}
    ELSE IF z = k THEN DomainNames[k]
    ELSE IF ParentName(z) = NoZone THEN {}
    ELSE {d \o f : d \in DomainNames[z], f \in full[ParentName(z)]}

\* The recursion of FullNames has a solution.
LEMMA NamesSolvable ==
    ASSUME Inv, NEW k \in Zones
    PROVE  \E full : full = [z \in Zones |-> NamesStep(k, full, z)]
<1> DEFINE G == [f \in [Zones -> SUBSET Domains] |-> [z \in Zones |-> NamesStep(k, f, z)]]
<1>1. \A z \in Zones : DomainNames[z] \subseteq Domains
  BY ResolutionAssumption
<1>2. ASSUME NEW z \in Zones, zones[z] # nil, ParentName(z) # NoZone PROVE ParentName(z) \in Zones
  BY <1>2 DEF Inv, Wellformed, Pointer, Zone, ParentName
<1>3. ASSUME NEW f \in [Zones -> SUBSET Domains], NEW z \in Zones
      PROVE  NamesStep(k, f, z) \subseteq Domains
  <2>1. \A x, y \in Domains : x \o y \in Domains
    BY DEF Domains
  <2>2. ASSUME NEW p \in Zones, NEW n \in {d \o x : d \in DomainNames[z], x \in f[p]}
        PROVE  n \in Domains
    <3>1. PICK d \in DomainNames[z], x \in f[p] : n = d \o x
      BY <2>2
    <3>2. d \in Domains /\ x \in Domains
      BY <1>1
    <3>3. QED
      BY <2>1, <3>1, <3>2
  <2>3. CASE zones[z] # nil /\ z # k /\ ParentName(z) # NoZone
    <3>1. NamesStep(k, f, z) = {d \o x : d \in DomainNames[z], x \in f[ParentName(z)]}
      BY <2>3 DEF NamesStep
    <3>2. QED
      BY <1>2, <2>2, <2>3, <3>1
  <2>4. CASE ~(zones[z] # nil /\ z # k /\ ParentName(z) # NoZone)
    BY <1>1, <2>4 DEF NamesStep
  <2>5. QED
    BY <2>3, <2>4
<1>4. ASSUME NEW f \in [Zones -> SUBSET Domains], NEW g \in [Zones -> SUBSET Domains],
             \A z \in Zones : f[z] \subseteq g[z], NEW z \in Zones
      PROVE  NamesStep(k, f, z) \subseteq NamesStep(k, g, z)
  BY <1>2, <1>4 DEF NamesStep
<1>5. G \in [[Zones -> SUBSET Domains] -> [Zones -> SUBSET Domains]]
  BY <1>3
<1>6. \E f \in [Zones -> SUBSET Domains] : f = G[f]
  <2>1. \A f, g \in [Zones -> SUBSET Domains] :
           (\A x \in Zones : f[x] \subseteq g[x]) => \A x \in Zones : G[f][x] \subseteq G[g][x]
    BY <1>4
  <2> HIDE DEF G
  <2>2. Monotone(G, Zones, Domains)
    BY <1>5, <2>1 DEF Monotone
  <2>3. QED
    BY <2>2, Solution
<1>7. QED
  BY <1>6

\* What FullNames computes, step by step.
LEMMA FullNamesStep ==
    ASSUME Inv, NEW k \in Zones, NEW c \in Zones
    PROVE  /\ zones[c] = nil => FullNames(k, c) = {}
           /\ zones[c] # nil /\ c = k => FullNames(k, c) = DomainNames[k]
           /\ zones[c] # nil /\ c # k /\ ParentName(c) = NoZone => FullNames(k, c) = {}
           /\ zones[c] # nil /\ c # k /\ ParentName(c) # NoZone
              => /\ ParentName(c) \in Zones
                 /\ FullNames(k, c) = expand(DomainNames[c], FullNames(k, ParentName(c)))
<1> DEFINE full == CHOOSE full : full = [z \in Zones |-> NamesStep(k, full, z)]
<1>1. full = [z \in Zones |-> NamesStep(k, full, z)]
  BY NamesSolvable
<1>2. ASSUME NEW z \in Zones PROVE FullNames(k, z) = full[z]
  BY DEF FullNames, NamesStep, ParentName
<1>3. FullNames(k, c) = NamesStep(k, full, c)
  <2> HIDE DEF full
  <2>1. QED
    BY <1>1, <1>2
<1>4. zones[c] # nil /\ ParentName(c) # NoZone => ParentName(c) \in Zones
  BY DEF Inv, Wellformed, Pointer, Zone, ParentName
<1> HIDE DEF full
<1>5. CASE zones[c] # nil /\ c # k /\ ParentName(c) # NoZone
  <2>1. FullNames(k, c) = expand(DomainNames[c], full[ParentName(c)])
    BY <1>3, <1>5 DEF NamesStep, expand
  <2>2. full[ParentName(c)] = FullNames(k, ParentName(c))
    BY <1>2, <1>4, <1>5
  <2>3. QED
    BY <1>4, <1>5, <2>1, <2>2
<1>6. CASE ~(zones[c] # nil /\ c # k /\ ParentName(c) # NoZone)
  BY <1>3, <1>6 DEF NamesStep
<1>7. QED
  BY <1>5, <1>6

Existing == {o \in Obj : heap[o] # nil}

\* The full names of these entries.
HostNames(list, names) == UNION {expand(e.names, names) : e \in list}

\* What a zone with these full names tells of the address.
Info(z, names) ==
    LET list == LookupIP(heap[z].key)
    IN  IF list = {} THEN {}
        ELSE {[zone |-> z, zoneNames |-> names, entries |-> list,
               names |-> HostNames(list, names)]}

FullDomains(z, fqdns) == expand(DomainNames[heap[z].key], fqdns)

InfoStep(infos, p) ==
    Info(p[1], FullDomains(p[1], p[2]))
    \cup UNION {infos[<<c, FullDomains(p[1], p[2])>>] : c \in Children(p[1])}

\* Names and children of an existing zone.
LEMMA ZoneParts ==
    ASSUME Inv, NEW z \in Existing, NEW fqdns \in SUBSET Domains
    PROVE  FullDomains(z, fqdns) \in SUBSET Domains /\ Children(z) \in SUBSET Existing
<1>1. heap[z] \in Zone /\ heap[z].key \in Zones
  BY DEF Existing, Inv, TypeOK, Zone
<1>2. ASSUME NEW x \in FullDomains(z, fqdns) PROVE x \in Domains
  <2>1. PICK n \in DomainNames[heap[z].key], f \in fqdns : x = n \o f
    BY DEF FullDomains, expand
  <2>2. n \in Domains /\ f \in Domains
    BY <1>1, ResolutionAssumption
  <2>3. QED
    BY <2>1, <2>2 DEF Domains
<1>3. ASSUME NEW k \in Zones, heap[z].children[k] # nil
      PROVE  heap[z].children[k] \in Existing
  BY <1>1, <1>3 DEF Existing, Inv, Wellformed, ChildrenExist, Zone, Pointer
<1>4. QED
  BY <1>2, <1>3 DEF Children

\* The recursion of resolveIP has a solution.
LEMMA InfosSolvable ==
    ASSUME Inv
    PROVE  \E infos : infos = [p \in Existing \X SUBSET Domains |-> InfoStep(infos, p)]
<1> DEFINE D == Existing \X SUBSET Domains
           R == UNION {Info(z, names) : z \in Existing, names \in SUBSET Domains}
           G == [f \in [D -> SUBSET R] |-> [p \in D |-> InfoStep(f, p)]]
<1>1. ASSUME NEW p \in D, NEW c \in Children(p[1])
      PROVE  <<c, FullDomains(p[1], p[2])>> \in D
  BY ZoneParts
<1>2. ASSUME NEW p \in D PROVE Info(p[1], FullDomains(p[1], p[2])) \subseteq R
  BY ZoneParts
<1>3. \E f \in [D -> SUBSET R] : f = G[f]
  <2> HIDE DEF D, R
  <2>1. ASSUME NEW f \in [D -> SUBSET R], NEW p \in D PROVE InfoStep(f, p) \subseteq R
    BY <1>1, <1>2 DEF InfoStep
  <2>2. G \in [[D -> SUBSET R] -> [D -> SUBSET R]]
    BY <2>1
  <2>3. ASSUME NEW f \in [D -> SUBSET R], NEW g \in [D -> SUBSET R],
               \A p \in D : f[p] \subseteq g[p], NEW p \in D
        PROVE  InfoStep(f, p) \subseteq InfoStep(g, p)
    BY <1>1, <2>3 DEF InfoStep
  <2>4. \A f, g \in [D -> SUBSET R] :
           (\A p \in D : f[p] \subseteq g[p]) => \A p \in D : G[f][p] \subseteq G[g][p]
    BY <2>3
  <2> HIDE DEF G
  <2>5. Monotone(G, D, R)
    BY <2>2, <2>4 DEF Monotone
  <2>6. QED
    BY <2>5, Solution
<1>4. QED
  <2> HIDE DEF D, R
  <2>1. \E f : f = [p \in D |-> InfoStep(f, p)]
    BY <1>3
  <2>2. QED
    BY <2>1 DEF D

\* What resolveIP computes, step by step.
LEMMA resolveIPStep ==
    ASSUME Inv, NEW z \in Existing, NEW fqdns \in SUBSET Domains
    PROVE  resolveIP(z, fqdns) =
              Info(z, FullDomains(z, fqdns))
              \cup UNION {resolveIP(c, FullDomains(z, fqdns)) : c \in Children(z)}
<1> DEFINE D == Existing \X SUBSET Domains
           infos == CHOOSE infos : infos = [p \in D |-> InfoStep(infos, p)]
<1>1. infos = [p \in D |-> InfoStep(infos, p)]
  BY InfosSolvable
<1>2. \A c, f : resolveIP(c, f) = infos[<<c, f>>]
  BY DEF resolveIP, InfoStep, Info, HostNames, FullDomains, Existing
<1> HIDE DEF infos
<1>3. infos[<<z, fqdns>>] = InfoStep(infos, <<z, fqdns>>)
  BY <1>1
<1>4. QED
  BY <1>2, <1>3 DEF InfoStep

-----------------------------------------------------------------------------
(* The zones below k. *)

\* The zones with a full name seen from k are those that come to k along
\* their parents.
LEMMA SubtreeParts ==
    ASSUME Inv, lock = "free", NEW k \in Zones, zones[k] # nil, NEW c \in Subtree(k)
    PROVE  /\ c \in Zones /\ zones[c] \in Existing /\ heap[zones[c]].key = c
           /\ c # k => ParentName(c) \in Subtree(k)
           /\ FullNames(k, c) \subseteq Domains
<1>1. c \in Zones /\ FullNames(k, c) # {}
  BY DEF Subtree
<1>2. zones[c] # nil
  BY <1>1, FullNamesStep
<1>3. zones[c] \in Existing /\ heap[zones[c]].key = c
  BY <1>1, <1>2, RegisteredType, ZoneModelAssumption DEF Existing, Inv
<1>4. ASSUME c # k PROVE ParentName(c) \in Subtree(k)
  <2>1. ParentName(c) # NoZone
    BY <1>1, <1>2, <1>4, FullNamesStep
  <2>2. /\ ParentName(c) \in Zones
        /\ FullNames(k, c) = expand(DomainNames[c], FullNames(k, ParentName(c)))
    BY <1>1, <1>2, <1>4, <2>1, FullNamesStep
  <2>3. FullNames(k, ParentName(c)) # {}
    BY <1>1, <2>2 DEF expand
  <2>4. QED
    BY <2>2, <2>3 DEF Subtree
<1>5. FullNames(k, c) \subseteq Domains
  <2> DEFINE S == {x \in Zones : ~(FullNames(k, x) \subseteq Domains)}
  <2>1. ASSUME NEW x \in S PROVE Refers(x, S)
    <3>1. zones[x] # nil /\ x # k
      BY ResolutionAssumption, FullNamesStep
    <3>2. ParentName(x) # NoZone
      BY <3>1, FullNamesStep
    <3>3. /\ ParentName(x) \in Zones
          /\ FullNames(k, x) = expand(DomainNames[x], FullNames(k, ParentName(x)))
      BY <3>1, <3>2, FullNamesStep
    <3>4. PICK y \in FullNames(k, x) : y \notin Domains
      OBVIOUS
    <3>5. PICK d \in DomainNames[x], f \in FullNames(k, ParentName(x)) : y = d \o f
      BY <3>3 DEF expand
    <3>6. d \in Domains
      BY ResolutionAssumption
    <3>7. f \notin Domains
      BY <3>4, <3>5, <3>6 DEF Domains
    <3>8. QED
      BY <3>1, <3>3, <3>7 DEF Refers
  <2>2. S = {}
    BY <2>1, ZonesEnd
  <2>3. QED
    BY <1>1, <2>2
<1>6. QED
  BY <1>1, <1>3, <1>4, <1>5

\* So are the zones below one of them; none of these is k itself.
LEMMA BelowSubtree ==
    ASSUME Inv, lock = "free", NEW k \in Zones, zones[k] # nil,
           NEW c \in Subtree(k), NEW x \in Below(c)
    PROVE  /\ x \in Subtree(k) /\ x # k /\ ParentName(x) = c
           /\ FullNames(k, x) = expand(DomainNames[x], FullNames(k, c))
<1>1. x \in Zones /\ zones[x] # nil /\ ParentName(x) = c /\ c \in Zones /\ FullNames(k, c) # {}
  BY DEF Below, ParentName, Subtree
<1>2. k \in Subtree(k)
  BY FullNamesStep, ResolutionAssumption DEF Subtree
<1>3. x # k
  <2> SUFFICES ASSUME x = k PROVE FALSE
    OBVIOUS
  <2>1. \A y \in Subtree(k) : Refers(y, Subtree(k))
    BY <1>1, SubtreeParts, ZoneModelAssumption DEF Refers, Existing
  <2>2. Subtree(k) = {}
    BY <2>1, ZonesEnd DEF Subtree
  <2>3. QED
    BY <1>2, <2>2
<1>4. FullNames(k, x) = expand(DomainNames[x], FullNames(k, c))
  BY <1>1, <1>3, ZoneModelAssumption, FullNamesStep
<1>5. FullNames(k, x) # {}
  <2>1. PICK d \in DomainNames[x], f \in FullNames(k, c) : TRUE
    BY <1>1, ResolutionAssumption
  <2>2. d \o f \in expand(DomainNames[x], FullNames(k, c))
    BY DEF expand
  <2>3. QED
    BY <1>4, <2>2
<1>6. QED
  BY <1>1, <1>3, <1>4, <1>5 DEF Subtree

-----------------------------------------------------------------------------
(* Addresses. *)

\* The names of what is above zone c, seen from k.
Above(k, c) == IF c = k THEN {<<>>} ELSE FullNames(k, ParentName(c))

\* What is found from zone c downwards.
Found(k, c) == resolveIP(zones[c], Above(k, c))

\* A zone is asked with the names of its parent, and so finds its own full names.
LEMMA AboveNames ==
    ASSUME Inv, lock = "free", NEW k \in Zones, zones[k] # nil, NEW c \in Subtree(k)
    PROVE  /\ Above(k, c) \in SUBSET Domains
           /\ FullDomains(zones[c], Above(k, c)) = FullNames(k, c)
<1>1. c \in Zones /\ zones[c] \in Existing /\ heap[zones[c]].key = c
  BY SubtreeParts
<1>2. CASE c = k
  <2>1. <<>> \in Domains
    BY DEF Domains
  <2>2. ASSUME NEW n \in DomainNames[k] PROVE n \o <<>> = n
    BY ResolutionAssumption, ConcatEmptySeq DEF Domains
  <2>3. expand(DomainNames[k], {<<>>}) = DomainNames[k]
    BY <2>2 DEF expand
  <2>4. FullNames(k, k) = DomainNames[k]
    BY FullNamesStep
  <2>5. QED
    BY <1>1, <1>2, <2>1, <2>3, <2>4 DEF Above, FullDomains
<1>3. CASE c # k
  <2>1. ParentName(c) \in Subtree(k)
    BY <1>3, SubtreeParts
  <2>2. FullNames(k, ParentName(c)) \subseteq Domains
    BY <2>1, SubtreeParts
  <2>3. zones[c] # nil /\ ParentName(c) # NoZone
    BY <1>1, <2>1, ZoneModelAssumption DEF Existing, Subtree
  <2>4. FullNames(k, c) = expand(DomainNames[c], FullNames(k, ParentName(c)))
    BY <1>1, <1>3, <2>3, FullNamesStep
  <2>5. QED
    BY <1>1, <1>3, <2>2, <2>4 DEF Above, FullDomains
<1>4. QED
  BY <1>2, <1>3

\* What is found from a zone is its own and what is found below it.
LEMMA FoundStep ==
    ASSUME Inv, lock = "free", NEW k \in Zones, zones[k] # nil, Exact(k), NEW c \in Subtree(k)
    PROVE  Found(k, c) = Info(zones[c], FullNames(k, c)) \cup UNION {Found(k, x) : x \in Below(c)}
<1>1. Found(k, c) = Info(zones[c], FullNames(k, c))
                    \cup UNION {resolveIP(y, FullNames(k, c)) : y \in Children(zones[c])}
  BY SubtreeParts, AboveNames, resolveIPStep DEF Found
<1>2. Children(zones[c]) = {zones[x] : x \in Below(c)}
  BY DEF Exact
<1>3. \A x \in Below(c) : Found(k, x) = resolveIP(zones[x], FullNames(k, c))
  BY BelowSubtree DEF Found, Above
<1>4. QED
  BY <1>1, <1>2, <1>3

\* What should be found.
Told(k) == UNION {Info(zones[c], FullNames(k, c)) : c \in Subtree(k)}

\* It is found: from below as no chain of parents is endless, from above as none of children is.
LEMMA FoundTold ==
    ASSUME Inv, lock = "free", NEW k \in Zones, zones[k] # nil, Exact(k)
    PROVE  Found(k, k) = Told(k)
<1>1. k \in Subtree(k) /\ Subtree(k) \in SUBSET Zones
  BY FullNamesStep, ResolutionAssumption DEF Subtree
<1>2. ASSUME NEW r \in Found(k, k), r \notin Told(k) PROVE FALSE
  <2> DEFINE S == {c \in Subtree(k) : r \in Found(k, c)}
  <2>1. PICK c \in S : \A x \in S : ~Refers(x, {c})
    BY <1>1, <1>2, LeavesExist
  <2>2. r \notin Info(zones[c], FullNames(k, c))
    BY <1>2 DEF Told
  <2>3. PICK x \in Below(c) : r \in Found(k, x)
    BY <2>2, FoundStep
  <2>4. x \in S /\ Refers(x, {c})
    BY <2>3, BelowSubtree DEF Refers, Below
  <2>5. QED
    BY <2>1, <2>4
<1>3. ASSUME NEW c \in Subtree(k), NEW r \in Info(zones[c], FullNames(k, c)), r \notin Found(k, k)
      PROVE  FALSE
  <2> DEFINE S == {x \in Subtree(k) : r \in Found(k, x)}
  <2>1. c \in S
    BY <1>3, FoundStep
  <2>2. ASSUME NEW x \in S PROVE Refers(x, S)
    <3>1. x # k /\ ParentName(x) \in Subtree(k) /\ zones[x] # nil
      BY <1>3, SubtreeParts, ZoneModelAssumption DEF Existing
    <3>2. x \in Below(ParentName(x))
      BY <1>1, <3>1 DEF Below, ParentName
    <3>3. r \in Found(k, ParentName(x))
      BY <3>1, <3>2, FoundStep
    <3>4. QED
      BY <3>1, <3>3 DEF Refers
  <2>3. QED
    BY <1>1, <2>1, <2>2, ZonesEnd
<1>4. QED
  BY <1>2, <1>3 DEF Told

\* The same, as AddressesResolved has it.
Answers(k) == {Host(k, c) : c \in {x \in Subtree(k) : LookupIP(x) # {}}}

\* These are the answers that AddressesResolved asks for.
LEMMA ToldAnswers ==
    ASSUME Inv, lock = "free", NEW k \in Zones, zones[k] # nil
    PROVE  Told(k) = Answers(k)
<1>1. ASSUME NEW c \in Subtree(k)
      PROVE  Info(zones[c], FullNames(k, c)) = IF LookupIP(c) = {} THEN {} ELSE {Host(k, c)}
  <2>1. heap[zones[c]].key = c
    BY SubtreeParts
  <2>2. HostNames(LookupIP(c), FullNames(k, c))
           = UNION {{n \o f : n \in e.names, f \in FullNames(k, c)} : e \in LookupIP(c)}
    BY DEF HostNames, expand
  <2>3. QED
    BY <2>1, <2>2 DEF Info, Host
<1>2. QED
  BY <1>1 DEF Told, Answers

(***************************************************************************)
(* "a complete list of matching names for the IP address": in every state  *)
(* of the model in which the children found below a zone are those that    *)
(* refer to it, a reverse lookup ends and yields each entry with the       *)
(* address in all zones at any depth, with its full names and nothing      *)
(* else.                                                                   *)
(***************************************************************************)
THEOREM AddressesCorrect == Spec => []AddressesResolved
<1>1. Inv => AddressesResolved
  <2>1. ASSUME Inv, lock = "free", NEW k \in Zones, zones[k] # nil, Exact(k)
        PROVE  ResolveIP(zones[k]) = Answers(k)
    BY <2>1, FoundTold, ToldAnswers DEF ResolveIP, Found, Above
  <2>2. QED
    BY <2>1 DEF AddressesResolved, Answers
<1>2. QED
  BY <1>1, InvInductive, PTL DEF Spec

-----------------------------------------------------------------------------
(* The search down the nested zones. *)

\* What the search down the nested zones computes, if its results further down are known.
Nested(z, rest) == {c \in Children(z) : Matches(c, rest) # <<>>}

SearchStep(ends, p) ==
    IF Nested(p[1], p[2]) = {} THEN {p}
    ELSE UNION {ends[<<c, Without(p[2], Matches(c, p[2]))>>] : c \in Nested(p[1], p[2])}

\* A step of the search leads to an existing zone and to a part of the name.
LEMMA NestedParts ==
    ASSUME Inv, NEW z \in Existing, NEW rest \in Domains, NEW c \in Nested(z, rest)
    PROVE  /\ c \in Existing /\ Matches(c, rest) \in Names(c)
           /\ Matches(c, rest) \in Domains /\ Without(rest, Matches(c, rest)) \in Domains
           /\ rest = Without(rest, Matches(c, rest)) \o Matches(c, rest)
           /\ \A n \in Names(c) : IsSuffix(n, rest) => Len(n) <= Len(Matches(c, rest))
<1>1. c \in Children(z) /\ Matches(c, rest) # <<>>
  BY DEF Nested
<1>2. c \in Existing
  <2>1. {} \in SUBSET Domains
    OBVIOUS
  <2>2. QED
    BY <1>1, <2>1, ZoneParts
<1>3. heap[c].key \in Zones
  BY <1>2 DEF Existing, Inv, TypeOK, Zone
<1>4. /\ Matches(c, rest) \in Names(c) /\ IsSuffix(Matches(c, rest), rest)
      /\ \A n \in Names(c) : IsSuffix(n, rest) => Len(n) <= Len(Matches(c, rest))
  BY <1>1, <1>3, MatchesLongest
<1>5. Matches(c, rest) \in Domains
  BY <1>3, <1>4, ResolutionAssumption DEF Names
<1>6. QED
  BY <1>2, <1>4, <1>5, SuffixParts

\* The recursion of Forward has a solution.
LEMMA SearchSolvable ==
    ASSUME Inv
    PROVE  \E ends : ends = [p \in Existing \X Domains |-> SearchStep(ends, p)]
<1> DEFINE D == Existing \X Domains
           G == [f \in [D -> SUBSET D] |-> [p \in D |-> SearchStep(f, p)]]
<1>1. ASSUME NEW p \in D, NEW c \in Nested(p[1], p[2])
      PROVE  <<c, Without(p[2], Matches(c, p[2]))>> \in D
  BY NestedParts
<1>2. \E f \in [D -> SUBSET D] : f = G[f]
  <2> HIDE DEF D
  <2>1. ASSUME NEW f \in [D -> SUBSET D], NEW p \in D PROVE SearchStep(f, p) \subseteq D
    BY <1>1 DEF SearchStep
  <2>2. G \in [[D -> SUBSET D] -> [D -> SUBSET D]]
    BY <2>1
  <2>3. ASSUME NEW f \in [D -> SUBSET D], NEW g \in [D -> SUBSET D],
               \A p \in D : f[p] \subseteq g[p], NEW p \in D
        PROVE  SearchStep(f, p) \subseteq SearchStep(g, p)
    BY <1>1, <2>3 DEF SearchStep
  <2>4. \A f, g \in [D -> SUBSET D] :
           (\A p \in D : f[p] \subseteq g[p]) => \A p \in D : G[f][p] \subseteq G[g][p]
    BY <2>3
  <2> HIDE DEF G
  <2>5. Monotone(G, D, D)
    BY <2>2, <2>4 DEF Monotone
  <2>6. QED
    BY <2>5, Solution
<1>3. QED
  <2> HIDE DEF D
  <2>1. \E f : f = [p \in D |-> SearchStep(f, p)]
    BY <1>2
  <2>2. QED
    BY <2>1 DEF D

\* What Forward computes, step by step.
LEMMA ForwardStep ==
    ASSUME Inv, NEW z \in Existing, NEW rest \in Domains
    PROVE  Forward(z, rest) =
              IF Nested(z, rest) = {} THEN {<<z, rest>>}
              ELSE UNION {Forward(c, Without(rest, Matches(c, rest))) : c \in Nested(z, rest)}
<1> DEFINE D == Existing \X Domains
           ends == CHOOSE ends : ends = [p \in D |-> SearchStep(ends, p)]
<1>1. ends = [p \in D |-> SearchStep(ends, p)]
  BY SearchSolvable
<1>2. \A c, r : Forward(c, r) = ends[<<c, r>>]
  BY DEF Forward, SearchStep, Nested, Existing
<1> HIDE DEF ends
<1>3. ends[<<z, rest>>] = SearchStep(ends, <<z, rest>>)
  BY <1>1
<1>4. QED
  BY <1>2, <1>3 DEF SearchStep

-----------------------------------------------------------------------------
(* Names. *)

\* The zones below k and their full names that q ends with.
Claims(k, q) == {a \in UNION {{c} \X FullNames(k, c) : c \in Zones} : IsSuffix(a[2], q)}

\* What it takes to be a claim.
LEMMA ClaimParts ==
    ASSUME NEW k, NEW q, NEW c, NEW f
    PROVE  <<c, f>> \in Claims(k, q) <=> c \in Zones /\ f \in FullNames(k, c) /\ IsSuffix(f, q)
BY DEF Claims

\* A claim is a zone with one of its full names.
LEMMA ClaimPairs ==
    ASSUME NEW k, NEW q, NEW a \in Claims(k, q)
    PROVE  a = <<a[1], a[2]>> /\ a[1] \in Zones /\ a[2] \in FullNames(k, a[1]) /\ IsSuffix(a[2], q)
BY DEF Claims

\* The claims of the zones below c by names of theirs before the full name f.
NextClaims(k, q, c, f) ==
    {a \in Claims(k, q) : \E x \in Below(c) : \E n \in DomainNames[x] : a = <<x, n \o f>>}

\* Claims that include those of k and, with each, those below it, are all.
LEMMA AllClaims ==
    ASSUME Inv, lock = "free", NEW k \in Zones, zones[k] # nil, NEW q \in Domains, NEW A,
           \A n \in DomainNames[k] : <<k, n>> \in Claims(k, q) => <<k, n>> \in A,
           \A a \in A : NextClaims(k, q, a[1], a[2]) \subseteq A
    PROVE  Claims(k, q) \subseteq A
<1> DEFINE S == {x \in Zones : \E n \in FullNames(k, x) : IsSuffix(n, q) /\ <<x, n>> \notin A}
<1>2. ASSUME NEW x \in S PROVE Refers(x, S)
  <2>1. PICK n \in FullNames(k, x) : IsSuffix(n, q) /\ <<x, n>> \notin A
    OBVIOUS
  <2>2. x \in Zones /\ <<x, n>> \in Claims(k, q)
    BY <2>1, ClaimParts
  <2>3. x \in Subtree(k)
    BY <2>2 DEF Subtree
  <2>4. x # k
    <3>1. x = k => FullNames(k, x) = DomainNames[k]
      BY FullNamesStep
    <3>2. QED
      BY <2>1, <2>2, <3>1
  <2>5. /\ zones[x] # nil /\ ParentName(x) \in Zones /\ ParentName(x) \in Subtree(k)
        /\ FullNames(k, ParentName(x)) \subseteq Domains
    BY <2>3, <2>4, SubtreeParts, ZoneModelAssumption DEF Existing, Subtree
  <2>6. FullNames(k, x) = expand(DomainNames[x], FullNames(k, ParentName(x)))
    BY <2>2, <2>4, <2>5, FullNamesStep, ZoneModelAssumption
  <2>7. PICK d \in DomainNames[x], g \in FullNames(k, ParentName(x)) : n = d \o g
    <3>1. n \in expand(DomainNames[x], FullNames(k, ParentName(x)))
      BY <2>1, <2>6
    <3>2. QED
      BY <3>1 DEF expand
  <2>8. d \in Domains /\ g \in Domains
    BY <2>2, <2>5, ResolutionAssumption
  <2>9. IsSuffix(g, q)
    <3>1. d \o g \in Domains /\ IsSuffix(d \o g, q)
      BY <2>1, <2>7, <2>8, Joined
    <3>2. PICK r \in Domains : q = r \o (d \o g)
      BY <3>1, SuffixParts
    <3>3. q = (r \o d) \o g /\ r \o d \in Domains
      BY <2>8, <3>2 DEF Domains
    <3>4. QED
      BY <2>8, <3>3, SuffixParts
  <2>10. <<ParentName(x), g>> \notin A
    <3> SUFFICES ASSUME <<ParentName(x), g>> \in A PROVE FALSE
      OBVIOUS
    <3>1. NextClaims(k, q, ParentName(x), g) \subseteq A
      OBVIOUS
    <3>2. x \in Below(ParentName(x))
      BY <2>2, <2>5 DEF Below, ParentName
    <3>3. <<x, n>> \in NextClaims(k, q, ParentName(x), g)
      BY <2>2, <2>7, <3>2 DEF NextClaims
    <3>4. QED
      BY <2>1, <3>1, <3>3
  <2>11. ParentName(x) \in S
    BY <2>5, <2>9, <2>10
  <2>12. QED
    BY <2>5, <2>11 DEF Refers
<1>3. S = {}
  BY <1>2, ZonesEnd
<1>4. ASSUME NEW a \in Claims(k, q) PROVE a \in A
  BY <1>3, ClaimPairs
<1>5. QED
  BY <1>4

\* The claims P include those of k and, with each, those below it; only <<c, f>> may be missing.
UpTo(k, q, c, f, P) ==
    /\ P \in SUBSET Claims(k, q)
    /\ \A n \in DomainNames[k] : <<k, n>> \in Claims(k, q) => <<k, n>> \in P \cup {<<c, f>>}
    /\ \A a \in P : NextClaims(k, q, a[1], a[2]) \subseteq P \cup {<<c, f>>}

\* The walk has come to zone c by its full name f: all claims but this one and
\* those below it are known, and these are by shorter names.
Arrived(k, q, c, f) ==
    /\ <<c, f>> \in Claims(k, q)
    /\ \E P : UpTo(k, q, c, f, P) /\ \A a \in P : Len(a[2]) < Len(f)

\* If nothing is claimed below it, zone c has the authority.
LEMMA LastArrival ==
    ASSUME Inv, lock = "free", NEW k \in Zones, zones[k] # nil, NEW q \in Domains,
           NEW c, NEW f \in Domains, Arrived(k, q, c, f), NextClaims(k, q, c, f) = {}
    PROVE  Authority(k, q) = {<<c, f>>}
<1>1. PICK P : UpTo(k, q, c, f, P) /\ \A a \in P : Len(a[2]) < Len(f)
  BY DEF Arrived
<1>2. Claims(k, q) = P \cup {<<c, f>>}
  <2> DEFINE A == P \cup {<<c, f>>}
  <2>1. A \subseteq Claims(k, q)
    BY <1>1 DEF Arrived, UpTo
  <2>2. \A n \in DomainNames[k] : <<k, n>> \in Claims(k, q) => <<k, n>> \in A
    BY <1>1 DEF UpTo
  <2>3. \A a \in A : NextClaims(k, q, a[1], a[2]) \subseteq A
    BY <1>1 DEF UpTo
  <2> HIDE DEF A
  <2>4. A = Claims(k, q)
    BY <2>1, <2>2, <2>3, AllClaims
  <2>5. QED
    BY <2>4 DEF A
<1>3. Authority(k, q) = {a \in Claims(k, q) : \A b \in Claims(k, q) : Len(b[2]) <= Len(a[2])}
  BY DEF Authority, Claims
<1>4. Len(f) \in Nat /\ \A a \in P : Len(a[2]) \in Nat
  <2>1. ASSUME NEW a \in P PROVE a[2] \in Domains
    <3>1. a \in Claims(k, q)
      BY <1>2
    <3>2. a[1] \in Zones /\ a[2] \in FullNames(k, a[1])
      BY <3>1, ClaimPairs
    <3>3. a[1] \in Subtree(k)
      BY <3>2 DEF Subtree
    <3>4. QED
      BY <3>2, <3>3, SubtreeParts
  <2>2. QED
    BY <2>1, Joined
<1>5. ASSUME NEW a \in P, a \in Authority(k, q) PROVE FALSE
  <2>1. Len(<<c, f>>[2]) <= Len(a[2])
    BY <1>2, <1>3, <1>5
  <2>2. QED
    BY <1>1, <1>4, <2>1
<1>6. <<c, f>> \in Authority(k, q)
  <2>1. \A b \in P \cup {<<c, f>>} : Len(b[2]) <= Len(<<c, f>>[2])
    BY <1>1, <1>4
  <2>2. QED
    BY <1>2, <1>3, <2>1
<1>7. QED
  BY <1>2, <1>3, <1>5, <1>6

\* Each name is joined to each of the others.
LEMMA Expanded ==
    ASSUME NEW names, NEW fqdns, NEW d \in names, NEW f \in fqdns
    PROVE  d \o f \in expand(names, fqdns)
BY DEF expand

\* The domain names of a zone.
LEMMA NamesOf ==
    ASSUME NEW c \in Zones, NEW n \in DomainNames[c]
    PROVE  n \in Domains /\ n # <<>> /\ Len(n) \in Nat \ {0}
<1>1. n \in Domains /\ n # <<>>
  BY ResolutionAssumption
<1>2. QED
  BY <1>1, EmptySeq DEF Domains

\* Two ends of a name are comparable.
LEMMA EndsComparable ==
    ASSUME NEW a \in Domains, NEW b \in Domains, NEW t \in Domains, IsSuffix(a, t), IsSuffix(b, t)
    PROVE  Comparable(a, b)
<1>1. Len(a) \in Nat /\ Len(b) \in Nat
  BY Joined
<1>2. CASE Len(a) <= Len(b)
  BY <1>2, SuffixesNested DEF Comparable
<1>3. CASE Len(b) <= Len(a)
  BY <1>3, SuffixesNested DEF Comparable
<1>4. QED
  BY <1>1, <1>2, <1>3

\* If a zone is found by a longer name, nothing is claimed below it by a shorter one.
LEMMA ShorterEnds ==
    ASSUME Inv, NEW k \in Zones, Unambiguous(k), NEW p \in Subtree(k),
           NEW s \in DomainNames[p], NEW l \in DomainNames[p], NEW rest \in Domains,
           IsSuffix(s, rest), IsSuffix(l, rest), Len(s) < Len(l),
           NEW x \in Below(p), NEW n \in DomainNames[x]
    PROVE  ~IsSuffix(n \o s, rest)
<1> SUFFICES ASSUME IsSuffix(n \o s, rest) PROVE FALSE
  OBVIOUS
<1>1. s \in Domains /\ l \in Domains /\ n \in Domains /\ Len(s) \in Nat /\ Len(l) \in Nat
  BY NamesOf DEF Subtree, Below
<1>2. IsSuffix(s, l) /\ s # l
  BY <1>1, SuffixesNested
<1>3. PICK w \in Domains : w = Without(l, s) /\ l = w \o s
  BY <1>1, <1>2, SuffixParts
<1>4. PICK a \in Domains : rest = a \o l
  BY <1>1, SuffixParts
<1>5. PICK b \in Domains : b = a \o w /\ rest = b \o s
  <2>1. a \o (w \o s) = (a \o w) \o s /\ a \o w \in Domains
    BY <1>1 DEF Domains
  <2>2. QED
    BY <1>3, <1>4, <2>1
<1>6. IsSuffix(n, b)
  BY <1>1, <1>5, SuffixJoined
<1>7. IsSuffix(w, b)
  BY <1>5, SuffixParts
<1>8. Comparable(n, w)
  BY <1>1, <1>6, <1>7, EndsComparable
<1>9. ~Comparable(n, w)
  BY <1>2, <1>3 DEF Unambiguous, IsStrictSuffix
<1>10. QED
  BY <1>8, <1>9

\* The walk begins at k, by the longest of its names.
LEMMA FirstArrival ==
    ASSUME Inv, lock = "free", NEW k \in Zones, zones[k] # nil, Unambiguous(k), NEW q \in Domains,
           NEW f \in DomainNames[k], IsSuffix(f, q),
           \A n \in DomainNames[k] : IsSuffix(n, q) => Len(n) <= Len(f)
    PROVE  Arrived(k, q, k, f)
<1> DEFINE P == {<<k, n>> : n \in {m \in DomainNames[k] : IsSuffix(m, q) /\ Len(m) < Len(f)}}
<1>1. FullNames(k, k) = DomainNames[k] /\ k \in Subtree(k)
  BY FullNamesStep, ResolutionAssumption DEF Subtree
<1>2. <<k, f>> \in Claims(k, q) /\ P \in SUBSET Claims(k, q)
  BY <1>1, ClaimParts
<1>3. ASSUME NEW n \in DomainNames[k], <<k, n>> \in Claims(k, q) PROVE <<k, n>> \in P \cup {<<k, f>>}
  <2>1. IsSuffix(n, q) /\ Len(n) <= Len(f)
    BY <1>3, ClaimParts
  <2>2. n \in Domains /\ f \in Domains /\ Len(n) \in Nat /\ Len(f) \in Nat
    BY NamesOf
  <2>3. Len(n) = Len(f) => n = f
    BY <2>1, <2>2, SuffixesNested
  <2>4. QED
    BY <2>1, <2>2, <2>3
<1>4. ASSUME NEW n \in DomainNames[k], IsSuffix(n, q), Len(n) < Len(f) PROVE NextClaims(k, q, k, n) = {}
  <2>1. ASSUME NEW x \in Below(k), NEW d \in DomainNames[x], <<x, d \o n>> \in Claims(k, q) PROVE FALSE
    <3>1. IsSuffix(d \o n, q)
      BY <2>1, ClaimParts
    <3>2. QED
      BY <1>1, <1>4, <3>1, ShorterEnds
  <2>2. QED
    BY <2>1 DEF NextClaims
<1>5. UpTo(k, q, k, f, P)
  BY <1>2, <1>3, <1>4 DEF UpTo
<1>6. QED
  BY <1>2, <1>5 DEF Arrived

\* It goes on to the only zone below with matching names, by the longest of these.
LEMMA NextArrival ==
    ASSUME Inv, lock = "free", NEW k \in Zones, zones[k] # nil, Unambiguous(k),
           NEW rest \in Domains, NEW f \in Domains, NEW c, Arrived(k, rest \o f, c, f),
           NEW y \in Below(c), NEW r \in DomainNames[y], IsSuffix(r, rest),
           \A n \in DomainNames[y] : IsSuffix(n, rest) => Len(n) <= Len(r)
    PROVE  /\ Arrived(k, rest \o f, y, r \o f)
           /\ \A x \in Below(c) \ {y} : \A n \in DomainNames[x] : ~IsSuffix(n, rest)
<1> DEFINE q == rest \o f
<1>1. PICK P : UpTo(k, q, c, f, P) /\ \A a \in P : Len(a[2]) < Len(f)
  BY DEF Arrived
<1>2. c \in Subtree(k) /\ <<c, f>> \in Claims(k, q) /\ f \in FullNames(k, c)
  BY ClaimParts DEF Arrived, Subtree
<1>3. y \in Subtree(k) /\ FullNames(k, y) = expand(DomainNames[y], FullNames(k, c)) /\ y \in Zones
  BY <1>2, BelowSubtree DEF Below
<1>4. /\ q \in Domains /\ r \in Domains
       /\ Len(r) \in Nat \ {0} /\ Len(f) \in Nat /\ Len(r \o f) = Len(r) + Len(f)
  BY <1>3, NamesOf, Joined
<1>5. ASSUME NEW d \in DomainNames[y], IsSuffix(d, rest) PROVE <<y, d \o f>> \in Claims(k, q)
  <2>1. d \in Domains
    BY <1>3, NamesOf
  <2>2. IsSuffix(d \o f, q)
    BY <1>5, <2>1, SuffixJoined
  <2>3. d \o f \in FullNames(k, y)
    <3>1. f \in FullNames(k, c)
      BY <1>2
    <3>2. d \o f \in expand(DomainNames[y], FullNames(k, c))
      BY <3>1, Expanded
    <3>3. QED
      BY <1>3, <3>2
  <2>4. QED
    BY <1>3, <2>2, <2>3, ClaimParts
<1>6. ASSUME NEW x \in Below(c) \ {y}, NEW n \in DomainNames[x], IsSuffix(n, rest) PROVE FALSE
  <2>1. n \in Domains
    BY NamesOf DEF Below
  <2>2. Comparable(r, n)
    BY <1>4, <1>6, <2>1, EndsComparable
  <2>3. ~Comparable(r, n)
    BY <1>2 DEF Unambiguous
  <2>4. QED
    BY <2>2, <2>3
<1> DEFINE N == {n \in DomainNames[y] : IsSuffix(n, rest) /\ Len(n) < Len(r)}
           P2 == P \cup {<<c, f>>} \cup {<<y, n \o f>> : n \in N}
<1>7. <<y, r \o f>> \in Claims(k, q) /\ P2 \in SUBSET Claims(k, q)
  <2>1. P \in SUBSET Claims(k, q)
    BY <1>1 DEF UpTo
  <2> HIDE DEF q
  <2>2. QED
    BY <1>2, <1>5, <2>1
<1>8. ASSUME NEW b \in NextClaims(k, q, c, f) PROVE b \in P2 \cup {<<y, r \o f>>}
  <2>1. PICK x \in Below(c) : \E n \in DomainNames[x] : b = <<x, n \o f>>
    BY <1>8 DEF NextClaims
  <2>2. PICK n \in DomainNames[x] : b = <<x, n \o f>>
    BY <2>1
  <2>3. n \in Domains /\ Len(n) \in Nat
    BY NamesOf DEF Below
  <2>4. IsSuffix(n \o f, q)
    BY <1>8, <2>2, ClaimParts DEF NextClaims
  <2>5. IsSuffix(n, rest)
    BY <2>3, <2>4, SuffixJoined
  <2>6. x = y
    BY <1>6, <2>5
  <2>7. Len(n) <= Len(r) /\ (Len(n) = Len(r) => n = r)
    BY <1>4, <2>3, <2>5, <2>6, SuffixesNested
  <2>8. QED
    <3>1. CASE n = r
      BY <2>2, <2>6, <3>1
    <3>2. CASE n # r
      <4>1. Len(n) < Len(r)
        BY <1>4, <2>3, <2>7, <3>2
      <4>2. n \in N
        BY <2>5, <2>6, <4>1
      <4>3. QED
        BY <2>2, <2>6, <4>2
    <3>3. QED
      BY <3>1, <3>2
<1>9. ASSUME NEW n \in N PROVE NextClaims(k, q, y, n \o f) = {}
  <2>1. ASSUME NEW x \in Below(y), NEW d \in DomainNames[x], <<x, d \o (n \o f)>> \in Claims(k, q) PROVE FALSE
    <3>1. IsSuffix(d \o (n \o f), q)
      BY <2>1, ClaimParts
    <3>2. n \in Domains /\ d \in Domains
      BY <1>3, NamesOf DEF Below
    <3>3. d \o (n \o f) = (d \o n) \o f /\ d \o n \in Domains
      BY <3>2 DEF Domains
    <3>4. IsSuffix(d \o n, rest)
      BY <3>1, <3>3, SuffixJoined
    <3>5. QED
      BY <1>3, <3>4, ShorterEnds
  <2>2. QED
    BY <2>1 DEF NextClaims
<1>10. UpTo(k, q, y, r \o f, P2)
  <2>1. \A n \in DomainNames[k] : <<k, n>> \in Claims(k, q) => <<k, n>> \in P2
    BY <1>1 DEF UpTo
  <2>2. \A a \in P : NextClaims(k, q, a[1], a[2]) \subseteq P2
    BY <1>1 DEF UpTo
  <2>3. ASSUME NEW a \in P2 PROVE NextClaims(k, q, a[1], a[2]) \subseteq P2 \cup {<<y, r \o f>>}
    <3>1. CASE a = <<c, f>>
      BY <1>8, <3>1
    <3>2. CASE a \in {<<y, n \o f>> : n \in N}
      <4>1. PICK n \in N : a = <<y, n \o f>>
        BY <3>2
      <4>2. a[1] = y /\ a[2] = n \o f
        BY <4>1
      <4> HIDE DEF q, N, P2
      <4>3. QED
        BY <1>9, <4>2
    <3> HIDE DEF q, N
    <3>3. QED
      BY <2>2, <2>3, <3>1, <3>2
  <2> HIDE DEF q, P2
  <2>4. QED
    BY <1>7, <2>1, <2>3 DEF UpTo
<1>11. ASSUME NEW a \in P2 PROVE Len(a[2]) < Len(r \o f)
  <2>1. CASE a \in P
    <3>1. Len(a[2]) < Len(f) /\ Len(a[2]) \in Nat
      <4>1. a \in Claims(k, q)
        BY <1>7, <2>1
      <4>2. a[1] \in Zones /\ a[2] \in FullNames(k, a[1])
        BY <4>1, ClaimPairs
      <4>3. a[2] \in Domains
        BY <4>2, SubtreeParts DEF Subtree
      <4>4. QED
        BY <1>1, <2>1, <4>3, Joined
    <3>2. QED
      BY <1>4, <3>1
  <2>2. CASE a = <<c, f>>
    BY <1>4, <2>2
  <2>3. CASE a \in {<<y, n \o f>> : n \in N}
    <3>1. PICK n \in N : a = <<y, n \o f>>
      BY <2>3
    <3>2. n \in Domains /\ Len(n) \in Nat /\ Len(n) < Len(r)
      BY <1>3, NamesOf
    <3>3. Len(n \o f) = Len(n) + Len(f)
      BY <3>2, Joined
    <3>4. QED
      BY <1>4, <3>1, <3>2, <3>3
  <2>4. QED
    BY <2>1, <2>2, <2>3
<1>12. Arrived(k, q, y, r \o f)
  BY <1>7, <1>10, <1>11 DEF Arrived
<1>13. QED
  BY <1>6, <1>12

\* The entries of zone c with this name that delegate it.
Delegating(c, n) == {e \in LookupRelativeDomainName(c, n) : e.ns}

Delegated(e, name) == [zone |-> nil, zoneName |-> name, entries |-> {e}, name |-> name]

Topmost(all) == {y \in all : \A x \in all : Len(y[2]) <= Len(x[2])}

\* What is expected of zone c, named f.
Response(c, f, q) ==
    LET all == Delegations(c, f, q)
    IN  IF all = {}
        THEN {[zone |-> zones[c], zoneName |-> f, name |-> q,
               entries |-> {e \in Entries : e.zone = c /\ \E n \in e.names : n \o f = q}]}
        ELSE {Delegated(d[1], d[2]) : d \in Topmost(all)}

\* These make up what is expected.
LEMMA ExpectedResponses ==
    ASSUME NEW k, NEW q
    PROVE  Expected(k, q) = UNION {Response(a[1], a[2], q) : a \in Authority(k, q)}
BY DEF Expected, Response, Delegated, Topmost

\* d is a delegation by the last labels of rest.
Delegates(c, f, rest, d) ==
    \E n \in 1 .. Len(rest) :
       \E e \in Delegating(c, End(rest, n)) : d = <<e, End(rest, n) \o f>>

\* Delegations are found where the rest of the name ends with a name of theirs.
LEMMA DelegationParts ==
    ASSUME NEW c, NEW f \in Domains, NEW rest \in Domains, NEW q, q = rest \o f, NEW d
    PROVE  d \in Delegations(c, f, q) <=> Delegates(c, f, rest, d)
<1>1. Len(rest) \in Nat
  BY Joined
<1>2. ASSUME NEW n \in 1 .. Len(rest), NEW e \in Delegating(c, End(rest, n)), d = <<e, End(rest, n) \o f>>
      PROVE  d \in Delegations(c, f, q)
  <2>1. e \in Entries /\ e.zone = c /\ End(rest, n) \in e.names /\ e.ns
    BY DEF Delegating, LookupRelativeDomainName
  <2>2. /\ End(rest, n) \in Domains
        /\ rest = SubSeq(rest, 1, Len(rest) - n) \o End(rest, n) /\ SubSeq(rest, 1, Len(rest) - n) \in Domains
    BY <1>1, Parts
  <2>3. IsSuffix(End(rest, n), rest)
    BY <2>2, SuffixParts
  <2>4. IsSuffix(End(rest, n) \o f, q)
    BY <2>2, <2>3, SuffixJoined
  <2>5. QED
    <3>1. End(rest, n) \o f \in {m \o f : m \in e.names}
      BY <2>1
    <3>2. d \in {e} \X {m \o f : m \in e.names} /\ d[1] = e /\ d[2] = End(rest, n) \o f
      BY <1>2, <3>1
    <3>3. QED
      BY <2>1, <2>4, <3>2 DEF Delegations
<1>3. ASSUME d \in Delegations(c, f, q)
      PROVE  \E n \in 1 .. Len(rest) :
                 \E e \in Delegating(c, End(rest, n)) : d = <<e, End(rest, n) \o f>>
  <2>1. PICK e \in Entries : d \in {e} \X {n \o f : n \in e.names}
    BY <1>3 DEF Delegations
  <2>2. PICK n \in e.names : d = <<e, n \o f>>
    BY <2>1
  <2>3. e.zone = c /\ e.ns /\ IsSuffix(n \o f, q)
    BY <1>3, <2>2 DEF Delegations
  <2>4. n \in Domains /\ n # <<>>
    BY ResolutionAssumption
  <2>5. Len(n) \in Nat \ {0}
    BY <2>4, EmptySeq DEF Domains
  <2>6. IsSuffix(n, rest)
    BY <2>3, <2>4, SuffixJoined
  <2>7. Len(n) \in 1 .. Len(rest) /\ End(rest, Len(n)) = n
    BY <1>1, <2>4, <2>5, <2>6, SuffixParts
  <2>8. e \in Delegating(c, n)
    BY <2>3 DEF Delegating, LookupRelativeDomainName
  <2>9. QED
    BY <2>2, <2>7, <2>8
<1>4. QED
  BY <1>2, <1>3 DEF Delegates

\* Records looks for the delegations, and for the entries, that are expected.
LEMMA RecordsExpected ==
    ASSUME Inv, lock = "free", NEW k \in Zones, zones[k] # nil, NEW c \in Subtree(k),
           NEW f \in Domains, NEW rest \in Domains, NEW q, q = rest \o f
    PROVE  Records(q, zones[c], rest) = Response(c, f, q)
<1> DEFINE C == Cuts(zones[c], rest)
           all == Delegations(c, f, q)
<1>1. heap[zones[c]].key = c /\ Len(rest) \in Nat /\ Len(f) \in Nat
  BY SubtreeParts, Joined
<1>2. C = {n \in 1 .. Len(rest) : Delegating(c, End(rest, n)) # {}}
  BY <1>1 DEF Cuts, Delegating
<1>3. ASSUME NEW d
     PROVE  d \in all <=> \E n \in C : \E e \in Delegating(c, End(rest, n)) : d = <<e, End(rest, n) \o f>>
  <2>1. d \in Delegations(c, f, q) <=> Delegates(c, f, rest, d)
    BY DelegationParts
  <2> HIDE DEF C
  <2>2. QED
    BY <1>2, <2>1 DEF Delegates
<1>4. C = {} <=> all = {}
  <2>1. ASSUME NEW n \in C PROVE all # {}
    <3>1. PICK e : e \in Delegating(c, End(rest, n))
      BY <1>2
    <3> HIDE DEF C, all
    <3>2. <<e, End(rest, n) \o f>> \in all
      BY <1>3, <3>1
    <3>3. QED
      BY <3>2
  <2> HIDE DEF C, all
  <2>2. QED
    BY <1>3, <2>1
<1>5. CASE C = {}
  <2>1. End(q, Len(q) - Len(rest)) = f
    <3>1. Len(q) - Len(rest) = Len(f)
      BY <1>1, Joined
    <3>2. End(q, Len(f)) = f
      BY JoinedParts
    <3>3. QED
      BY <3>1, <3>2
  <2>2. ASSUME NEW e \in Entries, NEW n \in e.names PROVE n # <<>> /\ (n \o f = q <=> n = rest)
    <3>1. n \in Domains /\ n # <<>>
      BY ResolutionAssumption
    <3>2. Without(n \o f, f) = n /\ Without(q, f) = rest
      BY <3>1, JoinedParts
    <3>3. QED
      BY <3>1, <3>2
  <2>3. (IF rest = <<>> THEN {} ELSE LookupRelativeDomainName(c, rest))
           = {e \in Entries : e.zone = c /\ \E n \in e.names : n \o f = q}
    <3>1. QED
      BY <2>2 DEF LookupRelativeDomainName
  <2>4. Records(q, zones[c], rest)
           = {[zone |-> zones[c], zoneName |-> End(q, Len(q) - Len(rest)),
               entries |-> IF rest = <<>> THEN {} ELSE LookupRelativeDomainName(c, rest),
               name |-> q]}
    BY <1>1, <1>5 DEF Records
  <2>5. Response(c, f, q)
           = {[zone |-> zones[c], zoneName |-> f, name |-> q,
               entries |-> {e \in Entries : e.zone = c /\ \E n \in e.names : n \o f = q}]}
    BY <1>4, <1>5 DEF Response
  <2>6. QED
    BY <2>1, <2>3, <2>4, <2>5
<1>6. CASE C # {}
  <2> DEFINE n == CHOOSE n \in C : \A m \in C : n <= m
             name == End(rest, n) \o f
             E == Delegating(c, End(rest, n))
  <2>1. n \in C /\ \A m \in C : n <= m
    <3>1. C \in SUBSET Nat
      BY <1>2
    <3> HIDE DEF C
    <3>2. \E x \in C : \A m \in C : x <= m
      BY <1>6, <3>1, LeastNumber
    <3>3. QED
      BY <3>2
  <2>2. n \in 1 .. Len(rest)
    BY <1>2, <2>1
  <2>3. End(q, Len(q) - Len(rest) + n) = name
    <3> HIDE DEF n
    <3>1. Len(q) - Len(rest) = Len(f)
      BY <1>1, Joined
    <3>2. End(rest \o f, Len(f) + n) = End(rest, n) \o f
      <4>1. n \in 0 .. Len(rest)
        BY <1>1, <2>2
      <4>2. QED
        BY <4>1, EndJoined
    <3>3. QED
      BY <3>1, <3>2
  <2>4. Records(q, zones[c], rest) = {Delegated(e, name) : e \in E}
    <3>1. Records(q, zones[c], rest)
             = {Delegated(e, End(q, Len(q) - Len(rest) + n)) : e \in E}
      BY <1>1, <1>6 DEF Records, Delegated, Delegating
    <3> HIDE DEF n, name, E
    <3>2. QED
      BY <2>3, <3>1
  <2>5. ASSUME NEW m \in C
       PROVE  m \in Nat /\ End(rest, m) \o f \in Domains /\ Len(End(rest, m) \o f) = m + Len(f)
    <3>1. m \in 1 .. Len(rest)
      BY <1>2
    <3>2. End(rest, m) \in Domains /\ Len(End(rest, m)) = m
      BY <1>1, <3>1, Parts
    <3>3. End(rest, m) \o f \in Domains /\ Len(End(rest, m) \o f) = Len(End(rest, m)) + Len(f)
      BY <3>2, Joined
    <3>4. QED
      BY <3>1, <3>2, <3>3
  <2>6. Topmost(all) = {<<e, name>> : e \in E}
    <3> HIDE DEF C, all, n
    <3>1. ASSUME NEW e \in E PROVE <<e, name>> \in Topmost(all)
      <4>1. <<e, name>> \in all
        BY <1>3, <2>1
      <4>2. ASSUME NEW x \in all PROVE Len(name) <= Len(x[2])
        <5>1. PICK m \in C : \E y \in Delegating(c, End(rest, m)) : x = <<y, End(rest, m) \o f>>
          BY <1>3
        <5>2. x[2] = End(rest, m) \o f
          BY <5>1
        <5>3. Len(x[2]) = m + Len(f) /\ Len(name) = n + Len(f) /\ n <= m /\ m \in Nat /\ n \in Nat
          BY <2>1, <2>5, <5>2
        <5>4. QED
          BY <1>1, <5>3
      <4> HIDE DEF name, E
      <4>3. QED
        BY <4>1, <4>2 DEF Topmost
    <3>2. ASSUME NEW d \in Topmost(all) PROVE d \in {<<e, name>> : e \in E}
      <4>1. d \in all /\ \A x \in all : Len(d[2]) <= Len(x[2])
        BY DEF Topmost
      <4>2. PICK m \in C : \E y \in Delegating(c, End(rest, m)) : d = <<y, End(rest, m) \o f>>
        BY <1>3, <4>1
      <4>3. PICK y \in Delegating(c, End(rest, m)) : d = <<y, End(rest, m) \o f>>
        BY <4>2
      <4>4. PICK e \in E : <<e, name>> \in all
        <5>1. PICK e : e \in E
          BY <1>2, <2>1
        <5>2. QED
          BY <1>3, <2>1, <5>1
      <4>5. Len(d[2]) <= Len(name)
        <5> HIDE DEF name
        <5>1. Len(d[2]) <= Len(<<e, name>>[2])
          BY <4>1, <4>4
        <5>2. QED
          BY <5>1
      <4>6. Len(d[2]) = m + Len(f) /\ Len(name) = n + Len(f) /\ n <= m /\ m \in Nat /\ n \in Nat
        BY <2>1, <2>5, <4>3
      <4>7. m = n
        BY <1>1, <4>5, <4>6
      <4>8. QED
        BY <4>3, <4>7
    <3>3. QED
      BY <3>1, <3>2
  <2>7. Response(c, f, q) = {Delegated(d[1], d[2]) : d \in Topmost(all)}
    <3>1. all # {}
      BY <1>4, <1>6
    <3>2. QED
      BY <3>1 DEF Response
  <2>8. QED
    <3> HIDE DEF all, n, name, E
    <3> DEFINE M == {<<e, name>> : e \in E}
    <3>1. ASSUME NEW d \in M PROVE Delegated(d[1], d[2]) \in {Delegated(e, name) : e \in E}
      <4>1. PICK e \in E : d = <<e, name>>
        OBVIOUS
      <4>2. d[1] = e /\ d[2] = name
        BY <4>1
      <4>3. QED
        BY <4>2
    <3>2. ASSUME NEW e \in E PROVE Delegated(e, name) \in {Delegated(d[1], d[2]) : d \in M}
      <4>1. <<e, name>> \in M /\ <<e, name>>[1] = e /\ <<e, name>>[2] = name
        OBVIOUS
      <4> HIDE DEF M
      <4>2. QED
        BY <4>1
    <3> HIDE DEF M
    <3>3. {Delegated(d[1], d[2]) : d \in M} = {Delegated(e, name) : e \in E}
      BY <3>1, <3>2
    <3>4. Topmost(all) = M
      BY <2>6 DEF M
    <3>5. Response(c, f, q) = {Delegated(d[1], d[2]) : d \in M}
      BY <2>7, <3>4
    <3>6. QED
      BY <2>4, <3>3, <3>5
<1>7. QED
  BY <1>5, <1>6

\* The search from zone c comes to the zone with the authority.
Finds(k, q, c, rest) ==
    \E x \in Subtree(k) : \E g, r \in Domains :
       q = r \o g /\ Authority(k, q) = {<<x, g>>} /\ Forward(zones[c], rest) = {<<zones[x], r>>}

\* A search that is on its way there goes on, or ends there.
LEMMA SearchStepFinds ==
    ASSUME Inv, lock = "free", NEW k \in Zones, zones[k] # nil, Exact(k), Unambiguous(k),
           NEW q \in Domains, NEW c, NEW rest \in Domains, NEW f \in Domains,
           q = rest \o f, Arrived(k, q, c, f)
    PROVE  \/ Finds(k, q, c, rest)
           \/ \E y \in Below(c) : \E r, g \in Domains :
                 /\ q = r \o g /\ Arrived(k, q, y, g)
                 /\ Finds(k, q, y, r) => Finds(k, q, c, rest)
<1>1. c \in Subtree(k) /\ c \in Zones /\ zones[c] \in Existing
  BY ClaimParts, SubtreeParts DEF Arrived, Subtree
<1>2. Children(zones[c]) = {zones[x] : x \in Below(c)}
  BY <1>1 DEF Exact
<1>3. ASSUME NEW x \in Below(c)
      PROVE  /\ x \in Zones /\ zones[x] \in Existing /\ heap[zones[x]].key = x
             /\ Names(zones[x]) = DomainNames[x]
  BY <1>1, BelowSubtree, SubtreeParts DEF Names
<1>4. CASE Nested(zones[c], rest) = {}
  <2>1. Forward(zones[c], rest) = {<<zones[c], rest>>}
    BY <1>1, <1>4, ForwardStep
  <2>2. ASSUME NEW a \in NextClaims(k, q, c, f) PROVE FALSE
    <3>1. PICK x \in Below(c) : \E n \in DomainNames[x] : a = <<x, n \o f>>
      BY <2>2 DEF NextClaims
    <3>2. PICK n \in DomainNames[x] : a = <<x, n \o f>>
      BY <3>1
    <3>3. n \in Domains
      BY <1>3, NamesOf
    <3>4. IsSuffix(n \o f, q)
      BY <2>2, <3>2, ClaimParts DEF NextClaims
    <3>5. IsSuffix(n, rest)
      BY <3>3, <3>4, SuffixJoined
    <3>6. Matches(zones[x], rest) # <<>>
      BY <1>3, <3>2, <3>5, MatchesLongest
    <3>7. zones[x] \in Nested(zones[c], rest)
      BY <1>2, <3>6 DEF Nested
    <3>8. QED
      BY <1>4, <3>7
  <2>3. NextClaims(k, q, c, f) = {}
    BY <2>2
  <2>4. Authority(k, q) = {<<c, f>>}
    BY <2>3, LastArrival
  <2>5. QED
    BY <1>1, <2>1, <2>4 DEF Finds
<1>5. CASE Nested(zones[c], rest) # {}
  <2>1. PICK z : z \in Nested(zones[c], rest)
    BY <1>5
  <2>2. PICK y \in Below(c) : z = zones[y]
    BY <1>2, <2>1 DEF Nested
  <2>3. PICK r : r = Matches(z, rest)
    OBVIOUS
  <2>4. PICK rest2 : rest2 = Without(rest, r)
    OBVIOUS
  <2>5. /\ r \in DomainNames[y] /\ r \in Domains /\ rest2 \in Domains /\ rest = rest2 \o r
        /\ \A n \in DomainNames[y] : IsSuffix(n, rest) => Len(n) <= Len(r)
    <3>1. Names(z) = DomainNames[y]
      BY <1>3, <2>2
    <3>2. QED
      BY <1>1, <2>1, <2>3, <2>4, <3>1, NestedParts
  <2>6. IsSuffix(r, rest)
    BY <2>5, SuffixParts
  <2>7. /\ Arrived(k, q, y, r \o f)
        /\ \A x \in Below(c) \ {y} : \A n \in DomainNames[x] : ~IsSuffix(n, rest)
    BY <2>5, <2>6, NextArrival
  <2>8. ASSUME NEW w \in Nested(zones[c], rest) PROVE w = z
    <3>1. PICK x \in Below(c) : w = zones[x]
      BY <1>2, <2>8 DEF Nested
    <3>2. Matches(w, rest) \in DomainNames[x] /\ IsSuffix(Matches(w, rest), rest)
      BY <1>3, <2>8, <3>1, MatchesLongest DEF Nested
    <3>3. x = y
      BY <2>7, <3>2
    <3>4. QED
      BY <2>2, <3>1, <3>3
  <2>9. Nested(zones[c], rest) = {z}
    BY <2>1, <2>8
  <2>10. Forward(zones[c], rest) = Forward(zones[y], rest2)
    <3>1. Forward(zones[c], rest) = UNION {Forward(x, Without(rest, Matches(x, rest))) : x \in {z}}
      BY <1>1, <2>9, ForwardStep
    <3>2. QED
      BY <2>2, <2>3, <2>4, <3>1
  <2>11. r \o f \in Domains /\ q = rest2 \o (r \o f)
    BY <2>5 DEF Domains
  <2>12. Finds(k, q, y, rest2) => Finds(k, q, c, rest)
    BY <2>10 DEF Finds
  <2>13. QED
    BY <2>5, <2>7, <2>11, <2>12
<1>6. QED
  BY <1>4, <1>5

\* So it finds it, as there are no zones below each other for ever.
LEMMA SearchFinds ==
    ASSUME Inv, lock = "free", NEW k \in Zones, zones[k] # nil, Exact(k), Unambiguous(k),
           NEW q \in Domains, NEW c, NEW rest \in Domains, NEW f \in Domains,
           q = rest \o f, Arrived(k, q, c, f)
    PROVE  Finds(k, q, c, rest)
<1> DEFINE Lost(x) == \E r, g \in Domains : q = r \o g /\ Arrived(k, q, x, g) /\ ~Finds(k, q, x, r)
           S == {x \in Zones : Lost(x)}
<1> SUFFICES ASSUME ~Finds(k, q, c, rest) PROVE FALSE
  OBVIOUS
<1>1. c \in S
  BY ClaimParts DEF Arrived
<1>2. PICK x \in S : \A y \in S : ~Refers(y, {x})
  <2> HIDE DEF S
  <2>1. S \in SUBSET Zones
    BY DEF S
  <2>2. QED
    BY <1>1, <2>1, LeavesExist
<1>3. PICK r, g \in Domains : q = r \o g /\ Arrived(k, q, x, g) /\ ~Finds(k, q, x, r)
  BY <1>2
<1>4. PICK y \in Below(x) : \E r2, g2 \in Domains :
                 /\ q = r2 \o g2 /\ Arrived(k, q, y, g2)
                 /\ Finds(k, q, y, r2) => Finds(k, q, x, r)
  BY <1>3, SearchStepFinds
<1>5. y \in S
  BY <1>3, <1>4 DEF Below
<1>6. Refers(y, {x})
  BY DEF Refers, Below, ParentName
<1>7. QED
  BY <1>2, <1>5, <1>6

\* The names that k answers for.
Resolved(k, q) == ResolveFQDN(zones[k], q) = Expected(k, q)

\* The whole lookup: none of the names of k matches, or the search begins at the longest.
LEMMA QueryResolved ==
    ASSUME Inv, lock = "free", NEW k \in Zones, zones[k] # nil, Exact(k), Unambiguous(k),
           NEW q \in Domains
    PROVE  Resolved(k, q)
<1>1. /\ zones[k] \in Existing /\ heap[zones[k]].key = k /\ Names(zones[k]) = DomainNames[k]
      /\ FullNames(k, k) = DomainNames[k] /\ k \in Subtree(k)
  <2>1. FullNames(k, k) = DomainNames[k] /\ k \in Subtree(k)
    BY FullNamesStep, ResolutionAssumption DEF Subtree
  <2>2. QED
    BY <2>1, SubtreeParts DEF Names
<1>2. CASE Matches(zones[k], q) = <<>>
  <2>1. \A n \in DomainNames[k] : ~IsSuffix(n, q)
    BY <1>1, <1>2, MatchesLongest
  <2>2. Claims(k, q) = {}
    <3>1. \A n \in DomainNames[k] : <<k, n>> \notin Claims(k, q)
      BY <2>1, ClaimParts
    <3>2. PICK A : A = {}
      OBVIOUS
    <3>3. Claims(k, q) \subseteq A
      <4>1. \A a \in A : NextClaims(k, q, a[1], a[2]) \subseteq A
        BY <3>2
      <4>2. QED
        BY <3>1, <4>1, AllClaims
    <3>4. QED
      BY <3>2, <3>3
  <2>3. Authority(k, q) = {}
    BY <2>2 DEF Authority, Claims
  <2>4. Expected(k, q) = {}
    BY <2>3, ExpectedResponses
  <2>5. QED
    BY <1>2, <2>4 DEF Resolved, ResolveFQDN
<1>3. CASE Matches(zones[k], q) # <<>>
  <2>1. PICK f : f = Matches(zones[k], q)
    OBVIOUS
  <2>2. /\ f \in DomainNames[k] /\ IsSuffix(f, q)
        /\ \A n \in DomainNames[k] : IsSuffix(n, q) => Len(n) <= Len(f)
    BY <1>1, <1>3, <2>1, MatchesLongest
  <2>3. PICK rest : rest = Without(q, f)
    OBVIOUS
  <2>4. f \in Domains /\ rest \in Domains /\ q = rest \o f
    BY <2>2, <2>3, NamesOf, SuffixParts
  <2>5. Arrived(k, q, k, f)
    BY <2>2, FirstArrival
  <2>6. Finds(k, q, k, rest)
    BY <2>4, <2>5, SearchFinds
  <2>7. PICK x \in Subtree(k), g \in Domains, r \in Domains :
           q = r \o g /\ Authority(k, q) = {<<x, g>>} /\ Forward(zones[k], rest) = {<<zones[x], r>>}
    BY <2>6 DEF Finds
  <2>8. ResolveFQDN(zones[k], q) = Records(q, zones[x], r)
    <3>1. ResolveFQDN(zones[k], q) = UNION {Records(q, end[1], end[2]) : end \in Forward(zones[k], rest)}
      BY <1>3, <2>1, <2>3 DEF ResolveFQDN
    <3>2. ResolveFQDN(zones[k], q) = UNION {Records(q, end[1], end[2]) : end \in {<<zones[x], r>>}}
      BY <2>7, <3>1
    <3>3. QED
      BY <3>2
  <2>9. Expected(k, q) = Response(x, g, q)
    <3>1. Expected(k, q) = UNION {Response(a[1], a[2], q) : a \in {<<x, g>>}}
      BY <2>7, ExpectedResponses
    <3>2. QED
      BY <3>1
  <2>10. Records(q, zones[x], r) = Response(x, g, q)
    BY <2>7, RecordsExpected
  <2>11. QED
    BY <2>8, <2>9, <2>10 DEF Resolved
<1>4. QED
  BY <1>2, <1>3

(***************************************************************************)
(* "This request also handles local nested zones": in every state of the   *)
(* model in which the children below a zone are those that refer to it,    *)
(* and no two names lay claim to the same domain, the search from zone to  *)
(* nested zone ends, and answers any name by the zone with the longest     *)
(* full name the name ends with, or by the topmost delegation below it.    *)
(***************************************************************************)
THEOREM NamesCorrect == Spec => []NamesResolved
<1>1. Inv => NamesResolved
  BY QueryResolved, ResolutionAssumption DEF NamesResolved, Resolved
<1>2. QED
  BY <1>1, InvInductive, PTL DEF Spec

=============================================================================
