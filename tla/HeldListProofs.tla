--------------------------- MODULE HeldListProofs ---------------------------
(***************************************************************************)
(* The proof of CountFacts: what the operations on the list of held locks  *)
(* do to the number of its entries in a set of locks.                      *)
(***************************************************************************)
EXTENDS LockDataProofs, FiniteSetTheorems

\* The positions that CountOf counts.
Positions(s, L) == {i \in DOMAIN s : s[i] \in L}

\* The positions of a list that are in a set are finitely many.
LEMMA PositionsFinite ==
  ASSUME NEW S, NEW s \in Seq(S), NEW L
  PROVE  /\ IsFiniteSet(Positions(s, L))
         /\ CountOf(s, L) = Cardinality(Positions(s, L))
         /\ CountOf(s, L) \in Nat
<1>1. Positions(s, L) \in SUBSET (1 .. Len(s))
  BY SeqLen DEF Positions
<1>2. IsFiniteSet(1 .. Len(s))
  BY FS_Interval, SeqLen
<1>3. IsFiniteSet(Positions(s, L))
  BY <1>1, <1>2, FS_Subset
<1>4. CountOf(s, L) = Cardinality(Positions(s, L))
  BY DEF CountOf, Positions
<1>. QED BY <1>3, <1>4, FS_CardinalityType

\* A list that contains a lock counts at least one ...
LEMMA ContainsCounts ==
  ASSUME NEW S, NEW s \in Seq(S), NEW l, NEW L, l \in L,
         tls_contains_lid(s, l)
  PROVE  CountOf(s, L) >= 1
<1>1. PICK i \in 1 .. Len(s) : s[i] = l
  BY SeqLen DEF tls_contains_lid
<1>2. i \in Positions(s, L)
  BY <1>1, SeqLen DEF Positions
<1>3. Cardinality(Positions(s, L)) # 0
  BY <1>2, PositionsFinite, FS_EmptySet
<1>. QED BY <1>3, PositionsFinite

\* ... and a list that counts one contains it.
LEMMA CountsContain ==
  ASSUME NEW S, NEW s \in Seq(S), NEW l, CountOf(s, {l}) >= 1
  PROVE  tls_contains_lid(s, l)
<1>1. Cardinality(Positions(s, {l})) # 0
  BY PositionsFinite
<1>2. Positions(s, {l}) # {}
  BY <1>1, FS_EmptySet, Zenon
<1>3. PICK i \in DOMAIN s : s[i] \in {l}
  BY <1>2 DEF Positions
<1>. QED BY <1>3, SeqLen DEF tls_contains_lid

\* The empty list counts nothing.
LEMMA EmptyCounts ==
  ASSUME NEW L
  PROVE  CountOf(<< >>, L) = 0
<1>1. {i \in DOMAIN << >> : << >>[i] \in L} = {}
  OBVIOUS
<1>. QED BY <1>1, FS_EmptySet DEF CountOf

\* tls_append_held adds one to the count of every set with the lock in it.
LEMMA AppendCounts ==
  ASSUME NEW S, NEW s \in Seq(S), NEW l \in S, NEW L
  PROVE  /\ tls_append_held(s, l) \in Seq(S)
         /\ CountOf(tls_append_held(s, l), L) =
              CountOf(s, L) + (IF l \in L THEN 1 ELSE 0)
<1> DEFINE r == Append(s, l)
           n == Len(s) + 1
<1>1. /\ r \in Seq(S) /\ Len(r) = n /\ r[n] = l
      /\ \A i \in 1 .. Len(s) : r[i] = s[i]
      /\ DOMAIN r = 1 .. n /\ DOMAIN s = 1 .. Len(s) /\ Len(s) \in Nat
  BY SeqAppend, SeqLen
<1> HIDE DEF r, n
<1>2. n \notin Positions(s, L)
  BY <1>1 DEF Positions, n
<1>3. /\ IsFiniteSet(Positions(s, L))
      /\ CountOf(s, L) = Cardinality(Positions(s, L))
      /\ CountOf(s, L) \in Nat
      /\ CountOf(r, L) = Cardinality(Positions(r, L))
  BY <1>1, PositionsFinite
<1>4. CASE l \in L
  <2>1. Positions(r, L) = Positions(s, L) \cup {n}
    BY <1>1, <1>4 DEF Positions, n
  <2>2. Cardinality(Positions(s, L) \cup {n}) = Cardinality(Positions(s, L)) + 1
    BY <1>2, <1>3, FS_AddElement, Zenon
  <2>. QED BY <2>1, <2>2, <1>1, <1>3, <1>4 DEF tls_append_held, r
<1>5. CASE l \notin L
  <2>1. Positions(r, L) = Positions(s, L)
    BY <1>1, <1>5 DEF Positions, n
  <2>. QED BY <2>1, <1>1, <1>3, <1>5 DEF tls_append_held, r
<1>. QED BY <1>4, <1>5

\* A non-empty set of positions has a greatest one.
LEMMA MaxExists ==
  ASSUME NEW n \in Nat, NEW T \in SUBSET (1 .. n), T # {}
  PROVE  \E i \in T : \A j \in T : j <= i
<1> DEFINE U == {n - i : i \in T}
<1>1. U \subseteq Nat /\ U # {}
  <2>1. \A i \in T : n - i \in Nat
    OBVIOUS
  <2>. QED BY <2>1, Zenon
<1>2. \E x \in U : \A y \in U : ~ (<<y, x>> \in OpToRel(<, Nat))
  BY <1>1, NatLessThanWellFounded, WFMin
<1>3. PICK x \in U : \A y \in U : ~ (y < x)
  BY <1>1, <1>2, Zenon DEF OpToRel
<1>4. PICK i \in T : x = n - i
  OBVIOUS
<1>5. \A j \in T : j <= i
  BY <1>3, <1>4
<1>. QED BY <1>5

\* What is left of a list when one of its entries is removed.
LEMMA RemoveEntryProperties ==
  ASSUME NEW S, NEW s \in Seq(S), NEW j \in 1 .. Len(s)
  PROVE  /\ RemoveEntry(s, j) \in Seq(S)
         /\ Len(RemoveEntry(s, j)) = Len(s) - 1
         /\ \A i \in 1 .. (Len(s) - 1) :
              RemoveEntry(s, j)[i] = IF i < j THEN s[i] ELSE s[i + 1]
<1> DEFINE u == SubSeq(s, 1, j - 1)
           v == SubSeq(s, j + 1, Len(s))
<1>1. Len(s) \in Nat /\ \A i \in 1 .. Len(s) : s[i] \in S
  BY SeqLen, SeqElement
<1>2. /\ u \in Seq(S) /\ Len(u) = j - 1
      /\ \A i \in 1 .. (j - 1) : u[i] = s[i]
  BY <1>1, SeqSub
<1>3. /\ v \in Seq(S) /\ Len(v) = Len(s) - j
      /\ \A i \in 1 .. (Len(s) - j) : v[i] = s[j + i]
  BY <1>1, SeqSub
<1> HIDE DEF u, v
<1>4. /\ u \o v \in Seq(S) /\ Len(u \o v) = Len(u) + Len(v)
      /\ \A i \in 1 .. Len(u) + Len(v) :
           (u \o v)[i] = IF i <= Len(u) THEN u[i] ELSE v[i - Len(u)]
  BY <1>2, <1>3, SeqConcat, Zenon
<1>5. RemoveEntry(s, j) = u \o v
  BY DEF RemoveEntry, u, v
<1>6. ASSUME NEW i \in 1 .. (Len(s) - 1)
      PROVE  (u \o v)[i] = IF i < j THEN s[i] ELSE s[i + 1]
  <2>1. CASE i < j
    BY <2>1, <1>1, <1>2, <1>3, <1>4
  <2>2. CASE ~(i < j)
    <3>1. i - (j - 1) \in 1 .. (Len(s) - j) /\ j + (i - (j - 1)) = i + 1
      BY <2>2, <1>1
    <3>2. (u \o v)[i] = v[i - (j - 1)]
      BY <2>2, <1>1, <1>2, <1>3, <1>4
    <3>. QED BY <3>1, <3>2, <1>3, <2>2, Zenon
  <2>. QED BY <2>1, <2>2, Zenon
<1>7. Len(u \o v) = Len(s) - 1
  BY <1>1, <1>2, <1>3, <1>4
<1>. QED BY <1>4, <1>5, <1>6, <1>7

\* Removing an entry takes one from the count of every set the entry is in.
LEMMA RemoveEntryCounts ==
  ASSUME NEW S, NEW s \in Seq(S), NEW j \in 1 .. Len(s), NEW L
  PROVE  CountOf(RemoveEntry(s, j), L) =
           CountOf(s, L) - (IF s[j] \in L THEN 1 ELSE 0)
<1> DEFINE r == RemoveEntry(s, j)
           P == Positions(s, L) \ {j}
           f == [i \in Positions(r, L) |-> IF i < j THEN i ELSE i + 1]
<1>1. /\ r \in Seq(S) /\ Len(r) = Len(s) - 1
      /\ \A i \in 1 .. (Len(s) - 1) : r[i] = IF i < j THEN s[i] ELSE s[i + 1]
      /\ Len(s) \in Nat
      /\ DOMAIN s = 1 .. Len(s) /\ DOMAIN r = 1 .. (Len(s) - 1)
  <2>1. r \in Seq(S) /\ Len(r) = Len(s) - 1
        /\ \A i \in 1 .. (Len(s) - 1) : r[i] = IF i < j THEN s[i] ELSE s[i + 1]
    BY RemoveEntryProperties
  <2>. QED BY <2>1, SeqLen
<1> HIDE DEF r
<1>2. /\ IsFiniteSet(Positions(r, L))
      /\ CountOf(r, L) = Cardinality(Positions(r, L))
      /\ IsFiniteSet(Positions(s, L))
      /\ CountOf(s, L) = Cardinality(Positions(s, L))
      /\ CountOf(s, L) \in Nat
  BY <1>1, PositionsFinite
<1>3. f \in Bijection(Positions(r, L), P)
  <2>1. ASSUME NEW i \in Positions(r, L)
        PROVE  f[i] \in P
    <3>1. i \in 1 .. (Len(s) - 1) /\ r[i] \in L
      BY <1>1 DEF Positions
    <3>. QED BY <1>1, <3>1 DEF Positions
  <2>2. ASSUME NEW i \in Positions(r, L), NEW k \in Positions(r, L), f[i] = f[k]
        PROVE  i = k
    <3>1. i \in 1 .. (Len(s) - 1) /\ k \in 1 .. (Len(s) - 1)
      BY <1>1 DEF Positions
    <3>. QED BY <2>2, <3>1, <1>1
  <2>3. ASSUME NEW k \in P
        PROVE  \E i \in Positions(r, L) : f[i] = k
    <3>1. k \in 1 .. Len(s) /\ k # j /\ s[k] \in L
      BY <1>1 DEF Positions
    <3>2. CASE k < j
      <4>1. k \in 1 .. (Len(s) - 1) /\ r[k] = s[k]
        BY <3>1, <3>2, <1>1
      <4>2. k \in Positions(r, L)
        BY <4>1, <3>1, <1>1 DEF Positions
      <4>. QED BY <4>2, <3>2
    <3>3. CASE k > j
      <4>1. k - 1 \in 1 .. (Len(s) - 1) /\ r[k - 1] = s[k] /\ ~(k - 1 < j)
        BY <3>1, <3>3, <1>1
      <4>2. k - 1 \in Positions(r, L)
        BY <4>1, <3>1, <1>1 DEF Positions
      <4>. QED BY <4>1, <4>2, <3>1
    <3>. QED BY <3>1, <3>2, <3>3, <1>1
  <2>4. f \in [Positions(r, L) -> P]
    BY <2>1
  <2> HIDE DEF f, P
  <2>. QED BY <2>2, <2>3, <2>4
           DEF Bijection, Injection, Surjection, IsInjective
<1>4. Cardinality(P) = Cardinality(Positions(r, L))
  BY <1>2, <1>3, FS_Bijection DEF ExistsBijection
<1>5. Cardinality(P) = IF j \in Positions(s, L)
                       THEN Cardinality(Positions(s, L)) - 1
                       ELSE Cardinality(Positions(s, L))
  BY <1>2, FS_RemoveElement, Zenon
<1>6. j \in Positions(s, L) <=> s[j] \in L
  BY <1>1 DEF Positions
<1>. QED BY <1>2, <1>4, <1>5, <1>6 DEF r

\* tls_remove_held takes out one entry, of the lock that is removed.
LEMMA RemoveHeld ==
  ASSUME NEW S, NEW s \in Seq(S), NEW l, tls_contains_lid(s, l)
  PROVE  \E j \in 1 .. Len(s) :
           s[j] = l /\ tls_remove_held(s, l) = RemoveEntry(s, j)
<1> DEFINE T == {i \in DOMAIN s : s[i] = l}
           j == LastIndex(s, l)
<1>1. Len(s) \in Nat /\ DOMAIN s = 1 .. Len(s)
  BY SeqLen
<1>2. T \in SUBSET (1 .. Len(s)) /\ T # {}
  BY <1>1 DEF tls_contains_lid
<1>3. \E i \in T : \A k \in T : k <= i
  BY <1>1, <1>2, MaxExists, Zenon
<1>4. j \in 1 .. Len(s) /\ s[j] = l
  <2>1. \E i \in DOMAIN s : s[i] = l /\ \A k \in DOMAIN s : s[k] = l => k <= i
    BY <1>3
  <2>. QED BY <1>1, <2>1 DEF LastIndex
<1>5. tls_remove_held(s, l) = RemoveEntry(s, j)
  BY DEF tls_remove_held
<1> HIDE DEF j
<1>. QED BY <1>4, <1>5

\* tls_remove_held, of a lock that is in the list, takes one from the count of
\* every set with the lock in it and leaves the other counts alone.
LEMMA RemoveCounts ==
  ASSUME NEW S, NEW s \in Seq(S), NEW l, tls_contains_lid(s, l), NEW L
  PROVE  /\ tls_remove_held(s, l) \in Seq(S)
         /\ CountOf(tls_remove_held(s, l), L) =
              CountOf(s, L) - (IF l \in L THEN 1 ELSE 0)
<1>1. PICK j \in 1 .. Len(s) :
        s[j] = l /\ tls_remove_held(s, l) = RemoveEntry(s, j)
  BY RemoveHeld
<1>. QED BY <1>1, RemoveEntryProperties, RemoveEntryCounts

\* The entries that tls_remove_held leaves keep their order.
LEMMA RemoveKeepsOrder ==
  ASSUME NEW S, NEW s \in Seq(S), NEW l,
         NEW i \in DOMAIN tls_remove_held(s, l),
         NEW k \in DOMAIN tls_remove_held(s, l), i < k
  PROVE  \E p, q \in DOMAIN s : /\ p < q
                                /\ s[p] = tls_remove_held(s, l)[i]
                                /\ s[q] = tls_remove_held(s, l)[k]
<1>1. CASE ~tls_contains_lid(s, l)
  BY <1>1 DEF tls_remove_held
<1>2. CASE tls_contains_lid(s, l)
  <2>1. PICK j \in 1 .. Len(s) :
          s[j] = l /\ tls_remove_held(s, l) = RemoveEntry(s, j)
    BY <1>2, RemoveHeld
  <2> DEFINE r == RemoveEntry(s, j)
             old(m) == IF m < j THEN m ELSE m + 1
  <2>2. /\ r \in Seq(S) /\ Len(r) = Len(s) - 1
        /\ \A m \in 1 .. (Len(s) - 1) : r[m] = IF m < j THEN s[m] ELSE s[m + 1]
    BY RemoveEntryProperties
  <2>3. Len(s) \in Nat /\ DOMAIN s = 1 .. Len(s) /\ DOMAIN r = 1 .. (Len(s) - 1)
    BY <2>2, SeqLen
  <2> HIDE DEF r
  <2>4. i \in 1 .. (Len(s) - 1) /\ k \in 1 .. (Len(s) - 1)
    BY <2>1, <2>3 DEF r
  <2>5. /\ old(i) \in DOMAIN s /\ old(k) \in DOMAIN s /\ old(i) < old(k)
        /\ s[old(i)] = r[i] /\ s[old(k)] = r[k]
    BY <2>2, <2>3, <2>4
  <2>. QED BY <2>1, <2>5 DEF r
<1>. QED BY <1>1, <1>2

\* The facts about counts that the other proofs take as a hypothesis.
LEMMA CountFactsHold ==
  ASSUME NEW S
  PROVE  CountFacts(S)
<1>1. ASSUME NEW s \in Seq(S), NEW L, NEW l \in S
      PROVE  CountOf(tls_append_held(s, l), L)
             = CountOf(s, L) + (IF l \in L THEN 1 ELSE 0)
  BY AppendCounts
<1>2. ASSUME NEW s \in Seq(S), NEW L, NEW l \in S, tls_contains_lid(s, l)
      PROVE  /\ tls_remove_held(s, l) \in Seq(S)
             /\ CountOf(tls_remove_held(s, l), L)
                = CountOf(s, L) - (IF l \in L THEN 1 ELSE 0)
  BY <1>2, RemoveCounts
<1>3. ASSUME NEW s \in Seq(S), NEW L
      PROVE  /\ CountOf(s, L) \in Nat
             /\ \A l \in L : tls_contains_lid(s, l) => CountOf(s, L) >= 1
  BY PositionsFinite, ContainsCounts
<1>4. ASSUME NEW s \in Seq(S), NEW l, CountOf(s, {l}) >= 1
      PROVE  tls_contains_lid(s, l)
  BY <1>4, CountsContain
<1>. QED BY <1>1, <1>2, <1>3, <1>4, EmptyCounts DEF CountFacts
=============================================================================
