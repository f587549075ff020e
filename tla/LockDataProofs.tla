--------------------------- MODULE LockDataProofs ---------------------------
(***************************************************************************)
(* What the operations on the order of locks do to reachability and to     *)
(* acyclicity, and what the operations on the list of held locks do to the *)
(* number of its entries in a set of locks.                                *)
(***************************************************************************)
EXTENDS LockGraph, HeldList, TLAPS

-----------------------------------------------------------------------------
(***************************************************************************)
(* The order of locks.                                                     *)
(***************************************************************************)

\* Every lock reaches itself.
LEMMA ReachesSelf ==
  ASSUME NEW b, NEW x
  PROVE  Reaches(b, x, x)
BY DEF Reaches

\* What is before a lock that is reached is reached.
LEMMA ReachesStep ==
  ASSUME NEW b, NEW x, NEW y, Reaches(b, x, y), NEW z \in b[y]
  PROVE  Reaches(b, x, z)
BY DEF Reaches, Closed

\* A closed set refutes reachability.
LEMMA ClosedRefutes ==
  ASSUME NEW b, NEW S \in SUBSET DOMAIN b, Closed(b, S), NEW x \in S,
         NEW y, y \notin S
  PROVE  ~Reaches(b, x, y)
BY DEF Reaches

\* The empty order has no cycle.
LEMMA EmptyAcyclic ==
  ASSUME NEW L
  PROVE  Acyclic([l \in L |-> {}])
BY DEF Acyclic

\* An order without cycles stays so when the edge that is added does not
\* close one: some closed set has a in it, and l not.
LEMMA AddEdgeAcyclic ==
  ASSUME NEW L, NEW b \in [L -> SUBSET L], Acyclic(b),
         NEW a \in L, NEW l \in L,
         NEW S \in SUBSET L, Closed(b, S), a \in S, l \notin S
  PROVE  Acyclic(AddEdge(b, a, l))
<1> DEFINE c == AddEdge(b, a, l)
<1>1. /\ c \in [L -> SUBSET L]
      /\ \A n \in L : c[n] = IF n = l THEN b[n] \cup {a} ELSE b[n]
  BY Zenon DEF AddEdge
<1> HIDE DEF c
<1> SUFFICES ASSUME NEW D \in SUBSET L, D # {},
                    \A x \in D : \E y \in D : x \in c[y]
             PROVE  FALSE
  BY <1>1 DEF Acyclic, c
<1>2. D \ S = {}
  <2> SUFFICES ASSUME D \ S # {} PROVE FALSE
    OBVIOUS
  <2>1. PICK x \in D \ S : \A y \in D \ S : x \notin b[y]
    BY Zenon DEF Acyclic
  <2>2. PICK y \in D : x \in c[y]
    OBVIOUS
  <2>3. x \in b[y]
    BY <2>1, <2>2, <1>1
  <2>4. y \notin S
    BY <2>1, <2>3 DEF Closed
  <2>. QED BY <2>1, <2>3, <2>4
<1>3. PICK x \in D : \A y \in D : x \notin b[y]
  BY Zenon DEF Acyclic
<1>4. PICK y \in D : x \in c[y]
  OBVIOUS
<1>. QED BY <1>1, <1>2, <1>3, <1>4

\* Destroying a lock closes no cycle.
LEMMA RemoveNodeAcyclic ==
  ASSUME NEW L, NEW b \in [L -> SUBSET L], Acyclic(b), NEW l
  PROVE  Acyclic(RemoveNode(b, l))
BY DEF Acyclic, RemoveNode

-----------------------------------------------------------------------------
(***************************************************************************)
(* Sequences.                                                              *)
(***************************************************************************)

\* A sequence is a function on 1 .. Len.
LEMMA SeqLen ==
  ASSUME NEW S, NEW s \in Seq(S)
  PROVE  /\ Len(s) \in Nat /\ DOMAIN s = 1 .. Len(s)
         /\ s \in [1 .. Len(s) -> S]
OBVIOUS

\* Its entries are in its set.
LEMMA SeqElement ==
  ASSUME NEW S, NEW s \in Seq(S), NEW n \in 1 .. Len(s)
  PROVE  s[n] \in S
OBVIOUS

\* The empty sequence ...
LEMMA SeqEmpty ==
  ASSUME NEW S
  PROVE  << >> \in Seq(S) /\ Len(<< >>) = 0
OBVIOUS

\* ... is the only one without entries.
LEMMA SeqNonEmpty ==
  ASSUME NEW S, NEW s \in Seq(S), s # << >>
  PROVE  Len(s) \in Nat \ {0}
OBVIOUS

\* Replacing an entry leaves the others alone.
LEMMA SeqExcept ==
  ASSUME NEW S, NEW s \in Seq(S), NEW i \in 1 .. Len(s), NEW e \in S
  PROVE  /\ [s EXCEPT ![i] = e] \in Seq(S)
         /\ Len([s EXCEPT ![i] = e]) = Len(s)
         /\ \A j \in 1 .. Len(s) :
              [s EXCEPT ![i] = e][j] = IF j = i THEN e ELSE s[j]
OBVIOUS

\* Two sequences, one behind the other.
LEMMA SeqConcat ==
  ASSUME NEW S, NEW s \in Seq(S), NEW u \in Seq(S)
  PROVE  /\ s \o u \in Seq(S)
         /\ Len(s \o u) = Len(s) + Len(u)
         /\ \A i \in 1 .. Len(s) + Len(u) :
              (s \o u)[i] = IF i <= Len(s) THEN s[i] ELSE u[i - Len(s)]
OBVIOUS

\* A sequence without its first entry.
LEMMA SeqTail ==
  ASSUME NEW S, NEW s \in Seq(S), s # << >>
  PROVE  /\ Tail(s) \in Seq(S)
         /\ Len(Tail(s)) = Len(s) - 1
         /\ \A i \in 1 .. Len(Tail(s)) : Tail(s)[i] = s[i + 1]
OBVIOUS

\* A sequence with an entry more.
LEMMA SeqAppend ==
  ASSUME NEW S, NEW s \in Seq(S), NEW e \in S
  PROVE  /\ Append(s, e) \in Seq(S)
         /\ Len(Append(s, e)) = Len(s) + 1
         /\ \A i \in 1 .. Len(s) : Append(s, e)[i] = s[i]
         /\ Append(s, e)[Len(s) + 1] = e
OBVIOUS

\* A part of a sequence.
LEMMA SeqSub ==
  ASSUME NEW S, NEW s \in Seq(S), NEW m \in 1 .. Len(s) + 1,
         NEW n \in 0 .. Len(s)
  PROVE  /\ SubSeq(s, m, n) \in Seq(S)
         /\ Len(SubSeq(s, m, n)) = IF m <= n THEN n - m + 1 ELSE 0
         /\ \A i \in 1 .. n - m + 1 : SubSeq(s, m, n)[i] = s[m + i - 1]
OBVIOUS

-----------------------------------------------------------------------------
(***************************************************************************)
(* The list of held locks.                                                 *)
(***************************************************************************)

\* What the proofs about Locksmith use of CountOf, for lists of members of S.
\* HeldListProofs proves it from the library's theorems on cardinality; here it
\* is a hypothesis, which keeps that library out of the other proofs.
CountFacts(S) ==
  /\ \A L : CountOf(<< >>, L) = 0
  /\ \A s \in Seq(S) : \A L :
       /\ CountOf(s, L) \in Nat
       /\ \A l \in L : tls_contains_lid(s, l) => CountOf(s, L) >= 1
       /\ \A l \in S :
            CountOf(tls_append_held(s, l), L)
            = CountOf(s, L) + (IF l \in L THEN 1 ELSE 0)
       /\ \A l \in S :
            tls_contains_lid(s, l) =>
              /\ tls_remove_held(s, l) \in Seq(S)
              /\ CountOf(tls_remove_held(s, l), L)
                 = CountOf(s, L) - (IF l \in L THEN 1 ELSE 0)
  /\ \A s \in Seq(S) : \A l :
       CountOf(s, {l}) >= 1 => tls_contains_lid(s, l)

\* A count is a natural number.
LEMMA CountType ==
  ASSUME NEW S, CountFacts(S), NEW s \in Seq(S), NEW L
  PROVE  CountOf(s, L) \in Nat
BY DEF CountFacts

\* A list that contains a lock counts at least one ...
LEMMA CountContains ==
  ASSUME NEW S, CountFacts(S), NEW s \in Seq(S), NEW l, NEW L, l \in L,
         tls_contains_lid(s, l)
  PROVE  CountOf(s, L) >= 1
BY DEF CountFacts

\* ... and a list that counts one contains it.
LEMMA ContainsCount ==
  ASSUME NEW S, CountFacts(S), NEW s \in Seq(S), NEW l, CountOf(s, {l}) >= 1
  PROVE  tls_contains_lid(s, l)
BY DEF CountFacts

\* The empty list counts nothing.
LEMMA CountEmpty ==
  ASSUME NEW S, CountFacts(S), NEW L
  PROVE  CountOf(<< >>, L) = 0
BY DEF CountFacts

\* tls_append_held adds one to the count of every set with the lock in it.
LEMMA CountAppend ==
  ASSUME NEW S, CountFacts(S), NEW s \in Seq(S), NEW l \in S, NEW L
  PROVE  /\ tls_append_held(s, l) \in Seq(S)
         /\ CountOf(tls_append_held(s, l), L) =
              CountOf(s, L) + (IF l \in L THEN 1 ELSE 0)
<1>1. tls_append_held(s, l) \in Seq(S)
  BY SeqAppend DEF tls_append_held
<1>. QED BY <1>1 DEF CountFacts

\* tls_remove_held, of a lock that is in the list, takes one from the count of
\* every set with the lock in it and leaves the other counts alone.
LEMMA CountRemove ==
  ASSUME NEW S, CountFacts(S), NEW s \in Seq(S), NEW l,
         tls_contains_lid(s, l), NEW L
  PROVE  /\ tls_remove_held(s, l) \in Seq(S)
         /\ CountOf(tls_remove_held(s, l), L) =
              CountOf(s, L) - (IF l \in L THEN 1 ELSE 0)
<1>1. l \in S
  BY SeqLen, SeqElement DEF tls_contains_lid
<1>. QED BY <1>1 DEF CountFacts
=============================================================================
