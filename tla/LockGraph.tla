----------------------------- MODULE LockGraph -----------------------------
(***************************************************************************)
(* The order that Locksmith learns between locks, as a directed graph.     *)
(* A graph is a function b from locks to sets of locks: b[l] stands for    *)
(* the array lk->before of the lock l, the locks that were held when l was *)
(* taken.  Reachability and acyclicity are defined by closed sets and not  *)
(* by paths, which is what makes them usable in a proof.                   *)
(***************************************************************************)

\* S is closed under the edges of b.
Closed(b, S) == \A n \in S : b[n] \subseteq S

\* y can be reached from x: it lies in every closed set that x lies in.
Reaches(b, x, y) ==
  \A S \in SUBSET DOMAIN b : x \in S /\ Closed(b, S) => y \in S

\* b has no cycle: every non-empty set of locks has a member that comes
\* before no member of the set.
Acyclic(b) ==
  \A D \in SUBSET DOMAIN b :
    D # {} => \E x \in D : \A y \in D : x \notin b[y]

\* Mutant of AddEdge: the edge the wrong way round.
AddEdge_reversed(b, a, l) == [b EXCEPT ![a] = @ \cup {l}]

\* b with the edge that says that a comes before l.
AddEdge(b, a, l) == [b EXCEPT ![l] = @ \cup {a}]

\* Mutant of RemoveNode: the other arrays keep the pointer.
RemoveNode_own(b, l) == [b EXCEPT ![l] = {}]

\* b without the lock l.
RemoveNode(b, l) == [n \in DOMAIN b |-> IF n = l THEN {} ELSE b[n] \ {l}]
=============================================================================
