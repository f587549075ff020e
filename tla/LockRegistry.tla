---------------------------- MODULE LockRegistry ----------------------------
(***************************************************************************)
(* What the registry of locks promises, without its data structures: a set *)
(* of registered locks, and for each of them the set of the locks that     *)
(* come before it.                                                         *)
(***************************************************************************)
EXTENDS LockGraph

CONSTANT Locks

VARIABLES locks, order

RegistryInit == locks = {} /\ order = [l \in Locks |-> {}]

\* A lock becomes known, without any order.
Register(l) == locks' = locks \cup {l} /\ UNCHANGED order

\* The registered lock a is found to come before the registered lock l.
Learn(a, l) ==
  /\ a \in locks /\ l \in locks /\ a # l
  /\ UNCHANGED locks
  /\ order' = AddEdge(order, a, l)

\* A lock is forgotten, with everything that was known about it.
Forget(l) ==
  /\ locks' = locks \ {l}
  /\ order' = RemoveNode(order, l)

RegistryNext ==
  \E l \in Locks : Register(l) \/ Forget(l) \/ \E a \in Locks : Learn(a, l)

RegistrySpec == RegistryInit /\ [][RegistryNext]_<<locks, order>>
=============================================================================
