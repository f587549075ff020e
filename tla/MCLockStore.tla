---------------------------- MODULE MCLockStore ----------------------------
(***************************************************************************)
(* An instance of LockStore for TLC.                                       *)
(***************************************************************************)
EXTENDS LockStore

\* One cell for each lock, such that the order of the cells is not that of the
\* locks; the first and the last lock compete for theirs.
Scattered ==
  [l \in Locks |-> IF l \in {1, 7} THEN {4, 1} ELSE {((l * 3) % 7) + 1}]
=============================================================================
