---------------------------- MODULE MCLocksmith ----------------------------
(***************************************************************************)
(* Instances of Locksmith for TLC.                                         *)
(***************************************************************************)
EXTENDS LocksmithRefinement, TLC

CONSTANTS t1, t2, t3, a, b, c, s1

\* What the locks are at the start: the dynamic mutexes are not initialised
\* yet, the mutex c is statically recursive, the others are normal.
StaticMix == [l \in Locks |-> IF l \in Spins THEN "spin"
                              ELSE IF l \in Dynamic THEN "destroyed"
                              ELSE IF l = c THEN "recursive" ELSE "normal"]

\* Normal mutexes only, which are interchangeable.
StaticNormal == [l \in Locks |-> "normal"]

ThreadSymmetry == Permutations(Threads)
=============================================================================
