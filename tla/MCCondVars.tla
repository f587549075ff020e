---------------------------- MODULE MCCondVars ----------------------------
(***************************************************************************)
(* Instances of CondVars for TLC.                                          *)
(***************************************************************************)
EXTENDS CondVars, LocksmithRefinement, TLC

CONSTANTS t1, t2, t3, a, b, c1

\* The mutexes that the program initialises are not there at the start.
StaticMix == [l \in Locks |-> IF l \in Dynamic THEN "destroyed" ELSE "normal"]

StaticNormal == [l \in Locks |-> "normal"]

ThreadSymmetry == Permutations(Threads)
=============================================================================
