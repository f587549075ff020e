------------------------ MODULE LocksmithRefinement ------------------------
(***************************************************************************)
(* The handlers of Locksmith implement LockOrder: the sections of a call   *)
(* under g_tree_lock, the visits of its search and the real lock functions *)
(* add up to the comparisons that LockOrder makes in one step each.        *)
(***************************************************************************)
EXTENDS Locksmith

\* A thread wants a lock from the registration in lksmith_prelock until
\* lksmith_postlock has recorded how the real lock function ended.
Wanted(t) == IF pc[t] \in SearchPcs \cup Pending THEN ptr[t] ELSE None

\* The locks that the threads want, and how often they hold each lock.
Wants == [t \in Threads |-> Wanted(t)]
Holds == [t \in Threads |-> [l \in Locks |-> CountOf(held[t], {l})]]

Order == INSTANCE LockOrder WITH
  Lossy <- TRUE \in Skips \/ "edge" \in Oom,
  locks <- tree,
  order <- before,
  holds <- Holds,
  want <- Wants,
  warned <- "inversion" \in log

\* Every step of a handler is a step of LockOrder or changes nothing that it
\* speaks of: the search of lksmith_prelock decides exactly whether the lock
\* comes earlier in the recorded order, every lock taken has been compared
\* with every lock held, and only locks out of use are forgotten.
ImplementsLockOrder == Order!OrderSpec
=============================================================================
