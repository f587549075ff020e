----------------------------- MODULE LockOrder -----------------------------
(***************************************************************************)
(* What Locksmith promises to the threads of a program, without the search *)
(* and the sections that the code needs for it.  A thread that wants a     *)
(* lock compares it with every lock it holds: either the lock it holds is  *)
(* recorded as coming before the new one, or the recorded order says the   *)
(* opposite and a warning is given.  Nothing else ever orders two locks,   *)
(* and no thread gets a lock before this is done.                          *)
(***************************************************************************)
EXTENDS LockRegistry, Integers

CONSTANTS
  Threads,
  None,
  Lossy   \* some comparisons may be left out (exempted calls, no memory)

VARIABLES
  holds,   \* how often each thread holds each lock
  want,    \* the lock that a thread is about to take, or None
  warned   \* an inversion has been reported

orderVars == <<locks, order, holds, want, warned>>

OrderInit ==
  /\ RegistryInit
  /\ holds = [t \in Threads |-> [l \in Locks |-> 0]]
  /\ want = [t \in Threads |-> None]
  /\ warned = FALSE

Introduce(l) == Register(l) /\ UNCHANGED <<warned, want, holds>>

Want(t, l) ==
  /\ want[t] = None
  /\ want' = [want EXCEPT ![t] = l]
  /\ Register(l)
  /\ UNCHANGED <<warned, holds>>

\* Thread t compares the lock a that it holds with the lock that it wants.
\* After a warning the order may have cycles, and is only added to.
Compare(t, a) ==
  LET l == want[t] IN
  /\ l # None /\ holds[t][a] > 0 /\ a # l
  /\ Learn(a, l)
  /\ warned \/ ~Reaches(order, a, l)
  /\ UNCHANGED <<holds, want, warned>>

Warn(t, a) ==
  LET l == want[t] IN
  /\ l # None /\ warned' = TRUE
  /\ holds[t][a] > 0 /\ a # l
  /\ Reaches(order, a, l)
  /\ UNCHANGED <<locks, order, holds, want>>

\* Every lock that thread t holds is known to come before the one it wants.
InOrder(t) ==
  \A a \in Locks : holds[t][a] > 0 /\ a # want[t] => a \in order[want[t]]

Acquire(t) ==
  /\ want[t] # None
  /\ want' = [want EXCEPT ![t] = None]
  /\ warned \/ Lossy \/ InOrder(t)
  /\ holds' = [holds EXCEPT ![t][want[t]] = @ + 1]
  /\ UNCHANGED <<locks, order, warned>>

GiveUp(t) ==
  /\ want[t] # None
  /\ want' = [want EXCEPT ![t] = None]
  /\ UNCHANGED <<locks, order, holds, warned>>

Release(t, l) ==
  /\ holds[t][l] > 0
  /\ holds' = [holds EXCEPT ![t][l] = @ - 1]
  /\ UNCHANGED <<locks, order, want, warned>>

\* Only a lock that nobody holds or wants is forgotten.
Retire(l) ==
  /\ \A t \in Threads : want[t] # l /\ holds[t][l] = 0
  /\ Forget(l)
  /\ UNCHANGED <<holds, want, warned>>

OrderNext ==
  \/ \E l \in Locks : Introduce(l) \/ Retire(l)
  \/ \E t \in Threads : Acquire(t) \/ GiveUp(t)
  \/ \E t \in Threads, l \in Locks :
       Want(t, l) \/ Compare(t, l) \/ Warn(t, l) \/ Release(t, l)

OrderSpec == OrderInit /\ [][OrderNext]_orderVars
=============================================================================
