------------------------------ MODULE CondVars ------------------------------
(***************************************************************************)
(* Condition variables on top of the locks of Locksmith: the handlers      *)
(* pthread_cond_init, _wait, _timedwait and _destroy with the table of     *)
(* condition variables g_cond_tree, whose entries record the mutex that    *)
(* the current waiters use.  A section under g_cond_tree_lock is one step. *)
(*                                                                         *)
(* While a thread waits, the real mutex is released but Locksmith goes on  *)
(* counting it as held: the held list and the holder entry of the mutex    *)
(* stay.  The steps of all the other handlers fall in between.  To them a  *)
(* thread that waits is one inside an unlock, and so pc shows it at the    *)
(* real unlock while it has the mutex and behind it while it has not; the  *)
(* variable wait says where it is in the wait.                             *)
(*                                                                         *)
(* Abstractions: an entry that does not exist yet is one without waiters   *)
(* (entries are never removed, and a new one has no lock and refcnt 0); a  *)
(* wait that ends by a signal, a broadcast, a timeout or for no reason is  *)
(* one step that may come at any time.                                     *)
(***************************************************************************)
EXTENDS Locksmith

CONSTANT Conds   \* the condition variables of the program

ASSUME CondsAssumption == None \notin Conds

VARIABLES
  cond_lock,  \* cnd->lock: the mutex that the waiters use, or None
  refcnt,     \* cnd->refcnt
  cond_live,  \* the real condition variables that are initialised
  cond,       \* the condition variable of the call in progress, or None
  wait        \* the step of that call, or "none"

condvars == <<cond_lock, refcnt, cond_live, cond, wait>>
allvars == <<vars, condvars>>

CondInit ==
  /\ Init
  /\ cond_lock = [c \in Conds |-> None]
  /\ refcnt = [c \in Conds |-> 0]
  /\ cond_live = Conds
  /\ cond = [t \in Threads |-> None]
  /\ wait = [t \in Threads |-> "none"]

-----------------------------------------------------------------------------
\* The steps between lksmith_cond_prewait and lksmith_cond_postwait: about to
\* call the real wait, asleep in it, woken up and taking the mutex back, back.
WaitSteps == {"cwait", "asleep", "relock", "cpost"}

\* Thread t is between the two sections, for condition variable c.
Registered(t, c) == cond[t] = c /\ wait[t] \in WaitSteps

\* The contract of POSIX: a condition variable is used while it exists, until
\* the real destroy, and nobody starts to wait with a mutex whose destruction
\* is under way.  (To destroy either of them while threads wait is an error
\* that the handlers look for.)
MayUseCond(c) == c \in cond_live
MayWait(c, l) ==
  MayUseCond(c) /\ \A t \in Threads : ~At(t, l, {"rdestroy"})

\* Thread t is in the program's code, in no handler.
Outside(t) == pc[t] = "idle" /\ wait[t] = "none"

pthread_cond_init(t, c) ==
  /\ Outside(t) /\ c \notin cond_live
  /\ cond_live' = cond_live \cup {c}
  /\ UNCHANGED <<vars, cond_lock, refcnt, cond, wait>>

\* Mutant of lksmith_check_locked: every mutex passes.
lksmith_check_locked_none(t, l) == TRUE

\* The mutex must be in the thread's list; otherwise the wait is refused.
lksmith_check_locked(t, l) == tls_contains_lid(held[t], l)

\* Mutant of the next action: the mutex of the other waiters is replaced.
lksmith_cond_prewait_replace(t, c, l) ==
  /\ Outside(t) /\ MayWait(c, l) /\ lksmith_check_locked(t, l)
  /\ Call(t, l, "unlock", "runlock")
  /\ cond_lock' = [cond_lock EXCEPT ![c] = l]
  /\ refcnt' = [refcnt EXCEPT ![c] = @ + 1]
  /\ cond' = [cond EXCEPT ![t] = c]
  /\ wait' = [wait EXCEPT ![t] = "cwait"]
  /\ UNCHANGED <<registry, prelock, tls, real, skip, log, cond_live>>

\* pthread_cond_wait and _timedwait up to the real wait.  A wait with another
\* mutex than that of the current waiters is refused (EINVAL), as is one for
\* which there is no memory: nothing changes then.
lksmith_cond_prewait(t, c, l) ==
  /\ Outside(t) /\ MayWait(c, l) /\ lksmith_check_locked(t, l)
  /\ cond_lock[c] \in {None, l}
  /\ Call(t, l, "unlock", "runlock")
  /\ cond_lock' = [cond_lock EXCEPT ![c] = l]
  /\ refcnt' = [refcnt EXCEPT ![c] = @ + 1]
  /\ cond' = [cond EXCEPT ![t] = c]
  /\ wait' = [wait EXCEPT ![t] = "cwait"]
  /\ UNCHANGED <<registry, prelock, tls, real, skip, log, cond_live>>

\* The real wait (glibc) gives up the mutex once and sleeps; a mutex that
\* checks its owner makes it fail for anybody else.
r_cond_sleep(t) ==
  LET l == ptr[t]
      last == count[l] <= 1
  IN  /\ wait[t] = "cwait"
      /\ IF kind[l] \in {"errorcheck", "recursive"} /\ owner[l] # t
         THEN /\ wait' = [wait EXCEPT ![t] = "cpost"]
              /\ UNCHANGED <<calls, owner, count>>
         ELSE /\ owner' = [owner EXCEPT ![l] = IF last THEN None ELSE @]
              /\ count' = [count EXCEPT ![l] = IF last THEN 0 ELSE @ - 1]
              /\ wait' = [wait EXCEPT ![t] = "asleep"]
              /\ Goto(t, "postunlock")
      /\ UNCHANGED <<registry, prelock, tls, kind, log, cond_lock, refcnt,
                     cond_live, cond>>

r_cond_wake(t) ==
  /\ wait[t] = "asleep"
  /\ wait' = [wait EXCEPT ![t] = "relock"]
  /\ UNCHANGED <<vars, cond_lock, refcnt, cond_live, cond>>

\* The real wait takes the mutex back, without a call of any handler.
r_cond_relock(t) ==
  LET l == ptr[t] IN
  /\ wait[t] = "relock" /\ (owner[l] = None \/ Relock(t, l))
  /\ owner' = [owner EXCEPT ![l] = t]
  /\ count' = [count EXCEPT ![l] = @ + 1]
  /\ wait' = [wait EXCEPT ![t] = "cpost"]
  /\ Goto(t, "runlock")
  /\ UNCHANGED <<registry, prelock, tls, kind, log, cond_lock, refcnt,
                 cond_live, cond>>

\* Mutants of lksmith_cond_postwait: the mutex is forgotten with the first
\* waiter that returns; the reference is kept.
lksmith_cond_postwait_clear(t) ==
  /\ wait[t] = "cpost"
  /\ refcnt' = [refcnt EXCEPT ![cond[t]] = @ - 1]
  /\ cond_lock' = [cond_lock EXCEPT ![cond[t]] = None]
  /\ cond' = [cond EXCEPT ![t] = None]
  /\ wait' = [wait EXCEPT ![t] = "none"]
  /\ Return(t)
  /\ UNCHANGED <<registry, prelock, tls, real, log, cond_live>>

lksmith_cond_postwait_leak(t) ==
  /\ wait[t] = "cpost"
  /\ cond' = [cond EXCEPT ![t] = None]
  /\ wait' = [wait EXCEPT ![t] = "none"]
  /\ Return(t)
  /\ UNCHANGED <<registry, prelock, tls, real, log, cond_live, refcnt,
                 cond_lock>>

\* The last waiter that returns makes the entry forget the mutex.
lksmith_cond_postwait(t) ==
  LET c == cond[t] IN
  /\ wait[t] = "cpost"
  /\ refcnt' = [refcnt EXCEPT ![c] = @ - 1]
  /\ cond_lock' = [cond_lock EXCEPT ![c] = IF refcnt[c] = 1 THEN None ELSE @]
  /\ cond' = [cond EXCEPT ![t] = None]
  /\ wait' = [wait EXCEPT ![t] = "none"]
  /\ Return(t)
  /\ UNCHANGED <<registry, prelock, tls, real, log, cond_live>>

\* Mutant of lksmith_cond_predestroy: the threads asleep count, and not those
\* about to wait or coming back.
lksmith_cond_predestroy_asleep(t, c) ==
  /\ Outside(t) /\ MayUseCond(c)
  /\ \A u \in Threads : ~(cond[u] = c /\ wait[u] = "asleep")
  /\ cond' = [cond EXCEPT ![t] = c]
  /\ wait' = [wait EXCEPT ![t] = "cdestroy"]
  /\ UNCHANGED <<vars, cond_lock, refcnt, cond_live>>

\* pthread_cond_destroy up to the real destroy: refused (EINVAL) while there
\* are references.  The entry does not remember that the check was made, so a
\* wait may start before the real destroy.
lksmith_cond_predestroy(t, c) ==
  /\ Outside(t) /\ MayUseCond(c)
  /\ refcnt[c] = 0
  /\ cond' = [cond EXCEPT ![t] = c]
  /\ wait' = [wait EXCEPT ![t] = "cdestroy"]
  /\ UNCHANGED <<vars, cond_lock, refcnt, cond_live>>

r_cond_destroy(t) ==
  /\ wait[t] = "cdestroy"
  /\ cond_live' = cond_live \ {cond[t]}
  /\ cond' = [cond EXCEPT ![t] = None]
  /\ wait' = [wait EXCEPT ![t] = "none"]
  /\ UNCHANGED <<vars, cond_lock, refcnt>>

-----------------------------------------------------------------------------
CondCall(t) ==
  \E c \in Conds :
    \/ pthread_cond_init(t, c)
    \/ \E l \in Mutexes : lksmith_cond_prewait(t, c, l)
    \/ lksmith_cond_predestroy(t, c)

CondStep(t) ==
  \/ r_cond_sleep(t)
  \/ r_cond_wake(t)
  \/ r_cond_relock(t)
  \/ lksmith_cond_postwait(t)
  \/ r_cond_destroy(t)

\* A thread that is in no call for a condition variable makes the steps of
\* Locksmith.
CondNext ==
  \E t \in Threads :
    \/ CondCall(t)
    \/ CondStep(t)
    \/ /\ wait[t] = "none" /\ (ClientCall(t) \/ HandlerStep(t))
       /\ UNCHANGED condvars

CondSpec == CondInit /\ [][CondNext]_allvars

-----------------------------------------------------------------------------
(***************************************************************************)
(* Correctness.                                                            *)
(***************************************************************************)

\* The reference count is the number of threads between the two sections of a
\* wait: it never wraps below zero, and it is zero when nobody waits.
RefcntMatch ==
  \A c \in Conds : refcnt[c] = Cardinality({t \in Threads : Registered(t, c)})

\* All threads that wait on a condition variable at the same time use one
\* mutex, and it is the one in the entry; the entry of a condition variable
\* on which nobody waits has none, so that the next waiter is free to choose.
WaitersAgree ==
  \A c \in Conds :
    IF \E t \in Threads : Registered(t, c)
    THEN \A t \in Threads : Registered(t, c) => ptr[t] = cond_lock[c]
    ELSE cond_lock[c] = None

\* A thread that sleeps in a wait has given its mutex up, and yet nobody can
\* destroy the mutex: it stays registered and initialised until the thread
\* has it back, because the holder entry stays.
WaitedMutexKept ==
  \A t \in Threads :
    wait[t] \in WaitSteps => ptr[t] \in tree /\ kind[ptr[t]] # "destroyed"

\* What Locksmith believes a thread to hold is what the real lock says, except
\* between a real call and its section, and except for the one acquisition
\* that a thread has given up while it waits: when the wait returns, the
\* thread owns the mutex again as often as before.
CondOwnerMatch ==
  "held" \notin Oom =>
    \A l \in Locks, t \in Threads :
      LET waits == wait[t] \in {"asleep", "relock"}
          unlocks == wait[t] = "none" /\ pc[t] = "postunlock"
      IN  Owned(t, l) + Indicator(ptr[t] = l /\ (waits \/ unlocks))
          = CountOf(held[t], {l}) + Indicator(At(t, l, {"postlock"}))

\* No thread goes on to the real destroy of a condition variable while another
\* one is about to wait on it, asleep, or on its way back: a count of zero in
\* lksmith_cond_predestroy means that nobody is between the two sections of a
\* wait.  (Whoever is found there at the real destroy came after the check.)
DestroyChecked ==
  [][\A t, u \in Threads :
       wait[t] # "cdestroy" /\ wait'[t] = "cdestroy"
         => ~(cond[u] = cond'[t] /\ wait[u] \in WaitSteps)]_allvars

-----------------------------------------------------------------------------
(***************************************************************************)
(* The inductive invariant.                                                *)
(***************************************************************************)
CondType ==
  /\ cond_lock \in [Conds -> Mutexes \cup {None}]
  /\ refcnt \in [Conds -> Nat]
  /\ cond \in [Threads -> Conds \cup {None}]
  /\ wait \in [Threads -> WaitSteps \cup {"none", "cdestroy"}]

\* A wait has its condition variable and its mutex, which nobody is about to
\* destroy; pc shows whether the thread has the mutex.
WaitInv ==
  \A t \in Threads :
    /\ wait[t] \in WaitSteps =>
         /\ cond[t] \in Conds /\ ptr[t] \in Mutexes
         /\ kind[ptr[t]] # "destroyed"
         /\ \A u \in Threads : ~At(u, ptr[t], {"rdestroy"})
    /\ wait[t] \in {"cwait", "cpost"} => pc[t] = "runlock"
    /\ wait[t] \in {"asleep", "relock"} => pc[t] = "postunlock"
    /\ wait[t] = "cdestroy" => pc[t] = "idle" /\ cond[t] \in Conds

\* Only finitely many threads wait at any time.
FiniteWaiters ==
  \A c \in Conds : IsFiniteSet({t \in Threads : Registered(t, c)})

\* The books of the condition variables agree with the threads that wait, and
\* the books of the locks with the threads inside and outside a wait.
CondInv ==
  /\ IndInv /\ CondType /\ WaitInv /\ FiniteWaiters
  /\ RefcntMatch /\ WaitersAgree

-----------------------------------------------------------------------------
\* Thread t waits for a lock of thread u, in the real lock function or in the
\* real wait, where it wants its mutex back.
CondWaitsFor(t, u) ==
  \/ WaitsFor(t, u)
  \/ wait[t] = "relock" /\ owner[ptr[t]] = u /\ u # t

\* Threads that wait for each other in a circle have been warned, also when
\* one of them waits for the mutex that pthread_cond_wait takes back.
CondCircularWaitReported ==
  Oom = {} =>
    \A W \in SUBSET Threads :
      /\ W # {}
      /\ \A t \in W : \E u \in W : CondWaitsFor(t, u)
      => "inversion" \in log
=============================================================================
