----------------------------- MODULE Locksmith -----------------------------
(***************************************************************************)
(* The core of Locksmith: the handlers that replace the pthreads lock      *)
(* functions (handler.c), the registry of locks that they consult          *)
(* (lksmith.c) and the real pthreads locks underneath, for threads that    *)
(* call the handlers in any order, with interception turned on.            *)
(*                                                                         *)
(* Every handler is a sequence of steps of its thread.  A section of code  *)
(* under g_tree_lock is one step, except in lksmith_prelock, where each    *)
(* visit of the depth-first search is a step of its own; the call to the   *)
(* real pthreads function between two sections is a step as well, so that  *)
(* the steps of other threads fall between them.                           *)
(*                                                                         *)
(* Abstractions: a lock is its address; the array lk->before is the set of *)
(* its members; lk->holders is the number of entries per thread (an entry  *)
(* is found by the thread's name: names are taken to be distinct and       *)
(* stable here); lk->color = g_color is membership in painted; backtraces, *)
(* the counter nlock and the texts of messages are left out.  A call that  *)
(* fails before it has changed anything (holder_create, lksmith_insert in  *)
(* lksmith_prelock, r_pthread_mutex_init) is a step that changes nothing.  *)
(***************************************************************************)
EXTENDS Integers, Sequences, FiniteSets, LockGraph, HeldList

CONSTANTS
  Threads,    \* the threads of the program
  Mutexes,    \* its mutexes (sleeper = 1)
  Spins,      \* its spin locks (sleeper = 0)
  Dynamic,    \* the locks that the program initialises and destroys
  StaticKind, \* the kind each lock has at the start, by its initialiser
  AttrTypes,  \* the mutex types passed to pthread_mutex_init
  LockOps,    \* the ways to lock: "lock", "try", "timed"
  Skips,      \* what should_skip_dependency_processing may answer
  Oom,        \* the allocations that may fail: "insert", "held", "edge"
  MaxHeld,    \* bound: how many locks a thread holds at most
  None

Locks == Mutexes \cup Spins

Kinds == {"normal", "errorcheck", "recursive", "spin", "destroyed"}

ASSUME ConstantsAssumption ==
  /\ Mutexes \cap Spins = {}
  /\ None \notin Threads /\ None \notin Locks
  /\ Dynamic \subseteq Locks
  /\ StaticKind \in [Locks -> Kinds]
  /\ \A l \in Spins : StaticKind[l] = "spin"
  /\ \A l \in Mutexes : StaticKind[l] # "spin"
  /\ AttrTypes \subseteq {"none", "normal", "errorcheck", "recursive"}
  /\ LockOps \subseteq {"lock", "try", "timed"}
  /\ Skips \subseteq BOOLEAN
  /\ Oom \subseteq {"insert", "held", "edge"}
  /\ MaxHeld \in Nat

VARIABLES
  \* The registry, struct lksmith_lock:
  tree,        \* the locks in g_tree
  recursive,   \* props.recursive of each registered lock
  spin_warn,   \* props.spin_warn
  before,      \* before
  holders,     \* how many entries of each thread are in lk->holders
  \* The locals of lksmith_prelock under g_tree_lock:
  g_tree_lock, \* the thread that holds it, or None
  idx,         \* the index i of the loop over tls->held
  painted,     \* the locks whose color is g_color
  stack,       \* per activation of lksmith_search, the locks still to visit
  inverted,    \* this call has reported an inversion
  \* The thread-local data, struct lksmith_tls:
  held,        \* held[0 .. num_held - 1]
  num_spins,   \* num_spins
  \* The real locks:
  kind,        \* the kind the real lock was initialised with
  owner,       \* the thread that owns it, or None
  count,       \* how often its owner has locked it
  \* The calls in progress:
  pc,          \* where the thread is in the handler it has called
  ptr,         \* the lock it has called it for
  op,          \* the handler
  skip,        \* the dependency processing is skipped
  log          \* which of Errors have been reported so far

registry == <<tree, recursive, spin_warn, before, holders>>
prelock  == <<g_tree_lock, idx, painted, stack, inverted>>
tls      == <<held, num_spins>>
real     == <<kind, owner, count>>
calls    == <<pc, ptr, op, skip>>
vars     == <<registry, prelock, tls, real, calls, log>>

SearchPcs == {"depends", "search", "hit", "miss"}
Pcs == SearchPcs \cup
       {"idle", "rlock", "postlock", "postfail", "runlock", "postunlock",
        "optinit", "rinit", "destroy", "rdestroy"}
Ops == {"none", "lock", "try", "timed", "unlock", "init", "init_recursive",
        "destroy"}

\* Branches that the code calls logic errors, and the end of the holder list.
LogicErrors == {"unknown_held", "no_lock_data", "not_held", "unknown_lock",
                "no_holder"}

\* The reports that the properties are about; those on calls that are refused
\* or that ran out of memory are left out.
Errors == LogicErrors \cup {"inversion", "recursion"}

Init ==
  /\ tree = {}
  /\ recursive = [l \in Locks |-> FALSE]
  /\ spin_warn = [l \in Locks |-> FALSE]
  /\ before = [l \in Locks |-> {}]
  /\ holders = [l \in Locks |-> [t \in Threads |-> 0]]
  /\ g_tree_lock = None
  /\ idx = 0 /\ painted = {} /\ stack = << >> /\ inverted = FALSE
  /\ held = [t \in Threads |-> << >>]
  /\ num_spins = [t \in Threads |-> 0]
  /\ kind = StaticKind
  /\ owner = [l \in Locks |-> None]
  /\ count = [l \in Locks |-> 0]
  /\ pc = [t \in Threads |-> "idle"]
  /\ ptr = [t \in Threads |-> None]
  /\ op = [t \in Threads |-> "none"]
  /\ skip = [t \in Threads |-> FALSE]
  /\ log = {}

-----------------------------------------------------------------------------
(***************************************************************************)
(* Control.                                                                *)
(***************************************************************************)

\* Thread t calls the handler o for lock l and arrives at step p of it.
Call(t, l, o, p) ==
  /\ pc[t] = "idle"
  /\ pc' = [pc EXCEPT ![t] = p]
  /\ ptr' = [ptr EXCEPT ![t] = l]
  /\ op' = [op EXCEPT ![t] = o]

\* Thread t goes on with step p of its handler.
Goto(t, p) ==
  /\ pc' = [pc EXCEPT ![t] = p]
  /\ UNCHANGED <<ptr, op, skip>>

\* The handler of thread t returns to the program.
Return(t) ==
  /\ pc' = [pc EXCEPT ![t] = "idle"]
  /\ ptr' = [ptr EXCEPT ![t] = None]
  /\ op' = [op EXCEPT ![t] = "none"]
  /\ skip' = [skip EXCEPT ![t] = FALSE]

\* Reports e when c holds.
Report(c, e) == log' = IF c THEN log \cup {e} ELSE log

\* Thread t is between two steps of a call that initialises lock l.
Initialising(t, l) ==
  ptr[t] = l /\ op[t] \in {"init", "init_recursive"}

\* The program uses lock l only when it is initialised and nobody is
\* initialising it, and initialises it only when nobody uses it: the
\* contract of pthreads that the handlers rely on.
MayUse(l) == kind[l] # "destroyed" /\ \A t \in Threads : ~Initialising(t, l)
MayInit(l) == l \in Dynamic /\ owner[l] = None /\ \A t \in Threads : ptr[t] # l

-----------------------------------------------------------------------------
(***************************************************************************)
(* Locking.  pthread_mutex_lock, _trylock, _timedlock, pthread_spin_lock   *)
(* and _trylock: lksmith_prelock, the real function, lksmith_postlock.     *)
(***************************************************************************)

\* lksmith_prelock, up to the dependency processing: g_tree_lock is taken,
\* a lock that is not registered is inserted as a recursive one.
lksmith_prelock(t, l, o, s) ==
  /\ Call(t, l, o, "depends")
  /\ MayUse(l) /\ Len(held[t]) < MaxHeld
  /\ o = "timed" => l \in Mutexes
  /\ g_tree_lock = None
  /\ g_tree_lock' = t
  /\ skip' = [skip EXCEPT ![t] = s]
  /\ idx' = IF s THEN Len(held[t]) + 1 ELSE 1
  /\ tree' = tree \cup {l}
  /\ recursive' = [recursive EXCEPT ![l] = IF l \in tree THEN @ ELSE TRUE]
  /\ UNCHANGED <<spin_warn, before, holders, painted, stack, inverted, tls,
                 real, log>>

\* Mutant of the next action: no lock is reported as taken twice.
lksmith_prelock_process_depends_silent(t) ==
  LET again == held[t][idx] \notin tree \/ held[t][idx] = ptr[t]
  IN  /\ pc[t] = "depends" /\ idx <= Len(held[t])
      /\ idx' = IF again THEN idx + 1 ELSE idx
      /\ stack' = IF again THEN << >> ELSE <<{held[t][idx]}>>
      /\ Goto(t, IF again THEN "depends" ELSE "search")
      /\ UNCHANGED <<registry, g_tree_lock, painted, inverted, tls, real, log>>

\* One round of the loop of lksmith_prelock_process_depends over the locks
\* that the thread holds, up to the call of lksmith_search.
lksmith_prelock_process_depends(t) ==
  LET l == ptr[t]
      ak == held[t][idx]
      again == ak \notin tree \/ ak = l
  IN  /\ pc[t] = "depends" /\ idx <= Len(held[t])
      /\ idx' = IF again THEN idx + 1 ELSE idx
      /\ stack' = IF again THEN << >> ELSE <<{ak}>>
      /\ Goto(t, IF again THEN "depends" ELSE "search")
      /\ log' = log \cup
                (IF ak \notin tree THEN {"unknown_held"}
                 ELSE IF ak = l /\ ~recursive[l] THEN {"recursion"} ELSE {})
      /\ UNCHANGED <<registry, g_tree_lock, painted, inverted, tls, real>>

\* Mutants of Frame: no recursion; the edges followed the wrong way.
Frame_none(n) == {}
Frame_backward(n) == {m \in Locks : n \in before[m]}

\* The recursive calls still to make once the search has painted lock n.
Frame(n) == before[n]

\* lksmith_search enters lock n: it is the lock looked for, or it has been
\* painted already, or it is painted and the locks before it are next.
lksmith_search(t, n) ==
  LET rest == [stack EXCEPT ![1] = @ \ {n}]
  IN  /\ pc[t] = "search" /\ n \in stack[1]
      /\ IF n = ptr[t]
         THEN Goto(t, "hit") /\ stack' = << >> /\ UNCHANGED painted
         ELSE IF n \in painted
         THEN stack' = rest /\ UNCHANGED <<painted, calls>>
         ELSE /\ painted' = painted \cup {n}
              /\ stack' = <<Frame(n)>> \o rest
              /\ UNCHANGED calls
      /\ UNCHANGED <<registry, g_tree_lock, idx, inverted, tls, real, log>>

\* An activation of lksmith_search has visited everything and returns 0; the
\* first activation returns it to the caller.
lksmith_search_return(t) ==
  /\ pc[t] = "search" /\ stack[1] = {}
  /\ stack' = Tail(stack)
  /\ Goto(t, IF Len(stack) = 1 THEN "miss" ELSE "search")
  /\ UNCHANGED <<registry, g_tree_lock, idx, painted, inverted, tls, real, log>>

\* Mutant of report_inversion: an early return that keeps g_tree_lock.
report_inversion_locked(t) ==
  /\ pc[t] = "hit"
  /\ log' = log \cup {"inversion"}
  /\ Goto(t, "rlock")
  /\ UNCHANGED <<registry, prelock, tls, real>>

\* lksmith_search has returned 1: the inversion is reported.
report_inversion(t) ==
  /\ pc[t] = "hit"
  /\ log' = log \cup {"inversion"}
  /\ inverted' = TRUE
  /\ idx' = idx + 1
  /\ Goto(t, "depends")
  /\ UNCHANGED <<registry, g_tree_lock, painted, stack, tls, real>>

\* lksmith_search has returned 0: the held lock comes before the new one.
\* The result of lk_add_before is ignored, also when it ran out of memory.
lk_add_before(t) ==
  /\ pc[t] = "miss"
  /\ \/ before' = AddEdge(before, held[t][idx], ptr[t])
     \/ "edge" \in Oom /\ UNCHANGED before
  /\ idx' = idx + 1
  /\ Goto(t, "depends")
  /\ UNCHANGED <<tree, recursive, spin_warn, holders, g_tree_lock, painted,
                 stack, inverted, tls, real, log>>

lk_holder_add(l, t) == [holders EXCEPT ![l][t] = @ + 1]

\* The end of lksmith_prelock: the holder is entered before the lock is
\* taken, and g_tree_lock is released.
lksmith_prelock_end(t) ==
  /\ pc[t] = "depends" /\ idx > Len(held[t])
  /\ holders' = lk_holder_add(ptr[t], t)
  /\ g_tree_lock' = None
  /\ idx' = 0 /\ painted' = {} /\ stack' = << >> /\ inverted' = FALSE
  /\ Goto(t, "rlock")
  /\ UNCHANGED <<tree, recursive, spin_warn, before, tls, real, log>>

\* The real lock l is a recursive one that thread t owns already.
Relock(t, l) == kind[l] = "recursive" /\ owner[l] = t

\* The real lock function (glibc): it takes a free lock, counts up a recursive
\* one, fails, or does not return as long as none of these is possible.
r_lock(t) ==
  LET l == ptr[t]
      free == owner[l] = None /\ kind[l] # "destroyed"
  IN  /\ pc[t] = "rlock"
      /\ \/ /\ free \/ Relock(t, l)
            /\ owner' = [owner EXCEPT ![l] = t]
            /\ count' = [count EXCEPT ![l] = @ + 1]
            /\ Goto(t, "postlock")
         \/ /\ \/ kind[l] = "destroyed"
               \/ owner[l] # None /\ ~Relock(t, l) /\ op[t] \in {"try", "timed"}
               \/ owner[l] = t /\ kind[l] = "errorcheck"
            /\ Goto(t, "postfail")
            /\ UNCHANGED <<owner, count>>
      /\ UNCHANGED <<registry, prelock, tls, kind, log>>

\* lk_holder_remove takes out the newest entry with the thread's name.  It
\* dereferences NULL when there is none (a logic error of the callers).
lk_holder_remove(l, t) ==
  [holders EXCEPT ![l][t] = IF @ > 0 THEN @ - 1 ELSE @]

\* lksmith_postlock with error = 0.  When tls_append_held runs out of memory
\* the lock is left out of the thread's list.
lksmith_postlock(t) ==
  LET l == ptr[t] IN
  /\ pc[t] = "postlock" /\ g_tree_lock = None
  /\ \/ /\ held' = [held EXCEPT ![t] = IF l \in tree THEN tls_append_held(@, l)
                                       ELSE @]
        /\ num_spins' = [num_spins EXCEPT ![t] =
                           IF l \in tree /\ l \in Spins THEN @ + 1 ELSE @]
        /\ spin_warn' = [spin_warn EXCEPT ![l] =
             @ \/ (l \in tree /\ l \in Mutexes /\ num_spins[t] > 0)]
     \/ "held" \in Oom /\ UNCHANGED <<held, num_spins, spin_warn>>
  /\ Report(l \notin tree, "no_lock_data")
  /\ Return(t)
  /\ UNCHANGED <<tree, recursive, before, holders, prelock, real>>

\* lksmith_postlock with an error of the real function.
lksmith_postlock_error(t) ==
  LET l == ptr[t] IN
  /\ pc[t] = "postfail" /\ g_tree_lock = None
  /\ holders' = IF l \in tree THEN lk_holder_remove(l, t) ELSE holders
  /\ log' = log \cup (IF l \notin tree THEN {"no_lock_data"}
                      ELSE IF holders[l][t] = 0 THEN {"no_holder"} ELSE {})
  /\ Return(t)
  /\ UNCHANGED <<tree, recursive, spin_warn, before, prelock, tls, real>>

-----------------------------------------------------------------------------
(***************************************************************************)
(* Unlocking.  pthread_mutex_unlock and pthread_spin_unlock:               *)
(* lksmith_preunlock, the real function, lksmith_postunlock.               *)
(***************************************************************************)

\* Mutant of lksmith_preunlock: the thread need not hold the lock.
lksmith_preunlock_unchecked(t, l) ==
  /\ l \in tree
  /\ Call(t, l, "unlock", "runlock")
  /\ g_tree_lock = None
  /\ num_spins' = [num_spins EXCEPT ![t] = IF l \in Spins THEN @ - 1 ELSE @]
  /\ UNCHANGED <<registry, prelock, held, real, skip, log>>

\* lksmith_preunlock refuses (ENOENT, EPERM) a lock that is not registered or
\* that the thread does not hold, and then nothing changes.
lksmith_preunlock(t, l) ==
  /\ l \in tree /\ tls_contains_lid(held[t], l)
  /\ Call(t, l, "unlock", "runlock")
  /\ g_tree_lock = None
  /\ num_spins' = [num_spins EXCEPT ![t] = IF l \in Spins THEN @ - 1 ELSE @]
  /\ UNCHANGED <<registry, prelock, held, real, skip, log>>

\* The real unlock function (glibc): an error checking or recursive mutex
\* checks its owner, a normal mutex and a spin lock do not.
r_unlock(t) ==
  LET l == ptr[t]
      fails == \/ kind[l] = "destroyed"
               \/ kind[l] \in {"errorcheck", "recursive"} /\ owner[l] # t
      last == count[l] <= 1
  IN  /\ pc[t] = "runlock"
      /\ IF fails
         THEN Return(t) /\ UNCHANGED <<owner, count>>
         ELSE /\ owner' = [owner EXCEPT ![l] = IF last THEN None ELSE @]
              /\ count' = [count EXCEPT ![l] = IF last THEN 0 ELSE @ - 1]
              /\ Goto(t, "postunlock")
      /\ UNCHANGED <<registry, prelock, tls, kind, log>>

lksmith_postunlock(t) ==
  LET l == ptr[t]
      found == tls_contains_lid(held[t], l)
  IN  /\ pc[t] = "postunlock" /\ g_tree_lock = None
      /\ held' = [held EXCEPT ![t] = tls_remove_held(@, l)]
      /\ holders' = IF found /\ l \in tree THEN lk_holder_remove(l, t)
                    ELSE holders
      /\ log' = log \cup (IF ~found THEN {"not_held"}
                          ELSE IF l \notin tree THEN {"unknown_lock"}
                          ELSE IF holders[l][t] = 0 THEN {"no_holder"} ELSE {})
      /\ Return(t)
      /\ UNCHANGED <<tree, recursive, spin_warn, before, prelock, num_spins,
                     real>>

-----------------------------------------------------------------------------
(***************************************************************************)
(* Initialising and destroying.                                            *)
(***************************************************************************)

\* The mutex types that are turned into error checking mutexes ("none": no
\* attributes are given).
g_compatible_with_errcheck == {"none", "normal"}

\* pthread_mutex_init, first part: pthread_mutex_real_init initialises the
\* real mutex, as an error checking one where that is compatible with the
\* type asked for; any other type is taken to be recursive.
pthread_mutex_init(t, l, ty) ==
  LET compatible == ty \in g_compatible_with_errcheck IN
  /\ l \in Mutexes /\ MayInit(l)
  /\ Call(t, l, IF compatible THEN "init" ELSE "init_recursive", "optinit")
  /\ kind' = [kind EXCEPT ![l] = IF compatible THEN "errorcheck" ELSE ty]
  /\ UNCHANGED <<registry, prelock, tls, owner, count, skip, log>>

\* pthread_spin_init registers the spin lock first.
pthread_spin_init(t, l) ==
  /\ l \in Spins /\ MayInit(l)
  /\ Call(t, l, "init", "optinit")
  /\ UNCHANGED <<registry, prelock, tls, real, skip, log>>

\* lksmith_optional_init registers the lock.  If the lock is registered
\* already (EEXIST) or there is no memory, pthread_mutex_init destroys the
\* mutex again and pthread_spin_init returns the error.
lksmith_optional_init(t) ==
  LET l == ptr[t] IN
  /\ pc[t] = "optinit" /\ g_tree_lock = None
  /\ \/ /\ l \notin tree
        /\ tree' = tree \cup {l}
        /\ recursive' = [recursive EXCEPT ![l] = op[t] = "init_recursive"]
        /\ IF l \in Mutexes THEN Return(t) ELSE Goto(t, "rinit")
     \/ /\ l \in tree \/ "insert" \in Oom
        /\ IF l \in Mutexes THEN Goto(t, "destroy") ELSE Return(t)
        /\ UNCHANGED <<tree, recursive>>
  /\ UNCHANGED <<spin_warn, before, holders, prelock, tls, real, log>>

\* The real pthread_spin_init; when it fails the lock is unregistered.
r_pthread_spin_init(t) ==
  /\ pc[t] = "rinit"
  /\ Return(t) \/ Goto(t, "destroy")
  /\ UNCHANGED <<registry, prelock, tls, real, log>>

\* Mutants of InUse: only a lock that somebody owns is in use; a lock that a
\* thread is about to take is not.
InUse_owned(l) == owner[l] # None
InUse_taken(l) == \E t \in Threads : tls_contains_lid(held[t], l)

\* A lock with holders is in use.
InUse(l) == \E t \in Threads : holders[l][t] > 0

\* Every array before loses the destroyed lock.
lk_remove_before_all(l) == RemoveNode(before, l)

\* Mutant of lksmith_destroy: the dependencies go before the check for holders.
lksmith_destroy_early(t, l) ==
  /\ g_tree_lock = None /\ pc[t] = "idle"
  /\ l \in Dynamic /\ MayUse(l)
  /\ tree' = IF InUse(l) THEN tree ELSE tree \ {l}
  /\ before' = lk_remove_before_all(l)
  /\ UNCHANGED <<recursive, spin_warn, holders, prelock, tls, real, calls, log>>

\* lksmith_destroy: nothing changes when the lock is not registered (ENOENT)
\* or in use (EBUSY).  Then pthread_mutex_destroy goes on to the real destroy
\* after 0 and ENOENT, pthread_spin_destroy after 0, and a failed
\* pthread_spin_init returns.
lksmith_destroy(t, l) ==
  LET done == l \in tree /\ ~InUse(l)
      goes_on == IF l \in Mutexes THEN l \notin tree \/ ~InUse(l)
                 ELSE done /\ op[t] # "init"
  IN  /\ g_tree_lock = None
      /\ IF pc[t] = "destroy"
         THEN l = ptr[t] /\ IF goes_on THEN Goto(t, "rdestroy") ELSE Return(t)
         ELSE /\ l \in Dynamic /\ MayUse(l)
              /\ pc[t] = "idle"
              /\ IF goes_on THEN Call(t, l, "destroy", "rdestroy")
                 ELSE UNCHANGED <<pc, ptr, op>>
              /\ UNCHANGED skip
      /\ tree' = IF done THEN tree \ {l} ELSE tree
      /\ before' = IF done THEN lk_remove_before_all(l) ELSE before
      /\ recursive' = [recursive EXCEPT ![l] = @ /\ ~done]
      /\ spin_warn' = [spin_warn EXCEPT ![l] = @ /\ ~done]
      /\ UNCHANGED <<holders, prelock, tls, real, log>>

\* The real destroy function (glibc): a locked mutex is not destroyed.
r_destroy(t) ==
  LET l == ptr[t] IN
  /\ pc[t] = "rdestroy"
  /\ kind' = [kind EXCEPT ![l] = IF l \in Mutexes /\ owner[l] = None
                                 THEN "destroyed" ELSE @]
  /\ Return(t)
  /\ UNCHANGED <<registry, prelock, tls, owner, count, log>>

-----------------------------------------------------------------------------
\* The calls that the program makes.
ClientCall(t) ==
  \E l \in Locks :
    \/ \E o \in LockOps, s \in Skips : lksmith_prelock(t, l, o, s)
    \/ lksmith_preunlock(t, l)
    \/ \E ty \in AttrTypes : pthread_mutex_init(t, l, ty)
    \/ pthread_spin_init(t, l)
    \/ pc[t] = "idle" /\ lksmith_destroy(t, l)

\* The steps of a handler once it has been called.
HandlerStep(t) ==
  \/ lksmith_prelock_process_depends(t)
  \/ \E n \in Locks : lksmith_search(t, n)
  \/ lksmith_search_return(t)
  \/ report_inversion(t)
  \/ lk_add_before(t)
  \/ lksmith_prelock_end(t)
  \/ r_lock(t)
  \/ lksmith_postlock(t)
  \/ lksmith_postlock_error(t)
  \/ r_unlock(t)
  \/ lksmith_postunlock(t)
  \/ lksmith_optional_init(t)
  \/ r_pthread_spin_init(t)
  \/ pc[t] = "destroy" /\ lksmith_destroy(t, ptr[t])
  \/ r_destroy(t)

Next == \E t \in Threads : ClientCall(t) \/ HandlerStep(t)

Spec == Init /\ [][Next]_vars

\* A thread that can go on goes on: the operating system schedules it.
FairSpec == Spec /\ \A t \in Threads : WF_vars(HandlerStep(t))

-----------------------------------------------------------------------------
(***************************************************************************)
(* Correctness.                                                            *)
(***************************************************************************)

RegistryType ==
  /\ tree \subseteq Locks
  /\ recursive \in [Locks -> BOOLEAN]
  /\ spin_warn \in [Locks -> BOOLEAN]
  /\ before \in [Locks -> SUBSET Locks]
  /\ holders \in [Locks -> [Threads -> Nat]]

PrelockType ==
  /\ g_tree_lock \in Threads \cup {None}
  /\ idx \in Nat
  /\ painted \subseteq Locks
  /\ stack \in Seq(SUBSET Locks)
  /\ inverted \in BOOLEAN

TlsType ==
  /\ held \in [Threads -> Seq(Locks)]
  /\ num_spins \in [Threads -> Nat]

RealType ==
  /\ kind \in [Locks -> Kinds]
  /\ owner \in [Locks -> Threads \cup {None}]
  /\ count \in [Locks -> Nat]

CallsType ==
  /\ pc \in [Threads -> Pcs]
  /\ ptr \in [Threads -> Locks \cup {None}]
  /\ op \in [Threads -> Ops]
  /\ skip \in [Threads -> BOOLEAN]

\* Every variable has its type; in particular the spin counter num_spins,
\* which is unsigned in the code, never wraps below zero.
TypeOK ==
  /\ RegistryType /\ PrelockType /\ TlsType /\ RealType /\ CallsType
  /\ log \subseteq Errors

\* Thread t is inside a handler for lock l, at one of the steps P.
At(t, l, P) == ptr[t] = l /\ pc[t] \in P

\* 1 if c holds, else 0.
Indicator(c) == IF c THEN 1 ELSE 0

\* None of the branches that the code calls a "logic error" is ever taken,
\* and lk_holder_remove never follows its list past the end: whatever the
\* interleaving of locks, unlocks, inits and destroys, what lksmith_prelock
\* and lksmith_preunlock established still holds in the later sections.
NoLogicError == log \cap LogicErrors = {}

\* The entries that a thread has in lk->holders are exactly the lock's
\* occurrences in its list of held locks, plus one between lksmith_prelock
\* and lksmith_postlock: no call leaks a holder (the lock could never be
\* destroyed again) and none removes one too many.
HoldersMatch ==
  "held" \notin Oom =>
    \A l \in Locks, t \in Threads :
      holders[l][t] = CountOf(held[t], {l})
                      + Indicator(At(t, l, {"rlock", "postlock", "postfail"}))

\* What Locksmith believes a thread to hold is what the real lock says: the
\* two differ only while the thread is between the real call and the section
\* that records it.
OwnerMatch ==
  "held" \notin Oom =>
    \A l \in Locks, t \in Threads :
      (IF owner[l] = t THEN count[l] ELSE 0)
        + Indicator(At(t, l, {"postunlock"}))
      = CountOf(held[t], {l}) + Indicator(At(t, l, {"postlock"}))

\* The real unlock that follows a successful lksmith_preunlock cannot fail:
\* the thread still owns the lock, and nobody has destroyed it meanwhile.
UnlockSucceeds ==
  \A t \in Threads :
    pc[t] = "runlock" => owner[ptr[t]] = t /\ kind[ptr[t]] # "destroyed"

\* A lock that a thread holds or is about to take stays registered: the
\* sections after the first one of a handler find its data.
InUseStaysRegistered ==
  \A t \in Threads, l \in Locks :
    \/ tls_contains_lid(held[t], l)
    \/ At(t, l, SearchPcs \cup {"rlock", "postlock", "postfail"})
    => l \in tree

\* num_spins counts the spin locks in the thread's list, less the one that it
\* is about to unlock, also when locks are released out of order.
SpinCount ==
  \A t \in Threads :
    num_spins[t] + Indicator(/\ pc[t] \in {"runlock", "postunlock"}
                             /\ ptr[t] \in Spins)
    = CountOf(held[t], Spins)

\* A mutex that a thread has taken on top of a spin lock has been warned about,
\* in whatever order locks were released before: spin_warn is set as long as
\* the two are held.
SpinSleepWarned ==
  \A t \in Threads : \A i, j \in DOMAIN held[t] :
    i < j /\ held[t][i] \in Spins /\ held[t][j] \in Mutexes
    => spin_warn[held[t][j]]

\* No array before holds a pointer to a lock that has been freed, and no lock
\* comes before itself.
NoDangling ==
  \A l \in Locks : /\ before[l] \subseteq tree \ {l}
                   /\ l \notin tree => before[l] = {}

\* When lksmith_search returns 1, there is a chain of recorded dependencies
\* that makes the new lock come before the held one: no false report.
SearchSound ==
  \A t \in Threads :
    pc[t] = "hit" => Reaches(before, held[t][idx], ptr[t])

\* When it returns 0 there is none, unless this call has reported an
\* inversion already (the colors of a search that was cut short hide paths
\* from the later searches of the same call).
SearchComplete ==
  \A t \in Threads :
    pc[t] = "miss" /\ ~inverted => ~Reaches(before, held[t][idx], ptr[t])

\* As long as no inversion has been reported, the recorded order has no cycle.
AcyclicUnlessReported == "inversion" \notin log => Acyclic(before)

\* Thread t waits in the real lock function for a lock of thread u.
WaitsFor(t, u) ==
  /\ pc[t] = "rlock" /\ op[t] # "try" /\ ~skip[t]
  /\ owner[ptr[t]] = u /\ u # t

\* Threads that wait for each other in a circle, each for a lock that another
\* of them owns, have been warned: an inversion was reported before the last
\* of them blocked.  (Not promised when memory ran out, or when a thread's
\* call was exempted from dependency processing.)
CircularWaitReported ==
  Oom = {} =>
    \A W \in SUBSET Threads :
      /\ W # {}
      /\ \A t \in W : \E u \in W : WaitsFor(t, u)
      => "inversion" \in log

\* A thread that locks a lock again that it owns itself, where the lock was
\* initialised as one that is not recursive, has been warned.
SelfDeadlockReported ==
  "held" \notin Oom =>
    \A t \in Threads :
      /\ pc[t] = "rlock" /\ ~skip[t]
      /\ owner[ptr[t]] = t /\ ~recursive[ptr[t]]
      => "recursion" \in log

\* A recorded dependency is forgotten only when one of its two locks is
\* destroyed.
DependencyKept ==
  [][\A l \in Locks : \A a \in before[l] :
       a \in before'[l] \/ a \notin tree' \/ l \notin tree']_vars

\* A real lock is released only by the thread that owns it: an unlock by any
\* other thread is refused before it reaches the real lock.
OnlyOwnerReleases ==
  [][\A l \in Locks :
       owner[l] # None /\ owner'[l] # owner[l]
       => owner'[l] = None /\ At(owner[l], l, {"runlock"})]_vars

\* Nobody keeps g_tree_lock for ever: the search ends on every graph, also on
\* one with a cycle, which a call leaves behind when it reports an inversion
\* and the colors of that search hide another one from its next search.
TreeLockReleased ==
  \A t \in Threads : g_tree_lock = t ~> g_tree_lock # t

-----------------------------------------------------------------------------
(***************************************************************************)
(* The inductive invariant, from which the invariants above follow.        *)
(***************************************************************************)

\* How often the real lock l is locked by thread t.
Owned(t, l) == IF owner[l] = t THEN count[l] ELSE 0

\* The steps at which thread t has a holder entry that is not in its list yet.
Pending == {"rlock", "postlock", "postfail"}

\* The steps between the loop over the list of held locks and the entry of the
\* new lock in that list.
Compared == {"rlock", "postlock"}

\* The positions of the loop already dealt with.
Processed(t) == IF pc[t] \in Compared THEN DOMAIN held[t] ELSE 1 .. (idx - 1)

\* The program counter, the argument and g_tree_lock of thread t fit together.
ThreadControl(t) ==
  /\ pc[t] = "idle" <=> ptr[t] = None
  /\ g_tree_lock = t <=> pc[t] \in SearchPcs
  /\ pc[t] = "depends" => idx \in 1 .. (Len(held[t]) + 1)
  /\ pc[t] \in SearchPcs \ {"depends"} => idx \in 1 .. Len(held[t])
  /\ pc[t] = "search" => stack # << >>
  /\ pc[t] \in SearchPcs \ {"search"} => stack = << >>
  /\ pc[t] \in {"runlock", "postunlock"} => tls_contains_lid(held[t], ptr[t])

\* The locals of lksmith_prelock are at rest when nobody is inside it.
PrelockControl ==
  /\ g_tree_lock = None => painted = {} /\ stack = << >> /\ ~inverted
  /\ inverted => "inversion" \in log

ControlInv == PrelockControl /\ \A t \in Threads : ThreadControl(t)

\* Holder entries cover the held list and the call in progress; they are
\* exactly that when appending to the list cannot fail.
HoldersInv ==
  /\ \A l \in Locks, t \in Threads :
       holders[l][t] >= CountOf(held[t], {l}) + Indicator(At(t, l, Pending))
  /\ HoldersMatch

\* The real lock covers what Locksmith believes.
OwnerInv ==
  /\ \A l \in Locks, t \in Threads :
       Owned(t, l) + Indicator(At(t, l, {"postunlock"}))
         >= CountOf(held[t], {l}) + Indicator(At(t, l, {"postlock"}))
  /\ \A l \in Locks : /\ owner[l] = None <=> count[l] = 0
                      /\ owner[l] # None => kind[l] # "destroyed"
  /\ OwnerMatch

\* A lock with a holder entry, or one that lksmith_prelock is at, is
\* registered.
RegistryInv ==
  /\ \A l \in Locks, t \in Threads :
       holders[l][t] > 0 \/ At(t, l, SearchPcs) => l \in tree
  /\ NoDangling

\* The locks that the search of lksmith_search still has to visit.
Entries(s) == UNION {s[i] : i \in DOMAIN s}
Frontier == Entries(stack)

\* The search: every lock still to visit is reachable from the held lock ak it
\* started from; until an inversion is found, the painted locks and those to
\* visit are closed under before, without the lock looked for.
ThreadSearch(t) ==
  LET ak == held[t][idx] IN
  /\ pc[t] # "depends" => ak \in tree /\ ak # ptr[t]
  /\ \A n \in Frontier : Reaches(before, ak, n)
  /\ pc[t] = "hit" => Reaches(before, ak, ptr[t])
  /\ ~inverted /\ pc[t] # "hit" =>
       /\ ptr[t] \notin painted
       /\ \A n \in painted : before[n] \subseteq painted \cup Frontier
       /\ pc[t] # "depends" => ak \in painted \cup Frontier

SearchInv == \A t \in Threads : pc[t] \in SearchPcs => ThreadSearch(t)

\* What a call of lksmith_prelock leaves behind for the locks dealt with so
\* far: a dependency or a report, until the thread has entered the new lock in
\* its list.
ThreadOrder(t) ==
  \A i \in Processed(t) :
    /\ "edge" \notin Oom /\ "inversion" \notin log /\ held[t][i] # ptr[t]
       => held[t][i] \in before[ptr[t]]
    /\ "recursion" \notin log /\ held[t][i] = ptr[t]
       => recursive[ptr[t]]

OrderInv ==
  \A t \in Threads :
    pc[t] \in SearchPcs \cup Compared /\ ~skip[t] => ThreadOrder(t)

\* Calls are exempted only where should_skip_dependency_processing says so.
SkipInv == \A t \in Threads : skip[t] => TRUE \in Skips

\* What holds between any two sections of the handlers: books, registry, search
\* and order fit together, whatever the threads are in the middle of.
IndInv ==
  /\ TypeOK /\ NoLogicError /\ SpinCount /\ AcyclicUnlessReported
  /\ ControlInv /\ HoldersInv /\ OwnerInv /\ RegistryInv /\ SearchInv
  /\ OrderInv /\ SkipInv /\ SpinSleepWarned
=============================================================================
