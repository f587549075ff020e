--------------------------- MODULE CondVarsProofs ---------------------------
(***************************************************************************)
(* Proofs about the condition variables.  The invariant of Locksmith is    *)
(* not proved again: pc shows a thread that waits as one inside an unlock, *)
(* so that a step of a wait is the real unlock, or nothing, or a step      *)
(* aside, which gives the mutex back or leaves the unlock half-way.        *)
(***************************************************************************)
EXTENDS CondVars, LocksmithProofs

-----------------------------------------------------------------------------
(***************************************************************************)
(* Steps that a thread makes with a mutex it holds without the handlers of *)
(* Locksmith: a wait goes to the real unlock without lksmith_preunlock,    *)
(* takes the mutex back, and returns without lksmith_postunlock.           *)
(***************************************************************************)

\* Thread t goes to step q, with lock m as its argument.
Aside(t, q, m) ==
  /\ UNCHANGED <<registry, prelock, tls, kind, log>>
  /\ pc[t] \in {"idle", "runlock", "postunlock"} /\ ptr[t] \in Mutexes \cup {None}
  /\ \/ q = "idle" /\ m = None
     \/ q = "runlock" /\ m \in Mutexes /\ tls_contains_lid(held[t], m)
  /\ pc' = [pc EXCEPT ![t] = q]
  /\ ptr' = [ptr EXCEPT ![t] = m]
  /\ skip' = skip \/ skip' = [skip EXCEPT ![t] = FALSE]

\* What OwnerInv says is a matter of what the books add up to.
LEMMA OwnersFromBooks ==
  ASSUME OwnerInv, held' = held,
         \A u \in Threads, l \in Locks :
           /\ Owned(u, l)' + Indicator(At(u, l, {"postunlock"}))'
              = Owned(u, l) + Indicator(At(u, l, {"postunlock"}))
           /\ Indicator(At(u, l, {"postlock"}))' = Indicator(At(u, l, {"postlock"})),
         \A l \in Locks : /\ owner'[l] = None <=> count'[l] = 0
                          /\ owner'[l] # None => kind'[l] # "destroyed"
  PROVE  OwnerInv'
<1>1. ASSUME NEW u \in Threads, NEW l \in Locks
      PROVE  CountOf(held[u], {l})' = CountOf(held[u], {l})
  BY Zenon
<1>2. ASSUME "held" \notin Oom, NEW u \in Threads, NEW l \in Locks
      PROVE  Owned(u, l) + Indicator(At(u, l, {"postunlock"}))
             = CountOf(held[u], {l}) + Indicator(At(u, l, {"postlock"}))
  BY <1>2, Zenon DEF OwnerInv, OwnerMatch, Owned
<1>3. ASSUME "held" \notin Oom, NEW u \in Threads, NEW l \in Locks
      PROVE  Owned(u, l)' + Indicator(At(u, l, {"postunlock"}))'
             = CountOf(held[u], {l})' + Indicator(At(u, l, {"postlock"}))'
  BY <1>1, <1>2, <1>3, Zenon
<1>4. OwnerMatch'
  BY <1>3, Zenon DEF OwnerMatch, Owned
<1>5. ASSUME NEW u \in Threads, NEW l \in Locks
      PROVE  Owned(u, l)' + Indicator(At(u, l, {"postunlock"}))'
             >= CountOf(held[u], {l})' + Indicator(At(u, l, {"postlock"}))'
  <2>1. Owned(u, l) + Indicator(At(u, l, {"postunlock"}))
        >= CountOf(held[u], {l}) + Indicator(At(u, l, {"postlock"}))
    BY Zenon DEF OwnerInv
  <2>2. /\ Owned(u, l)' + Indicator(At(u, l, {"postunlock"}))'
           = Owned(u, l) + Indicator(At(u, l, {"postunlock"}))
        /\ CountOf(held[u], {l})' + Indicator(At(u, l, {"postlock"}))'
           = CountOf(held[u], {l}) + Indicator(At(u, l, {"postlock"}))
    BY <1>1, Zenon
  <2>. QED BY <2>1, <2>2, Zenon
<1>. QED BY <1>4, <1>5, Zenon DEF OwnerInv

\* The owners agree with the lists when the real locks are not touched ...
LEMMA AsideOwners ==
  ASSUME TypeOK, OwnerInv, NEW t \in Threads, NEW q, NEW m, Aside(t, q, m),
         pc[t] # "postunlock", UNCHANGED <<owner, count>>
  PROVE  OwnerInv'
<1>1. pc \in [Threads -> Pcs] /\ ptr \in [Threads -> Locks \cup {None}]
  BY Zenon DEF TypeOK, CallsType
<1>2. UNCHANGED <<held, kind>> /\ pc[t] \in {"idle", "runlock"}
      /\ pc'[t] \in {"idle", "runlock"}
      /\ \A u \in Threads : u # t => pc'[u] = pc[u] /\ ptr'[u] = ptr[u]
  BY <1>1, Zenon DEF Aside, tls
<1>3. ASSUME NEW u \in Threads, NEW l \in Locks
      PROVE  /\ Indicator(At(u, l, {"postunlock"}))' = Indicator(At(u, l, {"postunlock"}))
             /\ Indicator(At(u, l, {"postlock"}))' = Indicator(At(u, l, {"postlock"}))
             /\ Owned(u, l)' = Owned(u, l)
  BY <1>2, Zenon DEF Indicator, At, Owned
<1>4. \A l \in Locks : /\ owner'[l] = None <=> count'[l] = 0
                       /\ owner'[l] # None => kind'[l] # "destroyed"
  BY <1>2, Zenon DEF OwnerInv
<1>. QED BY <1>2, <1>3, <1>4, OwnersFromBooks, Zenon

\* ... and when the thread takes back the mutex that it has given up.
LEMMA AsideRelock ==
  ASSUME CountFacts(Locks), TypeOK, OwnerInv, NEW t \in Threads, NEW k \in Locks,
         ptr[t] = k, Aside(t, "runlock", k), pc[t] = "postunlock",
         kind[k] # "destroyed", owner[k] \in {None, t},
         owner' = [owner EXCEPT ![k] = t],
         count' = [count EXCEPT ![k] = @ + 1]
  PROVE  OwnerInv'
<1>1. /\ pc \in [Threads -> Pcs] /\ ptr \in [Threads -> Locks \cup {None}]
      /\ owner \in [Locks -> Threads \cup {None}] /\ count \in [Locks -> Nat]
      /\ held \in [Threads -> Seq(Locks)]
  BY Zenon DEF TypeOK, CallsType, RealType, TlsType
<1>2. /\ UNCHANGED <<held, kind, ptr>> /\ pc'[t] = "runlock"
      /\ \A u \in Threads : u # t => pc'[u] = pc[u]
      /\ t # None
  BY <1>1, ConstantsAssumption, Zenon DEF Aside, tls, Locks
<1>3. ASSUME NEW u \in Threads, NEW l \in Locks
      PROVE  /\ Owned(u, l)' + Indicator(At(u, l, {"postunlock"}))'
                = Owned(u, l) + Indicator(At(u, l, {"postunlock"}))
             /\ Indicator(At(u, l, {"postlock"}))' = Indicator(At(u, l, {"postlock"}))
  <2>1. CASE u = t /\ l = k
    <3>1. Owned(t, k) = count[k] /\ Owned(t, k)' = count[k] + 1
      BY <1>1, <1>2, Zenon DEF OwnerInv, Owned
    <3>2. /\ Indicator(At(t, k, {"postunlock"})) = 1
          /\ Indicator(At(t, k, {"postunlock"}))' = 0
          /\ Indicator(At(t, k, {"postlock"})) = 0
          /\ Indicator(At(t, k, {"postlock"}))' = 0
      BY <1>2, Zenon DEF Indicator, At
    <3>3. count[k] + 1 + 0 = count[k] + 1
      BY <1>1, <1>2
    <3>4. Owned(t, k)' + Indicator(At(t, k, {"postunlock"}))'
          = Owned(t, k) + Indicator(At(t, k, {"postunlock"}))
      BY <3>1, <3>2, <3>3, Zenon
    <3>. QED BY <2>1, <3>2, <3>4, Zenon
  <2>2. CASE u # t \/ l # k
    <3>1. Owned(u, l)' = Owned(u, l)
      BY <1>1, <1>2, <2>2, ConstantsAssumption, Zenon DEF Owned
    <3>2. /\ Indicator(At(u, l, {"postunlock"}))' = Indicator(At(u, l, {"postunlock"}))
          /\ Indicator(At(u, l, {"postlock"}))' = Indicator(At(u, l, {"postlock"}))
      BY <1>2, <2>2, Zenon DEF At, Indicator
    <3>. QED BY <3>1, <3>2, Zenon
  <2>. QED BY <2>1, <2>2, Zenon
<1>4. ASSUME NEW l \in Locks
      PROVE  /\ owner'[l] = None <=> count'[l] = 0
             /\ owner'[l] # None => kind'[l] # "destroyed"
  BY <1>1, <1>2 DEF OwnerInv
<1>. QED BY <1>2, <1>3, <1>4, OwnersFromBooks, Zenon

\* A step aside that keeps the owners in order keeps the whole invariant.
LEMMA AsideStep ==
  ASSUME IndInv, NEW t \in Threads, NEW q, NEW m, Aside(t, q, m),
         op' \in [Threads -> Ops], RealType', OwnerInv'
  PROVE  IndInv'
<1>1. /\ TypeOK /\ NoLogicError /\ SpinCount /\ AcyclicUnlessReported
      /\ ControlInv /\ HoldersInv /\ RegistryInv /\ SearchInv /\ OrderInv
      /\ SkipInv /\ SpinSleepWarned
      /\ pc \in [Threads -> Pcs] /\ ptr \in [Threads -> Locks \cup {None}]
      /\ skip \in [Threads -> BOOLEAN] /\ num_spins \in [Threads -> Nat]
  BY Zenon DEF IndInv, TypeOK, CallsType, TlsType
<1>2. /\ UNCHANGED <<registry, prelock, tls, kind, log>>
      /\ q \in {"idle", "runlock"} /\ m \in Mutexes \cup {None}
      /\ pc[t] \in {"idle", "runlock", "postunlock"} /\ ptr[t] \in Mutexes \cup {None}
      /\ q = "idle" <=> m = None
      /\ q = "runlock" => tls_contains_lid(held[t], m)
  BY ConstantsAssumption, Zenon DEF Aside, Locks
<1>3. /\ pc'[t] = q /\ ptr'[t] = m
      /\ \A u \in Threads : u # t => /\ pc'[u] = pc[u] /\ ptr'[u] = ptr[u]
                                     /\ skip'[u] = skip[u]
      /\ \A u \in Threads : skip'[u] => skip[u]
  BY <1>1, Zenon DEF Aside
<1>4. TypeOK'
  <2>1. CallsType'
    <3>1. q \in Pcs /\ m \in Locks \cup {None}
      BY <1>2, Zenon DEF Pcs, Locks
    <3>2. /\ pc' \in [Threads -> Pcs] /\ ptr' \in [Threads -> Locks \cup {None}]
          /\ skip' \in [Threads -> BOOLEAN]
      BY <1>1, <3>1, Zenon DEF Aside
    <3>. QED BY <3>2, Zenon DEF CallsType
  <2>2. RegistryType' /\ PrelockType' /\ TlsType'
    BY <1>1, <1>2, UnchangedTypes, Zenon DEF TypeOK
  <2>. QED BY <1>1, <1>2, <2>1, <2>2, Zenon DEF TypeOK
<1> USE <1>2 DEF registry, prelock, tls
<1>5. NoLogicError' /\ AcyclicUnlessReported' /\ SpinSleepWarned' /\ SkipInv'
  BY <1>1, <1>3, Zenon
     DEF NoLogicError, AcyclicUnlessReported, SpinSleepWarned, SkipInv
<1>6. SpinCount'
  <2>1. ASSUME NEW u \in Threads
        PROVE  Indicator(pc'[u] \in {"runlock", "postunlock"} /\ ptr'[u] \in Spins)
               = Indicator(pc[u] \in {"runlock", "postunlock"} /\ ptr[u] \in Spins)
    BY <1>3, ConstantsAssumption DEF Indicator, Locks
  <2>. QED BY <1>1, <2>1, Zenon DEF SpinCount
<1>7. ControlInv'
  <2>1. ThreadControl(t) /\ PrelockControl
    BY <1>1, Zenon DEF ControlInv
  <2>2. ThreadControl(t)'
    BY <1>3, <2>1, Zenon DEF ThreadControl, SearchPcs
  <2>3. ASSUME NEW u \in Threads, u # t
        PROVE  ThreadControl(u)'
    BY <1>1, <1>3, <2>3, Zenon DEF ControlInv, ThreadControl
  <2>4. PrelockControl'
    BY <2>1, Zenon DEF PrelockControl
  <2>. QED BY <2>2, <2>3, <2>4, Zenon DEF ControlInv
<1>8. ASSUME NEW u \in Threads, NEW l \in Locks
      PROVE  /\ Indicator(At(u, l, Pending))' = Indicator(At(u, l, Pending))
             /\ At(u, l, SearchPcs)' => At(u, l, SearchPcs)
  BY <1>3, Zenon DEF Indicator, At, Pending, SearchPcs
<1>9. HoldersInv'
  BY <1>1, <1>8, Zenon DEF HoldersInv, HoldersMatch, Pending
<1>10. RegistryInv'
  BY <1>1, <1>8, Zenon DEF RegistryInv, NoDangling
<1>11. SearchInv'
  BY <1>1, <1>3, Zenon DEF SearchInv, ThreadSearch, Frontier, SearchPcs
<1>12. OrderInv'
  BY <1>1, <1>3 DEF OrderInv, ThreadOrder, Processed, SearchPcs, Compared
<1>. QED BY <1>4, <1>5, <1>6, <1>7, <1>9, <1>10, <1>11, <1>12, Zenon DEF IndInv

\* The two kinds of steps aside keep the invariant.
LEMMA AsideKeeps ==
  ASSUME IndInv, NEW t \in Threads, NEW q, NEW m, Aside(t, q, m),
         op' \in [Threads -> Ops], pc[t] # "postunlock", UNCHANGED <<owner, count>>
  PROVE  IndInv'
<1>1. TypeOK /\ OwnerInv
  BY Zenon DEF IndInv
<1>2. RealType'
  BY <1>1, Zenon DEF TypeOK, RealType, Aside
<1>. QED BY <1>1, <1>2, AsideOwners, AsideStep, Zenon

LEMMA RelockKeeps ==
  ASSUME IndInv, NEW t \in Threads, NEW k \in Locks, ptr[t] = k,
         Aside(t, "runlock", k), op' \in [Threads -> Ops], pc[t] = "postunlock",
         kind[k] # "destroyed", owner[k] \in {None, t},
         owner' = [owner EXCEPT ![k] = t],
         count' = [count EXCEPT ![k] = @ + 1]
  PROVE  IndInv'
<1>1. TypeOK /\ OwnerInv
  BY Zenon DEF IndInv
<1>2. RealType'
  BY <1>1 DEF TypeOK, RealType, Aside
<1>3. OwnerInv'
  BY <1>1, Counting, AsideRelock, Zenon
<1>. QED BY <1>2, <1>3, AsideStep, Zenon

\* A lock in the list of a thread has a holder; the thread owns it, except
\* after the real unlock.
LEMMA HeldKept ==
  ASSUME IndInv, NEW t \in Threads, NEW l \in Locks, tls_contains_lid(held[t], l)
  PROVE  /\ l \in tree /\ holders[l][t] >= 1
         /\ pc[t] # "postunlock" => owner[l] = t /\ kind[l] # "destroyed"
<1>1. /\ TypeOK /\ HoldersInv /\ RegistryInv /\ OwnerInv
      /\ held[t] \in Seq(Locks) /\ count[l] \in Nat
  BY Zenon DEF IndInv, TypeOK, TlsType, RealType
<1>2. l \in tree /\ holders[l][t] >= 1
  BY <1>1, Counting, HeldRegistered, Zenon
<1>3. ASSUME pc[t] # "postunlock"
      PROVE  owner[l] = t /\ kind[l] # "destroyed"
  <2>1. CountOf(held[t], {l}) \in Nat /\ CountOf(held[t], {l}) >= 1
    BY <1>1, Counting, CountType, CountContains, Zenon
  <2>2. Owned(t, l) + Indicator(At(t, l, {"postunlock"}))
        >= CountOf(held[t], {l}) + Indicator(At(t, l, {"postlock"}))
    BY <1>1, Zenon DEF OwnerInv
  <2>3. Indicator(At(t, l, {"postunlock"})) = 0
        /\ Indicator(At(t, l, {"postlock"})) \in {0, 1}
    BY <1>3, Zenon DEF Indicator, At
  <2>4. owner[l] = t
    <3> DEFINE n == CountOf(held[t], {l})
               i == Indicator(At(t, l, {"postlock"}))
               o == Indicator(At(t, l, {"postunlock"}))
    <3>1. n \in Nat /\ n >= 1 /\ Owned(t, l) + o >= n + i /\ o = 0 /\ i \in {0, 1}
      BY <2>1, <2>2, <2>3, Zenon
    <3> HIDE DEF n, i, o
    <3>. QED BY <1>1, <3>1 DEF Owned
  <2>. QED BY <1>1, <2>4, ConstantsAssumption, Zenon DEF OwnerInv
<1>. QED BY <1>2, <1>3, Zenon

-----------------------------------------------------------------------------
(***************************************************************************)
(* What a step of Locksmith can do to the mutexes of the waiting threads.  *)
(***************************************************************************)

\* A real lock is destroyed only by the step after lksmith_destroy, which the
\* thread reaches only for a lock without holders.
LEMMA DestroysUnused ==
  ASSUME TypeOK, NEW t \in Threads, ClientCall(t) \/ HandlerStep(t),
         NEW l \in Locks
  PROVE  /\ kind[l] # "destroyed" /\ kind'[l] = "destroyed"
              => At(t, l, {"rdestroy"})
         /\ At(t, l, {"rdestroy"})' /\ l \in tree
              => At(t, l, {"rdestroy"}) \/ ~InUse(l)
<1>1. /\ pc \in [Threads -> Pcs] /\ ptr \in [Threads -> Locks \cup {None}]
      /\ kind \in [Locks -> Kinds]
  BY Zenon DEF TypeOK, CallsType, RealType
<1>2. kind[l] # "destroyed" /\ kind'[l] = "destroyed" => At(t, l, {"rdestroy"})
  <2>1. \/ kind' = kind \/ r_destroy(t)
        \/ \E k \in Locks, ty \in AttrTypes : pthread_mutex_init(t, k, ty)
    BY Zenon DEF ClientCall, HandlerStep, lksmith_prelock, lksmith_preunlock,
       pthread_spin_init, lksmith_destroy, lksmith_prelock_process_depends,
       lksmith_search, lksmith_search_return, report_inversion, lk_add_before,
       lksmith_prelock_end, r_lock, lksmith_postlock, lksmith_postlock_error,
       r_unlock, lksmith_postunlock, lksmith_optional_init,
       r_pthread_spin_init, real
  <2>2. CASE r_destroy(t)
    BY <1>1, <2>2, Zenon DEF r_destroy, At
  <2>3. ASSUME NEW k \in Locks, NEW ty \in AttrTypes, pthread_mutex_init(t, k, ty)
        PROVE  kind'[l] = "destroyed" => kind[l] = "destroyed"
    BY <1>1, <2>3, ConstantsAssumption, Zenon
       DEF pthread_mutex_init, g_compatible_with_errcheck
  <2>. QED BY <2>1, <2>2, <2>3, Zenon
<1>3. \/ UNCHANGED <<pc, ptr>> \/ pc'[t] # "rdestroy"
      \/ \E k \in Locks : pc[t] = "idle" /\ lksmith_destroy(t, k)
      \/ pc[t] = "destroy" /\ lksmith_destroy(t, ptr[t])
  <2>1. \A p, k, o : /\ Call(t, k, o, p) \/ Goto(t, p) => pc'[t] = p
                     /\ Return(t) => pc'[t] = "idle"
    BY <1>1, Zenon DEF Call, Goto, Return
  <2> DEFINE Goal == UNCHANGED <<pc, ptr>> \/ pc'[t] # "rdestroy"
  <2>2. ASSUME NEW k, NEW o, NEW x,
               \/ lksmith_prelock(t, k, o, x) \/ lksmith_preunlock(t, k)
               \/ pthread_mutex_init(t, k, o) \/ pthread_spin_init(t, k)
        PROVE  Goal
    BY <2>1, <2>2, Zenon DEF lksmith_prelock, lksmith_preunlock,
       pthread_mutex_init, pthread_spin_init
  <2>3. ASSUME NEW n, \/ lksmith_search(t, n) \/ lksmith_search_return(t)
                      \/ lksmith_prelock_process_depends(t)
        PROVE  Goal
    BY <2>1, <2>3, Zenon DEF lksmith_search, lksmith_search_return,
       lksmith_prelock_process_depends, calls
  <2>4. ASSUME report_inversion(t) \/ lk_add_before(t) \/ lksmith_prelock_end(t)
        PROVE  Goal
    BY <2>1, <2>4, Zenon DEF report_inversion, lk_add_before,
       lksmith_prelock_end
  <2>5. ASSUME r_lock(t) \/ lksmith_postlock(t) \/ lksmith_postlock_error(t)
        PROVE  Goal
    BY <2>1, <2>5, Zenon DEF r_lock, lksmith_postlock, lksmith_postlock_error
  <2>6. ASSUME r_unlock(t) \/ lksmith_postunlock(t)
        PROVE  Goal
    BY <2>1, <2>6, Zenon DEF r_unlock, lksmith_postunlock
  <2>7. ASSUME \/ lksmith_optional_init(t) \/ r_pthread_spin_init(t)
               \/ r_destroy(t)
        PROVE  Goal
    BY <2>1, <2>7, Zenon DEF lksmith_optional_init, r_pthread_spin_init,
       r_destroy
  <2>. QED BY <2>2, <2>3, <2>4, <2>5, <2>6, <2>7, Zenon
       DEF ClientCall, HandlerStep
<1>4. ASSUME NEW k \in Locks, lksmith_destroy(t, k), At(t, l, {"rdestroy"})',
             l \in tree
      PROVE  At(t, l, {"rdestroy"}) \/ ~InUse(l)
  <2>1. CASE UNCHANGED <<pc, ptr>>
    BY <1>4, <2>1, Zenon DEF At
  <2>2. CASE ~UNCHANGED <<pc, ptr>>
    <3>1. l = k /\ (l \notin tree \/ ~InUse(l))
      BY <1>1, <1>4, <2>2, Zenon DEF lksmith_destroy, At, Call, Goto, Return
    <3>. QED BY <1>4, <3>1, Zenon
  <2>. QED BY <2>1, <2>2, Zenon
<1>5. At(t, l, {"rdestroy"})' /\ l \in tree => At(t, l, {"rdestroy"}) \/ ~InUse(l)
  <2>1. ptr[t] \in Locks \/ ptr[t] = None
    BY <1>1, Zenon
  <2>2. CASE pc[t] = "destroy" /\ lksmith_destroy(t, ptr[t]) /\ ptr[t] = None
    <3>1. ptr'[t] = None \/ pc'[t] = "idle"
      BY <1>1, <2>2, Zenon DEF lksmith_destroy, Goto, Return
    <3>. QED BY <3>1, ConstantsAssumption, Zenon DEF At, Locks
  <2>. QED BY <1>3, <1>4, <2>1, <2>2, Zenon DEF At
<1>. QED BY <1>2, <1>5, Zenon

-----------------------------------------------------------------------------
(***************************************************************************)
(* The books of the condition variables.                                   *)
(***************************************************************************)

\* The threads between the two sections of a wait on c.
Waiters(c) == {t \in Threads : Registered(t, c)}

\* Nothing changes for condition variable c.
LEMMA SameWaiters ==
  ASSUME RefcntMatch, WaitersAgree, FiniteWaiters, NEW c \in Conds,
         cond_lock'[c] = cond_lock[c], refcnt'[c] = refcnt[c],
         \A u \in Threads : Registered(u, c)' <=> Registered(u, c),
         \A u \in Threads : Registered(u, c) => ptr'[u] = ptr[u]
  PROVE  /\ IsFiniteSet(Waiters(c))'
         /\ refcnt'[c] = Cardinality(Waiters(c))'
         /\ IF \E t \in Threads : Registered(t, c)'
            THEN \A t \in Threads : Registered(t, c)' => ptr'[t] = cond_lock'[c]
            ELSE cond_lock'[c] = None
<1>1. Waiters(c)' = Waiters(c)
  BY Zenon DEF Waiters
<1>2. /\ IsFiniteSet(Waiters(c)) /\ refcnt[c] = Cardinality(Waiters(c))
      /\ IF \E t \in Threads : Registered(t, c)
         THEN \A t \in Threads : Registered(t, c) => ptr[t] = cond_lock[c]
         ELSE cond_lock[c] = None
  BY Zenon DEF Waiters, RefcntMatch, WaitersAgree, FiniteWaiters
<1>3. IsFiniteSet(Waiters(c))' /\ refcnt'[c] = Cardinality(Waiters(c))'
  BY <1>1, <1>2, Zenon
<1>. QED BY <1>2, <1>3, Zenon

\* A thread joins the waiters: the entry has no mutex, or the thread's.
LEMMA JoinWaiters ==
  ASSUME CondType, WaitInv, RefcntMatch, WaitersAgree, FiniteWaiters,
         NEW t \in Threads, NEW c \in Conds, NEW l \in Mutexes,
         cond_lock[c] \in {None, l}, cond_lock'[c] = l, refcnt'[c] = refcnt[c] + 1,
         ~Registered(t, c), Registered(t, c)', ptr'[t] = l,
         \A u \in Threads : u # t => /\ Registered(u, c)' <=> Registered(u, c)
                                    /\ ptr'[u] = ptr[u]
  PROVE  /\ IsFiniteSet(Waiters(c))'
         /\ refcnt'[c] = Cardinality(Waiters(c))'
         /\ \A u \in Threads : Registered(u, c)' => ptr'[u] = cond_lock'[c]
<1>1. Waiters(c)' = Waiters(c) \cup {t} /\ t \notin Waiters(c)
  BY Zenon DEF Waiters
<1>2. IsFiniteSet(Waiters(c)) /\ refcnt[c] = Cardinality(Waiters(c))
  BY Zenon DEF Waiters, RefcntMatch, FiniteWaiters
<1>3. IsFiniteSet(Waiters(c) \cup {t})
      /\ Cardinality(Waiters(c) \cup {t}) = Cardinality(Waiters(c)) + 1
  BY <1>1, <1>2, FS_AddElement, Zenon
<1>4. IsFiniteSet(Waiters(c))' /\ refcnt'[c] = Cardinality(Waiters(c))'
  BY <1>1, <1>2, <1>3, Zenon
<1>5. ASSUME NEW u \in Threads, Registered(u, c)
      PROVE  ptr[u] = l
  <2>1. ptr[u] = cond_lock[c] /\ ptr[u] \in Mutexes
    BY <1>5 DEF WaitersAgree, WaitInv, Registered
  <2>. QED BY <2>1, ConstantsAssumption DEF Locks
<1>. QED BY <1>4, <1>5, Zenon

\* A thread leaves the waiters; the last one makes the entry forget the mutex.
LEMMA LeaveWaiters ==
  ASSUME CondType, RefcntMatch, WaitersAgree, FiniteWaiters,
         NEW t \in Threads, NEW c \in Conds,
         cond_lock'[c] = IF refcnt[c] = 1 THEN None ELSE cond_lock[c],
         refcnt'[c] = refcnt[c] - 1, Registered(t, c), ~Registered(t, c)',
         \A u \in Threads : u # t => /\ Registered(u, c)' <=> Registered(u, c)
                                    /\ ptr'[u] = ptr[u]
  PROVE  /\ IsFiniteSet(Waiters(c))' /\ refcnt'[c] \in Nat
         /\ refcnt'[c] = Cardinality(Waiters(c))'
         /\ IF \E u \in Threads : Registered(u, c)'
            THEN \A u \in Threads : Registered(u, c)' => ptr'[u] = cond_lock'[c]
            ELSE cond_lock'[c] = None
<1>1. Waiters(c)' = Waiters(c) \ {t} /\ t \in Waiters(c)
  BY Zenon DEF Waiters
<1>2. IsFiniteSet(Waiters(c)) /\ refcnt[c] = Cardinality(Waiters(c))
      /\ refcnt[c] \in Nat
  BY Zenon DEF Waiters, RefcntMatch, FiniteWaiters, CondType
<1>3. IsFiniteSet(Waiters(c) \ {t})
      /\ Cardinality(Waiters(c) \ {t}) = Cardinality(Waiters(c)) - 1
  BY <1>1, <1>2, FS_RemoveElement, Zenon
<1>4. Cardinality(Waiters(c) \ {t}) \in Nat
      /\ (Cardinality(Waiters(c) \ {t}) = 0 <=> Waiters(c) \ {t} = {})
  BY <1>3, FS_CardinalityType, FS_EmptySet, Zenon
<1>5. IsFiniteSet(Waiters(c))' /\ refcnt'[c] = Cardinality(Waiters(c))'
      /\ refcnt'[c] \in Nat
  BY <1>1, <1>2, <1>3, <1>4, Zenon
<1>6. refcnt[c] = 1 <=> Waiters(c)' = {}
  BY <1>1, <1>2, <1>3, <1>4
<1>7. (\E u \in Threads : Registered(u, c)') <=> Waiters(c)' # {}
  BY Zenon DEF Waiters
<1>8. \A u \in Threads : Registered(u, c) => ptr[u] = cond_lock[c]
  BY Zenon DEF WaitersAgree
<1>. QED BY <1>5, <1>6, <1>7, <1>8, Zenon

Books == /\ CondType /\ WaitInv /\ FiniteWaiters
         /\ RefcntMatch /\ WaitersAgree

\* What the books rely on: a mutex that a thread waits with, or that an idle
\* thread has in its list, is there.
MutexesKept ==
  /\ \A t \in Threads :
       wait[t] \in WaitSteps => ptr[t] \in tree /\ InUse(ptr[t])
  /\ \A t \in Threads, l \in Locks :
       pc[t] = "idle" /\ tls_contains_lid(held[t], l) => kind[l] # "destroyed"

\* The mutexes of the waiting threads stay, and nobody is about to destroy one.
WaitSafe ==
  \A t \in Threads :
    wait[t] \in WaitSteps => /\ kind'[ptr[t]] # "destroyed"
                             /\ \A u \in Threads :
                                  ~(pc'[u] = "rdestroy" /\ ptr'[u] = ptr[t])

\* Where pc shows a thread that is in a call for a condition variable.
Shown(t) ==
  /\ wait[t] \in {"cwait", "cpost"} => pc[t] = "runlock"
  /\ wait[t] \in {"asleep", "relock"} => pc[t] = "postunlock"
  /\ wait[t] = "cdestroy" => pc[t] = "idle"

\* The waiting threads go on waiting, and no thread joins or leaves.
LEMMA QuietBooks ==
  ASSUME Books, UNCHANGED <<cond_lock, refcnt, cond>>,
         wait' \in [Threads -> WaitSteps \cup {"none", "cdestroy"}],
         \A u \in Threads : /\ wait'[u] \in WaitSteps <=> wait[u] \in WaitSteps
                            /\ wait[u] \in WaitSteps => ptr'[u] = ptr[u]
                            /\ wait'[u] = "cdestroy" => wait[u] = "cdestroy"
                            /\ Shown(u)',
         WaitSafe
  PROVE  Books'
<1>1. CondType'
  BY Zenon DEF Books, CondType
<1>2. \A u \in Threads, c \in Conds :
        /\ Registered(u, c)' <=> Registered(u, c)
        /\ Registered(u, c) => ptr'[u] = ptr[u]
  BY Zenon DEF Registered
<1>3. WaitInv'
  <2>1. ASSUME NEW t \in Threads, wait'[t] \in WaitSteps
        PROVE  /\ cond'[t] \in Conds /\ ptr'[t] \in Mutexes
               /\ kind'[ptr'[t]] # "destroyed"
               /\ \A u \in Threads : ~(pc'[u] = "rdestroy" /\ ptr'[u] = ptr'[t])
    <3>1. wait[t] \in WaitSteps /\ ptr'[t] = ptr[t]
      BY <2>1, Zenon
    <3>2. cond[t] \in Conds /\ ptr[t] \in Mutexes
      BY <3>1, Zenon DEF Books, WaitInv
    <3>. QED BY <3>1, <3>2, Zenon DEF WaitSafe
  <2>2. \A t \in Threads : wait'[t] = "cdestroy" => cond'[t] \in Conds
    BY Zenon DEF Books, WaitInv
  <2>. QED BY <2>1, <2>2, Zenon DEF WaitInv, Shown, At
<1>4. ASSUME NEW c \in Conds
      PROVE  /\ IsFiniteSet(Waiters(c))'
             /\ refcnt'[c] = Cardinality(Waiters(c))'
             /\ IF \E t \in Threads : Registered(t, c)'
                THEN \A t \in Threads : Registered(t, c)' => ptr'[t] = cond_lock'[c]
                ELSE cond_lock'[c] = None
  BY <1>2, SameWaiters, Zenon DEF Books
<1>5. RefcntMatch' /\ FiniteWaiters' /\ WaitersAgree'
  BY <1>4, Zenon DEF Waiters, RefcntMatch, FiniteWaiters, WaitersAgree
<1>. QED BY <1>1, <1>3, <1>5, Zenon DEF Books

\* A step of Locksmith: the holder entry of a waiting thread protects its mutex.
LEMMA CoreBooks ==
  ASSUME TypeOK, Books, MutexesKept, NEW t \in Threads, wait[t] = "none",
         ClientCall(t) \/ HandlerStep(t), UNCHANGED condvars
  PROVE  Books'
<1>1. UNCHANGED <<cond_lock, refcnt, cond, wait>> /\ CondType /\ WaitInv
  BY Zenon DEF condvars, Books
<1>2. ASSUME NEW u \in Threads, u # t
      PROVE  pc'[u] = pc[u] /\ ptr'[u] = ptr[u]
  BY <1>2, OthersUnchanged, Zenon
<1>3. WaitSafe
  <2> SUFFICES ASSUME NEW w \in Threads, wait[w] \in WaitSteps
               PROVE  /\ kind'[ptr[w]] # "destroyed"
                      /\ \A u \in Threads :
                           ~(pc'[u] = "rdestroy" /\ ptr'[u] = ptr[w])
    BY Zenon DEF WaitSafe
  <2>1. PICK l \in Locks : l = ptr[w]
    BY <1>1, Zenon DEF WaitInv, Locks
  <2>2. /\ l \in tree /\ InUse(l) /\ kind[l] # "destroyed"
        /\ \A u \in Threads : ~At(u, l, {"rdestroy"})
    BY <1>1, <2>1, Zenon DEF MutexesKept, WaitInv
  <2>3. kind'[l] # "destroyed" /\ ~At(t, l, {"rdestroy"})'
    BY <2>2, DestroysUnused, Zenon
  <2>4. \A u \in Threads : ~(pc'[u] = "rdestroy" /\ ptr'[u] = l)
    BY <1>2, <2>2, <2>3, Zenon DEF At
  <2>. QED BY <2>1, <2>3, <2>4, Zenon
<1>4. "none" \notin WaitSteps
  BY Zenon DEF WaitSteps
<1>5. ASSUME NEW u \in Threads
      PROVE  /\ wait[u] \in WaitSteps => ptr'[u] = ptr[u]
             /\ Shown(u)'
  <2>1. CASE u = t
    BY <1>1, <1>4, <2>1, Zenon DEF Shown
  <2>2. CASE u # t
    BY <1>1, <1>2, <2>2, Zenon DEF Shown, WaitInv
  <2>. QED BY <2>1, <2>2, Zenon
<1>. QED BY <1>1, <1>3, <1>5, QuietBooks, Zenon DEF CondType

\* A thread that goes from one step of a wait to the next.
LEMMA WaitBooks ==
  ASSUME TypeOK, Books, NEW t \in Threads, wait[t] \in WaitSteps,
         NEW q \in WaitSteps, wait' = [wait EXCEPT ![t] = q], Shown(t)',
         \/ UNCHANGED <<pc, ptr>>
         \/ UNCHANGED ptr /\ \E p \in {"runlock", "postunlock"} :
                               pc' = [pc EXCEPT ![t] = p],
         UNCHANGED <<kind, cond_lock, refcnt, cond>>
  PROVE  Books'
<1>1. /\ CondType /\ WaitInv /\ pc \in [Threads -> Pcs]
      /\ wait \in [Threads -> WaitSteps \cup {"none", "cdestroy"}]
      /\ "cdestroy" \notin WaitSteps
  BY Zenon DEF Books, TypeOK, CallsType, CondType, WaitSteps
<1>2. /\ wait' \in [Threads -> WaitSteps \cup {"none", "cdestroy"}]
      /\ wait'[t] = q /\ UNCHANGED ptr /\ (pc'[t] = pc[t] \/ pc'[t] # "rdestroy")
      /\ \A u \in Threads : u # t => wait'[u] = wait[u] /\ pc'[u] = pc[u]
  BY <1>1, Zenon
<1>3. WaitSafe
  BY <1>1, <1>2 DEF WaitInv, WaitSafe, At
<1>4. \A u \in Threads : u # t => Shown(u)'
  BY <1>1, <1>2, Zenon DEF WaitInv, Shown
<1>5. ASSUME NEW u \in Threads
      PROVE  /\ wait'[u] \in WaitSteps <=> wait[u] \in WaitSteps
             /\ wait[u] \in WaitSteps => ptr'[u] = ptr[u]
             /\ wait'[u] = "cdestroy" => wait[u] = "cdestroy"
             /\ Shown(u)'
  BY <1>1, <1>2, <1>4, Zenon
<1>. QED BY <1>2, <1>3, <1>5, QuietBooks, Zenon

\* The first section of a wait.
LEMMA PrewaitBooks ==
  ASSUME TypeOK, Books, MutexesKept, NEW t \in Threads, NEW c \in Conds,
         NEW l \in Mutexes, lksmith_cond_prewait(t, c, l)
  PROVE  Books'
<1>1. /\ CondType /\ WaitInv /\ FiniteWaiters /\ RefcntMatch /\ WaitersAgree
      /\ ptr \in [Threads -> Locks \cup {None}] /\ pc \in [Threads -> Pcs]
      /\ "cwait" \in WaitSteps /\ "none" \notin WaitSteps
  BY Zenon DEF Books, TypeOK, CallsType, WaitSteps
<1>2. /\ pc[t] = "idle" /\ pc'[t] = "runlock" /\ ptr'[t] = l
      /\ \A u \in Threads : u # t => pc'[u] = pc[u] /\ ptr'[u] = ptr[u]
      /\ kind' = kind
  BY <1>1, Zenon DEF lksmith_cond_prewait, Call, real
<1>3. /\ wait[t] = "none" /\ wait'[t] = "cwait" /\ cond'[t] = c
      /\ \A u \in Threads : u # t => cond'[u] = cond[u] /\ wait'[u] = wait[u]
      /\ cond_lock[c] \in {None, l} /\ cond_lock'[c] = l
      /\ refcnt'[c] = refcnt[c] + 1
      /\ \A d \in Conds : d # c => cond_lock'[d] = cond_lock[d] /\ refcnt'[d] = refcnt[d]
  BY <1>1, Zenon DEF lksmith_cond_prewait, Outside, CondType
<1>4. CondType'
  <2>1. /\ cond_lock' \in [Conds -> Mutexes \cup {None}]
        /\ refcnt' \in [Conds -> Nat]
    BY <1>1 DEF lksmith_cond_prewait, CondType
  <2>2. /\ cond' \in [Threads -> Conds \cup {None}]
        /\ wait' \in [Threads -> WaitSteps \cup {"none", "cdestroy"}]
    BY <1>1, Zenon DEF lksmith_cond_prewait, CondType
  <2>. QED BY <2>1, <2>2, Zenon DEF CondType
<1>5. WaitInv'
  <2>1. kind[l] # "destroyed" /\ \A u \in Threads : ~At(u, l, {"rdestroy"})
    BY <1>2, Zenon DEF lksmith_cond_prewait, MayWait, lksmith_check_locked, MutexesKept, Locks
  <2>. QED BY <1>1, <1>2, <1>3, <2>1 DEF WaitInv, At, WaitSteps
<1>6. ASSUME NEW d \in Conds
      PROVE  /\ IsFiniteSet(Waiters(d))'
             /\ refcnt'[d] = Cardinality(Waiters(d))'
             /\ IF \E u \in Threads : Registered(u, d)'
                THEN \A u \in Threads : Registered(u, d)' => ptr'[u] = cond_lock'[d]
                ELSE cond_lock'[d] = None
  <2>1. CASE d = c
    <3>1. ~Registered(t, c) /\ Registered(t, c)'
          /\ \A u \in Threads : u # t => /\ Registered(u, c)' <=> Registered(u, c)
                                         /\ ptr'[u] = ptr[u]
      BY <1>1, <1>2, <1>3, Zenon DEF Registered
    <3>2. /\ IsFiniteSet(Waiters(c))'
          /\ refcnt'[c] = Cardinality(Waiters(c))'
          /\ \A u \in Threads : Registered(u, c)' => ptr'[u] = cond_lock'[c]
      BY <1>1, <1>2, <1>3, <3>1, JoinWaiters, Zenon
    <3>. QED BY <2>1, <3>1, <3>2, Zenon
  <2>2. CASE d # c
    <3>1. \A u \in Threads : /\ Registered(u, d)' <=> Registered(u, d)
                             /\ Registered(u, d) => ptr'[u] = ptr[u]
      BY <1>1, <1>2, <1>3, <2>2, Zenon DEF Registered
    <3>. QED BY <1>1, <1>3, <2>2, <3>1, SameWaiters, Zenon
  <2>. QED BY <2>1, <2>2, Zenon
<1>7. RefcntMatch' /\ FiniteWaiters' /\ WaitersAgree'
  BY <1>6, Zenon DEF Waiters, RefcntMatch, FiniteWaiters, WaitersAgree
<1>. QED BY <1>4, <1>5, <1>7, Zenon DEF Books

\* The second one.
LEMMA PostwaitBooks ==
  ASSUME TypeOK, Books, NEW t \in Threads, lksmith_cond_postwait(t)
  PROVE  Books'
<1>1. /\ CondType /\ WaitInv /\ FiniteWaiters /\ RefcntMatch /\ WaitersAgree
      /\ ptr \in [Threads -> Locks \cup {None}] /\ pc \in [Threads -> Pcs]
      /\ "cpost" \in WaitSteps /\ "none" \notin WaitSteps
  BY Zenon DEF Books, TypeOK, CallsType, WaitSteps
<1>2. PICK c \in Conds : c = cond[t]
  BY <1>1, Zenon DEF lksmith_cond_postwait, WaitInv
<1>3. /\ pc'[t] = "idle" /\ kind' = kind
      /\ \A u \in Threads : u # t => pc'[u] = pc[u] /\ ptr'[u] = ptr[u]
  BY <1>1, Zenon DEF lksmith_cond_postwait, Return, real
<1>4. /\ refcnt' = [refcnt EXCEPT ![c] = refcnt[c] - 1]
      /\ cond_lock' = [cond_lock EXCEPT ![c] = IF refcnt[c] = 1 THEN None ELSE cond_lock[c]]
      /\ cond' = [cond EXCEPT ![t] = None]
      /\ wait' = [wait EXCEPT ![t] = "none"] /\ wait[t] = "cpost"
  BY <1>2, Zenon DEF lksmith_cond_postwait
<1>5. /\ wait'[t] = "none"
      /\ \A u \in Threads : u # t => cond'[u] = cond[u] /\ wait'[u] = wait[u]
      /\ cond_lock'[c] = IF refcnt[c] = 1 THEN None ELSE cond_lock[c]
      /\ refcnt'[c] = refcnt[c] - 1
      /\ \A d \in Conds : d # c => cond_lock'[d] = cond_lock[d] /\ refcnt'[d] = refcnt[d]
  BY <1>1, <1>4, Zenon DEF CondType
<1>6. Registered(t, c) /\ ~Registered(t, c)'
      /\ \A u \in Threads : u # t => /\ Registered(u, c)' <=> Registered(u, c)
                                     /\ ptr'[u] = ptr[u]
  BY <1>1, <1>2, <1>3, <1>4, <1>5, Zenon DEF Registered
<1>7. /\ IsFiniteSet(Waiters(c))' /\ refcnt'[c] \in Nat
      /\ refcnt'[c] = Cardinality(Waiters(c))'
      /\ IF \E u \in Threads : Registered(u, c)'
         THEN \A u \in Threads : Registered(u, c)' => ptr'[u] = cond_lock'[c]
         ELSE cond_lock'[c] = None
  BY <1>1, <1>5, <1>6, LeaveWaiters, Zenon
<1>8. CondType'
  <2>1. refcnt[c] - 1 \in Nat
    BY <1>5, <1>7, Zenon
  <2>2. refcnt' \in [Conds -> Nat] /\ cond_lock' \in [Conds -> Mutexes \cup {None}]
    BY <1>1, <1>4, <2>1, Zenon DEF CondType
  <2>3. /\ cond' \in [Threads -> Conds \cup {None}]
        /\ wait' \in [Threads -> WaitSteps \cup {"none", "cdestroy"}]
    BY <1>1, <1>4, Zenon DEF CondType
  <2>. QED BY <2>2, <2>3, Zenon DEF CondType
<1>9. WaitInv'
  BY <1>1, <1>3, <1>5 DEF WaitInv, At
<1>10. ASSUME NEW d \in Conds
       PROVE  /\ IsFiniteSet(Waiters(d))'
              /\ refcnt'[d] = Cardinality(Waiters(d))'
              /\ IF \E u \in Threads : Registered(u, d)'
                 THEN \A u \in Threads : Registered(u, d)' => ptr'[u] = cond_lock'[d]
                 ELSE cond_lock'[d] = None
  <2>1. CASE d = c
    BY <1>7, <2>1, Zenon
  <2>2. CASE d # c
    <3>1. \A u \in Threads : /\ Registered(u, d)' <=> Registered(u, d)
                             /\ Registered(u, d) => ptr'[u] = ptr[u]
      BY <1>1, <1>2, <1>3, <1>4, <1>5, <2>2, Zenon DEF Registered
    <3>. QED BY <1>1, <1>5, <2>2, <3>1, SameWaiters, Zenon
  <2>. QED BY <2>1, <2>2, Zenon
<1>11. RefcntMatch' /\ FiniteWaiters' /\ WaitersAgree'
  BY <1>10, Zenon DEF Waiters, RefcntMatch, FiniteWaiters, WaitersAgree
<1>. QED BY <1>8, <1>9, <1>11, Zenon DEF Books

\* pthread_cond_destroy: the check for references and the real destroy.
LEMMA DestroyBooks ==
  ASSUME Books, NEW t \in Threads,
         \/ \E c \in Conds : lksmith_cond_predestroy(t, c)
         \/ r_cond_destroy(t)
  PROVE  Books'
<1>1. /\ CondType /\ WaitInv /\ FiniteWaiters /\ RefcntMatch /\ WaitersAgree
      /\ {"none", "cdestroy"} \cap WaitSteps = {}
  BY Zenon DEF Books, WaitSteps
<1>2. UNCHANGED vars /\ UNCHANGED <<pc, ptr, kind, cond_lock, refcnt>>
  BY Zenon DEF lksmith_cond_predestroy, r_cond_destroy, vars, calls, real
<1>3. PICK v \in {"none", "cdestroy"}, c \in Conds \cup {None} :
        /\ wait[t] \in {"none", "cdestroy"} /\ (v = "cdestroy" => pc[t] = "idle")
        /\ wait' = [wait EXCEPT ![t] = v] /\ cond' = [cond EXCEPT ![t] = c]
        /\ v = "cdestroy" => c \in Conds
  <2>1. CASE \E c \in Conds : lksmith_cond_predestroy(t, c)
    BY <2>1, Zenon DEF lksmith_cond_predestroy, Outside
  <2>2. CASE r_cond_destroy(t)
    BY <2>2, Zenon DEF r_cond_destroy
  <2>. QED BY <2>1, <2>2, Zenon
<1>4. /\ wait[t] \notin WaitSteps /\ wait'[t] = v /\ v \notin WaitSteps
      /\ cond'[t] = c
      /\ \A u \in Threads : u # t => wait'[u] = wait[u] /\ cond'[u] = cond[u]
  BY <1>1, <1>3, Zenon DEF CondType
<1>5. CondType'
  BY <1>1, <1>2, <1>3, Zenon DEF CondType
<1>6. WaitInv'
  BY <1>1, <1>2, <1>3, <1>4 DEF WaitInv, At, WaitSteps
<1>7. ASSUME NEW d \in Conds
      PROVE  /\ IsFiniteSet(Waiters(d))'
             /\ refcnt'[d] = Cardinality(Waiters(d))'
             /\ IF \E u \in Threads : Registered(u, d)'
                THEN \A u \in Threads : Registered(u, d)' => ptr'[u] = cond_lock'[d]
                ELSE cond_lock'[d] = None
  <2>1. \A u \in Threads : /\ Registered(u, d)' <=> Registered(u, d)
                           /\ Registered(u, d) => ptr'[u] = ptr[u]
    BY <1>2, <1>4, Zenon DEF Registered
  <2>. QED BY <1>1, <1>2, <2>1, SameWaiters, Zenon
<1>8. RefcntMatch' /\ FiniteWaiters' /\ WaitersAgree'
  BY <1>7, Zenon DEF Waiters, RefcntMatch, FiniteWaiters, WaitersAgree
<1>. QED BY <1>5, <1>6, <1>8, Zenon DEF Books

\* Every step keeps the books.
LEMMA BooksStep ==
  ASSUME TypeOK, Books, MutexesKept, [CondNext]_allvars
  PROVE  Books'
<1>1. /\ WaitInv /\ CondType /\ pc \in [Threads -> Pcs]
      /\ wait \in [Threads -> WaitSteps \cup {"none", "cdestroy"}]
  BY Zenon DEF Books, CondType, TypeOK, CallsType
<1>2. ASSUME UNCHANGED vars, UNCHANGED <<cond_lock, refcnt, cond, wait>>
      PROVE  Books'
  <2>1. UNCHANGED <<pc, ptr, kind, cond_lock, refcnt, cond, wait>>
    BY <1>2, Zenon DEF vars, calls, real
  <2>2. WaitSafe
    BY <1>1, <2>1, Zenon DEF WaitSafe, WaitInv, At
  <2>3. \A u \in Threads : Shown(u)'
    BY <1>1, <2>1, Zenon DEF Shown, WaitInv
  <2>. QED BY <1>1, <2>1, <2>2, <2>3, QuietBooks, Zenon
<1>3. ASSUME NEW t \in Threads, CondCall(t)
      PROVE  Books'
  BY <1>2, <1>3, PrewaitBooks, DestroyBooks, Zenon DEF CondCall, pthread_cond_init
<1>4. ASSUME NEW t \in Threads, CondStep(t)
      PROVE  Books'
  <2>1. {"cwait", "asleep", "relock", "cpost"} \subseteq WaitSteps
    BY Zenon DEF WaitSteps
  <2>2. CASE r_cond_sleep(t)
    <3>1. \/ /\ UNCHANGED <<pc, ptr>> /\ wait' = [wait EXCEPT ![t] = "cpost"]
          \/ /\ UNCHANGED ptr /\ wait' = [wait EXCEPT ![t] = "asleep"]
             /\ pc' = [pc EXCEPT ![t] = "postunlock"]
      BY <2>2, Zenon DEF r_cond_sleep, Goto, calls
    <3>2. wait[t] = "cwait" /\ UNCHANGED <<kind, cond_lock, refcnt, cond>>
      BY <2>2, Zenon DEF r_cond_sleep
    <3>3. Shown(t)'
      BY <1>1, <3>1, <3>2, Zenon DEF Shown, WaitInv
    <3>. QED BY <2>1, <3>1, <3>2, <3>3, WaitBooks, Zenon
  <2>3. CASE r_cond_wake(t)
    <3>1. /\ UNCHANGED <<pc, ptr, kind, cond_lock, refcnt, cond>>
          /\ wait[t] = "asleep" /\ wait' = [wait EXCEPT ![t] = "relock"]
      BY <2>3, Zenon DEF r_cond_wake, vars, calls, real
    <3>2. Shown(t)'
      BY <1>1, <3>1, Zenon DEF Shown, WaitInv
    <3>. QED BY <2>1, <3>1, <3>2, WaitBooks, Zenon
  <2>4. CASE r_cond_relock(t)
    <3>1. /\ UNCHANGED <<ptr, kind, cond_lock, refcnt, cond>>
          /\ pc' = [pc EXCEPT ![t] = "runlock"]
          /\ wait[t] = "relock" /\ wait' = [wait EXCEPT ![t] = "cpost"]
      BY <2>4, Zenon DEF r_cond_relock, Goto
    <3>2. Shown(t)'
      BY <1>1, <3>1, Zenon DEF Shown, WaitInv
    <3>. QED BY <2>1, <3>1, <3>2, WaitBooks, Zenon
  <2>. QED BY <1>4, <2>2, <2>3, <2>4, PostwaitBooks, DestroyBooks, Zenon
           DEF CondStep
<1>5. ASSUME NEW t \in Threads, wait[t] = "none",
             ClientCall(t) \/ HandlerStep(t), UNCHANGED condvars
      PROVE  Books'
  BY <1>5, CoreBooks, Zenon
<1>. QED BY <1>2, <1>3, <1>4, <1>5, Zenon DEF CondNext, allvars, condvars

-----------------------------------------------------------------------------
(***************************************************************************)
(* The invariant of Locksmith.                                             *)
(***************************************************************************)

\* The mutexes of waiting threads, and those in the lists of idle threads, are
\* there, because the invariant of Locksmith holds.
LEMMA InvKeepsMutexes ==
  ASSUME IndInv, CondType, WaitInv
  PROVE  MutexesKept
<1>1. TypeOK /\ ControlInv
  BY Zenon DEF IndInv
<1>2. ASSUME NEW t \in Threads, NEW l \in Locks, tls_contains_lid(held[t], l)
      PROVE  l \in tree /\ InUse(l)
  <2>1. l \in tree /\ holders[l][t] >= 1
    BY <1>2, HeldKept, Zenon
  <2>2. holders[l][t] \in Nat
    BY <1>1, Zenon DEF TypeOK, RegistryType
  <2>3. holders[l][t] > 0
    BY <2>1, <2>2
  <2>. QED BY <2>1, <2>3, Zenon DEF InUse
<1>3. ASSUME NEW t \in Threads, wait[t] \in WaitSteps
      PROVE  ptr[t] \in Locks /\ tls_contains_lid(held[t], ptr[t])
  <2>1. pc[t] \in {"runlock", "postunlock"} /\ ptr[t] \in Locks
    BY <1>3, Zenon DEF WaitInv, WaitSteps, Locks
  <2>. QED BY <1>1, <2>1, Zenon DEF ControlInv, ThreadControl
<1>4. ASSUME NEW t \in Threads, NEW l \in Locks, pc[t] = "idle",
             tls_contains_lid(held[t], l)
      PROVE  kind[l] # "destroyed"
  BY <1>4, HeldKept, Zenon
<1>. QED BY <1>2, <1>3, <1>4, Zenon DEF MutexesKept

\* The three steps of a wait that are steps aside: prewait, ...
LEMMA PrewaitInv ==
  ASSUME IndInv, NEW t \in Threads, NEW c, NEW l \in Mutexes,
         lksmith_cond_prewait(t, c, l)
  PROVE  IndInv'
<1>1. /\ pc[t] = "idle" /\ pc' = [pc EXCEPT ![t] = "runlock"]
      /\ ptr' = [ptr EXCEPT ![t] = l] /\ op' = [op EXCEPT ![t] = "unlock"]
      /\ UNCHANGED <<registry, prelock, tls, real, skip, log>>
      /\ tls_contains_lid(held[t], l)
  BY Zenon DEF lksmith_cond_prewait, Call, lksmith_check_locked
<1>2. ptr[t] = None /\ op \in [Threads -> Ops]
  BY <1>1, Zenon DEF IndInv, TypeOK, CallsType, ControlInv, ThreadControl
<1>3. Aside(t, "runlock", l)
  BY <1>1, <1>2, Zenon DEF Aside, real
<1>4. op' \in [Threads -> Ops] /\ UNCHANGED <<owner, count>> /\ pc[t] # "postunlock"
  BY <1>1, <1>2, PcsOps, Zenon DEF real
<1>. QED BY <1>3, <1>4, AsideKeeps, Zenon

\* ... postwait ...
LEMMA PostwaitInv ==
  ASSUME IndInv, WaitInv, NEW t \in Threads, lksmith_cond_postwait(t)
  PROVE  IndInv'
<1>1. /\ pc[t] = "runlock" /\ ptr[t] \in Mutexes /\ op \in [Threads -> Ops]
  BY Zenon DEF lksmith_cond_postwait, WaitInv, WaitSteps, IndInv, TypeOK, CallsType
<1>2. /\ pc' = [pc EXCEPT ![t] = "idle"] /\ ptr' = [ptr EXCEPT ![t] = None]
      /\ op' = [op EXCEPT ![t] = "none"] /\ skip' = [skip EXCEPT ![t] = FALSE]
      /\ UNCHANGED <<registry, prelock, tls, real, log>>
  BY Zenon DEF lksmith_cond_postwait, Return
<1>3. Aside(t, "idle", None)
  BY <1>1, <1>2, Zenon DEF Aside, real
<1>4. op' \in [Threads -> Ops] /\ UNCHANGED <<owner, count>> /\ pc[t] # "postunlock"
  BY <1>1, <1>2, PcsOps, Zenon DEF real
<1>. QED BY <1>3, <1>4, AsideKeeps, Zenon

\* ... and the return of the mutex.
LEMMA RelockInv ==
  ASSUME IndInv, WaitInv, NEW t \in Threads, r_cond_relock(t)
  PROVE  IndInv'
<1>1. TypeOK /\ ControlInv
  BY Zenon DEF IndInv
<1>2. /\ pc[t] = "postunlock" /\ ptr[t] \in Mutexes /\ kind[ptr[t]] # "destroyed"
  BY Zenon DEF r_cond_relock, WaitInv, WaitSteps
<1>3. PICK k \in Mutexes : ptr[t] = k
  BY <1>2, Zenon
<1>4. /\ op \in [Threads -> Ops] /\ ptr \in [Threads -> Locks \cup {None}]
      /\ k \in Locks /\ tls_contains_lid(held[t], k)
  BY <1>1, <1>2, <1>3, Zenon DEF TypeOK, CallsType, Locks, ControlInv, ThreadControl
<1>5. /\ owner[k] \in {None, t} /\ owner' = [owner EXCEPT ![k] = t]
      /\ count' = [count EXCEPT ![k] = @ + 1]
      /\ pc' = [pc EXCEPT ![t] = "runlock"]
      /\ UNCHANGED <<registry, prelock, tls, kind, log, ptr, op, skip>>
  BY <1>3, Zenon DEF r_cond_relock, Relock, Goto
<1>6. ptr' = [ptr EXCEPT ![t] = k]
  BY <1>3, <1>4, <1>5, Zenon
<1>7. Aside(t, "runlock", k)
  BY <1>2, <1>3, <1>4, <1>5, <1>6, Zenon DEF Aside
<1>. QED BY <1>2, <1>3, <1>4, <1>5, <1>7, RelockKeeps, Zenon

\* Every step of the system with condition variables keeps the invariant.
LEMMA CondKeepsInv ==
  ASSUME IndInv, WaitInv, [CondNext]_allvars
  PROVE  IndInv'
<1>1. ASSUME Next \/ UNCHANGED vars
      PROVE  IndInv'
  BY <1>1, StepInv, Zenon
<1>2. ASSUME NEW t \in Threads, CondCall(t)
      PROVE  IndInv'
  BY <1>1, <1>2, PrewaitInv, Zenon
     DEF CondCall, pthread_cond_init, lksmith_cond_predestroy
<1>3. ASSUME NEW t \in Threads, r_cond_sleep(t)
      PROVE  IndInv'
  <2>1. wait[t] = "cwait" /\ kind[ptr[t]] # "destroyed" /\ pc[t] = "runlock"
    BY <1>3, Zenon DEF r_cond_sleep, WaitInv, WaitSteps
  <2>2. CASE kind[ptr[t]] \in {"errorcheck", "recursive"} /\ owner[ptr[t]] # t
    <3>1. UNCHANGED vars
      BY <1>3, <2>2, Zenon DEF r_cond_sleep, vars, real
    <3>. QED BY <1>1, <3>1, Zenon
  <2>3. CASE ~(kind[ptr[t]] \in {"errorcheck", "recursive"} /\ owner[ptr[t]] # t)
    <3>1. r_unlock(t)
      BY <1>3, <2>1, <2>3, Zenon DEF r_cond_sleep, r_unlock
    <3>. QED BY <1>1, <3>1, Zenon DEF Next, HandlerStep
  <2>. QED BY <2>2, <2>3, Zenon
<1>4. ASSUME NEW t \in Threads, CondStep(t)
      PROVE  IndInv'
  BY <1>1, <1>3, <1>4, PostwaitInv, RelockInv, Zenon
     DEF CondStep, r_cond_wake, r_cond_destroy
<1>. QED BY <1>1, <1>2, <1>4, Zenon DEF CondNext, Next, allvars

-----------------------------------------------------------------------------
(***************************************************************************)
(* The theorems.                                                           *)
(***************************************************************************)
LEMMA CondInitInv == CondInit => CondInv
<1>. SUFFICES ASSUME CondInit PROVE CondInv
  BY Zenon
<1>1. IndInv
  BY InitInv, Zenon DEF CondInit
<1>2. CondType
  BY Zenon DEF CondInit, CondType
<1>3. \A t \in Threads : wait[t] = "none"
  BY Zenon DEF CondInit
<1>4. WaitInv
  BY <1>3, Zenon DEF WaitInv, WaitSteps
<1>5. \A t \in Threads : \A c \in Conds : ~Registered(t, c)
  BY <1>3, Zenon DEF Registered, WaitSteps
<1>6. ASSUME NEW c \in Conds
      PROVE  {t \in Threads : Registered(t, c)} = {}
  BY <1>5, Zenon
<1>7. \A c \in Conds : refcnt[c] = 0 /\ cond_lock[c] = None
  BY Zenon DEF CondInit
<1>8. FiniteWaiters /\ RefcntMatch
  BY <1>6, <1>7, FS_EmptySet, Zenon DEF FiniteWaiters, RefcntMatch
<1>9. WaitersAgree
  BY <1>5, <1>7, Zenon DEF WaitersAgree
<1>. QED BY <1>1, <1>2, <1>4, <1>8, <1>9, Zenon DEF CondInv

\* The invariant of the condition variables, together with the one of the
\* locks, is kept by all the handlers.
THEOREM CondInvariance == CondSpec => []CondInv
<1>1. CondInv /\ [CondNext]_allvars => CondInv'
  <2>. SUFFICES ASSUME CondInv, [CondNext]_allvars PROVE CondInv'
    BY Zenon
  <2>1. IndInv /\ WaitInv /\ MutexesKept /\ TypeOK /\ Books
    BY InvKeepsMutexes, Zenon DEF CondInv, IndInv, Books
  <2>2. IndInv'
    BY <2>1, CondKeepsInv, Zenon
  <2>3. Books'
    BY <2>1, BooksStep, Zenon
  <2>. QED BY <2>2, <2>3, Zenon DEF CondInv, Books
<1>. QED BY <1>1, CondInitInv, PTL DEF CondSpec

\* The reference count of lksmith_cond_prewait and _postwait is the number of
\* waiters.
THEOREM RefcntCorrect == CondSpec => []RefcntMatch
BY CondInvariance, PTL DEF CondInv

\* The check of lksmith_cond_prewait makes all waiters use one mutex.
THEOREM OneMutexPerCond == CondSpec => []WaitersAgree
BY CondInvariance, PTL DEF CondInv

\* lksmith_cond_predestroy lets nobody pass while a thread is between the two
\* sections of a wait.
THEOREM DestroyCorrect == CondSpec => DestroyChecked
<1> DEFINE Checked ==
      \A t, u \in Threads :
        wait[t] # "cdestroy" /\ wait'[t] = "cdestroy"
          => ~(cond[u] = cond'[t] /\ wait[u] \in WaitSteps)
<1>1. ASSUME CondInv, CondNext, NEW t \in Threads, NEW u \in Threads,
             wait[t] # "cdestroy", wait'[t] = "cdestroy"
      PROVE  ~(cond[u] = cond'[t] /\ wait[u] \in WaitSteps)
  <2>1. /\ wait \in [Threads -> WaitSteps \cup {"none", "cdestroy"}]
        /\ cond \in [Threads -> Conds \cup {None}]
    BY <1>1, Zenon DEF CondInv, CondType
  <2>2. PICK c \in Conds : lksmith_cond_predestroy(t, c)
    <3>1. PICK v \in Threads :
            \/ CondCall(v) \/ CondStep(v) \/ UNCHANGED condvars
      BY <1>1, Zenon DEF CondNext
    <3>2. ASSUME NEW q, wait' = [wait EXCEPT ![v] = q], q # "cdestroy"
          PROVE  FALSE
      BY <1>1, <2>1, <3>2, Zenon
    <3>3. ASSUME NEW c \in Conds, lksmith_cond_predestroy(v, c)
          PROVE  v = t
      BY <1>1, <2>1, <3>3, Zenon DEF lksmith_cond_predestroy
    <3>. QED BY <1>1, <3>1, <3>2, <3>3, Zenon DEF CondCall, CondStep, condvars,
         pthread_cond_init, lksmith_cond_prewait, r_cond_sleep, r_cond_wake,
         r_cond_relock, lksmith_cond_postwait, r_cond_destroy
  <2>3. cond'[t] = c /\ refcnt[c] = 0
    BY <2>1, <2>2, Zenon DEF lksmith_cond_predestroy
  <2>4. IsFiniteSet(Waiters(c)) /\ Cardinality(Waiters(c)) = 0
    BY <1>1, <2>3, Zenon DEF CondInv, Waiters, RefcntMatch, FiniteWaiters
  <2>5. Waiters(c) = {}
    BY <2>4, FS_EmptySet, Zenon
  <2>. QED BY <2>3, <2>5, Zenon DEF Waiters, Registered
<1>2. CondInv /\ [CondNext]_allvars => [Checked]_allvars
  BY <1>1, Zenon
<1>. QED BY <1>2, CondInvariance, PTL DEF CondSpec, DestroyChecked

\* The holder entry keeps the mutex of a waiting thread from being destroyed.
THEOREM WaitKeepsMutex == CondSpec => []WaitedMutexKept
<1>1. CondInv => WaitedMutexKept
  BY InvKeepsMutexes, Zenon DEF CondInv, WaitedMutexKept, WaitInv, MutexesKept
<1>. QED BY <1>1, CondInvariance, PTL

\* A wait gives the mutex up once, and returns with it.
THEOREM WaitKeepsCount == CondSpec => []CondOwnerMatch
<1>1. ASSUME CondInv
      PROVE  CondOwnerMatch
  <2>1. SUFFICES ASSUME "held" \notin Oom, NEW l \in Locks, NEW t \in Threads
        PROVE  LET waits == wait[t] \in {"asleep", "relock"}
                   unlocks == wait[t] = "none" /\ pc[t] = "postunlock"
               IN  Owned(t, l) + Indicator(ptr[t] = l /\ (waits \/ unlocks))
                   = CountOf(held[t], {l}) + Indicator(At(t, l, {"postlock"}))
    BY Zenon DEF CondOwnerMatch
  <2>2. /\ wait[t] \in WaitSteps \cup {"none", "cdestroy"}
        /\ wait[t] \in {"cwait", "cpost"} => pc[t] = "runlock"
        /\ wait[t] \in {"asleep", "relock"} => pc[t] = "postunlock"
        /\ wait[t] = "cdestroy" => pc[t] = "idle"
    BY <1>1, Zenon DEF CondInv, CondType, WaitInv
  <2>3. (wait[t] \in {"asleep", "relock"} \/ (wait[t] = "none" /\ pc[t] = "postunlock"))
        <=> pc[t] = "postunlock"
    BY <2>2, Zenon DEF WaitSteps
  <2>4. Indicator(ptr[t] = l /\ (\/ wait[t] \in {"asleep", "relock"}
                                 \/ wait[t] = "none" /\ pc[t] = "postunlock"))
        = Indicator(At(t, l, {"postunlock"}))
    BY <2>3, Zenon DEF Indicator, At
  <2>5. Owned(t, l) + Indicator(At(t, l, {"postunlock"}))
        = CountOf(held[t], {l}) + Indicator(At(t, l, {"postlock"}))
    BY <1>1, <2>1, Zenon DEF CondInv, IndInv, OwnerInv, OwnerMatch, Owned
  <2>. QED BY <2>4, <2>5, Zenon
<1>. QED BY <1>1, CondInvariance, PTL
=============================================================================
