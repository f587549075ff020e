-------------------------- MODULE LocksmithProofs ---------------------------
(***************************************************************************)
(* The inductive invariant of Locksmith, and the theorems about its core   *)
(* that follow from it.                                                    *)
(***************************************************************************)
EXTENDS LocksmithStepProofs, HeldListProofs

-----------------------------------------------------------------------------
(***************************************************************************)
(* The inductive invariant.                                                *)
(***************************************************************************)

\* What is used of the number of entries of a list.
LEMMA Counting == CountFacts(Locks)
BY CountFactsHold

\* A call is exempted by what the program passes when it makes the call.
LEMMA SkipStep ==
  ASSUME TypeOK, SkipInv, NEW t \in Threads, ClientCall(t) \/ HandlerStep(t)
  PROVE  SkipInv'
<1>1. skip \in [Threads -> BOOLEAN]
  BY Zenon DEF TypeOK, CallsType
<1>2. ASSUME NEW l \in Locks, NEW o \in LockOps, NEW s \in Skips,
             lksmith_prelock(t, l, o, s)
      PROVE  SkipInv'
  BY <1>1, <1>2, Zenon DEF lksmith_prelock, SkipInv
<1>3. CASE skip' = skip \/ skip' = [skip EXCEPT ![t] = FALSE]
  BY <1>1, <1>3, Zenon DEF SkipInv
<1>. QED BY <1>2, <1>3, Zenon
     DEF ClientCall, HandlerStep, lksmith_preunlock, pthread_mutex_init,
         pthread_spin_init, lksmith_destroy, lksmith_prelock_process_depends,
         lksmith_search, lksmith_search_return, report_inversion, lk_add_before,
         lksmith_prelock_end, r_lock, lksmith_postlock, lksmith_postlock_error,
         r_unlock, lksmith_postunlock, lksmith_optional_init,
         r_pthread_spin_init, r_destroy, Goto, Return, calls

\* A lock in a thread's list keeps its warning: it is not destroyed.
LEMMA WarningKept ==
  ASSUME TypeOK, ControlInv, HoldersInv, RegistryInv,
         NEW t \in Threads, ClientCall(t) \/ HandlerStep(t),
         NEW u \in Threads, NEW l \in Locks, tls_contains_lid(held[u], l),
         spin_warn[l]
  PROVE  spin_warn'[l]
<1>1. spin_warn \in [Locks -> BOOLEAN] /\ holders \in [Locks -> [Threads -> Nat]]
  BY Zenon DEF TypeOK, RegistryType
<1>2. holders[l][u] >= 1
  BY Counting, HeldRegistered, Zenon
<1>3. InUse(l)
  BY <1>1, <1>2 DEF InUse
<1>4. ASSUME NEW k \in Locks, lksmith_destroy(t, k)
      PROVE  spin_warn'[l]
  BY <1>1, <1>3, <1>4, Zenon DEF lksmith_destroy
<1>5. CASE lksmith_postlock(t)
  BY <1>1, <1>5, Zenon DEF lksmith_postlock
<1>6. ptr[t] \in Locks \/ pc[t] # "destroy"
  BY ArgumentType, Zenon
<1>. QED BY <1>4, <1>5, <1>6, Zenon
     DEF ClientCall, HandlerStep, lksmith_prelock, lksmith_preunlock,
         pthread_mutex_init, pthread_spin_init, lksmith_prelock_process_depends,
         lksmith_search, lksmith_search_return, report_inversion, lk_add_before,
         lksmith_prelock_end, r_lock, lksmith_postlock_error, r_unlock,
         lksmith_postunlock, lksmith_optional_init, r_pthread_spin_init,
         r_destroy, registry

\* A mutex that is taken on top of a spin lock gets its warning in
\* lksmith_postlock, because num_spins counts the spin locks of the list.
LEMMA SleepStep ==
  ASSUME TypeOK, ControlInv, HoldersInv, OwnerInv, RegistryInv, SpinCount,
         SpinSleepWarned, NEW t \in Threads, ClientCall(t) \/ HandlerStep(t)
  PROVE  SpinSleepWarned'
<1>1. held \in [Threads -> Seq(Locks)] /\ spin_warn \in [Locks -> BOOLEAN]
      /\ num_spins \in [Threads -> Nat]
  BY Zenon DEF TypeOK, TlsType, RegistryType
<1>2. ASSUME NEW u \in Threads, NEW i \in DOMAIN held[u],
             NEW j \in DOMAIN held[u], i < j, held[u][i] \in Spins,
             held[u][j] \in Mutexes
      PROVE  spin_warn'[held[u][j]]
  <2>1. held[u][j] \in Locks /\ tls_contains_lid(held[u], held[u][j])
    BY <1>2, Zenon DEF Locks, tls_contains_lid
  <2>2. spin_warn[held[u][j]]
    BY <1>2, Zenon DEF SpinSleepWarned
  <2>. QED BY <2>1, <2>2, WarningKept, Zenon
<1>3. SUFFICES ASSUME NEW u \in Threads, NEW i \in DOMAIN held'[u],
                      NEW j \in DOMAIN held'[u], i < j,
                      held'[u][i] \in Spins, held'[u][j] \in Mutexes
               PROVE  spin_warn'[held'[u][j]]
  BY Zenon DEF SpinSleepWarned
<1>4. CASE held'[u] = held[u]
  BY <1>2, <1>3, <1>4, Zenon
<1>5. CASE u = t /\ lksmith_postunlock(t)
  <2>1. held'[t] = tls_remove_held(held[t], ptr[t])
    BY <1>1, <1>5, Zenon DEF lksmith_postunlock
  <2>2. PICK p, q \in DOMAIN held[t] :
          p < q /\ held[t][p] = held'[t][i] /\ held[t][q] = held'[t][j]
    BY <1>1, <1>3, <1>5, <2>1, RemoveKeepsOrder
  <2>. QED BY <1>2, <1>3, <1>5, <2>2, Zenon
<1>6. CASE u = t /\ lksmith_postlock(t) /\ held'[t] # held[t]
  <2> DEFINE n == Len(held[t])
             l == ptr[t]
  <2>1. pc[t] = "postlock" /\ l \in tree /\ l \in Locks
    BY <1>6, Counting, PendingRegistered, Zenon DEF lksmith_postlock, Pending
  <2>2. /\ held'[t] = Append(held[t], l)
        /\ l \in Mutexes /\ num_spins[t] > 0 => spin_warn'[l]
    BY <1>1, <1>6, <2>1, Zenon DEF lksmith_postlock, tls_append_held
  <2>3. /\ DOMAIN held'[t] = 1 .. (n + 1) /\ DOMAIN held[t] = 1 .. n /\ n \in Nat
        /\ \A m \in 1 .. n : held'[t][m] = held[t][m]
        /\ held'[t][n + 1] = l
    BY <1>1, <2>1, <2>2, SeqAppend, SeqLen
  <2>4. i \in 1 .. n /\ i \in DOMAIN held[t] /\ held[t][i] \in Spins
    BY <1>3, <1>6, <2>3
  <2>5. CASE j \in 1 .. n
    BY <1>2, <1>3, <1>6, <2>3, <2>4, <2>5, Zenon
  <2>6. CASE j = n + 1
    <3>1. CountOf(held[t], Spins) >= 1
      BY <1>1, <2>4, Counting, CountContains, Zenon DEF tls_contains_lid
    <3>2. num_spins[t] + 0 = CountOf(held[t], Spins)
      BY <2>1, Zenon DEF SpinCount, Indicator
    <3>3. num_spins[t] > 0
      BY <1>1, <3>1, <3>2
    <3>. QED BY <1>3, <1>6, <2>2, <2>3, <2>6, <3>3
  <2>. QED BY <1>3, <1>6, <2>3, <2>5, <2>6
<1>7. \/ held'[u] = held[u]
      \/ u = t /\ (lksmith_postlock(t) \/ lksmith_postunlock(t))
  BY OthersUnchanged, BookCases, Zenon
     DEF Quiet, lksmith_prelock_end, r_lock, lksmith_postlock_error, r_unlock,
         lksmith_preunlock, tls
<1>. QED BY <1>4, <1>5, <1>6, <1>7, Zenon

\* The invariant holds at the start.
LEMMA InitInv == Init => IndInv
<1>1. SUFFICES ASSUME Init PROVE IndInv
  BY Zenon
<1>2. TypeOK
  <2>1. << >> \in Seq(Locks) /\ << >> \in Seq(SUBSET Locks)
    OBVIOUS
  <2>2. "idle" \in Pcs /\ "none" \in Ops
    BY Zenon DEF Pcs, Ops
  <2>. QED BY <1>1, <2>1, <2>2, ConstantsAssumption, Zenon
           DEF Init, TypeOK, RegistryType, PrelockType, TlsType, RealType,
           CallsType
<1>3. \A t \in Threads : held[t] = << >> /\ \A L : CountOf(held[t], L) = 0
  BY <1>1, Counting, CountEmpty, Zenon DEF Init
<1>4. \A t \in Threads, l \in Locks : \A P : ~At(t, l, P)
  BY <1>1, ConstantsAssumption, Zenon DEF Init, At
<1>5. ControlInv
  BY <1>1, ConstantsAssumption, Zenon
     DEF Init, ControlInv, ThreadControl, PrelockControl, SearchPcs
<1>6. SpinCount
  BY <1>1, <1>3 DEF Init, SpinCount, Indicator
<1>7. HoldersInv
  BY <1>1, <1>3, <1>4 DEF Init, HoldersInv, HoldersMatch, Indicator
<1>8. OwnerInv
  <2>1. \A t \in Threads, l \in Locks : Owned(t, l) = 0
    BY <1>1, Zenon DEF Init, Owned
  <2>2. \A l \in Locks : owner[l] = None /\ count[l] = 0
    BY <1>1, Zenon DEF Init
  <2>3. ASSUME NEW l \in Locks, NEW t \in Threads
        PROVE  /\ Indicator(At(t, l, {"postlock"})) = 0
               /\ Indicator(At(t, l, {"postunlock"})) = 0
    BY <1>4, Zenon DEF Indicator
  <2>4. OwnerMatch
    BY <1>3, <2>1, <2>3, Zenon DEF OwnerMatch, Owned
  <2>. QED BY <1>3, <2>1, <2>2, <2>3, <2>4 DEF OwnerInv
<1>9. RegistryInv
  BY <1>1, <1>4 DEF Init, RegistryInv, NoDangling
<1>10. SearchInv /\ OrderInv /\ SkipInv
  BY <1>1, Zenon DEF Init, SearchInv, OrderInv, SkipInv, SearchPcs, Compared
<1>11. AcyclicUnlessReported /\ NoLogicError
  BY <1>1, EmptyAcyclic, Zenon DEF Init, AcyclicUnlessReported, NoLogicError
<1>12. SpinSleepWarned
  BY <1>3 DEF SpinSleepWarned
<1>. QED BY <1>2, <1>5, <1>6, <1>7, <1>8, <1>9, <1>10, <1>11, <1>12 DEF IndInv

\* Every step keeps it.
LEMMA StepInv == IndInv /\ [Next]_vars => IndInv'
<1>1. SUFFICES ASSUME IndInv, [Next]_vars PROVE IndInv'
  BY Zenon
<1>2. /\ TypeOK /\ NoLogicError /\ SpinCount /\ AcyclicUnlessReported
      /\ ControlInv /\ HoldersInv /\ OwnerInv /\ RegistryInv /\ SearchInv
      /\ OrderInv /\ SkipInv /\ SpinSleepWarned
  BY <1>1, Zenon DEF IndInv
<1>3. CASE Next
  <2>1. PICK t \in Threads : ClientCall(t) \/ HandlerStep(t)
    BY <1>3, Zenon DEF Next
  <2>2. TypeOK' /\ ControlInv'
    BY <1>2, <1>3, <2>1, Counting, TypeStep, ControlStep
  <2>3. HoldersInv' /\ OwnerInv' /\ SpinCount'
    BY <1>2, <2>1, Counting, HoldersStep, OwnerStep, SpinStep
  <2>4. RegistryInv' /\ NoLogicError'
    BY <1>2, <2>1, Counting, RegistryStep, LogicStep, Zenon
  <2>5. SearchInv' /\ AcyclicUnlessReported' /\ OrderInv'
    BY <1>2, <2>1, Counting, SearchStep, AcyclicStep, OrderStep
  <2>6. SkipInv' /\ SpinSleepWarned'
    BY <1>2, <2>1, SkipStep, SleepStep, Zenon
  <2>. QED BY <2>2, <2>3, <2>4, <2>5, <2>6 DEF IndInv
<1>4. CASE UNCHANGED vars
  <2>0. UNCHANGED <<registry, prelock, tls, real, calls, log>>
    BY <1>4, Zenon DEF vars
  <2> USE <1>2, <2>0 DEF registry, prelock, tls, real, calls
  <2>1. TypeOK'
    BY UnchangedTypes, Zenon DEF TypeOK
  <2>2. ControlInv'
    BY Zenon DEF ControlInv, ThreadControl, PrelockControl
  <2>3. HoldersInv' /\ OwnerInv' /\ SpinCount'
    BY Zenon DEF HoldersInv, HoldersMatch, OwnerInv, OwnerMatch, SpinCount, At,
       Owned,
       Indicator
  <2>4. RegistryInv' /\ NoLogicError'
    BY Zenon DEF RegistryInv, NoDangling, NoLogicError, At
  <2>5. SearchInv'
    BY Zenon DEF SearchInv, ThreadSearch, Frontier
  <2>6. AcyclicUnlessReported' /\ OrderInv'
    BY Zenon DEF AcyclicUnlessReported, OrderInv, ThreadOrder, Processed
  <2>7. SkipInv' /\ SpinSleepWarned'
    BY Zenon DEF SkipInv, SpinSleepWarned
  <2>. QED BY <2>1, <2>2, <2>3, <2>4, <2>5, <2>6, <2>7 DEF IndInv
<1>. QED BY <1>1, <1>3, <1>4, Zenon

\* The inductive invariant holds in every reachable state of Locksmith, for
\* any number of threads and locks, any depth of nesting, and whichever
\* allocations fail.
THEOREM Invariance == Spec => []IndInv
BY InitInv, StepInv, PTL DEF Spec

-----------------------------------------------------------------------------
(***************************************************************************)
(* What follows from it.                                                   *)
(***************************************************************************)

\* A thread that waits for a lock has every lock it owns in its list.
LEMMA OwnedListed ==
  ASSUME IndInv, "held" \notin Oom, NEW t \in Threads, pc[t] = "rlock",
         NEW l \in Locks, owner[l] = t
  PROVE  \E i \in DOMAIN held[t] : held[t][i] = l
<1>1. held[t] \in Seq(Locks) /\ count[l] \in Nat /\ count[l] >= 1
  BY ConstantsAssumption DEF IndInv, TypeOK, TlsType, RealType, OwnerInv
<1>2. CountOf(held[t], {l}) \in Nat
  BY Counting, <1>1, CountType, Zenon
<1>3. /\ Indicator(At(t, l, {"postlock"})) = 0
      /\ Indicator(At(t, l, {"postunlock"})) = 0
  BY Zenon DEF Indicator, At
<1>4. CountOf(held[t], {l}) >= 1
  <2>0. OwnerMatch
    BY Zenon DEF IndInv, OwnerInv
  <2>1. count[l] + Indicator(At(t, l, {"postunlock"}))
        = CountOf(held[t], {l}) + Indicator(At(t, l, {"postlock"}))
    BY <2>0, Zenon DEF OwnerMatch
  <2>. QED BY <1>1, <1>2, <1>3, <2>1
<1>. QED BY <1>1, <1>4, Counting, ContainsCount, Zenon DEF tls_contains_lid

\* Circular waits follow from the order: the lock that comes before no other
\* lock of the circle is held by a thread that waits for one of them.
LEMMA CircularWait == IndInv => CircularWaitReported
<1>1. SUFFICES ASSUME IndInv, Oom = {}, NEW W \in SUBSET Threads, W # {},
                      \A t \in W : \E u \in W : WaitsFor(t, u),
                      "inversion" \notin log
               PROVE  FALSE
  BY Zenon DEF CircularWaitReported
<1> DEFINE D == {ptr[t] : t \in W}
<1>2. \A t \in W : pc[t] = "rlock" /\ ptr[t] \in Locks
  BY <1>1, ArgumentType, Zenon DEF WaitsFor, IndInv
<1>3. before \in [Locks -> SUBSET Locks] /\ Acyclic(before)
  BY <1>1, Zenon DEF IndInv, AcyclicUnlessReported, TypeOK, RegistryType
<1>4. D \in SUBSET DOMAIN before /\ D # {}
  BY <1>1, <1>2, <1>3, Zenon
<1>5. PICK x \in D : \A y \in D : x \notin before[y]
  BY <1>3, <1>4, Zenon DEF Acyclic
<1>6. PICK t \in W : x = ptr[t]
  BY <1>5, Zenon
<1>7. PICK u \in W : WaitsFor(t, u)
  BY <1>1, Zenon
<1>8. x \in Locks /\ owner[x] = u /\ pc[u] = "rlock" /\ u \in Threads
  BY <1>1, <1>2, <1>6, <1>7 DEF WaitsFor
<1>9. PICK i \in DOMAIN held[u] : held[u][i] = x
  BY <1>1, <1>8, OwnedListed, Zenon
<1>10. ptr[u] # x /\ ~skip[u]
  BY <1>1, <1>8 DEF WaitsFor
<1>11. x \in before[ptr[u]]
  BY <1>1, <1>8, <1>9, <1>10, Zenon DEF IndInv, OrderInv, ThreadOrder, Processed, Compared
<1>. QED BY <1>5, <1>7, <1>11, Zenon

\* The variables have their types; the spin counter never wraps.
THEOREM TypeCorrect == Spec => []TypeOK
BY Invariance, PTL DEF IndInv

\* The branches for logic errors in lksmith_postlock and lksmith_postunlock
\* are dead code, and lk_holder_remove always finds its entry.
THEOREM LogicErrorFree == Spec => []NoLogicError
BY Invariance, PTL DEF IndInv

\* Holder entries are neither leaked nor removed too often by any handler.
THEOREM HoldersCorrect == Spec => []HoldersMatch
BY Invariance, PTL DEF IndInv, HoldersInv

\* The lists of held locks agree with the real locks.
THEOREM OwnersCorrect == Spec => []OwnerMatch
BY Invariance, PTL DEF IndInv, OwnerInv

\* num_spins counts the spin locks that a thread holds.
THEOREM SpinsCorrect == Spec => []SpinCount
BY Invariance, PTL DEF IndInv

\* A mutex taken on top of a spin lock has been warned about.
THEOREM SleepersWarned == Spec => []SpinSleepWarned
BY Invariance, PTL DEF IndInv

\* lksmith_destroy leaves no dangling pointer in any array before.
THEOREM NothingDangles == Spec => []NoDangling
BY Invariance, PTL DEF IndInv, RegistryInv

\* The real unlock after a successful lksmith_preunlock succeeds.
THEOREM UnlockCorrect == Spec => []UnlockSucceeds
<1>1. IndInv => UnlockSucceeds
  BY Counting, UnlockOwned, Zenon DEF IndInv, UnlockSucceeds
<1>. QED BY <1>1, Invariance, PTL

\* A lock in use stays in the registry, whoever tries to destroy it.
THEOREM RegistrationCorrect == Spec => []InUseStaysRegistered
<1>1. ASSUME IndInv
      PROVE  InUseStaysRegistered
  <2>1. SUFFICES ASSUME NEW t \in Threads, NEW l \in Locks,
                        \/ tls_contains_lid(held[t], l)
                        \/ At(t, l, SearchPcs \cup {"rlock", "postlock", "postfail"})
                 PROVE  l \in tree
    BY Zenon DEF InUseStaysRegistered
  <2>2. CASE tls_contains_lid(held[t], l)
    BY <1>1, <2>2, Counting, HeldRegistered, Zenon DEF IndInv
  <2>3. CASE At(t, l, SearchPcs)
    BY <1>1, <2>3, Zenon DEF IndInv, RegistryInv
  <2>4. CASE At(t, l, Pending)
    BY <1>1, <2>4, Counting, PendingRegistered, Zenon DEF IndInv, At
  <2>. QED BY <2>1, <2>2, <2>3, <2>4, Zenon DEF At, Pending
<1>. QED BY <1>1, Invariance, PTL

\* lksmith_search never reports an inversion without a chain of dependencies.
THEOREM SearchIsSound == Spec => []SearchSound
<1>1. IndInv => SearchSound
  BY Zenon DEF IndInv, SearchInv, ThreadSearch, SearchSound, SearchPcs
<1>. QED BY <1>1, Invariance, PTL

\* lksmith_search never misses a chain in a call that has reported nothing.
THEOREM SearchIsComplete == Spec => []SearchComplete
<1>1. ASSUME IndInv
      PROVE  SearchComplete
  <2>1. SUFFICES ASSUME NEW t \in Threads, pc[t] = "miss", ~inverted
                 PROVE  ~Reaches(before, held[t][idx], ptr[t])
    BY Zenon DEF SearchComplete
  <2>2. DOMAIN before = Locks
    BY <1>1, Zenon DEF IndInv, TypeOK, RegistryType
  <2>. QED BY <1>1, <2>1, <2>2, MissClosed, ClosedRefutes DEF IndInv
<1>. QED BY <1>1, Invariance, PTL

\* Until an inversion is reported, the recorded order of locks is one.
THEOREM OrderIsAcyclic == Spec => []AcyclicUnlessReported
BY Invariance, PTL DEF IndInv

\* No circular wait without a report of an inversion: what Locksmith is for.
THEOREM DeadlockReported == Spec => []CircularWaitReported
BY CircularWait, Invariance, PTL

\* A thread that waits for its own lock has been told.
THEOREM RecursionReported == Spec => []SelfDeadlockReported
<1>1. ASSUME IndInv
      PROVE  SelfDeadlockReported
  <2>1. SUFFICES ASSUME "held" \notin Oom, NEW t \in Threads, pc[t] = "rlock",
                        ~skip[t], owner[ptr[t]] = t, ~recursive[ptr[t]]
                 PROVE  "recursion" \in log
    BY Zenon DEF SelfDeadlockReported
  <2>2. ptr[t] \in Locks
    BY <1>1, <2>1, ArgumentType, Zenon DEF IndInv
  <2>3. PICK i \in DOMAIN held[t] : held[t][i] = ptr[t]
    BY <1>1, <2>1, <2>2, OwnedListed, Zenon
  <2>. QED BY <1>1, <2>1, <2>3, Zenon DEF IndInv, OrderInv, ThreadOrder, Processed, Compared
<1>. QED BY <1>1, Invariance, PTL

\* Dependencies are forgotten only with one of their locks.
THEOREM DependenciesKept == Spec => DependencyKept
<1> DEFINE Kept == \A l \in Locks : \A a \in before[l] :
                     a \in before'[l] \/ a \notin tree' \/ l \notin tree'
<1>1. IndInv /\ [Next]_vars => [Kept]_vars
  BY EdgeKept, Zenon DEF IndInv, Next
<1>. QED BY <1>1, Invariance, PTL DEF Spec, DependencyKept

\* Only the owner of a real lock releases it, through its own handler.
THEOREM ReleaseByOwner == Spec => OnlyOwnerReleases
<1> DEFINE Released == \A l \in Locks :
                         owner[l] # None /\ owner'[l] # owner[l]
                         => owner'[l] = None /\ At(owner[l], l, {"runlock"})
<1>1. ASSUME IndInv, Next
      PROVE  Released
  <2>1. PICK t \in Threads : ClientCall(t) \/ HandlerStep(t)
    BY <1>1, Zenon DEF Next
  <2>2. TypeOK /\ ControlInv /\ OwnerInv /\ owner \in [Locks -> Threads \cup {None}]
    BY <1>1, Zenon DEF IndInv, TypeOK, RealType
  <2>3. CASE r_lock(t)
    BY <2>2, <2>3, Zenon DEF r_lock, Relock
  <2>4. CASE r_unlock(t)
    <3>1. ptr[t] \in Locks /\ owner[ptr[t]] = t /\ pc[t] = "runlock"
      BY <2>2, <2>4, Counting, UnlockOwned, Zenon DEF r_unlock
    <3>. QED BY <2>2, <2>4, <3>1 DEF r_unlock, At
  <2>5. CASE owner' = owner
    BY <2>5, Zenon
  <2>. QED BY <2>1, <2>2, <2>3, <2>4, <2>5, BookCases, Zenon
       DEF Quiet, lksmith_prelock_end, lksmith_postlock, lksmith_postlock_error,
           lksmith_postunlock, lksmith_preunlock, real
<1>2. IndInv /\ [Next]_vars => [Released]_vars
  BY <1>1, Zenon
<1>. QED BY <1>2, Invariance, PTL DEF Spec, OnlyOwnerReleases
=============================================================================
