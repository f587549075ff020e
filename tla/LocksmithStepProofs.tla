------------------------ MODULE LocksmithStepProofs -------------------------
(***************************************************************************)
(* The proof that the steps of Locksmith keep its books (the holder        *)
(* entries against the lists of held locks, the lists against the real     *)
(* locks, and the registry) and the order of the locks: the search is      *)
(* exact, the recorded order has no cycle before an inversion is reported, *)
(* and every lock held when another one was asked for is in it.            *)
(***************************************************************************)
EXTENDS LocksmithControlProofs

-----------------------------------------------------------------------------
(***************************************************************************)
(* Who holds what.                                                         *)
(***************************************************************************)

\* The holder entries follow the list of held locks.
LEMMA HoldersStep ==
  ASSUME CountFacts(Locks), TypeOK, ControlInv, HoldersInv, OwnerInv,
         RegistryInv,
         NEW t \in Threads, ClientCall(t) \/ HandlerStep(t)
  PROVE  HoldersInv'
<1> DEFINE Want(u, l) == CountOf(held[u], {l}) + Indicator(At(u, l, Pending))
           Fits(u, l) == /\ holders[l][u] >= Want(u, l)
                         /\ "held" \notin Oom => holders[l][u] = Want(u, l)
<1>1. \A l \in Locks, u \in Threads : Fits(u, l)
  BY Zenon DEF HoldersInv, HoldersMatch, Pending
<1>2. SUFFICES \A l \in Locks : Fits(t, l)'
  <2>1. ASSUME NEW u \in Threads, u # t, NEW l \in Locks
        PROVE  Fits(u, l)'
    <3>1. /\ holders'[l][u] = holders[l][u] /\ held'[u] = held[u]
          /\ At(u, l, Pending)' <=> At(u, l, Pending)
      BY <2>1, OthersBooks, Zenon DEF Pending
    <3>2. Fits(u, l)
      BY <1>1, Zenon
    <3>. QED BY <3>1, <3>2, Zenon DEF Indicator
  <2>. QED BY <2>1, Zenon DEF HoldersInv, HoldersMatch, Pending
<1>3. TAKE l \in Locks
<1>4. /\ held[t] \in Seq(Locks) /\ CountOf(held[t], {l}) \in Nat
      /\ holders[l][t] \in Nat
      /\ held \in [Threads -> Seq(Locks)]
      /\ holders \in [Locks -> [Threads -> Nat]]
      /\ pc \in [Threads -> Pcs] /\ ptr \in [Threads -> Locks \cup {None}]
  BY CountType, Zenon DEF TypeOK, TlsType, CallsType, RegistryType
<1>5. Fits(t, l)
  BY <1>1, Zenon
<1>6. CASE \/ Quiet(t) \/ r_unlock(t) \/ \E k \in Locks : lksmith_preunlock(t, k)
  <2>1. UNCHANGED <<held, holders>>
    BY <1>6, Zenon DEF Quiet, r_unlock, lksmith_preunlock, registry, tls
  <2>2. ~At(t, l, Pending) /\ ~At(t, l, Pending)'
    BY <1>4, <1>6, Zenon DEF At, Pending, Quiet, BookPcs, r_unlock, lksmith_preunlock,
       Call, Goto, Return
  <2>. QED BY <1>5, <2>1, <2>2, Zenon DEF Indicator
<1>7. CASE r_lock(t)
  <2>1. UNCHANGED <<held, holders, ptr>>
    BY <1>7, Zenon DEF r_lock, Goto, registry, tls
  <2>2. pc[t] \in Pending /\ pc'[t] \in Pending
    BY <1>4, <1>7, Zenon DEF r_lock, Goto, Pending
  <2>. QED BY <1>5, <2>1, <2>2, Zenon DEF Indicator, At
<1>8. CASE lksmith_prelock_end(t)
  <2>1. UNCHANGED <<held, ptr>> /\ pc[t] = "depends" /\ pc'[t] = "rlock"
    BY <1>4, <1>8, Zenon DEF lksmith_prelock_end, Goto, tls
  <2>2. holders'[l][t] = holders[l][t] + (IF l = ptr[t] THEN 1 ELSE 0)
    BY <1>4, <1>8 DEF lksmith_prelock_end, lk_holder_add
  <2>3. ~At(t, l, Pending) /\ (At(t, l, Pending)' <=> l = ptr[t])
    BY <2>1, Zenon DEF At, Pending
  <2>. QED BY <1>4, <1>5, <2>1, <2>2, <2>3 DEF Indicator
<1>9. CASE lksmith_postlock(t)
  <2>1. ptr[t] \in tree /\ ptr[t] \in Locks
    BY <1>9, PendingRegistered, Zenon DEF lksmith_postlock, Pending
  <2>2. pc[t] = "postlock" /\ pc'[t] = "idle" /\ UNCHANGED holders
    BY <1>4, <1>9, Zenon DEF lksmith_postlock, Return
  <2>3. \/ held' = held /\ "held" \in Oom
        \/ held'[t] = tls_append_held(held[t], ptr[t])
    BY <1>4, <1>9, <2>1, Zenon DEF lksmith_postlock
  <2>4. CountOf(tls_append_held(held[t], ptr[t]), {l})
        = CountOf(held[t], {l}) + (IF l = ptr[t] THEN 1 ELSE 0)
    BY <1>4, <2>1, CountAppend
  <2>5. ~At(t, l, Pending)' /\ (At(t, l, Pending) <=> l = ptr[t])
    BY <2>2, Zenon DEF At, Pending
  <2>. QED BY <1>4, <1>5, <2>2, <2>3, <2>4, <2>5 DEF Indicator
<1>10. CASE lksmith_postlock_error(t)
  <2>1. ptr[t] \in tree /\ ptr[t] \in Locks /\ holders[ptr[t]][t] >= 1
    BY <1>10, PendingRegistered, Zenon DEF lksmith_postlock_error, Pending
  <2>2. pc[t] = "postfail" /\ pc'[t] = "idle" /\ UNCHANGED held
    BY <1>4, <1>10, Zenon DEF lksmith_postlock_error, Return, tls
  <2>3. holders'[l][t] = holders[l][t] - (IF l = ptr[t] THEN 1 ELSE 0)
    BY <1>4, <1>10, <2>1 DEF lksmith_postlock_error, lk_holder_remove
  <2>4. ~At(t, l, Pending)' /\ (At(t, l, Pending) <=> l = ptr[t])
    BY <2>2, Zenon DEF At, Pending
  <2>. QED BY <1>4, <1>5, <2>2, <2>3, <2>4 DEF Indicator
<1>11. CASE lksmith_postunlock(t)
  <2>1. /\ ptr[t] \in tree /\ ptr[t] \in Locks /\ holders[ptr[t]][t] >= 1
        /\ tls_contains_lid(held[t], ptr[t])
    BY <1>11, PendingRegistered, Zenon
       DEF lksmith_postunlock, Pending, ControlInv, ThreadControl
  <2>2. /\ pc[t] = "postunlock" /\ pc'[t] = "idle"
        /\ held'[t] = tls_remove_held(held[t], ptr[t])
    BY <1>4, <1>11, Zenon DEF lksmith_postunlock, Return
  <2>3. holders'[l][t] = holders[l][t] - (IF l = ptr[t] THEN 1 ELSE 0)
    BY <1>4, <1>11, <2>1 DEF lksmith_postunlock, lk_holder_remove
  <2>4. CountOf(tls_remove_held(held[t], ptr[t]), {l})
        = CountOf(held[t], {l}) - (IF l = ptr[t] THEN 1 ELSE 0)
    BY <1>4, <2>1, CountRemove
  <2>5. ~At(t, l, Pending)' /\ ~At(t, l, Pending)
    BY <2>2, Zenon DEF At, Pending
  <2>. QED BY <1>4, <1>5, <2>2, <2>3, <2>4, <2>5 DEF Indicator
<1>. QED BY <1>6, <1>7, <1>8, <1>9, <1>10, <1>11, BookCases, Zenon

\* The kind of a lock changes only when nobody owns it.
LEMMA KindStep ==
  ASSUME TypeOK, NEW t \in Threads, ClientCall(t) \/ HandlerStep(t),
         NEW l \in Locks
  PROVE  kind'[l] = kind[l] \/ (owner[l] = None /\ owner' = owner)
<1>1. kind \in [Locks -> Kinds]
  BY Zenon DEF TypeOK, RealType
<1>2. ASSUME NEW k, NEW ty, pthread_mutex_init(t, k, ty)
      PROVE  kind'[l] = kind[l] \/ (owner[l] = None /\ owner' = owner)
  BY <1>1, <1>2, Zenon DEF pthread_mutex_init, MayInit
<1>3. ASSUME r_destroy(t)
      PROVE  kind'[l] = kind[l] \/ (owner[l] = None /\ owner' = owner)
  BY <1>1, <1>3, Zenon DEF r_destroy
<1>4. \/ kind' = kind \/ r_destroy(t)
      \/ \E k \in Locks, ty \in AttrTypes : pthread_mutex_init(t, k, ty)
  BY Zenon DEF ClientCall, HandlerStep, lksmith_prelock, lksmith_preunlock,
     pthread_spin_init, lksmith_destroy, lksmith_prelock_process_depends,
     lksmith_search, lksmith_search_return, report_inversion, lk_add_before,
     lksmith_prelock_end, r_lock, lksmith_postlock, lksmith_postlock_error,
     r_unlock, lksmith_postunlock, lksmith_optional_init, r_pthread_spin_init,
     real
<1>. QED BY <1>2, <1>3, <1>4, Zenon

\* The real locks follow the lists of held locks.
LEMMA OwnerStep ==
  ASSUME CountFacts(Locks), TypeOK, ControlInv, HoldersInv, OwnerInv,
         RegistryInv,
         NEW t \in Threads, ClientCall(t) \/ HandlerStep(t)
  PROVE  OwnerInv'
<1> DEFINE Have(u, l) == Owned(u, l) + Indicator(At(u, l, {"postunlock"}))
           Want(u, l) == CountOf(held[u], {l}) + Indicator(At(u, l,
           {"postlock"}))
           Fits(u, l) == /\ Have(u, l) >= Want(u, l)
                         /\ "held" \notin Oom => Have(u, l) = Want(u, l)
           Sane(l) == /\ owner[l] = None <=> count[l] = 0
                      /\ owner[l] # None => kind[l] # "destroyed"
<1>1. \A l \in Locks, u \in Threads : Fits(u, l)
  BY Zenon DEF OwnerInv, OwnerMatch, Owned
<1>2. SUFFICES ASSUME NEW l \in Locks
               PROVE  Fits(t, l)' /\ Sane(l)'
  <2>1. ASSUME NEW u \in Threads, u # t, NEW l \in Locks
        PROVE  Fits(u, l)'
    <3>1. /\ Owned(u, l)' = Owned(u, l) /\ held'[u] = held[u]
          /\ At(u, l, {"postlock"})' <=> At(u, l, {"postlock"})
          /\ At(u, l, {"postunlock"})' <=> At(u, l, {"postunlock"})
      BY <2>1, OthersBooks, Zenon
    <3>2. Fits(u, l)
      BY <1>1, Zenon
    <3>. QED BY <3>1, <3>2, Zenon DEF Indicator
  <2>. QED BY <2>1, Zenon DEF OwnerInv, OwnerMatch, Owned
<1>3. /\ held[t] \in Seq(Locks) /\ CountOf(held[t], {l}) \in Nat
      /\ held \in [Threads -> Seq(Locks)]
      /\ owner \in [Locks -> Threads \cup {None}] /\ count \in [Locks -> Nat]
      /\ pc \in [Threads -> Pcs] /\ ptr \in [Threads -> Locks \cup {None}]
      /\ t # None
  BY CountType, ConstantsAssumption, Zenon DEF TypeOK, TlsType, CallsType, RealType
<1>4. Owned(t, l) \in Nat /\ Fits(t, l) /\ Sane(l)
  BY <1>1, <1>3, Zenon DEF Owned, OwnerInv
<1>5. CASE \/ Quiet(t) \/ lksmith_prelock_end(t) \/ lksmith_postlock_error(t)
           \/ \E k \in Locks : lksmith_preunlock(t, k)
  <2>1. UNCHANGED <<held, owner, count>>
    BY <1>5, Zenon DEF Quiet, lksmith_prelock_end, lksmith_postlock_error,
       lksmith_preunlock, tls, real
  <2>2. /\ ~At(t, l, {"postlock"}) /\ ~At(t, l, {"postlock"})'
        /\ ~At(t, l, {"postunlock"}) /\ ~At(t, l, {"postunlock"})'
    BY <1>3, <1>5, Zenon DEF At, Pending, Quiet, BookPcs, lksmith_prelock_end,
       lksmith_postlock_error, lksmith_preunlock, Call, Goto, Return
  <2>3. Fits(t, l)'
    BY <1>4, <2>1, <2>2, Zenon DEF Indicator, Owned
  <2>4. Sane(l)'
    BY <1>4, <2>1, KindStep, Zenon
  <2>. QED BY <2>3, <2>4, Zenon
<1>6. CASE r_lock(t)
  <2>1. UNCHANGED <<held, ptr, kind>> /\ pc[t] = "rlock"
    BY <1>6, Zenon DEF r_lock, Goto, tls
  <2>2. CASE UNCHANGED <<owner, count>> /\ Goto(t, "postfail")
    <3>1. pc'[t] = "postfail"
      BY <1>3, <2>2, Zenon DEF Goto
    <3>. QED BY <1>4, <2>1, <2>2, <3>1, Zenon DEF Indicator, At, Owned
  <2>3. CASE /\ \/ owner[ptr[t]] = None /\ kind[ptr[t]] # "destroyed"
                \/ Relock(t, ptr[t])
             /\ owner' = [owner EXCEPT ![ptr[t]] = t]
             /\ count' = [count EXCEPT ![ptr[t]] = @ + 1]
             /\ Goto(t, "postlock")
    <3>1. pc'[t] = "postlock"
      BY <1>3, <2>3, Zenon DEF Goto
    <3>2. CASE l # ptr[t]
      BY <1>3, <1>4, <2>1, <2>3, <3>1, <3>2, Zenon DEF Indicator, At, Owned
    <3>3. CASE l = ptr[t]
      <4>1. Owned(t, l)' = Owned(t, l) + 1
        BY <1>3, <1>4, <2>3, <3>3, Zenon DEF Owned, Relock
      <4>2. Fits(t, l)'
        BY <1>3, <1>4, <2>1, <3>1, <3>3, <4>1 DEF Indicator, At
      <4>3. Sane(l)'
        BY <1>3, <1>4, <2>1, <2>3, <3>3 DEF Relock
      <4>. QED BY <4>2, <4>3, Zenon
    <3>. QED BY <3>2, <3>3, Zenon
  <2>. QED BY <1>6, <2>2, <2>3, Zenon DEF r_lock
<1>7. CASE r_unlock(t)
  <2>1. /\ ptr[t] \in Locks /\ owner[ptr[t]] = t /\ count[ptr[t]] >= 1
        /\ kind[ptr[t]] # "destroyed" /\ pc[t] = "runlock"
    BY <1>7, UnlockOwned, Zenon DEF r_unlock
  <2>2. /\ UNCHANGED <<held, ptr, kind>> /\ pc'[t] = "postunlock"
        /\ owner' = [owner EXCEPT ![ptr[t]] = IF count[ptr[t]] <= 1 THEN None ELSE @]
        /\ count' = [count EXCEPT ![ptr[t]] = IF count[ptr[t]] <= 1 THEN 0 ELSE @ - 1]
    BY <1>3, <1>7, <2>1, Zenon DEF r_unlock, Goto, tls
  <2>3. CASE l # ptr[t]
    BY <1>3, <1>4, <2>1, <2>2, <2>3, Zenon DEF Indicator, At, Owned
  <2>4. CASE l = ptr[t]
    <3>1. Owned(t, l)' = Owned(t, l) - 1
      BY <1>3, <2>1, <2>2, <2>4 DEF Owned
    <3>2. Fits(t, l)'
      BY <1>3, <1>4, <2>1, <2>2, <2>4, <3>1 DEF Indicator, At
    <3>3. Sane(l)'
      BY <1>3, <1>4, <2>1, <2>2, <2>4
    <3>. QED BY <3>2, <3>3, Zenon
  <2>. QED BY <2>3, <2>4, Zenon
<1>8. CASE lksmith_postlock(t)
  <2>1. ptr[t] \in tree /\ ptr[t] \in Locks
    BY <1>8, PendingRegistered, Zenon DEF lksmith_postlock, Pending
  <2>2. pc[t] = "postlock" /\ pc'[t] = "idle" /\ UNCHANGED <<owner, count, kind>>
    BY <1>3, <1>8, Zenon DEF lksmith_postlock, Return, real
  <2>3. \/ held' = held /\ "held" \in Oom
        \/ held'[t] = tls_append_held(held[t], ptr[t])
    BY <1>3, <1>8, <2>1, Zenon DEF lksmith_postlock
  <2>4. CountOf(tls_append_held(held[t], ptr[t]), {l})
        = CountOf(held[t], {l}) + (IF l = ptr[t] THEN 1 ELSE 0)
    BY <1>3, <2>1, CountAppend, SMTT(30)
  <2>5. Owned(t, l)' = Owned(t, l) /\ Sane(l)'
    BY <1>4, <2>2, Zenon DEF Owned
  <2>. QED BY <1>3, <1>4, <2>2, <2>3, <2>4, <2>5 DEF Indicator, At
<1>9. CASE lksmith_postunlock(t)
  <2>1. pc[t] = "postunlock" /\ pc'[t] = "idle" /\ UNCHANGED <<owner, count, kind>>
        /\ held'[t] = tls_remove_held(held[t], ptr[t])
    BY <1>3, <1>9, Zenon DEF lksmith_postunlock, Return, real
  <2>2. CountOf(tls_remove_held(held[t], ptr[t]), {l})
        = CountOf(held[t], {l}) - (IF l = ptr[t] THEN 1 ELSE 0)
    BY <1>3, <2>1, CountRemove DEF ControlInv, ThreadControl
  <2>3. Owned(t, l)' = Owned(t, l) /\ Sane(l)'
    BY <1>4, <2>1, Zenon DEF Owned
  <2>. QED BY <1>3, <1>4, <2>1, <2>2, <2>3 DEF Indicator, At
<1>. QED BY <1>5, <1>6, <1>7, <1>8, <1>9, BookCases, Zenon

-----------------------------------------------------------------------------
(***************************************************************************)
(* The registry.                                                           *)
(***************************************************************************)

\* The order is changed by lk_add_before and lksmith_destroy only, and only
\* lksmith_destroy removes a lock.
LEMMA RegistryCases ==
  ASSUME TypeOK, ControlInv, NEW t \in Threads, ClientCall(t) \/ HandlerStep(t)
  PROVE  \/ tree \subseteq tree' /\ before' = before
         \/ lk_add_before(t)
         \/ \E l \in Locks : lksmith_destroy(t, l)
<1>1. ptr[t] \in Locks \/ pc[t] # "destroy"
  BY ArgumentType, Zenon
<1>. QED
  BY <1>1, Zenon DEF ClientCall, HandlerStep, lksmith_prelock,
     lksmith_preunlock,
   pthread_mutex_init, pthread_spin_init, lksmith_prelock_process_depends,
   lksmith_search, lksmith_search_return, report_inversion,
   lksmith_prelock_end, r_lock, lksmith_postlock, lksmith_postlock_error,
   r_unlock, lksmith_postunlock, lksmith_optional_init, r_pthread_spin_init,
   r_destroy, registry

\* A thread is inside the search because it was there or has just called
\* lksmith_prelock.
LEMMA SearchEntry ==
  ASSUME TypeOK, ControlInv, NEW t \in Threads, ClientCall(t) \/ HandlerStep(t),
         pc'[t] \in SearchPcs
  PROVE  \/ pc[t] \in SearchPcs /\ ptr'[t] = ptr[t]
         \/ \E l \in Locks, o \in LockOps, s \in Skips : lksmith_prelock(t, l, o, s)
<1>2. pc \in [Threads -> Pcs]
  BY Zenon DEF TypeOK, CallsType
<1> USE DEF SearchPcs
<1>3. ASSUME NEW l \in Locks,
             \/ lksmith_preunlock(t, l) \/ pthread_spin_init(t, l)
             \/ \E ty \in AttrTypes : pthread_mutex_init(t, l, ty)
      PROVE  FALSE
  BY <1>2, <1>3, Zenon DEF lksmith_preunlock, pthread_spin_init, pthread_mutex_init,
     Call
<1>4. ASSUME NEW l, lksmith_destroy(t, l)
      PROVE  FALSE
  BY <1>2, <1>4, Zenon DEF lksmith_destroy, Call, Goto, Return
<1>5. ASSUME \/ lksmith_prelock_end(t) \/ r_lock(t) \/ lksmith_postlock(t)
             \/ lksmith_postlock_error(t) \/ r_unlock(t) \/ lksmith_postunlock(t)
      PROVE  FALSE
  BY <1>2, <1>5, Zenon DEF lksmith_prelock_end, r_lock, lksmith_postlock,
     lksmith_postlock_error, r_unlock, lksmith_postunlock, Goto, Return
<1>6. ASSUME lksmith_optional_init(t) \/ r_pthread_spin_init(t) \/ r_destroy(t)
      PROVE  FALSE
  BY <1>2, <1>6, Zenon DEF lksmith_optional_init, r_pthread_spin_init,
     r_destroy, Goto,
     Return
<1>7. ASSUME \/ lksmith_prelock_process_depends(t) \/ lksmith_search_return(t)
             \/ report_inversion(t) \/ lk_add_before(t)
             \/ \E n \in Locks : lksmith_search(t, n)
      PROVE  pc[t] \in SearchPcs /\ ptr'[t] = ptr[t]
  BY <1>7, Zenon DEF lksmith_prelock_process_depends, lksmith_search_return,
     report_inversion, lk_add_before, lksmith_search, Goto, calls
<1>. QED BY <1>3, <1>4, <1>5, <1>6, <1>7, Zenon DEF ClientCall, HandlerStep

\* The locks in the lists of held locks are registered.
LEMMA HeldRegistered ==
  ASSUME CountFacts(Locks), TypeOK, HoldersInv, RegistryInv, NEW u \in Threads,
         NEW l \in Locks,
         tls_contains_lid(held[u], l)
  PROVE  holders[l][u] >= 1 /\ l \in tree
<1>1. held[u] \in Seq(Locks) /\ holders[l][u] \in Nat
  BY Zenon DEF TypeOK, TlsType, RegistryType
<1>2. CountOf(held[u], {l}) \in Nat /\ CountOf(held[u], {l}) >= 1
  BY <1>1, CountType, CountContains, Zenon
<1>3. holders[l][u] >= CountOf(held[u], {l}) + Indicator(At(u, l, Pending))
  BY Zenon DEF HoldersInv
<1>4. Indicator(At(u, l, Pending)) \in {0, 1}
  BY Zenon DEF Indicator
<1>5. holders[l][u] >= 1
  BY <1>1, <1>2, <1>3, <1>4
<1>. QED BY <1>1, <1>5, SMTT(30) DEF RegistryInv

\* Every step keeps the registry in order.
LEMMA RegistryStep ==
  ASSUME TypeOK, ControlInv, RegistryInv, SearchInv, NEW t \in Threads,
         ClientCall(t) \/ HandlerStep(t)
  PROVE  RegistryInv'
<1>0. /\ before \in [Locks -> SUBSET Locks] /\ tree \subseteq Locks
      /\ holders \in [Locks -> [Threads -> Nat]]
  BY Zenon DEF TypeOK, RegistryType
<1>1. ASSUME NEW l \in Locks, NEW u \in Threads,
             holders'[l][u] > 0 \/ At(u, l, SearchPcs)'
      PROVE  l \in tree'
  <2>1. CASE \E k \in Locks : lksmith_destroy(t, k)
    <3>1. PICK k \in Locks : lksmith_destroy(t, k)
      BY <2>1, Zenon
    <3>2. g_tree_lock' = None /\ holders' = holders
      BY <3>1, Zenon DEF lksmith_destroy, prelock
    <3>3. holders[l][u] > 0
      <4>1. ControlInv'
        BY ControlStep, Zenon
      <4>2. ~At(u, l, SearchPcs)'
        BY <3>2, <4>1, ConstantsAssumption, Zenon DEF At, ControlInv,
           ThreadControl
      <4>. QED BY <1>1, <3>2, <4>2, Zenon
    <3>. QED BY <3>1, <3>3, Zenon DEF RegistryInv, lksmith_destroy, InUse
  <2>2. CASE ~\E k \in Locks : lksmith_destroy(t, k)
    <3>1. tree \subseteq tree'
      BY <2>2, RegistryCases, Zenon DEF lk_add_before
    <3>2. CASE At(u, l, SearchPcs)'
      <4>1. CASE u # t
        <5>1. At(u, l, SearchPcs)
          BY <3>2, <4>1, OthersUnchanged, Zenon DEF At
        <5>. QED BY <3>1, <5>1, Zenon DEF RegistryInv
      <4>2. CASE u = t
        <5>1. CASE pc[t] \in SearchPcs /\ ptr'[t] = ptr[t]
          BY <3>1, <3>2, <4>2, <5>1, Zenon DEF At, RegistryInv
        <5>2. ASSUME NEW k \in Locks, NEW o, NEW s, lksmith_prelock(t, k, o, s)
              PROVE  l \in tree'
          BY <3>2, <4>2, <5>2, Zenon DEF At, lksmith_prelock, Call, TypeOK, CallsType
        <5>. QED BY <3>2, <4>2, <5>1, <5>2, SearchEntry, Zenon DEF At
      <4>. QED BY <4>1, <4>2, Zenon
    <3>3. CASE holders'[l][u] > 0
      <4>1. CASE lksmith_prelock_end(t)
        <5>1. holders[l][u] > 0 \/ At(u, l, SearchPcs)
          BY <1>0, <3>3, <4>1, Zenon
             DEF lksmith_prelock_end, lk_holder_add, At, SearchPcs
        <5>. QED BY <3>1, <5>1, Zenon DEF RegistryInv
      <4>2. CASE ~lksmith_prelock_end(t)
        <5>1. holders' = holders \/ holders' = lk_holder_remove(ptr[t], t)
          BY <4>2, BookCases, Zenon DEF Quiet, r_lock, lksmith_postlock,
             lksmith_postlock_error, r_unlock, lksmith_postunlock,
             lksmith_preunlock, registry
        <5>2. holders[l][u] > 0
          BY <1>0, <3>3, <5>1 DEF lk_holder_remove
        <5>. QED BY <3>1, <5>2, Zenon DEF RegistryInv
      <4>. QED BY <4>1, <4>2, Zenon
    <3>. QED BY <1>1, <3>2, <3>3, Zenon
  <2>. QED BY <2>1, <2>2, Zenon
<1>2. NoDangling'
  <2>0. NoDangling
    BY Zenon DEF RegistryInv
  <2>1. ASSUME NEW k \in Locks, lksmith_destroy(t, k)
        PROVE  NoDangling'
    BY <1>0, <2>0, <2>1, Zenon
       DEF NoDangling, lksmith_destroy, lk_remove_before_all, RemoveNode
  <2>2. CASE lk_add_before(t)
    <3>1. /\ held[t][idx] \in tree /\ held[t][idx] # ptr[t] /\ ptr[t] \in Locks
          /\ At(t, ptr[t], SearchPcs)
      BY <2>2, ArgumentType, Zenon
         DEF SearchInv, ThreadSearch, lk_add_before, SearchPcs, At
    <3>2. ptr[t] \in tree
      BY <3>1, Zenon DEF RegistryInv
    <3>3. tree' = tree
      BY <2>2, Zenon DEF lk_add_before
    <3>. QED BY <1>0, <2>0, <2>2, <3>1, <3>2, <3>3 DEF NoDangling,
                lk_add_before, AddEdge
  <2>3. CASE tree \subseteq tree' /\ before' = before
    BY <2>0, <2>3, Zenon DEF NoDangling
  <2>. QED BY <2>1, <2>2, <2>3, RegistryCases, Zenon
<1>. QED BY <1>1, <1>2, Zenon DEF RegistryInv

\* No step takes a branch for a logic error.
LEMMA LogicStep ==
  ASSUME CountFacts(Locks), TypeOK, ControlInv, HoldersInv, RegistryInv,
         NoLogicError,
         NEW t \in Threads, ClientCall(t) \/ HandlerStep(t)
  PROVE  NoLogicError'
<1>1. CASE lksmith_prelock_process_depends(t)
  <2>1. idx \in 1 .. Len(held[t]) /\ held[t][idx] \in Locks
    BY <1>1, HeldType, Zenon DEF lksmith_prelock_process_depends
  <2>2. tls_contains_lid(held[t], held[t][idx])
    BY <2>1, SeqLen, Zenon DEF tls_contains_lid, TypeOK, TlsType
  <2>3. held[t][idx] \in tree
    BY <2>1, <2>2, HeldRegistered, Zenon
  <2>4. log' \subseteq log \cup {"recursion"}
    BY <1>1, <2>3, Zenon DEF lksmith_prelock_process_depends
  <2>. QED BY <2>4, Zenon DEF NoLogicError, LogicErrors
<1>2. CASE lksmith_postlock(t) \/ lksmith_postlock_error(t) \/ lksmith_postunlock(t)
  <2>1. ptr[t] \in Locks /\ ptr[t] \in tree /\ holders[ptr[t]][t] >= 1
    BY <1>2, PendingRegistered, Zenon
       DEF lksmith_postlock, lksmith_postlock_error, lksmith_postunlock, Pending
  <2>2. lksmith_postunlock(t) => tls_contains_lid(held[t], ptr[t])
    BY Zenon DEF lksmith_postunlock, ControlInv, ThreadControl
  <2>3. holders[ptr[t]][t] # 0
    BY <2>1
  <2>4. log' = log
    <3>1. CASE lksmith_postlock(t)
      BY <2>1, <3>1, Zenon DEF lksmith_postlock, Report
    <3>2. CASE lksmith_postlock_error(t)
      <4>1. log' = log \cup {}
        BY <2>1, <2>3, <3>2, Zenon DEF lksmith_postlock_error
      <4>. QED BY <4>1, Zenon
    <3>3. CASE lksmith_postunlock(t)
      <4>1. log' = log \cup {}
        BY <2>1, <2>2, <2>3, <3>3, Zenon DEF lksmith_postunlock
      <4>. QED BY <4>1, Zenon
    <3>. QED BY <1>2, <3>1, <3>2, <3>3, Zenon
  <2>. QED BY <2>4, Zenon DEF NoLogicError
<1>3. CASE report_inversion(t)
  BY <1>3, Zenon DEF report_inversion, NoLogicError, LogicErrors
<1>4. CASE log' = log
  BY <1>4, Zenon DEF NoLogicError
<1>. QED
  BY <1>1, <1>2, <1>3, <1>4, ZenonT(30) DEF ClientCall, HandlerStep, lksmith_prelock,
   lksmith_preunlock, pthread_mutex_init, pthread_spin_init, lksmith_search,
   lksmith_search_return, lk_add_before, lksmith_prelock_end, r_lock, r_unlock,
   lksmith_optional_init, r_pthread_spin_init, r_destroy, lksmith_destroy
-----------------------------------------------------------------------------
(***************************************************************************)
(* The search.                                                             *)
(***************************************************************************)

\* The locks still to visit are those of some activation.
LEMMA FrontierMember ==
  ASSUME NEW s \in Seq(SUBSET Locks), NEW x
  PROVE  x \in Entries(s) <=> \E i \in 1 .. Len(s) : x \in s[i]
BY SeqLen, Zenon DEF Entries

\* Nothing is left to visit on an empty stack.
LEMMA FrontierEmpty == Entries(<< >>) = {}
BY DEF Entries

\* The stack with which a search starts.
LEMMA FrontierStart ==
  ASSUME NEW x \in Locks
  PROVE  Entries(<<{x}>>) = {x}
<1> DEFINE s == <<{x}>>
<1>1. s \in Seq(SUBSET Locks) /\ Len(s) = 1 /\ s[1] = {x}
  OBVIOUS
<1> HIDE DEF s
<1>2. ASSUME NEW y
      PROVE  y \in Entries(s) <=> y = x
  <2>1. y \in Entries(s) <=> \E i \in 1 .. Len(s) : y \in s[i]
    BY <1>1, FrontierMember, Zenon
  <2>. QED BY <1>1, <2>1
<1>3. Entries(s) = {x}
  BY <1>2, Zenon
<1>. QED BY <1>3, Zenon DEF s

\* A lock is taken off the newest activation.
LEMMA FrontierVisit ==
  ASSUME NEW s \in Seq(SUBSET Locks), s # << >>, NEW n \in s[1]
  PROVE  LET r == [s EXCEPT ![1] = @ \ {n}]
         IN  /\ r \in Seq(SUBSET Locks) /\ Len(r) = Len(s)
             /\ Entries(r) \subseteq Entries(s)
             /\ Entries(s) \subseteq Entries(r) \cup {n}
             /\ n \in Entries(s)
<1> DEFINE r == [s EXCEPT ![1] = @ \ {n}]
<1>1. Len(s) \in Nat /\ Len(s) >= 1 /\ s[1] \in SUBSET Locks
  BY SeqEmpty, SeqNonEmpty, SeqLen, SeqElement
<1>2. r \in Seq(SUBSET Locks) /\ Len(r) = Len(s)
  BY <1>1, SeqExcept
<1>3. \A i \in 1 .. Len(s) : r[i] = IF i = 1 THEN s[1] \ {n} ELSE s[i]
  BY <1>1, <1>2, SeqLen, Zenon
<1>4. ASSUME NEW x
      PROVE  /\ x \in Entries(r) => x \in Entries(s)
             /\ x \in Entries(s) => x \in Entries(r) \/ x = n
  <2>1. /\ x \in Entries(s) <=> \E i \in 1 .. Len(s) : x \in s[i]
        /\ x \in Entries(r) <=> \E i \in 1 .. Len(r) : x \in r[i]
    BY <1>2, FrontierMember, Zenon
  <2>2. ASSUME NEW i \in 1 .. Len(s)
        PROVE  /\ x \in r[i] => x \in s[i]
               /\ x \in s[i] => x \in r[i] \/ x = n
    BY <1>3
  <2> HIDE DEF r
  <2>. QED BY <1>2, <2>1, <2>2, Zenon
<1>5. n \in Entries(s)
  BY <1>1, FrontierMember
<1> HIDE DEF r
<1>6. /\ Entries(r) \subseteq Entries(s)
      /\ Entries(s) \subseteq Entries(r) \cup {n}
  <2> DEFINE R == Entries(r)
             S == Entries(s)
  <2>1. \A x : (x \in R => x \in S) /\ (x \in S => x \in R \/ x = n)
    BY <1>4, Zenon
  <2> HIDE DEF R, S
  <2>2. R \subseteq S /\ S \subseteq R \cup {n}
    BY <2>1, Zenon
  <2>. QED BY <2>2, Zenon DEF R, S
<1>. QED BY <1>2, <1>5, <1>6, Zenon DEF r

\* A new activation adds the locks it is to visit.
LEMMA FrontierPush ==
  ASSUME NEW s \in Seq(SUBSET Locks), NEW F \in SUBSET Locks
  PROVE  Entries(<<F>> \o s) = F \cup Entries(s)
<1> DEFINE r == <<F>> \o s
<1>1. Len(s) \in Nat /\ <<F>> \in Seq(SUBSET Locks) /\ Len(<<F>>) = 1
  BY SeqLen
<1>2. r \in Seq(SUBSET Locks) /\ Len(r) = 1 + Len(s)
      /\ r[1] = F /\ \A i \in 1 .. Len(s) : r[i + 1] = s[i]
  BY <1>1, SeqConcat
<1>3. ASSUME NEW x
      PROVE  x \in Entries(r) <=> x \in F \/ x \in Entries(s)
  <2>1. /\ x \in Entries(s) <=> \E i \in 1 .. Len(s) : x \in s[i]
        /\ x \in Entries(r) <=> \E i \in 1 .. Len(r) : x \in r[i]
    BY <1>2, FrontierMember, Zenon
  <2>2. ASSUME NEW i \in 1 .. Len(r), x \in r[i]
        PROVE  x \in F \/ \E j \in 1 .. Len(s) : x \in s[j]
    <3>1. CASE i = 1
      BY <1>2, <2>2, <3>1, Zenon
    <3>2. CASE i # 1
      <4>1. i - 1 \in 1 .. Len(s) /\ r[(i - 1) + 1] = s[i - 1] /\ (i - 1) + 1 = i
        BY <1>1, <1>2, <3>2
      <4>. QED BY <2>2, <4>1, Zenon
    <3>. QED BY <3>1, <3>2, Zenon
  <2>3. ASSUME x \in F
        PROVE  \E i \in 1 .. Len(r) : x \in r[i]
    BY <1>1, <1>2, <2>3
  <2>4. ASSUME NEW j \in 1 .. Len(s), x \in s[j]
        PROVE  \E i \in 1 .. Len(r) : x \in r[i]
    <3>1. j + 1 \in 1 .. Len(r) /\ x \in r[j + 1]
      BY <1>1, <1>2, <2>4
    <3>. QED BY <3>1, Zenon
  <2> HIDE DEF r
  <2>. QED BY <2>1, <2>2, <2>3, <2>4, Zenon
<1> HIDE DEF r
<1>4. Entries(r) = F \cup Entries(s)
  BY <1>3, Zenon
<1>. QED BY <1>4, Zenon DEF r

\* An activation that is done takes nothing with it.
LEMMA FrontierPop ==
  ASSUME NEW s \in Seq(SUBSET Locks), s # << >>, s[1] = {}
  PROVE  Entries(Tail(s)) = Entries(s)
<1>1. /\ Len(s) \in Nat /\ Len(s) >= 1 /\ Tail(s) \in Seq(SUBSET Locks)
      /\ Len(Tail(s)) = Len(s) - 1
      /\ \A i \in 1 .. (Len(s) - 1) : Tail(s)[i] = s[i + 1]
  BY SeqEmpty, SeqNonEmpty, SeqLen, SeqTail
<1>2. ASSUME NEW x
      PROVE  x \in Entries(Tail(s)) <=> x \in Entries(s)
  <2>1. /\ x \in Entries(s) <=> \E i \in 1 .. Len(s) : x \in s[i]
        /\ x \in Entries(Tail(s)) <=> \E i \in 1 .. (Len(s) - 1) : x \in s[i + 1]
    BY <1>1, FrontierMember, Zenon
  <2>2. ASSUME NEW i \in 1 .. Len(s), x \in s[i]
        PROVE  \E j \in 1 .. (Len(s) - 1) : x \in s[j + 1]
    <3>1. i - 1 \in 1 .. (Len(s) - 1) /\ (i - 1) + 1 = i
      BY <1>1, <2>2
    <3>. QED BY <2>2, <3>1, Zenon
  <2>3. ASSUME NEW j \in 1 .. (Len(s) - 1), x \in s[j + 1]
        PROVE  \E i \in 1 .. Len(s) : x \in s[i]
    <3>1. j + 1 \in 1 .. Len(s)
      BY <1>1
    <3>. QED BY <2>3, <3>1, Zenon
  <2>. QED BY <2>1, <2>2, <2>3, Zenon
<1>. QED BY <1>2, Zenon

\* The steps of a thread that stays inside the search.
LEMMA SearchSteps ==
  ASSUME TypeOK, NEW t \in Threads, ClientCall(t) \/ HandlerStep(t),
         pc[t] \in SearchPcs, pc'[t] \in SearchPcs
  PROVE  \/ lksmith_prelock_process_depends(t) \/ lksmith_search_return(t)
         \/ report_inversion(t) \/ lk_add_before(t)
         \/ \E n \in Locks : lksmith_search(t, n)
<1> USE DEF SearchPcs
<1>1. ASSUME ClientCall(t)
      PROVE  FALSE
  BY <1>1, Zenon DEF ClientCall, lksmith_prelock, lksmith_preunlock,
     pthread_mutex_init, pthread_spin_init, lksmith_destroy, Call
<1>2. ASSUME lksmith_prelock_end(t)
      PROVE  FALSE
  BY <1>2, Zenon DEF lksmith_prelock_end, Goto, TypeOK, CallsType
<1>. QED BY <1>1, <1>2, Zenon DEF HandlerStep, r_lock, lksmith_postlock,
         lksmith_postlock_error, r_unlock, lksmith_postunlock,
         lksmith_optional_init, r_pthread_spin_init, r_destroy

\* Every step keeps the search exact.
LEMMA SearchStep ==
  ASSUME TypeOK, ControlInv, SearchInv, NEW t \in Threads,
         ClientCall(t) \/ HandlerStep(t)
  PROVE  SearchInv'
<1>0. /\ pc \in [Threads -> Pcs] /\ ptr \in [Threads -> Locks \cup {None}]
      /\ before \in [Locks -> SUBSET Locks] /\ painted \subseteq Locks
      /\ stack \in Seq(SUBSET Locks)
  BY Zenon DEF TypeOK, CallsType, RegistryType, PrelockType
<1>1. ASSUME NEW u \in Threads, u # t, pc'[u] \in SearchPcs
      PROVE  ThreadSearch(u)'
  <2>1. pc'[u] = pc[u] /\ ptr'[u] = ptr[u] /\ held'[u] = held[u]
    BY <1>1, OthersUnchanged, Zenon
  <2>2. g_tree_lock = u /\ u # None
    BY <1>1, <2>1, ConstantsAssumption, Zenon DEF ControlInv, ThreadControl
  <2>3. UNCHANGED <<registry, prelock>>
    BY <1>1, <2>2, TreeLockProtects, Zenon
  <2>4. ThreadSearch(u)
    BY <1>1, <2>1, Zenon DEF SearchInv
  <2>. QED BY <2>1, <2>3, <2>4, Zenon DEF ThreadSearch, Frontier, registry, prelock
<1>2. ASSUME NEW l \in Locks, NEW o \in LockOps, NEW s \in Skips,
             lksmith_prelock(t, l, o, s)
      PROVE  ThreadSearch(t)'
  <2>1. painted' = {} /\ stack' = << >> /\ pc'[t] = "depends"
    BY <1>0, <1>2, Zenon DEF lksmith_prelock, Call, ControlInv, PrelockControl
  <2>2. Frontier' = {}
    BY <2>1, FrontierEmpty, Zenon DEF Frontier
  <2>. QED BY <2>1, <2>2, Zenon DEF ThreadSearch
<1>3. ASSUME pc[t] \in SearchPcs
      PROVE  ThreadSearch(t) /\ (pc[t] # "search" => Frontier = {})
  BY <1>3, FrontierEmpty, Zenon DEF SearchInv, ControlInv, ThreadControl, Frontier,
     SearchPcs
<1>4. ASSUME lksmith_prelock_process_depends(t)
      PROVE  ThreadSearch(t)'
  <2> DEFINE ak == held[t][idx]
  <2>1. /\ pc[t] = "depends" /\ ptr'[t] = ptr[t] /\ held' = held
        /\ UNCHANGED <<tree, before, painted, inverted>>
    BY <1>4, Zenon DEF lksmith_prelock_process_depends, Goto, tls, registry
  <2>2. ThreadSearch(t) /\ Frontier = {}
    BY <1>3, <2>1, Zenon DEF SearchPcs
  <2>3. ak \in Locks
    BY <1>4, HeldType, Zenon DEF lksmith_prelock_process_depends
  <2>4. CASE pc'[t] = "depends" /\ stack' = << >>
    <3>1. Frontier' = {}
      BY <2>4, FrontierEmpty, Zenon DEF Frontier
    <3>. QED BY <2>1, <2>2, <2>4, <3>1, Zenon DEF ThreadSearch
  <2>5. CASE /\ ak \in tree /\ ak # ptr[t] /\ pc'[t] = "search"
             /\ idx' = idx /\ stack' = <<{ak}>>
    <3>1. Frontier' = {ak}
      BY <2>3, <2>5, FrontierStart, Zenon DEF Frontier
    <3>2. Reaches(before, ak, ak)
      BY ReachesSelf, Zenon
    <3>. QED BY <2>1, <2>2, <2>5, <3>1, <3>2, Zenon DEF ThreadSearch
  <2>. QED BY <1>0, <1>4, <2>4, <2>5, Zenon DEF lksmith_prelock_process_depends, Goto
<1>5. ASSUME NEW n \in Locks, lksmith_search(t, n)
      PROVE  ThreadSearch(t)'
  <2> DEFINE rest == [stack EXCEPT ![1] = @ \ {n}]
             Rest == Entries(rest)
             ak == held[t][idx]
  <2>1. /\ pc[t] = "search" /\ ptr'[t] = ptr[t] /\ held' = held /\ n \in stack[1]
        /\ UNCHANGED <<tree, before, inverted, idx>>
    BY <1>5, Zenon DEF lksmith_search, Goto, calls, tls, registry
  <2>2. ThreadSearch(t) /\ stack # << >>
    BY <1>3, <2>1, Zenon DEF SearchPcs, ControlInv, ThreadControl
  <2>3. /\ rest \in Seq(SUBSET Locks) /\ n \in Frontier
        /\ Rest \subseteq Frontier /\ Frontier \subseteq Rest \cup {n}
    BY <1>0, <2>1, <2>2, FrontierVisit, Zenon DEF Frontier
  <2>4. /\ ak \in tree /\ ak # ptr[t] /\ \A m \in Frontier : Reaches(before, ak, m)
        /\ ~inverted => /\ ptr[t] \notin painted /\ ak \in painted \cup Frontier
                        /\ \A m \in painted : before[m] \subseteq painted \cup Frontier
    BY <2>1, <2>2, Zenon DEF ThreadSearch
  <2>5. CASE n = ptr[t]
    <3>1. pc'[t] = "hit" /\ stack' = << >>
      BY <1>0, <1>5, <2>5, Zenon DEF lksmith_search, Goto
    <3>2. Frontier' = {}
      BY <3>1, FrontierEmpty, Zenon DEF Frontier
    <3>3. Reaches(before, ak, ptr[t])
      BY <2>3, <2>4, <2>5, Zenon
    <3>. QED BY <2>1, <2>4, <3>1, <3>2, <3>3, Zenon DEF ThreadSearch
  <2>6. CASE n # ptr[t] /\ n \in painted
    <3>1. pc'[t] = "search" /\ painted' = painted /\ stack' = rest
      BY <1>5, <2>1, <2>6, Zenon DEF lksmith_search, calls
    <3>2. Frontier' = Rest
      BY <3>1, Zenon DEF Frontier
    <3> HIDE DEF Rest
    <3>3. painted \cup Frontier = painted \cup Rest
      BY <2>3, <2>6, Zenon
    <3>. QED BY <2>1, <2>3, <2>4, <3>1, <3>2, <3>3, Zenon DEF ThreadSearch
  <2>7. CASE n # ptr[t] /\ n \notin painted
    <3>1. /\ pc'[t] = "search" /\ painted' = painted \cup {n}
          /\ stack' = <<before[n]>> \o rest
      BY <1>5, <2>1, <2>7, Zenon DEF lksmith_search, calls, Frame
    <3>2. Frontier' = before[n] \cup Rest
      BY <1>0, <2>3, <3>1, FrontierPush, Zenon DEF Frontier
    <3>3. \A m \in before[n] : Reaches(before, ak, m)
      BY <2>3, <2>4, ReachesStep, Zenon
    <3> HIDE DEF Rest
    <3>4. painted \cup Frontier \subseteq painted' \cup Frontier'
      BY <2>3, <3>1, <3>2, Zenon
    <3>5. \A m \in Frontier' : Reaches(before, ak, m)
      BY <2>3, <2>4, <3>2, <3>3, Zenon
    <3>6. ASSUME ~inverted
          PROVE  /\ ptr[t] \notin painted' /\ ak \in painted' \cup Frontier'
                 /\ \A m \in painted' : before[m] \subseteq painted' \cup Frontier'
      BY <2>4, <2>7, <3>1, <3>2, <3>4, <3>6, Zenon
    <3>. QED BY <2>1, <2>4, <3>1, <3>5, <3>6, Zenon DEF ThreadSearch
  <2>. QED BY <2>5, <2>6, <2>7, Zenon
<1>6. ASSUME lksmith_search_return(t)
      PROVE  ThreadSearch(t)'
  <2>1. /\ pc[t] = "search" /\ ptr'[t] = ptr[t] /\ held' = held
        /\ stack[1] = {} /\ stack' = Tail(stack) /\ pc'[t] \in {"search", "miss"}
        /\ UNCHANGED <<tree, before, inverted, idx, painted>>
    BY <1>0, <1>6, Zenon DEF lksmith_search_return, Goto, tls, registry
  <2>2. ThreadSearch(t) /\ stack # << >>
    BY <1>3, <2>1, Zenon DEF SearchPcs, ControlInv, ThreadControl
  <2>3. Frontier' = Frontier
    BY <1>0, <2>1, <2>2, FrontierPop, Zenon DEF Frontier
  <2>. QED BY <2>1, <2>2, <2>3, Zenon DEF ThreadSearch
<1>7. ASSUME report_inversion(t) \/ lk_add_before(t)
      PROVE  ThreadSearch(t)'
  <2>1. /\ pc[t] \in {"hit", "miss"} /\ ptr'[t] = ptr[t] /\ pc'[t] = "depends"
        /\ UNCHANGED <<painted, stack>>
        /\ \/ inverted'
           \/ /\ pc[t] = "miss" /\ inverted' = inverted
              /\ \/ before' = before
                 \/ before' = AddEdge(before, held[t][idx], ptr[t])
    BY <1>0, <1>7, Zenon DEF report_inversion, lk_add_before, Goto
  <2>2. ThreadSearch(t) /\ Frontier = {} /\ Frontier' = {}
    BY <1>3, <2>1, Zenon DEF SearchPcs, Frontier
  <2>3. \A n \in painted : before'[n] = before[n] \/ n = ptr[t] \/ inverted'
    BY <1>0, <2>1, Zenon DEF AddEdge
  <2>. QED BY <2>1, <2>2, <2>3, Zenon DEF ThreadSearch
<1>8. ASSUME pc'[t] \in SearchPcs
      PROVE  ThreadSearch(t)'
  <2>1. CASE pc[t] \in SearchPcs
    <3>1. \/ lksmith_prelock_process_depends(t) \/ lksmith_search_return(t)
          \/ report_inversion(t) \/ lk_add_before(t)
          \/ \E n \in Locks : lksmith_search(t, n)
      BY <1>8, <2>1, SearchSteps, Zenon
    <3>. QED BY <1>4, <1>5, <1>6, <1>7, <3>1, Zenon
  <2>. QED BY <1>2, <1>8, <2>1, SearchEntry, Zenon
<1>. QED BY <1>1, <1>8, Zenon DEF SearchInv

-----------------------------------------------------------------------------
(***************************************************************************)
(* The order.                                                              *)
(***************************************************************************)

\* Reports are not taken back.
LEMMA LogStep ==
  ASSUME NEW t \in Threads, ClientCall(t) \/ HandlerStep(t)
  PROVE  log \subseteq log'
BY Zenon DEF ClientCall, HandlerStep, lksmith_prelock, lksmith_preunlock,
   pthread_mutex_init, pthread_spin_init, lksmith_destroy,
   lksmith_prelock_process_depends, lksmith_search, lksmith_search_return,
   report_inversion, lk_add_before, lksmith_prelock_end, r_lock,
   lksmith_postlock, lksmith_postlock_error, r_unlock, lksmith_postunlock,
   lksmith_optional_init, r_pthread_spin_init, r_destroy, Report

\* When the search has failed and nothing was reported in this call, the
\* painted locks are closed, with the held lock in them and the new one not.
LEMMA MissClosed ==
  ASSUME TypeOK, ControlInv, SearchInv, NEW t \in Threads, pc[t] = "miss",
         ~inverted
  PROVE  /\ Closed(before, painted) /\ painted \in SUBSET Locks
         /\ held[t][idx] \in painted /\ ptr[t] \notin painted
<1>1. ThreadSearch(t) /\ stack = << >>
  BY Zenon DEF SearchInv, ControlInv, ThreadControl, SearchPcs
<1>2. Frontier = {}
  BY <1>1, FrontierEmpty, Zenon DEF Frontier
<1>. QED BY <1>1, <1>2, Zenon DEF ThreadSearch, Closed, TypeOK, PrelockType

\* The recorded order stays free of cycles until an inversion is reported.
LEMMA AcyclicStep ==
  ASSUME TypeOK, ControlInv, SearchInv, AcyclicUnlessReported,
         NEW t \in Threads, ClientCall(t) \/ HandlerStep(t)
  PROVE  AcyclicUnlessReported'
<1>1. SUFFICES ASSUME "inversion" \notin log'
               PROVE  Acyclic(before')
  BY Zenon DEF AcyclicUnlessReported
<1>2. Acyclic(before) /\ before \in [Locks -> SUBSET Locks] /\ ~inverted
  BY <1>1, LogStep, Zenon
     DEF AcyclicUnlessReported, TypeOK, RegistryType, ControlInv, PrelockControl
<1>3. CASE lk_add_before(t)
  <2>1. pc[t] = "miss" /\ held[t][idx] \in Locks /\ ptr[t] \in Locks
    BY <1>3, HeldType, ArgumentType, Zenon DEF lk_add_before
  <2>2. Acyclic(AddEdge(before, held[t][idx], ptr[t]))
    BY <1>2, <2>1, MissClosed, AddEdgeAcyclic, Zenon
  <2>. QED BY <1>2, <1>3, <2>2, Zenon DEF lk_add_before
<1>4. ASSUME NEW l \in Locks, lksmith_destroy(t, l)
      PROVE  Acyclic(before')
  <2>1. before' = before \/ before' = RemoveNode(before, l)
    BY <1>4, Zenon DEF lksmith_destroy, lk_remove_before_all
  <2>2. Acyclic(RemoveNode(before, l))
    BY <1>2, RemoveNodeAcyclic, Zenon
  <2>. QED BY <1>2, <2>1, <2>2, Zenon
<1>. QED BY <1>2, <1>3, <1>4, RegistryCases, Zenon

\* A dependency goes only with one of its locks.
LEMMA EdgeKept ==
  ASSUME TypeOK, ControlInv, NEW t \in Threads, ClientCall(t) \/ HandlerStep(t),
         NEW l \in Locks, NEW a \in before[l]
  PROVE  a \in before'[l] \/ a \notin tree' \/ l \notin tree'
<1>1. before \in [Locks -> SUBSET Locks]
  BY Zenon DEF TypeOK, RegistryType
<1>2. CASE lk_add_before(t)
  BY <1>1, <1>2, Zenon DEF lk_add_before, AddEdge
<1>3. ASSUME NEW k \in Locks, lksmith_destroy(t, k)
      PROVE  a \in before'[l] \/ a \notin tree' \/ l \notin tree'
  BY <1>1, <1>3, Zenon DEF lksmith_destroy, lk_remove_before_all, RemoveNode
<1>. QED BY <1>2, <1>3, RegistryCases, Zenon

\* A lock that stays registered keeps the property recursive.
LEMMA RecursiveKept ==
  ASSUME TypeOK, ControlInv, NEW t \in Threads, ClientCall(t) \/ HandlerStep(t),
         NEW l \in Locks, l \in tree, l \in tree'
  PROVE  recursive'[l] = recursive[l]
<1>1. recursive \in [Locks -> BOOLEAN]
  BY Zenon DEF TypeOK, RegistryType
<1>2. ASSUME NEW k \in Locks, NEW o, NEW s, lksmith_prelock(t, k, o, s)
      PROVE  recursive'[l] = recursive[l]
  BY <1>1, <1>2, Zenon DEF lksmith_prelock
<1>3. ASSUME lksmith_optional_init(t)
      PROVE  recursive'[l] = recursive[l]
  BY <1>1, <1>3, Zenon DEF lksmith_optional_init
<1>4. ASSUME NEW k \in Locks, lksmith_destroy(t, k)
      PROVE  recursive'[l] = recursive[l]
  BY <1>1, <1>4, Zenon DEF lksmith_destroy
<1>5. ptr[t] \in Locks \/ pc[t] # "destroy"
  BY ArgumentType, Zenon
<1>6. \/ recursive' = recursive \/ lksmith_optional_init(t)
      \/ \E k \in Locks : lksmith_destroy(t, k)
      \/ \E k \in Locks, o \in LockOps, s \in Skips : lksmith_prelock(t, k, o, s)
  BY <1>5, Zenon DEF ClientCall, HandlerStep, lksmith_preunlock,
     pthread_mutex_init, pthread_spin_init, lksmith_prelock_process_depends,
     lksmith_search, lksmith_search_return, report_inversion, lk_add_before,
     lksmith_prelock_end, r_lock, lksmith_postlock, lksmith_postlock_error,
     r_unlock, lksmith_postunlock, r_pthread_spin_init, r_destroy, registry
<1>. QED BY <1>2, <1>3, <1>4, <1>6, Zenon

\* A thread is past the loop over its list because it has just come out of
\* lksmith_prelock or the real lock function.
LEMMA ComparedEntry ==
  ASSUME TypeOK, NEW t \in Threads, ClientCall(t) \/ HandlerStep(t),
         pc'[t] \in Compared
  PROVE  lksmith_prelock_end(t) \/ r_lock(t)
<1>1. pc \in [Threads -> Pcs]
  BY Zenon DEF TypeOK, CallsType
<1> USE DEF Compared
<1>2. ASSUME ClientCall(t)
      PROVE  FALSE
  BY <1>1, <1>2, Zenon DEF ClientCall, lksmith_prelock, lksmith_preunlock,
     pthread_mutex_init, pthread_spin_init, lksmith_destroy, Call
<1>3. ASSUME \/ lksmith_prelock_process_depends(t) \/ lksmith_search_return(t)
             \/ report_inversion(t) \/ lk_add_before(t)
             \/ \E n \in Locks : lksmith_search(t, n)
      PROVE  FALSE
  BY <1>1, <1>3, Zenon DEF lksmith_prelock_process_depends,
     lksmith_search_return,
     report_inversion, lk_add_before, lksmith_search, Goto, calls
<1>4. ASSUME \/ lksmith_postlock(t) \/ lksmith_postlock_error(t)
             \/ r_unlock(t) \/ lksmith_postunlock(t)
      PROVE  FALSE
  BY <1>1, <1>4, Zenon DEF lksmith_postlock, lksmith_postlock_error,
     r_unlock,
     lksmith_postunlock, Goto, Return
<1>5. ASSUME \/ lksmith_optional_init(t) \/ r_pthread_spin_init(t) \/ r_destroy(t)
             \/ pc[t] = "destroy" /\ lksmith_destroy(t, ptr[t])
      PROVE  FALSE
  BY <1>1, <1>5, Zenon DEF lksmith_optional_init, r_pthread_spin_init,
     r_destroy,
     lksmith_destroy, Goto, Return
<1>. QED BY <1>2, <1>3, <1>4, <1>5, Zenon DEF HandlerStep

\* What lksmith_prelock has left behind stays while another thread steps: the
\* locks of a waiting thread have holder entries and so are not destroyed.
LEMMA OthersOrder ==
  ASSUME CountFacts(Locks), TypeOK, ControlInv, HoldersInv, OwnerInv,
         RegistryInv, SearchInv,
         OrderInv, NEW t \in Threads, ClientCall(t) \/ HandlerStep(t),
         NEW u \in Threads, u # t,
         pc'[u] \in SearchPcs \cup Compared, ~skip'[u]
  PROVE  ThreadOrder(u)'
<1>1. /\ pc'[u] = pc[u] /\ ptr'[u] = ptr[u] /\ held'[u] = held[u]
      /\ skip'[u] = skip[u]
  BY OthersUnchanged, Zenon
<1>2. ThreadOrder(u) /\ log \subseteq log'
  BY <1>1, LogStep, Zenon DEF OrderInv
<1>3. CASE pc[u] \in SearchPcs
  <2>1. g_tree_lock = u /\ u # None
    BY <1>3, ConstantsAssumption, Zenon DEF ControlInv, ThreadControl
  <2>2. UNCHANGED <<registry, prelock>>
    BY <2>1, TreeLockProtects, Zenon
  <2>. QED BY <1>1, <1>2, <2>2, Zenon DEF ThreadOrder, Processed, registry, prelock
<1>4. CASE pc[u] \in Compared
  <2>0. /\ held[u] \in Seq(Locks) /\ DOMAIN held[u] = 1 .. Len(held[u])
        /\ holders \in [Locks -> [Threads -> Nat]]
    BY SeqLen, Zenon DEF TypeOK, TlsType, RegistryType
  <2>1. ASSUME NEW l \in Locks, holders[l][u] >= 1
        PROVE  l \in tree'
    <3>1. RegistryInv'
      BY RegistryStep, Zenon
    <3>2. holders'[l][u] = holders[l][u]
      BY OthersBooks, Zenon
    <3>3. holders'[l][u] > 0
      BY <2>0, <2>1, <3>2
    <3>. QED BY <3>1, <3>3, Zenon DEF RegistryInv
  <2>2. ptr[u] \in Locks /\ ptr[u] \in tree /\ ptr[u] \in tree'
    BY <1>4, <2>1, PendingRegistered, Zenon DEF Pending, Compared
  <2>3. recursive'[ptr[u]] = recursive[ptr[u]]
    BY <2>2, RecursiveKept, Zenon
  <2>4. ASSUME NEW i \in DOMAIN held[u], held[u][i] \in before[ptr[u]]
        PROVE  held[u][i] \in before'[ptr[u]]
    <3>1. held[u][i] \in Locks /\ tls_contains_lid(held[u], held[u][i])
      BY <2>0, SeqElement, Zenon DEF tls_contains_lid
    <3>2. held[u][i] \in tree'
      BY <2>1, <3>1, HeldRegistered, Zenon
    <3>. QED BY <2>2, <2>4, <3>2, EdgeKept, Zenon
  <2>5. Processed(u) = DOMAIN held[u] /\ Processed(u)' = DOMAIN held[u]
    BY <1>1, <1>4, Zenon DEF Processed
  <2>. QED BY <1>1, <1>2, <2>3, <2>4, <2>5, Zenon DEF ThreadOrder
<1>. QED BY <1>1, <1>3, <1>4, Zenon

\* Every step of lksmith_prelock leaves a dependency or a report.
LEMMA OrderStep ==
  ASSUME CountFacts(Locks), TypeOK, ControlInv, HoldersInv, OwnerInv,
         RegistryInv, SearchInv,
         OrderInv, NEW t \in Threads, ClientCall(t) \/ HandlerStep(t)
  PROVE  OrderInv'
<1>0. /\ held[t] \in Seq(Locks) /\ DOMAIN held[t] = 1 .. Len(held[t])
      /\ Len(held[t]) \in Nat /\ idx \in Nat
      /\ pc \in [Threads -> Pcs] /\ skip \in [Threads -> BOOLEAN]
      /\ before \in [Locks -> SUBSET Locks]
  BY SeqLen, Zenon DEF TypeOK, TlsType, CallsType, PrelockType, RegistryType
<1>1. SUFFICES ASSUME pc'[t] \in SearchPcs \cup Compared, ~skip'[t]
               PROVE  ThreadOrder(t)'
  BY OthersOrder, Zenon DEF OrderInv
<1>2. CASE lksmith_prelock_end(t)
  <2>1. /\ pc[t] = "depends" /\ pc'[t] = "rlock" /\ idx > Len(held[t])
        /\ UNCHANGED <<before, recursive, held, ptr, skip, log>>
    BY <1>0, <1>2, Zenon DEF lksmith_prelock_end, Goto, tls
  <2>2. ThreadOrder(t)
    BY <1>1, <2>1, Zenon DEF OrderInv, SearchPcs
  <2>3. Processed(t)' = DOMAIN held[t] /\ Processed(t) = 1 .. (idx - 1)
    BY <2>1, Zenon DEF Processed, Compared
  <2>4. Processed(t)' \subseteq Processed(t)
    BY <1>0, <2>1, <2>3
  <2>. QED BY <2>1, <2>2, <2>4, Zenon DEF ThreadOrder
<1>3. ASSUME NEW l \in Locks, NEW o \in LockOps, NEW s \in Skips,
             lksmith_prelock(t, l, o, s)
      PROVE  ThreadOrder(t)'
  <2>1. pc'[t] = "depends" /\ skip'[t] = s
    BY <1>0, <1>3, Zenon DEF lksmith_prelock, Call
  <2>2. idx' = 1
    BY <1>1, <1>3, <2>1, Zenon DEF lksmith_prelock
  <2>3. Processed(t)' = {}
    BY <2>1, <2>2 DEF Processed, Compared
  <2>. QED BY <2>3, Zenon DEF ThreadOrder
<1>4. CASE pc[t] \in SearchPcs /\ pc'[t] \in SearchPcs
  <2>1. /\ ptr'[t] = ptr[t] /\ skip' = skip /\ held' = held
        /\ UNCHANGED <<tree, recursive>> /\ log \subseteq log'
        /\ \A a \in before[ptr[t]] : a \in before'[ptr[t]]
    <3>1. ptr[t] \in Locks
      BY <1>4, ArgumentType, Zenon DEF SearchPcs
    <3>. QED BY <1>0, <1>4, <3>1, SearchSteps, LogStep, Zenon
         DEF lksmith_prelock_process_depends, lksmith_search_return, AddEdge,
         report_inversion, lk_add_before, lksmith_search, Goto, calls, registry,
         tls
  <2>2. ThreadOrder(t) /\ Processed(t) = 1 .. (idx - 1)
        /\ Processed(t)' = 1 .. (idx' - 1)
    BY <1>1, <1>4, <2>1, Zenon DEF OrderInv, Processed, SearchPcs, Compared
  <2>3. ASSUME NEW i \in Processed(t)
        PROVE  /\ "edge" \notin Oom /\ "inversion" \notin log' /\ held[t][i] # ptr[t]
                  => held[t][i] \in before'[ptr[t]]
               /\ "recursion" \notin log' /\ held[t][i] = ptr[t]
                  => recursive[ptr[t]]
    BY <2>1, <2>2, <2>3, Zenon DEF ThreadOrder
  <2>4. CASE idx' = idx
    BY <2>1, <2>2, <2>3, <2>4, Zenon DEF ThreadOrder
  <2>5. CASE /\ idx' = idx + 1
             /\ /\ "edge" \notin Oom /\ "inversion" \notin log'
                   /\ held[t][idx] # ptr[t]
                   => held[t][idx] \in before'[ptr[t]]
                /\ "recursion" \notin log' /\ held[t][idx] = ptr[t]
                   => recursive[ptr[t]]
    <3>1. \A i \in Processed(t)' : i \in Processed(t) \/ i = idx
      BY <1>0, <2>2, <2>5
    <3>. QED BY <2>1, <2>3, <2>5, <3>1, Zenon DEF ThreadOrder
  <2>6. CASE report_inversion(t) \/ lk_add_before(t)
    <3>1. held[t][idx] # ptr[t]
      BY <2>6, Zenon DEF SearchInv, ThreadSearch, report_inversion, lk_add_before,
         SearchPcs
    <3>2. ptr[t] \in Locks
      BY <1>4, ArgumentType, Zenon DEF SearchPcs
    <3>. QED BY <1>0, <2>5, <2>6, <3>1, <3>2, ZenonT(30)
             DEF report_inversion, lk_add_before, AddEdge
  <2>7. CASE lksmith_prelock_process_depends(t)
    <3>1. idx \in 1 .. Len(held[t]) /\ held[t][idx] \in Locks
      BY <2>7, HeldType, Zenon DEF lksmith_prelock_process_depends
    <3>2. tls_contains_lid(held[t], held[t][idx])
      BY <1>0, <3>1, Zenon DEF tls_contains_lid
    <3>3. held[t][idx] \in tree
      BY <3>1, <3>2, HeldRegistered, Zenon
    <3>. QED BY <2>4, <2>5, <2>7, <3>3, Zenon
        DEF lksmith_prelock_process_depends
  <2>8. CASE lksmith_search_return(t) \/ \E n \in Locks : lksmith_search(t, n)
    BY <2>4, <2>8, Zenon DEF lksmith_search_return, lksmith_search
  <2>. QED BY <1>4, <2>6, <2>7, <2>8, SearchSteps, Zenon
<1>5. CASE r_lock(t)
  <2>1. /\ pc[t] = "rlock" /\ pc'[t] \in {"postlock", "postfail"}
        /\ UNCHANGED <<before, recursive, held, ptr, skip, log>>
    BY <1>0, <1>5, Zenon DEF r_lock, Goto, registry, tls
  <2>2. pc'[t] = "postlock" /\ ThreadOrder(t)
    BY <1>1, <2>1, Zenon DEF OrderInv, SearchPcs, Compared
  <2>3. Processed(t)' = DOMAIN held[t] /\ Processed(t) = DOMAIN held[t]
    BY <2>1, <2>2, Zenon DEF Processed, Compared
  <2>. QED BY <2>1, <2>2, <2>3, Zenon DEF ThreadOrder
<1>. QED BY <1>1, <1>2, <1>3, <1>4, <1>5, SearchEntry, ComparedEntry, Zenon

=============================================================================
