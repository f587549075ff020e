----------------------- MODULE LocksmithControlProofs -----------------------
(***************************************************************************)
(* The proof that the steps of Locksmith keep the types of its variables   *)
(* and its control states; what a step leaves alone (the data of the other *)
(* threads, and all of the registry while another thread holds             *)
(* g_tree_lock); and the cases and facts that the proofs about its books   *)
(* have in common.                                                         *)
(***************************************************************************)
EXTENDS Locksmith, LockDataProofs

-----------------------------------------------------------------------------
(***************************************************************************)
(* Types.                                                                  *)
(***************************************************************************)

\* The control states and the names of the handlers.
LEMMA PcsOps ==
  /\ Pcs = {"idle", "depends", "search", "hit", "miss", "rlock", "postlock",
            "postfail", "runlock", "postunlock", "optinit", "rinit", "destroy",
            "rdestroy"}
  /\ \A o \in LockOps : o \in Ops
  /\ \A o \in {"none", "unlock", "init", "init_recursive", "destroy"} : o \in Ops
BY ConstantsAssumption, Zenon DEF Pcs, SearchPcs, Ops

\* A return keeps the types of the variables for the calls in progress ...
LEMMA ReturnType ==
  ASSUME CallsType, NEW t \in Threads, Return(t)
  PROVE  CallsType'
BY PcsOps, Zenon DEF CallsType, Return, Pcs

\* ... and so does going on with the next step ...
LEMMA GotoType ==
  ASSUME CallsType, NEW t \in Threads, NEW p \in Pcs, Goto(t, p)
  PROVE  CallsType'
BY Zenon DEF CallsType, Goto

\* ... and the call of a handler.
LEMMA CallType ==
  ASSUME CallsType, NEW t \in Threads, NEW l \in Locks, NEW o \in Ops,
         NEW p \in Pcs, Call(t, l, o, p), skip' \in [Threads -> BOOLEAN]
  PROVE  CallsType'
BY Zenon DEF CallsType, Call

\* Variables that do not change keep their types.
LEMMA UnchangedTypes ==
  /\ RegistryType /\ UNCHANGED registry => RegistryType'
  /\ PrelockType /\ UNCHANGED prelock => PrelockType'
  /\ TlsType /\ UNCHANGED tls => TlsType'
  /\ RealType /\ UNCHANGED real => RealType'
  /\ CallsType /\ UNCHANGED calls => CallsType'
BY Zenon DEF RegistryType, registry, PrelockType, prelock, TlsType, tls, RealType,
       real, CallsType, calls

\* A thread inside a handler has a lock as its argument; one inside the search
\* is at a valid position of its list.
LEMMA ArgumentType ==
  ASSUME TypeOK, ControlInv, NEW t \in Threads, pc[t] # "idle"
  PROVE  ptr[t] \in Locks
BY Zenon DEF TypeOK, CallsType, ControlInv, ThreadControl

\* The entry of the list that a search looks at is a lock.
LEMMA HeldType ==
  ASSUME TypeOK, ControlInv, NEW t \in Threads,
         \/ pc[t] \in {"search", "hit", "miss"}
         \/ pc[t] = "depends" /\ idx <= Len(held[t])
  PROVE  idx \in 1 .. Len(held[t]) /\ held[t][idx] \in Locks
<1>1. held[t] \in Seq(Locks) /\ Len(held[t]) \in Nat
  BY SeqLen, Zenon DEF TypeOK, TlsType
<1>2. idx \in 1 .. Len(held[t])
  BY <1>1 DEF ControlInv, ThreadControl, SearchPcs
<1>. QED BY <1>1, <1>2, SeqElement, Zenon

\* The types are kept by every step; the unsigned counter num_spins stays a
\* natural number because preunlock has found the lock in the list.
LEMMA TypeStep ==
  ASSUME CountFacts(Locks), TypeOK, ControlInv, SpinCount, Next
  PROVE  TypeOK'
<1>1. PICK t \in Threads : ClientCall(t) \/ HandlerStep(t)
  BY Zenon DEF Next
<1> USE DEF TypeOK
<1>2. ASSUME NEW l \in Locks, NEW o \in LockOps, NEW s \in Skips,
             lksmith_prelock(t, l, o, s)
      PROVE  TypeOK'
  <2>1. CallsType'
    <3>1. skip' \in [Threads -> BOOLEAN]
      BY <1>2, ConstantsAssumption, Zenon DEF lksmith_prelock, CallsType
    <3>. QED BY <1>2, <3>1, CallType, PcsOps, Zenon DEF lksmith_prelock, Pcs
  <2>2. RegistryType'
    BY <1>2, Zenon DEF lksmith_prelock, RegistryType
  <2>3. PrelockType'
    <3>1. Len(held[t]) \in Nat
      BY SeqLen, Zenon DEF TlsType
    <3>. QED BY <1>2, <3>1 DEF lksmith_prelock, PrelockType
  <2>. QED BY <1>2, <2>1, <2>2, <2>3, UnchangedTypes, Zenon DEF lksmith_prelock
<1>3. ASSUME NEW l \in Locks, lksmith_preunlock(t, l)
      PROVE  TypeOK'
  <2>1. CallsType'
    BY <1>3, CallType, PcsOps, Zenon DEF lksmith_preunlock, Pcs, CallsType
  <2>2. num_spins' \in [Threads -> Nat]
    <3>1. CASE l \in Spins
      <4>1. held[t] \in Seq(Locks) /\ pc[t] = "idle"
        BY <1>3, Zenon DEF lksmith_preunlock, TlsType, Call
      <4>2. CountOf(held[t], Spins) >= 1
        BY <1>3, <3>1, <4>1, CountContains, Zenon DEF lksmith_preunlock
      <4>3. num_spins[t] \in Nat /\ num_spins[t] = CountOf(held[t], Spins)
        BY <4>1 DEF SpinCount, Indicator, TlsType
      <4>. QED BY <1>3, <3>1, <4>2, <4>3 DEF lksmith_preunlock, TlsType
    <3>2. CASE l \notin Spins
      BY <1>3, <3>2, Zenon DEF lksmith_preunlock, TlsType
    <3>. QED BY <3>1, <3>2, Zenon
  <2>3. TlsType'
    BY <1>3, <2>2, Zenon DEF lksmith_preunlock, TlsType
  <2>. QED BY <1>3, <2>1, <2>3, UnchangedTypes, Zenon DEF lksmith_preunlock
<1>4. ASSUME NEW l \in Locks, NEW ty \in AttrTypes, pthread_mutex_init(t, l, ty)
      PROVE  TypeOK'
  <2>1. CallsType'
    BY <1>4, CallType, PcsOps, Zenon DEF pthread_mutex_init, Pcs, CallsType
  <2>2. RealType'
    BY <1>4, ConstantsAssumption, Zenon
       DEF pthread_mutex_init, RealType, Kinds, g_compatible_with_errcheck
  <2>. QED BY <1>4, <2>1, <2>2, UnchangedTypes, Zenon DEF pthread_mutex_init
<1>5. ASSUME NEW l \in Locks, pthread_spin_init(t, l)
      PROVE  TypeOK'
  <2>1. CallsType'
    BY <1>5, CallType, PcsOps, Zenon DEF pthread_spin_init, Pcs, CallsType
  <2>. QED BY <1>5, <2>1, UnchangedTypes, Zenon DEF pthread_spin_init
<1>6. ASSUME NEW l \in Locks, lksmith_destroy(t, l)
      PROVE  TypeOK'
  <2>1. CallsType'
    <3>1. CASE pc[t] = "destroy"
      BY <1>6, <3>1, ReturnType, GotoType, PcsOps, Zenon DEF lksmith_destroy
    <3>2. CASE pc[t] # "destroy"
      BY <1>6, <3>2, CallType, PcsOps, UnchangedTypes, Zenon
         DEF lksmith_destroy, CallsType, calls
    <3>. QED BY <3>1, <3>2, Zenon
  <2>2. RegistryType'
    BY <1>6, Zenon DEF lksmith_destroy, lk_remove_before_all, RemoveNode,
       RegistryType
  <2>. QED BY <1>6, <2>1, <2>2, UnchangedTypes, Zenon DEF lksmith_destroy
<1>7. ASSUME lksmith_prelock_process_depends(t)
      PROVE  TypeOK'
  <2>1. held[t][idx] \in Locks
    BY <1>7, HeldType, Zenon DEF lksmith_prelock_process_depends
  <2>2. CallsType'
    BY <1>7, GotoType, PcsOps, Zenon DEF lksmith_prelock_process_depends
  <2>3. PrelockType'
    <3>1. <<{held[t][idx]}>> \in Seq(SUBSET Locks) /\ << >> \in Seq(SUBSET Locks)
      BY <2>1
    <3>2. stack' \in Seq(SUBSET Locks)
      BY <1>7, <3>1, Zenon DEF lksmith_prelock_process_depends
    <3>. QED BY <1>7, <3>2 DEF lksmith_prelock_process_depends, PrelockType
  <2>4. log' \subseteq Errors
    BY <1>7, Zenon DEF lksmith_prelock_process_depends, Errors, LogicErrors
  <2>. QED BY <1>7, <2>2, <2>3, <2>4, UnchangedTypes, Zenon
           DEF lksmith_prelock_process_depends
<1>8. ASSUME NEW n \in Locks, lksmith_search(t, n)
      PROVE  TypeOK'
  <2>1. stack \in Seq(SUBSET Locks) /\ Len(stack) \in Nat \ {0}
    BY <1>8, SeqEmpty, SeqNonEmpty, Zenon DEF lksmith_search, ControlInv,
       ThreadControl, PrelockType
  <2> DEFINE rest == [stack EXCEPT ![1] = @ \ {n}]
  <2>2. rest \in Seq(SUBSET Locks)
    <3>1. stack[1] \ {n} \in SUBSET Locks
      BY <2>1, SeqElement
    <3>. QED BY <2>1, <3>1, SeqExcept
  <2>3. <<before[n]>> \o rest \in Seq(SUBSET Locks)
    <3>1. <<before[n]>> \in Seq(SUBSET Locks)
      BY DEF RegistryType
    <3>. QED BY <2>2, <3>1, SeqConcat, Zenon
  <2>4. PrelockType'
    <3>1. << >> \in Seq(SUBSET Locks)
      OBVIOUS
    <3>2. stack' \in Seq(SUBSET Locks) /\ painted' \subseteq Locks
      BY <1>8, <2>2, <2>3, <3>1, Zenon DEF lksmith_search, Frame, PrelockType
    <3>. QED BY <1>8, <3>2, Zenon DEF lksmith_search, PrelockType
  <2>5. CallsType'
    BY <1>8, GotoType, PcsOps, UnchangedTypes, Zenon DEF lksmith_search
  <2>. QED BY <1>8, <2>4, <2>5, UnchangedTypes, Zenon DEF lksmith_search
<1>9. ASSUME lksmith_search_return(t)
      PROVE  TypeOK'
  <2>1. PrelockType'
    BY <1>9, SeqTail, Zenon
       DEF lksmith_search_return, ControlInv, ThreadControl, PrelockType
  <2>2. CallsType'
    BY <1>9, GotoType, PcsOps, Zenon DEF lksmith_search_return
  <2>. QED BY <1>9, <2>1, <2>2, UnchangedTypes, Zenon DEF lksmith_search_return
<1>10. ASSUME report_inversion(t)
       PROVE  TypeOK'
  <2>1. PrelockType' /\ log' \subseteq Errors
    BY <1>10 DEF report_inversion, PrelockType, Errors
  <2>2. CallsType'
    BY <1>10, GotoType, PcsOps, Zenon DEF report_inversion
  <2>. QED BY <1>10, <2>1, <2>2, UnchangedTypes, Zenon DEF report_inversion
<1>11. ASSUME lk_add_before(t)
       PROVE  TypeOK'
  <2>1. held[t][idx] \in Locks /\ ptr[t] \in Locks
    BY <1>11, HeldType, ArgumentType, Zenon DEF lk_add_before
  <2>2. RegistryType'
    BY <1>11, <2>1 DEF lk_add_before, AddEdge, RegistryType
  <2>3. CallsType' /\ PrelockType'
    BY <1>11, GotoType, PcsOps DEF lk_add_before, PrelockType
  <2>. QED BY <1>11, <2>2, <2>3, UnchangedTypes, Zenon DEF lk_add_before
<1>12. ASSUME lksmith_prelock_end(t)
       PROVE  TypeOK'
  <2>1. RegistryType'
    <3>1. ptr[t] \in Locks /\ holders[ptr[t]] \in [Threads -> Nat]
      BY <1>12, ArgumentType, Zenon DEF lksmith_prelock_end, RegistryType
    <3>2. holders' \in [Locks -> [Threads -> Nat]]
      BY <1>12, <3>1 DEF lksmith_prelock_end, lk_holder_add, RegistryType
    <3>. QED BY <1>12, <3>2, Zenon DEF lksmith_prelock_end, RegistryType
  <2>2. PrelockType'
    <3>1. << >> \in Seq(SUBSET Locks)
      OBVIOUS
    <3>. QED BY <1>12, <3>1, Zenon DEF lksmith_prelock_end, PrelockType
  <2>3. CallsType'
    BY <1>12, GotoType, PcsOps, Zenon DEF lksmith_prelock_end
  <2>. QED BY <1>12, <2>1, <2>2, <2>3, UnchangedTypes, Zenon DEF lksmith_prelock_end
<1>13. ASSUME r_lock(t)
       PROVE  TypeOK'
  <2>1. CallsType'
    BY <1>13, GotoType, PcsOps, Zenon DEF r_lock
  <2>2. RealType'
    BY <1>13 DEF r_lock, RealType
  <2>. QED BY <1>13, <2>1, <2>2, UnchangedTypes, Zenon DEF r_lock
<1>14. ASSUME lksmith_postlock(t)
       PROVE  TypeOK'
  <2>1. tls_append_held(held[t], ptr[t]) \in Seq(Locks)
    BY <1>14, ArgumentType, CountAppend, Zenon DEF lksmith_postlock, TlsType
  <2>2. TlsType'
    <3>1. held' \in [Threads -> Seq(Locks)]
      BY <1>14, <2>1, Zenon DEF lksmith_postlock, TlsType
    <3>2. num_spins' \in [Threads -> Nat]
      <4>1. \/ num_spins' = num_spins
            \/ num_spins' = [num_spins EXCEPT ![t] = num_spins[t] + 1]
        BY <1>14, Zenon DEF lksmith_postlock, TlsType
      <4>. QED BY <4>1, SMTT(30) DEF TlsType
    <3>. QED BY <3>1, <3>2, Zenon DEF TlsType
  <2>3. RegistryType'
    BY <1>14, Zenon DEF lksmith_postlock, RegistryType
  <2>4. CallsType'
    BY <1>14, ReturnType, Zenon DEF lksmith_postlock
  <2>5. log' \subseteq Errors
    BY <1>14, Zenon DEF lksmith_postlock, Report, Errors, LogicErrors
  <2>. QED BY <1>14, <2>2, <2>3, <2>4, <2>5, UnchangedTypes, Zenon
           DEF lksmith_postlock
<1>15. ASSUME lksmith_postlock_error(t)
       PROVE  TypeOK'
  <2>1. RegistryType'
    BY <1>15, SMTT(30) DEF lksmith_postlock_error, lk_holder_remove,
       RegistryType
  <2>2. CallsType'
    BY <1>15, ReturnType, Zenon DEF lksmith_postlock_error
  <2>3. log' \subseteq Errors
    BY <1>15, Zenon DEF lksmith_postlock_error, Errors, LogicErrors
  <2>. QED BY <1>15, <2>1, <2>2, <2>3, UnchangedTypes, Zenon
           DEF lksmith_postlock_error
<1>16. ASSUME r_unlock(t)
       PROVE  TypeOK'
  <2>1. CallsType'
    BY <1>16, GotoType, ReturnType, PcsOps, Zenon DEF r_unlock
  <2>2. RealType'
    BY <1>16, SMTT(30) DEF r_unlock, RealType
  <2>. QED BY <1>16, <2>1, <2>2, UnchangedTypes, Zenon DEF r_unlock
<1>17. ASSUME lksmith_postunlock(t)
       PROVE  TypeOK'
  <2>1. tls_remove_held(held[t], ptr[t]) \in Seq(Locks)
    BY <1>17, CountRemove, Zenon DEF lksmith_postunlock, ControlInv,
       ThreadControl, TlsType
  <2>2. TlsType'
    BY <1>17, <2>1, Zenon DEF lksmith_postunlock, TlsType
  <2>3. RegistryType'
    BY <1>17 DEF lksmith_postunlock, lk_holder_remove, RegistryType
  <2>4. CallsType'
    BY <1>17, ReturnType, Zenon DEF lksmith_postunlock
  <2>5. log' \subseteq Errors
    BY <1>17, Zenon DEF lksmith_postunlock, Errors, LogicErrors
  <2>. QED BY <1>17, <2>2, <2>3, <2>4, <2>5, UnchangedTypes, Zenon
           DEF lksmith_postunlock
<1>18. ASSUME lksmith_optional_init(t)
       PROVE  TypeOK'
  <2>1. ptr[t] \in Locks
    BY <1>18, ArgumentType, Zenon DEF lksmith_optional_init
  <2>2. RegistryType'
    BY <1>18, <2>1, Zenon DEF lksmith_optional_init, RegistryType
  <2>3. CallsType'
    BY <1>18, GotoType, ReturnType, PcsOps, Zenon DEF lksmith_optional_init
  <2>. QED BY <1>18, <2>2, <2>3, UnchangedTypes, Zenon DEF lksmith_optional_init
<1>19. ASSUME r_pthread_spin_init(t)
       PROVE  TypeOK'
  <2>1. CallsType'
    BY <1>19, GotoType, ReturnType, PcsOps, Zenon DEF r_pthread_spin_init
  <2>. QED BY <1>19, <2>1, UnchangedTypes, Zenon DEF r_pthread_spin_init
<1>20. ASSUME r_destroy(t)
       PROVE  TypeOK'
  <2>1. CallsType'
    BY <1>20, ReturnType, Zenon DEF r_destroy
  <2>2. RealType'
    BY <1>20, Zenon DEF r_destroy, RealType, Kinds
  <2>. QED BY <1>20, <2>1, <2>2, UnchangedTypes, Zenon DEF r_destroy
<1>21. ptr[t] \in Locks \/ pc[t] # "destroy"
  BY ArgumentType, Zenon
<1>. HIDE DEF TypeOK
<1>. QED BY <1>1, <1>2, <1>3, <1>4, <1>5, <1>6, <1>7, <1>8, <1>9, <1>10, <1>11,
            <1>12, <1>13, <1>14, <1>15, <1>16, <1>17, <1>18, <1>19, <1>20, <1>21, Zenon
         DEF ClientCall, HandlerStep

-----------------------------------------------------------------------------
(***************************************************************************)
(* Frames.                                                                 *)
(***************************************************************************)

\* A step of thread t leaves alone what belongs to the other threads.
LEMMA OthersUnchanged ==
  ASSUME TypeOK, NEW t \in Threads, ClientCall(t) \/ HandlerStep(t),
         NEW u \in Threads, u # t
  PROVE  /\ pc'[u] = pc[u] /\ ptr'[u] = ptr[u] /\ op'[u] = op[u]
         /\ skip'[u] = skip[u]
         /\ held'[u] = held[u] /\ num_spins'[u] = num_spins[u]
<1> DEFINE Same == /\ pc'[u] = pc[u] /\ ptr'[u] = ptr[u] /\ op'[u] = op[u]
                   /\ skip'[u] = skip[u]
                   /\ held'[u] = held[u] /\ num_spins'[u] = num_spins[u]
<1> USE DEF TypeOK, CallsType, TlsType
<1>1. ASSUME NEW l, NEW o, NEW p, Call(t, l, o, p), UNCHANGED tls,
             skip' = skip \/ \E s : skip' = [skip EXCEPT ![t] = s]
      PROVE  Same
  BY <1>1, Zenon DEF Call, tls
<1>2. ASSUME UNCHANGED tls, (\E p : Goto(t, p)) \/ Return(t) \/ UNCHANGED calls
      PROVE  Same
  BY <1>2, Zenon DEF Goto, Return, tls, calls
<1>3. ASSUME lksmith_postlock(t) \/ lksmith_postunlock(t)
      PROVE  Same
  BY <1>3, Zenon DEF lksmith_postlock, lksmith_postunlock, Return
<1>4. ASSUME NEW l, lksmith_preunlock(t, l)
      PROVE  Same
  BY <1>4, Zenon DEF lksmith_preunlock, Call
<1>5. ASSUME NEW l, lksmith_destroy(t, l)
      PROVE  Same
  <2>1. CASE pc[t] = "destroy"
    BY <1>5, <2>1, <1>2, Zenon DEF lksmith_destroy
  <2>2. CASE pc[t] # "destroy"
    BY <1>5, <2>2, <1>1, <1>2, Zenon DEF lksmith_destroy, calls
  <2>. QED BY <2>1, <2>2, Zenon
<1>6. ASSUME NEW l, NEW o, NEW s, lksmith_prelock(t, l, o, s)
      PROVE  Same
  BY <1>6, <1>1, Zenon DEF lksmith_prelock
<1>7. ASSUME NEW l, NEW ty, pthread_mutex_init(t, l, ty)
      PROVE  Same
  BY <1>7, <1>1, Zenon DEF pthread_mutex_init
<1>8. ASSUME NEW l, pthread_spin_init(t, l)
      PROVE  Same
  BY <1>8, <1>1, Zenon DEF pthread_spin_init
<1>9. ASSUME NEW n, lksmith_search(t, n)
      PROVE  Same
  BY <1>9, <1>2, Zenon DEF lksmith_search
<1>10. ASSUME \/ lksmith_prelock_process_depends(t) \/ lksmith_search_return(t)
              \/ report_inversion(t) \/ lk_add_before(t)
              \/ lksmith_prelock_end(t)
       PROVE  Same
  BY <1>10, <1>2, Zenon DEF lksmith_prelock_process_depends,
     lksmith_search_return,
         report_inversion, lk_add_before, lksmith_prelock_end
<1>11. ASSUME \/ r_lock(t) \/ r_unlock(t) \/ r_pthread_spin_init(t)
              \/ r_destroy(t)
       PROVE  Same
  BY <1>11, <1>2, Zenon DEF r_lock, r_unlock, r_pthread_spin_init, r_destroy
<1>12. ASSUME lksmith_postlock_error(t) \/ lksmith_optional_init(t)
       PROVE  Same
  BY <1>12, <1>2, Zenon DEF lksmith_postlock_error, lksmith_optional_init
<1> HIDE DEF Same
<1>13. Same
  BY <1>3, <1>4, <1>5, <1>6, <1>7, <1>8, <1>9, <1>10, <1>11, <1>12, Zenon
     DEF ClientCall, HandlerStep
<1>. QED BY <1>13, Zenon DEF Same

\* While another thread holds g_tree_lock, a step of thread t changes neither
\* the registry nor the locals of lksmith_prelock.
LEMMA TreeLockProtects ==
  ASSUME TypeOK, ControlInv, NEW t \in Threads, ClientCall(t) \/ HandlerStep(t),
         g_tree_lock # None, g_tree_lock # t
  PROVE  UNCHANGED <<registry, prelock>>
<1>1. pc[t] \notin SearchPcs
  BY Zenon DEF ControlInv, ThreadControl
<1>2. ASSUME NEW n, lksmith_search(t, n)
      PROVE  FALSE
  BY <1>1, <1>2, Zenon DEF lksmith_search, SearchPcs
<1>3. ASSUME \/ lksmith_prelock_process_depends(t) \/ lksmith_search_return(t)
             \/ report_inversion(t) \/ lk_add_before(t)
             \/ lksmith_prelock_end(t)
      PROVE  FALSE
  BY <1>1, <1>3, Zenon DEF lksmith_prelock_process_depends,
     lksmith_search_return,
         report_inversion, lk_add_before, lksmith_prelock_end, SearchPcs
<1>. QED
  BY <1>2, <1>3, Zenon DEF ClientCall, HandlerStep, lksmith_prelock,
     lksmith_preunlock,
     pthread_mutex_init, pthread_spin_init, lksmith_destroy, r_lock,
     lksmith_postlock, lksmith_postlock_error, r_unlock, lksmith_postunlock,
     lksmith_optional_init, r_pthread_spin_init, r_destroy

-----------------------------------------------------------------------------
(***************************************************************************)
(* Control.                                                                *)
(***************************************************************************)

\* g_tree_lock stays, is taken by the thread that steps, or is released.
LEMMA TreeLockStep ==
  ASSUME NEW t \in Threads, ClientCall(t) \/ HandlerStep(t)
  PROVE  g_tree_lock' \in {g_tree_lock, t, None}
BY Zenon DEF ClientCall, HandlerStep, lksmith_prelock, lksmith_preunlock,
   pthread_mutex_init, pthread_spin_init, lksmith_destroy,
   lksmith_prelock_process_depends, lksmith_search, lksmith_search_return,
   report_inversion, lk_add_before, lksmith_prelock_end, r_lock,
   lksmith_postlock, lksmith_postlock_error, r_unlock, lksmith_postunlock,
   lksmith_optional_init, r_pthread_spin_init, r_destroy, prelock

\* The control of the threads that do not step.
LEMMA OthersControl ==
  ASSUME TypeOK, ControlInv, NEW t \in Threads, ClientCall(t) \/ HandlerStep(t),
         NEW u \in Threads, u # t
  PROVE  ThreadControl(u)'
<1>1. /\ pc'[u] = pc[u] /\ ptr'[u] = ptr[u] /\ held'[u] = held[u]
  BY OthersUnchanged, Zenon
<1>2. ThreadControl(u)
  BY Zenon DEF ControlInv
<1>3. CASE g_tree_lock = u
  <2>1. u # None
    BY ConstantsAssumption, Zenon
  <2>2. UNCHANGED prelock
    BY <1>3, <2>1, TreeLockProtects, Zenon
  <2>. QED BY <1>1, <1>2, <2>2, Zenon DEF ThreadControl, prelock
<1>4. CASE g_tree_lock # u
  <2>1. g_tree_lock' # u
    BY <1>4, TreeLockStep, ConstantsAssumption, Zenon
  <2>. QED BY <1>1, <1>2, <1>4, <2>1, Zenon DEF ThreadControl, SearchPcs
<1>. QED BY <1>3, <1>4, Zenon

\* Control survives steps that keep to themselves.
LEMMA QuietControl ==
  ASSUME TypeOK, ControlInv, NEW t \in Threads, UNCHANGED <<prelock, held>>,
         pc[t] \notin SearchPcs, log \subseteq log',
         \/ Return(t)
         \/ UNCHANGED calls
         \/ pc[t] # "idle" /\ \E p \in Pcs \ SearchPcs :
              /\ Goto(t, p) /\ p # "idle"
              /\ p \in {"runlock", "postunlock"} => pc[t] \in {"runlock", "postunlock"}
         \/ \E l \in Locks, o \in Ops, p \in Pcs \ SearchPcs :
              /\ Call(t, l, o, p) /\ p # "idle"
              /\ p \in {"runlock", "postunlock"} => tls_contains_lid(held[t], l)
  PROVE  ThreadControl(t)' /\ PrelockControl'
<1>1. ThreadControl(t) /\ PrelockControl
  BY Zenon DEF ControlInv
<1>2. PrelockControl'
  BY <1>1, Zenon DEF PrelockControl, prelock
<1>3. g_tree_lock' # t /\ held'[t] = held[t]
  BY <1>1, Zenon DEF ThreadControl, prelock
<1> USE DEF TypeOK, CallsType
<1>4. CASE Return(t)
  <2>1. pc'[t] = "idle" /\ ptr'[t] = None
    BY <1>4, Zenon DEF Return
  <2>. QED BY <1>2, <1>3, <2>1, Zenon DEF ThreadControl, SearchPcs
<1>5. ASSUME pc[t] # "idle", NEW p \in Pcs \ SearchPcs, Goto(t, p), p # "idle",
             p \in {"runlock", "postunlock"} => pc[t] \in {"runlock",
             "postunlock"}
      PROVE  ThreadControl(t)'
  <2>1. pc'[t] = p /\ ptr'[t] = ptr[t] /\ ptr[t] # None
    BY <1>1, <1>5, Zenon DEF Goto, ThreadControl
  <2>. QED BY <1>1, <1>3, <1>5, <2>1, Zenon DEF ThreadControl, SearchPcs
<1>6. ASSUME NEW l \in Locks, NEW o \in Ops, NEW p \in Pcs \ SearchPcs,
             Call(t, l, o, p), p # "idle",
             p \in {"runlock", "postunlock"} => tls_contains_lid(held[t], l)
      PROVE  ThreadControl(t)'
  <2>1. pc'[t] = p /\ ptr'[t] = l /\ l # None
    BY <1>6, ConstantsAssumption, Zenon DEF Call
  <2>. QED BY <1>1, <1>3, <1>6, <2>1, Zenon DEF ThreadControl, SearchPcs
<1>7. CASE UNCHANGED calls
  BY <1>1, <1>2, <1>3, <1>7, Zenon DEF ThreadControl, SearchPcs, calls
<1>. QED BY <1>2, <1>4, <1>5, <1>6, <1>7, Zenon

\* Every step keeps control in order.
LEMMA ControlStep ==
  ASSUME TypeOK, ControlInv, NEW t \in Threads, ClientCall(t) \/ HandlerStep(t)
  PROVE  ControlInv'
<1> DEFINE Goal == ThreadControl(t)' /\ PrelockControl'
<1>0. /\ ThreadControl(t) /\ PrelockControl
      /\ held[t] \in Seq(Locks) /\ Len(held[t]) \in Nat /\ idx \in Nat
      /\ t # None
  BY SeqLen, ConstantsAssumption, Zenon
     DEF ControlInv, TypeOK, TlsType, PrelockType
<1>a. pc \in [Threads -> Pcs] /\ ptr \in [Threads -> Locks \cup {None}]
      /\ None \notin Locks
  BY ConstantsAssumption, Zenon DEF TypeOK, CallsType
<1>1. ASSUME NEW l \in Locks, NEW o \in LockOps, NEW s \in Skips,
             lksmith_prelock(t, l, o, s)
      PROVE  Goal
  <2>1. /\ pc'[t] = "depends" /\ ptr'[t] = l /\ g_tree_lock' = t
        /\ g_tree_lock = None /\ UNCHANGED <<painted, stack, inverted, held, log>>
        /\ idx' \in 1 .. (Len(held[t]) + 1)
    BY <1>0, <1>1, <1>a DEF lksmith_prelock, Call, tls
  <2>. QED BY <1>0, <1>a, <2>1, Zenon DEF ThreadControl, PrelockControl, SearchPcs
<1>2. ASSUME NEW l \in Locks, lksmith_preunlock(t, l)
      PROVE  Goal
  BY <1>2, QuietControl, PcsOps, Zenon DEF lksmith_preunlock, SearchPcs, Call
<1>3. ASSUME NEW l \in Locks, NEW ty \in AttrTypes, pthread_mutex_init(t, l, ty)
      PROVE  Goal
  <2>1. pc[t] = "idle" /\ UNCHANGED <<prelock, held, log>>
    BY <1>3, Zenon DEF pthread_mutex_init, Call, tls
  <2>2. \E o \in Ops : Call(t, l, o, "optinit")
    BY <1>3, PcsOps, Zenon DEF pthread_mutex_init
  <2>. QED BY <2>1, <2>2, QuietControl, PcsOps DEF SearchPcs
<1>4. ASSUME NEW l \in Locks, pthread_spin_init(t, l)
      PROVE  Goal
  <2>1. pc[t] = "idle" /\ UNCHANGED <<prelock, held, log>>
    BY <1>4, Zenon DEF pthread_spin_init, Call, tls
  <2>2. \E o \in Ops : Call(t, l, o, "optinit")
    BY <1>4, PcsOps, Zenon DEF pthread_spin_init
  <2>. QED BY <2>1, <2>2, QuietControl, PcsOps DEF SearchPcs
<1>5. ASSUME NEW l \in Locks, lksmith_destroy(t, l)
      PROVE  Goal
  <2>1. CASE pc[t] = "destroy"
    BY <1>5, <2>1, QuietControl, PcsOps DEF lksmith_destroy, SearchPcs, tls
  <2>2. CASE pc[t] # "destroy"
    BY <1>5, <2>2, QuietControl, PcsOps
       DEF lksmith_destroy, SearchPcs, Call, tls, calls
  <2>. QED BY <2>1, <2>2, Zenon
<1>6. ASSUME lksmith_prelock_process_depends(t)
      PROVE  Goal
  <2>1. /\ ptr'[t] = ptr[t] /\ pc[t] = "depends" /\ idx \in 1 .. Len(held[t])
        /\ UNCHANGED <<g_tree_lock, painted, inverted, held>> /\ log \subseteq log'
        /\ \/ pc'[t] = "depends" /\ idx' = idx + 1 /\ stack' = << >>
           \/ pc'[t] = "search" /\ idx' = idx /\ stack' # << >>
    BY <1>0, <1>6, <1>a
       DEF lksmith_prelock_process_depends, Goto, tls, ThreadControl, SearchPcs
  <2>. QED BY <1>0, <2>1 DEF ThreadControl, PrelockControl, SearchPcs
<1>7. ASSUME NEW n \in Locks, lksmith_search(t, n)
      PROVE  Goal
  <2>1. stack \in Seq(SUBSET Locks) /\ stack # << >>
    BY <1>0, <1>7, Zenon DEF ThreadControl, TypeOK, PrelockType, lksmith_search
  <2>2. [stack EXCEPT ![1] = @ \ {n}] # << >>
    <3>1. DOMAIN [stack EXCEPT ![1] = @ \ {n}] = 1 .. Len(stack) /\ Len(stack) >= 1
      BY <2>1, SeqLen, SeqEmpty, SeqNonEmpty
    <3>2. DOMAIN << >> = 1 .. 0
      OBVIOUS
    <3>. QED BY <3>1, <3>2
  <2>3. <<Frame(n)>> \o [stack EXCEPT ![1] = @ \ {n}] # << >>
    <3>1. [stack EXCEPT ![1] = @ \ {n}] \in Seq(SUBSET Locks)
      BY <2>1, SeqExcept, SeqElement, SeqEmpty, SeqNonEmpty, SeqLen
    <3>2. <<Frame(n)>> \in Seq(SUBSET Locks) /\ Len(<<Frame(n)>>) = 1
      BY DEF TypeOK, RegistryType, Frame
    <3>3. Len(<<Frame(n)>> \o [stack EXCEPT ![1] = @ \ {n}])
          = 1 + Len([stack EXCEPT ![1] = @ \ {n}])
      BY <3>1, <3>2, SeqConcat
    <3>. QED BY <3>1, <3>3, SeqLen, SeqEmpty, SeqNonEmpty
  <2>4. /\ ptr'[t] = ptr[t] /\ pc[t] = "search"
        /\ UNCHANGED <<g_tree_lock, idx, inverted, held, log>>
        /\ \/ pc'[t] = "search" /\ stack' # << >>
           \/ pc'[t] = "hit" /\ stack' = << >>
    BY <1>7, <2>2, <2>3, <1>a, Zenon DEF lksmith_search, Goto, calls, tls
  <2>. QED BY <1>0, <2>4, Zenon DEF ThreadControl, PrelockControl, SearchPcs
<1>8. ASSUME lksmith_search_return(t)
      PROVE  Goal
  <2>1. stack \in Seq(SUBSET Locks) /\ stack # << >>
    BY <1>0, <1>8, Zenon DEF ThreadControl, TypeOK, PrelockType, lksmith_search_return
  <2>2. /\ Len(stack) \in Nat /\ Len(Tail(stack)) = Len(stack) - 1
        /\ Tail(stack) \in Seq(SUBSET Locks)
    BY <2>1, SeqTail, SeqLen, Zenon
  <2>3. Tail(stack) = << >> <=> Len(stack) = 1
    <3>1. Tail(stack) = << >> <=> Len(Tail(stack)) = 0
      BY <2>2, SeqEmpty, SeqNonEmpty, Zenon
    <3>. QED BY <2>2, <3>1
  <2>4. /\ ptr'[t] = ptr[t] /\ pc[t] = "search"
        /\ UNCHANGED <<g_tree_lock, idx, inverted, held, log>>
        /\ \/ pc'[t] = "search" /\ stack' # << >>
           \/ pc'[t] = "miss" /\ stack' = << >>
    BY <1>8, <2>3, <1>a, Zenon DEF lksmith_search_return, Goto, tls
  <2>. QED BY <1>0, <2>4, Zenon DEF ThreadControl, PrelockControl, SearchPcs
<1>9. ASSUME report_inversion(t) \/ lk_add_before(t)
      PROVE  Goal
  <2>1. /\ ptr'[t] = ptr[t] /\ pc[t] \in {"hit", "miss"} /\ pc'[t] = "depends"
        /\ UNCHANGED <<g_tree_lock, stack, held>> /\ idx' = idx + 1
        /\ inverted' => inverted \/ "inversion" \in log'
        /\ log \subseteq log'
    BY <1>9, <1>a DEF report_inversion, lk_add_before, Goto, tls
  <2>. QED BY <1>0, <2>1 DEF ThreadControl, PrelockControl, SearchPcs
<1>10. ASSUME lksmith_prelock_end(t)
       PROVE  Goal
  <2>1. /\ ptr'[t] = ptr[t] /\ pc[t] = "depends" /\ pc'[t] = "rlock"
        /\ g_tree_lock' = None /\ painted' = {} /\ stack' = << >> /\ ~inverted'
    BY <1>10, <1>a, Zenon DEF lksmith_prelock_end, Goto
  <2>. QED BY <1>0, <2>1, Zenon DEF ThreadControl, PrelockControl, SearchPcs
<1>11. ASSUME r_lock(t) \/ r_unlock(t) \/ r_destroy(t) \/ r_pthread_spin_init(t)
       PROVE  Goal
  BY <1>11, QuietControl, PcsOps DEF r_lock, r_unlock, r_destroy,
     r_pthread_spin_init, SearchPcs, tls
<1>12. ASSUME lksmith_optional_init(t) \/ lksmith_postlock_error(t)
       PROVE  Goal
  BY <1>12, QuietControl, PcsOps
     DEF lksmith_optional_init, lksmith_postlock_error, SearchPcs, tls
<1>13. ASSUME lksmith_postlock(t) \/ lksmith_postunlock(t)
       PROVE  Goal
  <2>1. /\ ptr'[t] = None /\ pc[t] \in {"postlock", "postunlock"}
        /\ pc'[t] = "idle" /\ UNCHANGED prelock /\ log \subseteq log'
    BY <1>13, <1>a, Zenon DEF lksmith_postlock, lksmith_postunlock, Return, Report
  <2>. QED BY <1>0, <2>1, Zenon DEF ThreadControl, PrelockControl, SearchPcs, prelock
<1>14. ptr[t] \in Locks \/ pc[t] # "destroy"
  BY ArgumentType, Zenon
<1> HIDE DEF Goal
<1>15. Goal
  BY <1>1, <1>2, <1>3, <1>4, <1>5, <1>6, <1>7, <1>8, <1>9, <1>10, <1>11, <1>12
       ,
     <1>13, <1>14, Zenon DEF ClientCall, HandlerStep
<1>. QED BY <1>15, OthersControl, Zenon DEF Goal, ControlInv

-----------------------------------------------------------------------------
(***************************************************************************)
(* The steps that enter something in the books, and those that do not.     *)
(***************************************************************************)

\* The steps between which the books of thread t are in transition.
BookPcs == Pending \cup {"runlock", "postunlock"}

\* A step of thread t that enters nothing in the books.
Quiet(t) ==
  /\ UNCHANGED <<holders, held, num_spins, owner, count>>
  /\ pc[t] \notin BookPcs /\ pc'[t] \notin BookPcs

\* Every step is quiet or one of the seven that are not.
LEMMA BookCases ==
  ASSUME TypeOK, NEW t \in Threads, ClientCall(t) \/ HandlerStep(t)
  PROVE  \/ Quiet(t)
         \/ lksmith_prelock_end(t) \/ r_lock(t) \/ lksmith_postlock(t)
         \/ lksmith_postlock_error(t) \/ r_unlock(t) \/ lksmith_postunlock(t)
         \/ \E l \in Locks : lksmith_preunlock(t, l)
<1>1. pc \in [Threads -> Pcs]
  BY Zenon DEF TypeOK, CallsType
<1> USE DEF Quiet, BookPcs, Pending
<1>2. ASSUME NEW l, NEW o, NEW s, lksmith_prelock(t, l, o, s)
      PROVE  Quiet(t)
  BY <1>1, <1>2, Zenon DEF lksmith_prelock, Call, tls, real
<1>3. ASSUME NEW l, NEW ty, pthread_mutex_init(t, l, ty)
      PROVE  Quiet(t)
  BY <1>1, <1>3, Zenon DEF pthread_mutex_init, Call, tls, registry
<1>4. ASSUME NEW l, pthread_spin_init(t, l)
      PROVE  Quiet(t)
  BY <1>1, <1>4, Zenon DEF pthread_spin_init, Call, tls, registry, real
<1>5. ASSUME NEW l, lksmith_destroy(t, l)
      PROVE  Quiet(t)
  <2>1. UNCHANGED <<holders, held, num_spins, owner, count>>
    BY <1>5, Zenon DEF lksmith_destroy, tls, real
  <2>2. pc[t] \in {"idle", "destroy"} /\ pc'[t] \in {"idle", "rdestroy"}
    BY <1>1, <1>5, Zenon DEF lksmith_destroy, Call, Goto, Return
  <2>. QED BY <2>1, <2>2, Zenon
<1>6. ASSUME NEW n, lksmith_search(t, n)
      PROVE  Quiet(t)
  BY <1>1, <1>6, Zenon DEF lksmith_search, Goto, calls, registry, tls, real
<1>7. ASSUME \/ lksmith_prelock_process_depends(t) \/ lksmith_search_return(t)
             \/ report_inversion(t) \/ lk_add_before(t)
      PROVE  Quiet(t)
  BY <1>1, <1>7, Zenon DEF lksmith_prelock_process_depends, lksmith_search_return,
     report_inversion, lk_add_before, Goto, registry, tls, real
<1>8. ASSUME r_pthread_spin_init(t) \/ r_destroy(t) \/ lksmith_optional_init(t)
      PROVE  Quiet(t)
  <2>1. UNCHANGED <<holders, held, num_spins, owner, count>>
    BY <1>8, Zenon DEF r_pthread_spin_init, r_destroy, lksmith_optional_init,
       registry,
       tls, real
  <2>2. /\ pc[t] \in {"rinit", "rdestroy", "optinit"}
        /\ pc'[t] \in {"idle", "destroy", "rinit"}
    BY <1>1, <1>8, Zenon DEF r_pthread_spin_init, r_destroy,
       lksmith_optional_init,
       Goto, Return
  <2>. QED BY <2>1, <2>2, Zenon
<1> HIDE DEF Quiet
<1>. QED BY <1>2, <1>3, <1>4, <1>5, <1>6, <1>7, <1>8, Zenon DEF ClientCall, HandlerStep

\* The arithmetic of the next lemma.
LEMMA AtLeastOne ==
  /\ 0 \in Nat
  /\ \A x, y \in Nat : x + 0 >= y + 0 /\ y >= 1 => x >= 1 /\ x # 0
OBVIOUS

\* A thread that is about to unlock a lock owns it.
LEMMA UnlockOwned ==
  ASSUME CountFacts(Locks), TypeOK, ControlInv, OwnerInv, NEW t \in Threads,
         pc[t] = "runlock"
  PROVE  /\ ptr[t] \in Locks /\ owner[ptr[t]] = t /\ count[ptr[t]] >= 1
         /\ kind[ptr[t]] # "destroyed"
<1> DEFINE l == ptr[t]
<1>1. l \in Locks /\ tls_contains_lid(held[t], l)
  BY ArgumentType, Zenon DEF ControlInv, ThreadControl
<1>2. held[t] \in Seq(Locks) /\ count[l] \in Nat
  BY <1>1, Zenon DEF TypeOK, TlsType, RealType
<1>3. CountOf(held[t], {l}) >= 1 /\ CountOf(held[t], {l}) \in Nat
  BY <1>1, <1>2, CountContains, CountType, Zenon
<1>4. ~At(t, l, {"postunlock"}) /\ ~At(t, l, {"postlock"})
  BY Zenon DEF At
<1>5. Owned(t, l) + Indicator(At(t, l, {"postunlock"}))
        >= CountOf(held[t], {l}) + Indicator(At(t, l, {"postlock"}))
  BY <1>1, Zenon DEF OwnerInv
<1>6. Owned(t, l) + 0 >= CountOf(held[t], {l}) + 0
  BY <1>4, <1>5, Zenon DEF Indicator
<1>7. Owned(t, l) \in Nat
  BY <1>2, AtLeastOne, Zenon DEF Owned
<1>8. Owned(t, l) >= 1 /\ Owned(t, l) # 0
  BY <1>3, <1>6, <1>7, AtLeastOne, Zenon
<1>9. owner[l] = t
  BY <1>8, Zenon DEF Owned
<1>10. count[l] >= 1
  BY <1>8, <1>9, Zenon DEF Owned
<1>11. kind[l] # "destroyed"
  <2>1. owner[l] # None
    BY <1>9, ConstantsAssumption, Zenon
  <2>. QED BY <1>1, <2>1, Zenon DEF OwnerInv
<1>. QED BY <1>1, <1>9, <1>10, <1>11, Zenon

\* The books of the other threads stay as they are.
LEMMA OthersBooks ==
  ASSUME CountFacts(Locks), TypeOK, ControlInv, OwnerInv, NEW t \in Threads,
         ClientCall(t) \/ HandlerStep(t), NEW u \in Threads, u # t,
         NEW l \in Locks
  PROVE  /\ holders'[l][u] = holders[l][u]
         /\ Owned(u, l)' = Owned(u, l)
         /\ \A P : At(u, l, P)' <=> At(u, l, P)
         /\ held'[u] = held[u] /\ num_spins'[u] = num_spins[u]
<1>1. /\ pc'[u] = pc[u] /\ ptr'[u] = ptr[u] /\ held'[u] = held[u]
      /\ num_spins'[u] = num_spins[u]
  BY OthersUnchanged, Zenon
<1>2. \A P : At(u, l, P)' <=> At(u, l, P)
  BY <1>1, Zenon DEF At
<1>3. holders \in [Locks -> [Threads -> Nat]]
  BY Zenon DEF TypeOK, RegistryType
<1>4. holders'[l][u] = holders[l][u]
  <2>1. \/ holders' = holders
        \/ holders' = lk_holder_add(ptr[t], t)
        \/ holders' = lk_holder_remove(ptr[t], t)
    BY BookCases, Zenon DEF Quiet, lksmith_prelock_end, r_lock,
       lksmith_postlock,
       lksmith_postlock_error, r_unlock, lksmith_postunlock, lksmith_preunlock,
       registry
  <2>. QED BY <1>3, <2>1 DEF lk_holder_add, lk_holder_remove
<1>5. Owned(u, l)' = Owned(u, l)
  <2>1. owner \in [Locks -> Threads \cup {None}] /\ count \in [Locks -> Nat]
    BY SMTT(30), Zenon DEF TypeOK, RealType
  <2>2. CASE r_lock(t)
    BY <2>1, <2>2, ConstantsAssumption DEF r_lock, Relock, Owned
  <2>3. CASE r_unlock(t)
    <3>2. owner[ptr[t]] = t
      BY <2>3, UnlockOwned, Zenon DEF r_unlock
    <3>. QED BY <2>1, <2>3, <3>2, ConstantsAssumption, Zenon DEF r_unlock, Owned
  <2>4. CASE UNCHANGED <<owner, count>>
    BY <2>4, Zenon DEF Owned
  <2>. QED BY <2>2, <2>3, <2>4, BookCases, Zenon DEF Quiet, lksmith_prelock_end,
       lksmith_postlock, lksmith_postlock_error, lksmith_postunlock,
       lksmith_preunlock, real
<1>. QED BY <1>1, <1>2, <1>4, <1>5, Zenon

\* A call in progress has its lock registered.
LEMMA PendingRegistered ==
  ASSUME CountFacts(Locks), TypeOK, ControlInv, HoldersInv, RegistryInv,
         NEW t \in Threads,
         pc[t] \in Pending \cup {"runlock", "postunlock"}
  PROVE  /\ ptr[t] \in Locks /\ ptr[t] \in tree
         /\ holders[ptr[t]][t] >= 1
<1> DEFINE l == ptr[t]
<1>1. l \in Locks
  BY ArgumentType, Zenon DEF Pending
<1>2. held[t] \in Seq(Locks) /\ holders[l][t] \in Nat
  BY <1>1, Zenon DEF TypeOK, TlsType, RegistryType
<1>3. CountOf(held[t], {l}) \in Nat
  BY <1>2, CountType, Zenon
<1>4. holders[l][t] >= CountOf(held[t], {l}) + Indicator(At(t, l, Pending))
  BY <1>1, Zenon DEF HoldersInv
<1>5. CASE pc[t] \in Pending
  <2>1. Indicator(At(t, l, Pending)) = 1
    BY <1>5, Zenon DEF Indicator, At
  <2>2. holders[l][t] >= 1
    BY <1>2, <1>3, <1>4, <2>1
  <2>. QED BY <1>1, <2>2, <1>2 DEF RegistryInv
<1>6. CASE pc[t] \in {"runlock", "postunlock"}
  <2>1. Indicator(At(t, l, Pending)) = 0
    BY <1>6, Zenon DEF Indicator, At, Pending
  <2>2. CountOf(held[t], {l}) >= 1
    BY <1>2, <1>6, CountContains, Zenon DEF ControlInv, ThreadControl
  <2>3. holders[l][t] >= 1
    BY <1>2, <1>3, <1>4, <2>1, <2>2
  <2>. QED BY <1>1, <2>3, <1>2 DEF RegistryInv
<1>. QED BY <1>5, <1>6, Zenon

\* The spin counter follows the list of held locks.
LEMMA SpinStep ==
  ASSUME CountFacts(Locks), TypeOK, ControlInv, HoldersInv, OwnerInv,
         RegistryInv, SpinCount,
         NEW t \in Threads, ClientCall(t) \/ HandlerStep(t)
  PROVE  SpinCount'
<1> DEFINE Releasing(u) == pc[u] \in {"runlock", "postunlock"} /\ ptr[u] \in Spins
<1>1. /\ held[t] \in Seq(Locks) /\ CountOf(held[t], Spins) \in Nat
      /\ num_spins \in [Threads -> Nat] /\ held \in [Threads -> Seq(Locks)]
      /\ pc \in [Threads -> Pcs] /\ ptr \in [Threads -> Locks \cup {None}]
  BY CountType, Zenon DEF TypeOK, TlsType, CallsType
<1>2. num_spins[t] + Indicator(Releasing(t)) = CountOf(held[t], Spins)
  BY Zenon DEF SpinCount
<1>3. ASSUME NEW u \in Threads, u # t
      PROVE  num_spins'[u] + Indicator(Releasing(u)') = CountOf(held'[u], Spins)
  BY <1>3, OthersUnchanged, Zenon DEF SpinCount
<1> DEFINE Goal == num_spins'[t] + Indicator(Releasing(t)') = CountOf(held'[t],
Spins)
<1>4. ASSUME \/ Quiet(t) \/ lksmith_prelock_end(t) \/ r_lock(t)
             \/ lksmith_postlock_error(t)
      PROVE  Goal
  <2>1. UNCHANGED <<held, num_spins>>
    BY <1>4, Zenon DEF Quiet, lksmith_prelock_end, r_lock,
       lksmith_postlock_error, tls
  <2>2. ~Releasing(t) /\ ~Releasing(t)'
    BY <1>1, <1>4, Zenon DEF Quiet, BookPcs, lksmith_prelock_end, r_lock,
       lksmith_postlock_error, Goto, Return
  <2>. QED BY <1>2, <2>1, <2>2, Zenon DEF Indicator
<1>5. ASSUME r_unlock(t)
      PROVE  Goal
  <2>1. pc'[t] = "postunlock" /\ ptr'[t] = ptr[t] /\ pc[t] = "runlock"
    BY <1>1, <1>5, UnlockOwned, Zenon DEF r_unlock, Goto
  <2>. QED BY <1>2, <1>5, <2>1, Zenon DEF r_unlock, tls
<1>6. ASSUME lksmith_postlock(t)
      PROVE  Goal
  <2>1. ptr[t] \in tree /\ ptr[t] \in Locks
    BY <1>6, PendingRegistered, Zenon DEF lksmith_postlock, Pending
  <2>2. pc[t] = "postlock" /\ pc'[t] = "idle"
    BY <1>1, <1>6, Zenon DEF lksmith_postlock, Return
  <2>3. \/ UNCHANGED <<held, num_spins>>
        \/ /\ held'[t] = tls_append_held(held[t], ptr[t])
           /\ num_spins'[t] = num_spins[t] + (IF ptr[t] \in Spins THEN 1 ELSE 0)
    BY <1>1, <1>6, <2>1 DEF lksmith_postlock
  <2>4. CountOf(tls_append_held(held[t], ptr[t]), Spins)
        = CountOf(held[t], Spins) + (IF ptr[t] \in Spins THEN 1 ELSE 0)
    BY <1>1, <2>1, CountAppend
  <2>. QED BY <1>1, <1>2, <2>2, <2>3, <2>4 DEF Indicator
<1>7. ASSUME lksmith_postunlock(t)
      PROVE  Goal
  <2>1. pc[t] = "postunlock" /\ pc'[t] = "idle" /\ num_spins' = num_spins
        /\ held'[t] = tls_remove_held(held[t], ptr[t])
    BY <1>1, <1>7, Zenon DEF lksmith_postunlock, Return
  <2>2. CountOf(tls_remove_held(held[t], ptr[t]), Spins)
        = CountOf(held[t], Spins) - (IF ptr[t] \in Spins THEN 1 ELSE 0)
    BY <1>1, <2>1, CountRemove DEF ControlInv, ThreadControl
  <2>. QED BY <1>1, <1>2, <2>1, <2>2 DEF Indicator
<1>8. ASSUME NEW l \in Locks, lksmith_preunlock(t, l)
      PROVE  Goal
  <2>1. /\ pc[t] = "idle" /\ pc'[t] = "runlock" /\ ptr'[t] = l /\ held' = held
        /\ num_spins'[t] = IF l \in Spins THEN num_spins[t] - 1 ELSE num_spins[t]
    BY <1>1, <1>8, Zenon DEF lksmith_preunlock, Call
  <2>. QED BY <1>1, <1>2, <2>1 DEF Indicator
<1>9. Goal
  BY <1>4, <1>5, <1>6, <1>7, <1>8, BookCases, Zenon
<1>. QED BY <1>3, <1>9, Zenon DEF SpinCount

=============================================================================
