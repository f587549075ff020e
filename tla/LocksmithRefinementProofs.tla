---------------------- MODULE LocksmithRefinementProofs ----------------------
(***************************************************************************)
(* The proof that the handlers of Locksmith implement LockOrder.           *)
(***************************************************************************)
EXTENDS LocksmithProofs, LocksmithRefinement

\* A step of thread t changes what LockOrder sees of thread t only.
LEMMA ViewStep ==
  ASSUME IndInv, NEW t \in Threads, ClientCall(t) \/ HandlerStep(t)
  PROVE  /\ Wants' = [Wants EXCEPT ![t] = Wanted(t)']
         /\ held'[t] = held[t] => Holds' = Holds
         /\ Holds' = [Holds EXCEPT ![t] = [l \in Locks |-> CountOf(held'[t], {l})]]
<1>1. ASSUME NEW u \in Threads, u # t
      PROVE  Wanted(u)' = Wanted(u) /\ held'[u] = held[u]
  BY <1>1, OthersUnchanged, Zenon DEF IndInv, Wanted
<1>2. Wants' = [Wants EXCEPT ![t] = Wanted(t)']
  BY <1>1, Zenon DEF Wants
<1>3. Holds' = [Holds EXCEPT ![t] = [l \in Locks |-> CountOf(held'[t], {l})]]
  BY <1>1, Zenon DEF Holds
<1>4. ASSUME held'[t] = held[t]
      PROVE  Holds' = Holds
  <2>1. \A u \in Threads : held'[u] = held[u]
    BY <1>1, <1>4, Zenon
  <2>. QED BY <2>1, Zenon DEF Holds
<1>. QED BY <1>2, <1>3, <1>4, Zenon

\* A step that keeps the registered order and the reports, and that neither
\* begins nor ends a call for a lock, is none of LockOrder.
LEMMA HiddenStep ==
  ASSUME IndInv, NEW t \in Threads, ClientCall(t) \/ HandlerStep(t),
         UNCHANGED <<tree, before>>, held'[t] = held[t],
         Wanted(t)' = Wanted(t),
         "inversion" \in log' <=> "inversion" \in log
  PROVE  UNCHANGED Order!orderVars
<1>1. Holds' = Holds
  BY ViewStep, Zenon
<1>2. Wants' = Wants
  <2>1. Wants' = [Wants EXCEPT ![t] = Wanted(t)]
    BY ViewStep, Zenon
  <2>. QED BY <2>1, Zenon DEF Wants
<1>3. ("inversion" \in log)' = ("inversion" \in log)
  OBVIOUS
<1>. QED BY <1>1, <1>2, <1>3, Zenon DEF Order!orderVars

\* Both specifications speak of the same operators on orders.
LEMMA SameGraph ==
  ASSUME NEW b, NEW x, NEW y
  PROVE  /\ Order!Reaches(b, x, y) <=> Reaches(b, x, y)
         /\ Order!AddEdge(b, x, y) = AddEdge(b, x, y)
         /\ Order!RemoveNode(b, x) = RemoveNode(b, x)
BY Zenon DEF Order!Reaches, Reaches, Order!Closed, Closed, Order!AddEdge, AddEdge,
   Order!RemoveNode, RemoveNode

\* lksmith_prelock begins with a wish, and registers the lock.
LEMMA WantRefines ==
  ASSUME IndInv, NEW t \in Threads, NEW l \in Locks, NEW o \in LockOps,
         NEW s \in Skips, lksmith_prelock(t, l, o, s)
  PROVE  Order!Want(t, l)
<1>1. ClientCall(t)
  BY DEF ClientCall
<1>2. pc \in [Threads -> Pcs] /\ ptr \in [Threads -> Locks \cup {None}]
  BY Zenon DEF IndInv, TypeOK, CallsType
<1>3. /\ pc[t] = "idle" /\ pc'[t] = "depends" /\ ptr'[t] = l
      /\ tree' = tree \cup {l} /\ UNCHANGED <<before, held, log>>
  BY <1>2, Zenon DEF lksmith_prelock, Call, tls
<1>4. Wanted(t) = None /\ Wanted(t)' = l
  BY <1>3, Zenon DEF Wanted, SearchPcs, Pending
<1>5. /\ Wants[t] = None /\ Wants' = [Wants EXCEPT ![t] = l] /\ Holds' = Holds
  BY <1>1, <1>3, <1>4, ViewStep, Zenon DEF Wants
<1>. QED BY <1>3, <1>5, Zenon DEF Order!Want, Order!Register

\* A thread at the end of a search compares a lock that it holds with the lock
\* that it wants, and goes on to want it.
LEMMA Comparing ==
  ASSUME IndInv, NEW t \in Threads, report_inversion(t) \/ lk_add_before(t)
  PROVE  /\ held[t][idx] \in tree /\ ptr[t] \in tree
         /\ held[t][idx] # ptr[t] /\ ptr[t] # None
         /\ Holds[t][held[t][idx]] > 0 /\ Wants[t] = ptr[t]
         /\ Wants' = Wants /\ Holds' = Holds
<1> DEFINE a == held[t][idx]
<1>1. HandlerStep(t)
  BY DEF HandlerStep
<1>2. /\ pc \in [Threads -> Pcs] /\ held[t] \in Seq(Locks) /\ TypeOK
      /\ ControlInv /\ SearchInv /\ RegistryInv
  BY DEF IndInv, TypeOK, CallsType, TlsType
<1>3. /\ pc[t] \in {"hit", "miss"} /\ pc'[t] = "depends"
      /\ UNCHANGED <<ptr, held>>
  BY <1>2 DEF report_inversion, lk_add_before, Goto, tls
<1>4. a \in Locks /\ ptr[t] \in Locks /\ idx \in 1 .. Len(held[t])
  BY <1>2, <1>3, HeldType, ArgumentType
     DEF SearchPcs, ControlInv, ThreadControl
<1>5. a # ptr[t] /\ a \in tree
  BY <1>2, <1>3 DEF SearchInv, ThreadSearch, SearchPcs
<1>6. ptr[t] \in tree
  BY <1>2, <1>3, <1>4 DEF RegistryInv, At, SearchPcs
<1>7. /\ Wanted(t) = ptr[t] /\ Wanted(t)' = ptr[t] /\ ptr[t] # None
  BY <1>3, <1>4, ConstantsAssumption DEF Wanted, SearchPcs
<1>8. Wants[t] = ptr[t] /\ Wants' = Wants /\ Holds' = Holds
  BY <1>1, <1>3, <1>7, ViewStep, Zenon DEF Wants
<1>9. Holds[t][a] > 0
  <2>1. tls_contains_lid(held[t], a)
    BY <1>2, <1>4, SeqLen, Zenon DEF tls_contains_lid
  <2>2. CountOf(held[t], {a}) >= 1 /\ CountOf(held[t], {a}) \in Nat
    BY <1>2, <2>1, Counting, CountContains, CountType, Zenon
  <2>3. Holds[t][a] = CountOf(held[t], {a})
    BY <1>4, Zenon DEF Holds
  <2>. QED BY <2>2, <2>3
<1>. QED BY <1>5, <1>6, <1>7, <1>8, <1>9

\* The report of an inversion is a warning.
LEMMA WarnRefines ==
  ASSUME IndInv, NEW t \in Threads, report_inversion(t)
  PROVE  Order!Warn(t, held[t][idx])
<1>1. /\ pc[t] = "hit" /\ UNCHANGED <<tree, before>>
      /\ log' = log \cup {"inversion"}
  BY Zenon DEF report_inversion, registry
<1>2. Reaches(before, held[t][idx], ptr[t])
  BY <1>1, Zenon DEF IndInv, SearchInv, ThreadSearch, SearchPcs
<1>. QED BY <1>1, <1>2, Comparing, SameGraph, Zenon DEF Order!Warn

\* lk_add_before records a comparison: what the search has not found is not
\* there, unless an inversion has been reported.
LEMMA CompareRefines ==
  ASSUME IndInv, NEW t \in Threads, lk_add_before(t), before' # before
  PROVE  Order!Compare(t, held[t][idx])
<1>1. /\ pc[t] = "miss" /\ UNCHANGED <<tree, log>>
      /\ before' = AddEdge(before, held[t][idx], ptr[t])
  BY Zenon DEF lk_add_before
<1>2. "inversion" \in log \/ ~Reaches(before, held[t][idx], ptr[t])
  <2>1. TypeOK /\ ControlInv /\ SearchInv /\ DOMAIN before = Locks
    BY Zenon DEF IndInv, TypeOK, RegistryType
  <2>2. CASE inverted
    BY <2>1, <2>2, Zenon DEF ControlInv, PrelockControl
  <2>3. CASE ~inverted
    BY <1>1, <2>1, <2>3, MissClosed, ClosedRefutes, Zenon
  <2>. QED BY <2>2, <2>3, Zenon
<1>3. Order!Learn(held[t][idx], Wants[t])
  BY <1>1, Comparing, SameGraph, Zenon DEF Order!Learn
<1>. QED BY <1>1, <1>2, <1>3, Comparing, SameGraph, Zenon DEF Order!Compare

\* lksmith_postlock, when it enters the lock in the list, ends a call that has
\* compared the lock with every lock of the list.
LEMMA AcquireRefines ==
  ASSUME IndInv, NEW t \in Threads, lksmith_postlock(t), held'[t] # held[t]
  PROVE  Order!Acquire(t)
<1> DEFINE l == ptr[t]
<1>1. HandlerStep(t)
  BY Zenon DEF HandlerStep
<1>2. /\ pc \in [Threads -> Pcs] /\ held \in [Threads -> Seq(Locks)]
      /\ held[t] \in Seq(Locks) /\ TypeOK
      /\ ControlInv /\ HoldersInv /\ RegistryInv /\ OrderInv /\ SkipInv
  BY Zenon DEF IndInv, TypeOK, CallsType, TlsType
<1>3. pc[t] = "postlock" /\ pc'[t] = "idle" /\ UNCHANGED <<tree, before>>
  BY <1>2, Zenon DEF lksmith_postlock, Return
<1>4. l \in Locks /\ l \in tree /\ l # None
  BY <1>2, <1>3, Counting, PendingRegistered, ConstantsAssumption, Zenon DEF Pending
<1>5. held'[t] = tls_append_held(held[t], l) /\ log' = log
  BY <1>2, <1>4, Zenon DEF lksmith_postlock, Report
<1>6. Wanted(t) = l /\ Wanted(t)' = None
  BY <1>3, Zenon DEF Wanted, SearchPcs, Pending
<1>7. Wants[t] = l /\ Wants' = [Wants EXCEPT ![t] = None]
  BY <1>1, <1>6, ViewStep, Zenon DEF Wants
<1>8. Holds' = [Holds EXCEPT ![t][l] = @ + 1]
  <2>1. ASSUME NEW k \in Locks
        PROVE  CountOf(held'[t], {k}) = CountOf(held[t], {k}) + (IF k = l THEN 1 ELSE 0)
    BY <1>2, <1>4, <1>5, Counting, CountAppend
  <2>2. \A k \in Locks : CountOf(held[t], {k}) \in Nat
    BY <1>2, Counting, CountType, Zenon
  <2>3. Holds[t] = [k \in Locks |-> CountOf(held[t], {k})]
    BY Zenon DEF Holds
  <2>4. ASSUME NEW k \in Locks
        PROVE  CountOf(held'[t], {k}) = IF k = l THEN Holds[t][k] + 1
                                       ELSE Holds[t][k]
    <3> DEFINE m == CountOf(held[t], {k})
               n == CountOf(held'[t], {k})
    <3>1. m \in Nat /\ n = m + (IF k = l THEN 1 ELSE 0) /\ Holds[t][k] = m
      BY <2>2, <2>1, <2>3, Zenon
    <3> HIDE DEF m, n
    <3>2. n = IF k = l THEN m + 1 ELSE m
      BY <3>1
    <3>. QED BY <3>1, <3>2, Zenon DEF n
  <2>5. [k \in Locks |-> CountOf(held'[t], {k})] = [Holds[t] EXCEPT ![l] = @ + 1]
    BY <1>4, <2>3, <2>4, Zenon
  <2>. QED BY <1>1, <2>5, ViewStep, Zenon
<1>9. ASSUME "inversion" \notin log, ~(TRUE \in Skips \/ "edge" \in Oom)
      PROVE  Order!InOrder(t)
  <2>1. ~skip[t]
    BY <1>2, <1>9, Zenon DEF SkipInv
  <2>2. ThreadOrder(t) /\ Processed(t) = DOMAIN held[t]
    BY <1>2, <1>3, <2>1, Zenon DEF OrderInv, Processed, Compared
  <2>3. ASSUME NEW a \in Locks, Holds[t][a] > 0, a # Wants[t]
        PROVE  a \in before[Wants[t]]
    <3>1. CountOf(held[t], {a}) >= 1
      <4>1. Holds[t][a] = CountOf(held[t], {a})
        BY Zenon DEF Holds
      <4>2. CountOf(held[t], {a}) \in Nat
        BY <1>2, Counting, CountType, Zenon
      <4>. QED BY <2>3, <4>1, <4>2
    <3>2. PICK i \in DOMAIN held[t] : held[t][i] = a
      BY <1>2, <3>1, Counting, ContainsCount, Zenon DEF tls_contains_lid
    <3>. QED BY <1>7, <1>9, <2>2, <2>3, <3>2, Zenon DEF ThreadOrder
  <2>. QED BY <2>3, Zenon DEF Order!InOrder
<1>. QED BY <1>3, <1>4, <1>5, <1>7, <1>8, <1>9, Zenon DEF Order!Acquire

\* A call whose lock was not taken, or not entered in the list, gives up.
LEMMA GiveUpRefines ==
  ASSUME IndInv, NEW t \in Threads, HandlerStep(t),
         \/ lksmith_postlock_error(t)
         \/ lksmith_postlock(t) /\ held'[t] = held[t]
  PROVE  Order!GiveUp(t)
<1>1. pc \in [Threads -> Pcs] /\ TypeOK /\ ControlInv /\ HoldersInv
      /\ RegistryInv
  BY Zenon DEF IndInv, TypeOK, CallsType
<1>2. /\ pc[t] \in {"postlock", "postfail"} /\ pc'[t] = "idle"
      /\ UNCHANGED <<tree, before>> /\ held'[t] = held[t]
      /\ "inversion" \in log' <=> "inversion" \in log
  BY <1>1, Zenon DEF lksmith_postlock, lksmith_postlock_error, Return, Report, tls
<1>3. ptr[t] # None
  BY <1>1, <1>2, Counting, PendingRegistered, ConstantsAssumption, Zenon DEF Pending
<1>4. Wanted(t) = ptr[t] /\ Wanted(t)' = None
  BY <1>2, Zenon DEF Wanted, SearchPcs, Pending
<1>5. /\ Wants[t] = ptr[t] /\ Wants' = [Wants EXCEPT ![t] = None]
      /\ Holds' = Holds
  BY <1>2, <1>4, ViewStep, Zenon DEF Wants
<1>6. ("inversion" \in log)' = ("inversion" \in log)
  BY <1>2
<1>. QED BY <1>2, <1>3, <1>5, <1>6, Zenon DEF Order!GiveUp

\* lksmith_postunlock releases the lock that it takes out of the list.
LEMMA ReleaseRefines ==
  ASSUME IndInv, NEW t \in Threads, lksmith_postunlock(t)
  PROVE  ptr[t] \in Locks /\ Order!Release(t, ptr[t])
<1> DEFINE l == ptr[t]
<1>1. HandlerStep(t)
  BY Zenon DEF HandlerStep
<1>2. /\ pc \in [Threads -> Pcs] /\ held \in [Threads -> Seq(Locks)]
      /\ held[t] \in Seq(Locks) /\ TypeOK /\ ControlInv
  BY Zenon DEF IndInv, TypeOK, CallsType, TlsType
<1>3. /\ pc[t] = "postunlock" /\ pc'[t] = "idle" /\ UNCHANGED <<tree, before>>
      /\ held'[t] = tls_remove_held(held[t], l)
      /\ "inversion" \in log' <=> "inversion" \in log
  BY <1>2, Zenon DEF lksmith_postunlock, Return
<1>4. l \in Locks /\ tls_contains_lid(held[t], l)
  BY <1>2, <1>3, ArgumentType, Zenon DEF ControlInv, ThreadControl
<1>5. Wanted(t) = None /\ Wanted(t)' = None
  BY <1>3, Zenon DEF Wanted, SearchPcs, Pending
<1>6. Wants' = Wants
  BY <1>1, <1>5, ViewStep, Zenon DEF Wants
<1>7. Holds[t] = [k \in Locks |-> CountOf(held[t], {k})]
  BY Zenon DEF Holds
<1>8. \A k \in Locks : CountOf(held[t], {k}) \in Nat
  BY <1>2, Counting, CountType, Zenon
<1>9. Holds[t][l] > 0
  <2>1. CountOf(held[t], {l}) >= 1
    BY <1>2, <1>4, Counting, CountContains, Zenon
  <2>. QED BY <1>4, <1>7, <1>8, <2>1
<1>10. Holds' = [Holds EXCEPT ![t][l] = @ - 1]
  <2>1. ASSUME NEW k \in Locks
        PROVE  CountOf(held'[t], {k}) = CountOf(held[t], {k}) - (IF k = l THEN 1 ELSE 0)
    BY <1>2, <1>3, <1>4, Counting, CountRemove
  <2>2. ASSUME NEW k \in Locks
        PROVE  CountOf(held'[t], {k}) = IF k = l THEN Holds[t][k] - 1
                                       ELSE Holds[t][k]
    <3> DEFINE m == CountOf(held[t], {k})
               n == CountOf(held'[t], {k})
    <3>1. m \in Nat /\ n = m - (IF k = l THEN 1 ELSE 0) /\ Holds[t][k] = m
      BY <1>8, <2>1, <1>7, Zenon
    <3> HIDE DEF m, n
    <3>2. n = IF k = l THEN m - 1 ELSE m
      BY <3>1
    <3>. QED BY <3>1, <3>2, Zenon DEF n
  <2>3. [k \in Locks |-> CountOf(held'[t], {k})] = [Holds[t] EXCEPT ![l] = @ - 1]
    BY <1>4, <1>7, <2>2, Zenon
  <2>. QED BY <1>1, <2>3, ViewStep, Zenon
<1>11. ("inversion" \in log)' = ("inversion" \in log)
  BY <1>3
<1>. QED BY <1>3, <1>4, <1>6, <1>9, <1>10, <1>11, Zenon DEF Order!Release

\* lksmith_destroy forgets a lock that nobody holds or wants, or nothing.
LEMMA RetireRefines ==
  ASSUME IndInv, NEW t \in Threads, NEW l \in Locks, lksmith_destroy(t, l),
         ClientCall(t) \/ HandlerStep(t)
  PROVE  Order!Retire(l) \/ UNCHANGED Order!orderVars
<1>1. /\ pc \in [Threads -> Pcs] /\ held \in [Threads -> Seq(Locks)]
      /\ holders \in [Locks -> [Threads -> Nat]]
      /\ TypeOK /\ ControlInv /\ HoldersInv /\ RegistryInv
  BY Zenon DEF IndInv, TypeOK, CallsType, TlsType, RegistryType
<1>2. /\ g_tree_lock = None /\ UNCHANGED <<held, log>>
      /\ pc[t] \in {"idle", "destroy"} /\ pc'[t] \in {"idle", "rdestroy"}
  BY <1>1, Zenon DEF lksmith_destroy, tls, Goto, Return, Call
<1>3. Wanted(t) = None /\ Wanted(t)' = None
  BY <1>2, Zenon DEF Wanted, SearchPcs, Pending
<1>4. CASE l \in tree /\ ~InUse(l)
  <2>1. tree' = tree \ {l} /\ before' = RemoveNode(before, l)
    BY <1>4, Zenon DEF lksmith_destroy, lk_remove_before_all
  <2>2. ASSUME NEW u \in Threads
        PROVE  Wants[u] # l /\ Holds[u][l] = 0
    <3>1. ~(holders[l][u] >= 1)
      BY <1>1, <1>4 DEF InUse
    <3>2. ~tls_contains_lid(held[u], l)
      BY <1>1, <3>1, Counting, HeldRegistered, Zenon
    <3>3. CountOf(held[u], {l}) = 0
      <4>1. CountOf(held[u], {l}) \in Nat /\ ~(CountOf(held[u], {l}) >= 1)
        BY <1>1, <3>2, Counting, CountType, ContainsCount, Zenon
      <4>. QED BY <4>1
    <3>4. Wanted(u) # l
      <4>1. CASE pc[u] \in SearchPcs
        BY <1>1, <1>2, <4>1, ConstantsAssumption DEF ControlInv, ThreadControl
      <4>2. CASE pc[u] \in Pending
        BY <1>1, <3>1, <4>2, Counting, PendingRegistered, Zenon DEF Wanted
      <4>3. CASE pc[u] \notin SearchPcs \cup Pending
        BY <4>3, ConstantsAssumption, Zenon DEF Wanted
      <4>. QED BY <4>1, <4>2, <4>3, Zenon
    <3>. QED BY <3>3, <3>4, Zenon DEF Wants, Holds
  <2>3. Wants' = Wants /\ Holds' = Holds
    BY <1>2, <1>3, ViewStep, Zenon DEF Wants
  <2>. QED BY <1>2, <2>1, <2>2, <2>3, SameGraph, Zenon
           DEF Order!Retire, Order!Forget
<1>5. CASE ~(l \in tree /\ ~InUse(l))
  <2>1. UNCHANGED <<tree, before>>
    BY <1>5, Zenon DEF lksmith_destroy
  <2>. QED BY <1>2, <1>3, <2>1, HiddenStep, Zenon
<1>. QED BY <1>4, <1>5, Zenon

\* lksmith_optional_init introduces a lock, or leaves everything as it is.
LEMMA IntroduceRefines ==
  ASSUME IndInv, NEW t \in Threads, lksmith_optional_init(t)
  PROVE  ptr[t] \in Locks /\ (Order!Introduce(ptr[t]) \/ UNCHANGED Order!orderVars)
<1>1. HandlerStep(t)
  BY Zenon DEF HandlerStep
<1>2. pc \in [Threads -> Pcs] /\ TypeOK /\ ControlInv
  BY Zenon DEF IndInv, TypeOK, CallsType
<1>3. /\ pc[t] = "optinit" /\ pc'[t] \in {"idle", "rinit", "destroy"}
      /\ UNCHANGED <<before, held, log>> /\ tree' \in {tree, tree \cup {ptr[t]}}
  BY <1>2, Zenon DEF lksmith_optional_init, Return, Goto, tls
<1>4. ptr[t] \in Locks
  BY <1>2, <1>3, ArgumentType, Zenon
<1>5. Wanted(t) = None /\ Wanted(t)' = None
  BY <1>3, Zenon DEF Wanted, SearchPcs, Pending
<1>6. CASE tree' = tree
  BY <1>1, <1>3, <1>4, <1>5, <1>6, HiddenStep
<1>7. CASE tree' = tree \cup {ptr[t]}
  <2>1. Wants' = Wants /\ Holds' = Holds
    BY <1>1, <1>3, <1>5, ViewStep, Zenon DEF Wants
  <2>. QED BY <1>3, <1>4, <1>7, <2>1, Zenon DEF Order!Introduce, Order!Register
<1>. QED BY <1>3, <1>6, <1>7, Zenon

\* The steps that LockOrder does not see: the visits of the search, the real
\* functions, and the sections that only prepare one of them.
Hidden(t) ==
  \/ \E l \in Locks : \/ lksmith_preunlock(t, l) \/ pthread_spin_init(t, l)
                      \/ \E ty \in AttrTypes : pthread_mutex_init(t, l, ty)
                      \/ lksmith_search(t, l)
  \/ lksmith_prelock_process_depends(t) \/ lksmith_search_return(t)
  \/ lk_add_before(t) /\ before' = before
  \/ lksmith_prelock_end(t) \/ r_lock(t) \/ r_unlock(t)
  \/ r_pthread_spin_init(t) \/ r_destroy(t)

\* They change nothing of it.
LEMMA HiddenSteps ==
  ASSUME IndInv, NEW t \in Threads, ClientCall(t) \/ HandlerStep(t), Hidden(t)
  PROVE  UNCHANGED Order!orderVars
<1>1. pc \in [Threads -> Pcs] /\ ptr \in [Threads -> Locks \cup {None}]
  BY Zenon DEF IndInv, TypeOK, CallsType
<1> USE DEF Wanted, SearchPcs, Pending
<1>2. ASSUME NEW l \in Locks,
             \/ lksmith_preunlock(t, l) \/ pthread_spin_init(t, l)
             \/ \E ty \in AttrTypes : pthread_mutex_init(t, l, ty)
      PROVE  UNCHANGED Order!orderVars
  <2>1. /\ pc[t] = "idle" /\ pc'[t] \in {"runlock", "optinit"}
        /\ UNCHANGED <<tree, before, held, log>>
    BY <1>1, <1>2, Zenon DEF lksmith_preunlock, pthread_spin_init, pthread_mutex_init,
       Call, registry, tls
  <2>. QED BY <2>1, HiddenStep, Zenon
<1>3. ASSUME \/ lksmith_prelock_process_depends(t) \/ lksmith_search_return(t)
             \/ lk_add_before(t) /\ before' = before
             \/ lksmith_prelock_end(t)
             \/ \E l \in Locks : lksmith_search(t, l)
      PROVE  UNCHANGED Order!orderVars
  <2> DEFINE Stays == /\ pc[t] \in SearchPcs /\ pc'[t] \in SearchPcs \cup {"rlock"}
                      /\ UNCHANGED <<ptr, tree, before, held>>
                      /\ "inversion" \in log' <=> "inversion" \in log
  <2>1. ASSUME lksmith_prelock_process_depends(t) \/ lksmith_prelock_end(t)
        PROVE  Stays
    BY <1>1, <2>1, Zenon DEF lksmith_prelock_process_depends, lksmith_prelock_end, Goto,
       registry, tls
  <2>2. ASSUME lksmith_search_return(t) \/ (lk_add_before(t) /\ before' = before)
        PROVE  Stays
    BY <1>1, <2>2 DEF lksmith_search_return, lk_add_before, Goto, registry, tls
  <2>3. ASSUME NEW l \in Locks, lksmith_search(t, l)
        PROVE  Stays
    BY <1>1, <2>3, Zenon DEF lksmith_search, Goto, calls, registry, tls
  <2>4. Stays
    BY <1>3, <2>1, <2>2, <2>3, Zenon
  <2>. QED BY <2>4, HiddenStep, Zenon
<1>4. CASE r_lock(t)
  <2>1. /\ pc[t] = "rlock" /\ pc'[t] \in {"postlock", "postfail"} /\ ptr' = ptr
        /\ UNCHANGED <<tree, before, held, log>>
    BY <1>1, <1>4, Zenon DEF r_lock, Goto, registry, tls
  <2>. QED BY <2>1, HiddenStep, Zenon
<1>5. CASE r_unlock(t) \/ r_pthread_spin_init(t) \/ r_destroy(t)
  <2>1. /\ pc[t] \in {"runlock", "rinit", "rdestroy"}
        /\ pc'[t] \in {"idle", "postunlock", "destroy"}
        /\ UNCHANGED <<tree, before, held, log>>
    BY <1>1, <1>5, Zenon DEF r_unlock, r_pthread_spin_init, r_destroy, Goto, Return,
       registry, tls
  <2>. QED BY <2>1, HiddenStep, Zenon
<1>. QED BY <1>2, <1>3, <1>4, <1>5, Zenon DEF Hidden

\* Every step of a handler is one of LockOrder, or hidden from it.
LEMMA RefinementStep ==
  ASSUME IndInv, NEW t \in Threads, ClientCall(t) \/ HandlerStep(t)
  PROVE  Order!OrderNext \/ UNCHANGED Order!orderVars
<1>1. ASSUME ClientCall(t)
      PROVE  Order!OrderNext \/ UNCHANGED Order!orderVars
  <2>1. \/ \E l \in Locks, o \in LockOps, s \in Skips : lksmith_prelock(t, l, o, s)
        \/ \E l \in Locks : lksmith_destroy(t, l)
        \/ Hidden(t)
    BY <1>1, Zenon DEF ClientCall, Hidden
  <2>. QED BY <1>1, <2>1, WantRefines, RetireRefines, HiddenSteps, Zenon
           DEF Order!OrderNext
<1>2. ASSUME HandlerStep(t)
      PROVE  Order!OrderNext \/ UNCHANGED Order!orderVars
  <2>1. ASSUME report_inversion(t) \/ (lk_add_before(t) /\ before' # before)
        PROVE  Order!OrderNext
    <3>1. held[t][idx] \in Locks
      BY <2>1, HeldType, Zenon DEF IndInv, report_inversion, lk_add_before
    <3>. QED BY <2>1, <3>1, WarnRefines, CompareRefines, Zenon
             DEF Order!OrderNext
  <2>2. ASSUME lksmith_postlock(t) \/ lksmith_postlock_error(t)
        PROVE  Order!OrderNext
    BY <1>2, <2>2, AcquireRefines, GiveUpRefines, Zenon DEF Order!OrderNext
  <2>3. ASSUME lksmith_postunlock(t) \/ lksmith_optional_init(t)
        PROVE  Order!OrderNext \/ UNCHANGED Order!orderVars
    BY <2>3, ReleaseRefines, IntroduceRefines, Zenon DEF Order!OrderNext
  <2>4. ASSUME pc[t] = "destroy" /\ lksmith_destroy(t, ptr[t])
        PROVE  Order!OrderNext \/ UNCHANGED Order!orderVars
    <3>1. ptr[t] \in Locks
      BY <2>4, ArgumentType, Zenon DEF IndInv
    <3>. QED BY <1>2, <2>4, <3>1, RetireRefines, Zenon DEF Order!OrderNext
  <2>5. \/ report_inversion(t) \/ (lk_add_before(t) /\ before' # before)
        \/ lksmith_postlock(t) \/ lksmith_postlock_error(t)
        \/ lksmith_postunlock(t) \/ lksmith_optional_init(t)
        \/ pc[t] = "destroy" /\ lksmith_destroy(t, ptr[t])
        \/ Hidden(t)
    BY <1>2, Zenon DEF HandlerStep, Hidden
  <2>. QED BY <1>2, <2>1, <2>2, <2>3, <2>4, <2>5, HiddenSteps, Zenon
<1>. QED BY <1>1, <1>2, Zenon

\* The handlers implement LockOrder, for any number of threads and locks: no
\* thread gets a lock before it is compared with every lock that the thread
\* holds, and the search decides what each comparison finds.
THEOREM OrderImplemented == Spec => ImplementsLockOrder
<1>1. Init => Order!OrderInit
  <2>1. SUFFICES ASSUME Init PROVE Order!OrderInit
    BY Zenon
  <2>2. \A t \in Threads : Wanted(t) = None
    BY <2>1, Zenon DEF Init, Wanted, SearchPcs, Pending
  <2>3. \A t \in Threads, l \in Locks : CountOf(held[t], {l}) = 0
    BY <2>1, Counting, CountEmpty DEF Init
  <2>4. Wants = [t \in Threads |-> None]
        /\ Holds = [t \in Threads |-> [l \in Locks |-> 0]]
    BY <2>2, <2>3, Zenon DEF Wants, Holds
  <2>5. ("inversion" \in log) = FALSE
    BY <2>1 DEF Init
  <2>. QED BY <2>1, <2>4, <2>5, Zenon
           DEF Init, Order!OrderInit, Order!RegistryInit
<1>2. IndInv /\ [Next]_vars => [Order!OrderNext]_(Order!orderVars)
  <2>1. SUFFICES ASSUME IndInv, [Next]_vars
                 PROVE  Order!OrderNext \/ UNCHANGED Order!orderVars
    BY Zenon
  <2>2. CASE Next
    BY <2>1, <2>2, RefinementStep, Zenon DEF Next
  <2>3. CASE UNCHANGED vars
    BY <2>3, Zenon DEF Order!orderVars, vars, registry, prelock, tls, calls,
       Wants, Wanted, Holds
  <2>. QED BY <2>1, <2>2, <2>3, Zenon
<1>. QED BY <1>1, <1>2, Invariance, PTL
     DEF Spec, ImplementsLockOrder, Order!OrderSpec
=============================================================================
