--------------------------- MODULE StartupProofs ---------------------------
(***************************************************************************)
(* The inductive invariant of Startup, and the theorems that follow from   *)
(* it: the order of initialisation, the life of the thread-local storage   *)
(* and the error log.                                                      *)
(***************************************************************************)
EXTENDS Startup, TLAPS

-----------------------------------------------------------------------------
(***************************************************************************)
(* The steps of lksmith_init.                                              *)
(***************************************************************************)

\* Two sequences, one behind the other.
LEMMA Concatenation ==
  ASSUME NEW m \in Nat, NEW s, s = [i \in 1 .. m |-> s[i]],
         NEW n \in Nat, NEW u, u = [i \in 1 .. n |-> u[i]]
  PROVE  /\ Len(s \o u) = m + n
         /\ \A i \in 1 .. m : (s \o u)[i] = s[i]
<1> DEFINE S == {s[i] : i \in 1 .. m} \cup {u[i] : i \in 1 .. n}
<1>1. s \in [1 .. m -> S] /\ u \in [1 .. n -> S]
  BY Zenon
<1> HIDE DEF S
<1>2. s \in Seq(S) /\ Len(s) = m /\ u \in Seq(S) /\ Len(u) = n
  BY <1>1
<1>. QED BY <1>2

\* What lksmith_handler_init looks up comes first; there are more steps.
LEMMA InitStepsFacts ==
  /\ Len(HandlerFunctions) = 15 /\ Len(InitSteps) = 20
  /\ InitSteps[4] = "pthread_mutex_lock"
  /\ InitSteps[6] = "pthread_mutex_unlock"
  /\ InitSteps[12] = "pthread_cond_init"
  /\ InitSteps[15] = "pthread_cond_destroy"
<1>1. HandlerFunctions = [i \in 1 .. 15 |-> HandlerFunctions[i]]
  BY DEF HandlerFunctions
<1>2. SetupSteps = [i \in 1 .. 5 |-> SetupSteps[i]]
  BY DEF SetupSteps
<1>3. /\ Len(InitSteps) = 20
      /\ \A i \in 1 .. 15 : InitSteps[i] = HandlerFunctions[i]
  BY <1>1, <1>2, Concatenation DEF InitSteps
<1>4. Len(HandlerFunctions) = 15
  BY Zenon DEF HandlerFunctions
<1>5. /\ HandlerFunctions[4] = "pthread_mutex_lock"
      /\ HandlerFunctions[6] = "pthread_mutex_unlock"
      /\ HandlerFunctions[12] = "pthread_cond_init"
      /\ HandlerFunctions[15] = "pthread_cond_destroy"
  BY Zenon DEF HandlerFunctions
<1>. QED BY <1>3, <1>4, <1>5

\* Once its first fifteen steps have been taken, the real functions that the
\* error log and the handlers of condition variables call are known.
LEMMA FunctionsKnown ==
  ASSUME done \in 0 .. Len(InitSteps), done >= Len(HandlerFunctions)
  PROVE  /\ Done("pthread_mutex_lock") /\ Done("pthread_mutex_unlock")
         /\ Done("pthread_cond_init") /\ Done("pthread_cond_destroy")
<1>1. {4, 6, 12, 15} \subseteq 1 .. done
  BY InitStepsFacts
<1>. QED BY <1>1, InitStepsFacts, Zenon DEF Done

-----------------------------------------------------------------------------
(***************************************************************************)
(* The error log.                                                          *)
(***************************************************************************)

\* Each text of LKSMITH_LOG leads to a known type, with a file for the type
\* file; only an address read as 0 leaves the type callback without a function.
LEMMA LogTarget ==
  ASSUME NEW e \in Environments
  PROVE  LET target == lksmith_log_init(e) IN
         /\ target.type \in {"syslog", "file", "callback"}
         /\ target.file \in {"null", "file", "stderr", "stdout"}
         /\ target.cb \in BOOLEAN
         /\ target.type = "file" => target.file # "null"
         /\ target.type = "callback" =>
              target.cb \/ e = "callback_null"
BY Zenon DEF lksmith_log_init, ToFile, ToCallback, lksmith_log_init_file,
       lksmith_log_init_cb

\* A call of the error log starts with nothing written ...
LEMMA CallErrorStep ==
  ASSUME LogType, LogInv, NEW t \in Threads, step[t] = "out", NEW n \in Int,
         CallError(t, n)
  PROVE  LogType' /\ LogInv'
<1>1. LogType'
  <2>1. (IF n < 0 THEN 1 ELSE n + 1) \in Nat
    OBVIOUS
  <2>. QED BY <2>1, Zenon DEF LogType, CallError
<1>2. LogInv'
  BY Zenon DEF LogType, LogInv, CallError
<1>. QED BY <1>1, <1>2, Zenon

\* ... and its steps keep the log in order.
LEMMA ErrorStepInv ==
  ASSUME LogType, LogInv, NEW t \in Threads, ErrorStep(t)
  PROVE  LogType' /\ LogInv'
<1>1. CASE lksmith_errora_lock(t)
  BY <1>1, ErrorLogAssumption, Zenon DEF LogType, LogInv, lksmith_errora_lock
<1>2. CASE lksmith_errora_unlocked(t)
  <2>1. /\ g_log_type' \in {"syslog", "file", "callback"}
        /\ g_log_file' \in {"null", "file", "stderr", "stdout"}
        /\ g_error_cb' \in BOOLEAN
        /\ g_log_type' = "file" => g_log_file' # "null"
        /\ g_log_type' = "callback" => g_error_cb' \/ environment = "callback_null"
    <3>1. CASE g_log_type = "uninit"
      BY <1>2, <3>1, LogTarget, Zenon DEF lksmith_errora_unlocked, LogType
    <3>2. CASE g_log_type # "uninit"
      BY <1>2, <3>2, Zenon DEF lksmith_errora_unlocked, LogType, LogInv
    <3>. QED BY <3>1, <3>2, Zenon
  <2>2. LogType'
    BY <1>2, <2>1 DEF lksmith_errora_unlocked, LogType
  <2> DEFINE null == g_log_type' = "callback" /\ ~g_error_cb'
  <2>3. /\ step' = [step EXCEPT ![t] = IF null THEN "null" ELSE "frames"]
        /\ last' = IF null THEN last ELSE t
        /\ g_error_lock' = g_error_lock /\ environment' = environment
        /\ g_error_lock = t
    BY <1>2, Zenon DEF lksmith_errora_unlocked, LogInv
  <2>4. last # None => g_log_type' = g_log_type /\ g_error_cb' = g_error_cb
    BY <1>2, Zenon DEF lksmith_errora_unlocked, LogInv
  <2> HIDE DEF null
  <2>5. ASSUME NEW u \in Threads
        PROVE  /\ step'[u] \in {"message", "frames", "null"} => g_error_lock' = u
               /\ step'[u] = "frames" => last' = u
               /\ step'[u] = "null" => null
    <3>1. CASE u = t
      BY <2>3, <3>1, Zenon DEF LogType
    <3>2. CASE u # t
      <4>1. step'[u] = step[u]
        BY <2>3, <3>2, Zenon DEF LogType
      <4>2. step[u] \notin {"message", "frames", "null"}
        BY <2>3, <3>2, Zenon DEF LogInv
      <4>. QED BY <4>1, <4>2, Zenon
    <3>. QED BY <3>1, <3>2, Zenon
  <2>6. last' # None => ~null
    BY <2>3, <2>4, Zenon DEF LogInv, null
  <2>. QED BY <2>1, <2>2, <2>3, <2>5, <2>6, Zenon DEF LogInv, null
<1>3. CASE lksmith_errora_with_bt_end(t)
  BY <1>3, ErrorLogAssumption, Zenon DEF LogType, LogInv, lksmith_errora_with_bt_end
<1>. QED BY <1>1, <1>2, <1>3, Zenon DEF ErrorStep

\* It stays in order when it does not change.
LEMMA LogUnchanged ==
  ASSUME LogType, LogInv, UNCHANGED logvars
  PROVE  LogType' /\ LogInv'
BY Zenon DEF LogType, LogInv, logvars

-----------------------------------------------------------------------------
(***************************************************************************)
(* The steps of Startup.                                                   *)
(***************************************************************************)

\* The control states.
StartPcs == {"idle", "spin"} \cup Section \cup Ready

\* What the invariant says without the log.
StateInv == StartupType /\ InitInv /\ StorageInv

\* Thread t goes on to p, where what p asks for is given, and nothing else
\* changes but perhaps fault and the scratch area.
Moves(t, p) ==
  /\ p \in StartPcs
  /\ pc' = [pc EXCEPT ![t] = p]
  /\ fault' \in {"none", "abort", "null", "crash"}
  /\ UNCHANGED <<improved, phase, initvars, keyvars>>
  /\ scratch' = scratch \/ scratch' = backtrace_scratch(t)
  /\ phase[t] # "gone"
  /\ p = "initialized" => done = Len(InitSteps)
  /\ p \in Ready => g_initialized /\ done = Len(InitSteps)
  /\ p \in Section => g_init_state_lock = t
  /\ p = "use" => storage[t] = "live" \/ (improved /\ t_improved_tls[t])

\* Such a step keeps the invariant.
LEMMA MoveInv ==
  ASSUME StateInv, NEW t \in Threads, NEW p, Moves(t, p)
  PROVE  StateInv'
<1>1. pc \in [Threads -> StartPcs] /\ scratch \in [Threads -> {"none", "live", "lost"}]
  BY Zenon DEF StateInv, StartupType, StartPcs
<1>2. /\ scratch' \in [Threads -> {"none", "live", "lost"}]
      /\ \A u \in Threads :
           \/ scratch'[u] = scratch[u]
           \/ LibcBacktrace /\ (scratch'[u] = "live" => storage[u] = "live")
  BY <1>1, Zenon DEF Moves, backtrace_scratch
<1>3. StartupType'
  BY <1>2, Zenon DEF StateInv, StartupType, Moves, StartPcs, initvars, keyvars
<1>4. ASSUME NEW u \in Threads
      PROVE  /\ pc'[u] = "initialized" => done = Len(InitSteps)
             /\ pc'[u] \in Ready => g_initialized /\ done = Len(InitSteps)
             /\ pc'[u] \in Section => g_init_state_lock = u
             /\ pc'[u] = "use" => storage[u] = "live" \/ (improved /\ t_improved_tls[u])
             /\ phase[u] = "gone" => pc'[u] = "idle" /\ ~specific[u]
  <2>1. CASE u = t
    BY <1>1, <2>1, Zenon DEF Moves
  <2>2. CASE u # t
    <3>1. pc'[u] = pc[u]
      BY <1>1, <2>2, Zenon DEF Moves
    <3>. QED BY <3>1, Zenon DEF StateInv, InitInv, ReadyWhenUsed, StorageInv,
         Section
  <2>. QED BY <2>1, <2>2, Zenon
<1>5. UNCHANGED <<improved, phase, g_init_state_lock, g_initialized, done,
                  specific, t_improved_tls, storage>>
  BY Zenon DEF Moves, initvars, keyvars
<1>6. InitInv'
  BY <1>4, <1>5, Zenon DEF StateInv, InitInv, ReadyWhenUsed, Section
<1>7. StorageInv'
  BY <1>2, <1>4, <1>5, Zenon DEF StateInv, StorageInv
<1>. QED BY <1>3, <1>6, <1>7, Zenon DEF StateInv

\* A thread inside a handler is not gone.
LEMMA BusyNotGone ==
  ASSUME StateInv, NEW t \in Threads, pc[t] # "idle" \/ phase[t] # "gone"
  PROVE  phase[t] # "gone"
BY Zenon DEF StateInv, StorageInv

\* The steps that end in a report, and the others that only go on.
LEMMA MoveSteps ==
  ASSUME StateInv, NEW t \in Threads,
         \/ get_or_create_tls(t) \/ lksmith_init_fails(t) \/ abort(t)
         \/ pthread_cond_init(t) \/ pthread_cond_destroy(t)
         \/ lksmith_init_message(t)
         \/ create_tls_fails(t) \/ use_null(t) \/ use_tls(t)
  PROVE  \E p : Moves(t, p)
<1>1. /\ pc \in [Threads -> StartPcs] /\ fault \in {"none", "abort", "null", "crash"}
      /\ phase \in [Threads -> {"run", "exiting", "gone"}]
  BY Zenon DEF StateInv, StartupType, StartPcs
<1>2. /\ pc[t] \in Ready => g_initialized /\ done = Len(InitSteps)
      /\ pc[t] \in Section => g_init_state_lock = t
      /\ pc[t] = "use" => storage[t] = "live" \/ (improved /\ t_improved_tls[t])
      /\ pc[t] = "initialized" => done = Len(InitSteps)
  BY Zenon DEF StateInv, InitInv, ReadyWhenUsed, StorageInv, Section
<1>3. CASE get_or_create_tls(t)
  <2>1. phase[t] # "gone"
    BY <1>3, Zenon DEF get_or_create_tls, MayCall
  <2>2. CASE improved /\ t_improved_tls[t]
    <3>1. g_initialized /\ done = Len(InitSteps)
      BY <2>2, Zenon DEF StateInv, StorageInv, InitInv
    <3>2. Moves(t, "use")
      BY <1>1, <1>3, <2>1, <2>2, <3>1, Zenon
         DEF Moves, tlsvars, StartPcs, Section, Ready, get_or_create_tls, Goto
    <3>. QED BY <3>2, Zenon
  <2>3. CASE ~(improved /\ t_improved_tls[t])
    <3>1. Moves(t, "spin")
      BY <1>1, <1>3, <2>1, <2>3, Zenon
         DEF Moves, tlsvars, StartPcs, Section, Ready, get_or_create_tls, Goto
    <3>. QED BY <3>1, Zenon
  <2>. QED BY <2>2, <2>3, Zenon
<1>4. CASE pthread_cond_init(t) \/ pthread_cond_destroy(t)
  <2>1. phase[t] # "gone"
    BY <1>4, Zenon DEF pthread_cond_init, pthread_cond_destroy, cond_handler, MayCall
  <2>2. pc' = [pc EXCEPT ![t] = pc[t]] /\ fault' \in {"none", "abort", "null", "crash"}
    BY <1>1, <1>4, Zenon
       DEF pthread_cond_init, pthread_cond_destroy, cond_handler
  <2>3. Moves(t, pc[t])
    BY <1>1, <1>2, <1>4, <2>1, <2>2, Zenon
       DEF Moves, tlsvars, pthread_cond_init, pthread_cond_destroy, cond_handler
  <2>. QED BY <2>3, Zenon
<1>5. CASE abort(t)
  <2>1. phase[t] # "gone"
    BY <1>5, BusyNotGone, Zenon DEF abort
  <2>2. pc' = [pc EXCEPT ![t] = pc[t]] /\ fault' \in {"none", "abort", "null", "crash"}
    BY <1>1, <1>5, Zenon DEF abort
  <2>3. Moves(t, pc[t])
    BY <1>1, <1>2, <1>5, <2>1, <2>2, Zenon DEF Moves, tlsvars, abort
  <2>. QED BY <2>3, Zenon
<1>6. CASE lksmith_init_fails(t)
  <2>1. phase[t] # "gone"
    BY <1>6, BusyNotGone, Zenon DEF lksmith_init_fails
  <2>2. \E p \in {"init", "abort"} :
          pc' = [pc EXCEPT ![t] = p] /\ fault' \in {"none", "abort", "null", "crash"}
    BY <1>1, <1>6, Zenon DEF lksmith_init_fails, ReportThen, Goto
  <2>3. g_init_state_lock = t
    BY <1>2, <1>6, Zenon DEF lksmith_init_fails, Section
  <2>4. ASSUME NEW p \in {"init", "abort"}, pc' = [pc EXCEPT ![t] = p],
               fault' \in {"none", "abort", "null", "crash"}
        PROVE  Moves(t, p)
    BY <1>6, <2>1, <2>3, <2>4, Zenon
       DEF Moves, tlsvars, StartPcs, Section, Ready, lksmith_init_fails
  <2>. QED BY <2>2, <2>4, Zenon
<1>7. CASE lksmith_init_message(t)
  <2>1. phase[t] # "gone"
    BY <1>7, BusyNotGone, Zenon DEF lksmith_init_message
  <2>2. pc' = [pc EXCEPT ![t] = "initialized"]
        /\ fault' \in {"none", "abort", "null", "crash"}
    BY <1>1, <1>7, Zenon DEF lksmith_init_message, ReportThen, Goto
  <2>3. g_init_state_lock = t
    BY <1>2, <1>7, Zenon DEF lksmith_init_message, Section
  <2>4. Moves(t, "initialized")
    BY <1>7, <2>1, <2>2, <2>3, Zenon
       DEF Moves, tlsvars, StartPcs, Section, Ready, lksmith_init_message
  <2>. QED BY <2>4, Zenon
<1>8. CASE create_tls_fails(t)
  <2>1. phase[t] # "gone"
    BY <1>8, BusyNotGone, Zenon DEF create_tls_fails
  <2>2. pc' = [pc EXCEPT ![t] = "null"] /\ fault' \in {"none", "abort", "null", "crash"}
    BY <1>1, <1>8, Zenon DEF create_tls_fails, ReportThen, Goto
  <2>3. g_initialized /\ done = Len(InitSteps)
    BY <1>2, <1>8, Zenon DEF create_tls_fails, Ready
  <2>4. Moves(t, "null")
    BY <1>8, <2>1, <2>2, <2>3, Zenon
       DEF Moves, tlsvars, StartPcs, Section, Ready, create_tls_fails
  <2>. QED BY <2>4, Zenon
<1>9. CASE use_null(t) \/ use_tls(t)
  <2>1. phase[t] # "gone"
    BY <1>9, BusyNotGone, Zenon DEF use_null, use_tls
  <2>2. /\ UNCHANGED <<improved, phase, initvars, keyvars>>
        /\ scratch' = scratch \/ scratch' = backtrace_scratch(t)
    BY <1>9, Zenon DEF use_null, use_tls, tlsvars
  <2>3. CASE /\ pc' = [pc EXCEPT ![t] = "idle"]
             /\ fault' \in {"none", "abort", "null", "crash"}
    <3>1. Moves(t, "idle")
      BY <2>1, <2>2, <2>3, Zenon DEF Moves, StartPcs, Section, Ready
    <3>. QED BY <3>1, Zenon
  <2>4. CASE pc' = pc /\ fault' = "crash"
    <3>1. pc' = [pc EXCEPT ![t] = pc[t]]
      BY <1>1, <2>4, Zenon
    <3>2. Moves(t, pc[t])
      BY <1>1, <1>2, <2>1, <2>2, <2>4, <3>1, Zenon DEF Moves
    <3>. QED BY <3>2, Zenon
  <2>. QED BY <1>1, <1>9, <2>3, <2>4, Zenon DEF use_null, use_tls, ReportThen, Goto
<1>. QED BY <1>3, <1>4, <1>5, <1>6, <1>7, <1>8, <1>9, Zenon

\* The section under g_init_state_lock: no other thread is in it, and nobody
\* is behind it before it has been completed once.
LEMMA SectionSteps ==
  ASSUME StateInv, NEW t \in Threads,
         \/ simple_spin_lock(t) \/ lksmith_init(t) \/ lksmith_init_end(t)
         \/ simple_spin_unlock(t)
  PROVE  StateInv'
<1>1. /\ pc \in [Threads -> StartPcs] /\ g_init_state_lock \in Threads \cup {None}
      /\ done \in 0 .. Len(InitSteps) /\ Len(InitSteps) \in Nat
      /\ g_initialized \in BOOLEAN /\ None \notin Threads
  BY InitStepsFacts, ErrorLogAssumption DEF StateInv, StartupType, StartPcs
<1>2. /\ g_initialized => done = Len(InitSteps)
      /\ \A u \in Threads :
           /\ pc[u] = "initialized" => done = Len(InitSteps)
           /\ pc[u] \in Ready => g_initialized /\ done = Len(InitSteps)
           /\ pc[u] \in Section => g_init_state_lock = u
  BY Zenon DEF StateInv, InitInv, ReadyWhenUsed, Section
<1>3. UNCHANGED <<improved, phase, specific, t_improved_tls, storage, scratch, fault>>
  BY Zenon DEF simple_spin_lock, lksmith_init, lksmith_init_end, simple_spin_unlock,
     tlsvars, keyvars
<1>4. \E p \in StartPcs : pc' = [pc EXCEPT ![t] = p]
  <2>1. CASE lksmith_init(t)
    BY <1>1, <2>1, Zenon DEF lksmith_init
  <2>2. CASE ~lksmith_init(t)
    BY <2>2, Zenon DEF simple_spin_lock, lksmith_init_end, simple_spin_unlock, Goto,
       StartPcs, Section, Ready
  <2>. QED BY <2>1, <2>2, Zenon
<1>5. /\ g_init_state_lock' \in Threads \cup {None}
      /\ g_initialized' \in BOOLEAN /\ done' \in 0 .. Len(InitSteps)
      /\ g_initialized => g_initialized'
  <2>1. CASE lksmith_init(t)
    BY <1>1, <2>1 DEF lksmith_init
  <2>2. CASE ~lksmith_init(t)
    BY <1>1, <2>2, Zenon DEF simple_spin_lock, lksmith_init_end,
       simple_spin_unlock
  <2>. QED BY <2>1, <2>2, Zenon
<1>6. StartupType'
  BY <1>1, <1>3, <1>4, <1>5 DEF StateInv, StartupType, StartPcs
<1>7. InitInv'
  <2> SUFFICES /\ g_initialized' => done' = Len(InitSteps)
               /\ \A u \in Threads :
                    /\ pc'[u] = "initialized" => done' = Len(InitSteps)
                    /\ pc'[u] \in Ready => g_initialized' /\ done' = Len(InitSteps)
                    /\ pc'[u] \in Section => g_init_state_lock' = u
    BY Zenon DEF InitInv, ReadyWhenUsed, Section
  <2>1. CASE simple_spin_lock(t)
    BY <1>1, <1>2, <2>1, Zenon DEF simple_spin_lock, Goto, Section, Ready
  <2>2. CASE lksmith_init(t)
    BY <1>1, <1>2, <2>2 DEF lksmith_init, Section, Ready
  <2>3. CASE lksmith_init_end(t)
    BY <1>1, <1>2, <2>3, Zenon DEF lksmith_init_end, Goto, Section, Ready
  <2>4. CASE simple_spin_unlock(t)
    BY <1>1, <1>2, <2>4, Zenon DEF simple_spin_unlock, Goto, Section, Ready
  <2>. QED BY <2>1, <2>2, <2>3, <2>4, Zenon
<1>8. ASSUME NEW u \in Threads
      PROVE  /\ pc'[u] = "use" => storage[u] = "live" \/ (improved /\ t_improved_tls[u])
             /\ phase[u] = "gone" => pc'[u] = "idle"
  <2>1. CASE u # t
    BY <1>1, <1>4, <2>1, Zenon DEF StateInv, StorageInv
  <2>2. CASE u = t
    <3>1. phase[t] # "gone"
      BY BusyNotGone, Zenon DEF simple_spin_lock, lksmith_init, lksmith_init_end,
         simple_spin_unlock
    <3>2. pc'[t] = "use" => specific[t]
      BY <1>1, Zenon DEF simple_spin_lock, lksmith_init, lksmith_init_end,
         simple_spin_unlock, Goto
    <3>. QED BY <2>2, <3>1, <3>2, Zenon DEF StateInv, StorageInv
  <2>. QED BY <2>1, <2>2, Zenon
<1>9. StorageInv'
  BY <1>3, <1>5, <1>8, Zenon DEF StateInv, StorageInv
<1>. QED BY <1>6, <1>7, <1>9, Zenon DEF StateInv

\* The storage comes and goes with its key.
LEMMA StorageSteps ==
  ASSUME StateInv, NEW t \in Threads,
         \/ create_tls(t) \/ thread_exit(t) \/ lksmith_tls_destroy(t)
         \/ thread_gone(t)
  PROVE  StateInv'
<1>1. /\ pc \in [Threads -> StartPcs]
      /\ phase \in [Threads -> {"run", "exiting", "gone"}]
      /\ specific \in [Threads -> BOOLEAN]
      /\ t_improved_tls \in [Threads -> BOOLEAN] /\ improved \in BOOLEAN
      /\ storage \in [Threads -> {"none", "live", "freed"}]
      /\ scratch \in [Threads -> {"none", "live", "lost"}]
  BY StartupAssumption, Zenon DEF StateInv, StartupType, StartPcs
<1>2. UNCHANGED <<improved, g_init_state_lock, g_initialized, done, fault>>
  BY Zenon DEF create_tls, thread_exit, lksmith_tls_destroy, thread_gone, initvars
<1>3. /\ pc' \in [Threads -> StartPcs]
      /\ \A u \in Threads :
           pc'[u] = pc[u] \/ (pc'[u] = "use" /\ pc[u] = "calloc")
  <2>1. CASE create_tls(t)
    <3>1. pc' = [pc EXCEPT ![t] = "use"] /\ pc[t] = "calloc"
      BY <2>1, Zenon DEF create_tls, Goto
    <3>2. "use" \in StartPcs
      BY Zenon DEF StartPcs, Ready
    <3>. QED BY <1>1, <3>1, <3>2, Zenon
  <2>2. CASE ~create_tls(t)
    <3>1. pc' = pc
      BY <2>2, Zenon DEF thread_exit, lksmith_tls_destroy, thread_gone
    <3>. QED BY <1>1, <3>1, Zenon
  <2>. QED BY <2>1, <2>2, Zenon
<1>4. InitInv'
  BY <1>1, <1>2, <1>3 DEF StateInv, InitInv, ReadyWhenUsed, Ready
<1>5. StartupType'
  <2>1. /\ phase' \in [Threads -> {"run", "exiting", "gone"}]
        /\ storage' \in [Threads -> {"none", "live", "freed"}]
        /\ scratch' \in [Threads -> {"none", "live", "lost"}]
    BY <1>1, Zenon DEF create_tls, thread_exit, lksmith_tls_destroy, thread_gone,
       tlsvars, keyvars
  <2>2. /\ specific' \in [Threads -> BOOLEAN]
        /\ t_improved_tls' \in [Threads -> BOOLEAN]
    BY <1>1, Zenon DEF create_tls, thread_exit, lksmith_tls_destroy,
       thread_gone, tlsvars, keyvars
  <2>. QED BY <1>2, <1>3, <2>1, <2>2, Zenon DEF StateInv, StartupType, StartPcs
<1>6. StorageInv'
  <2>1. CASE create_tls(t)
    <3>1. g_initialized
      BY <2>1, Zenon DEF create_tls, StateInv, InitInv, ReadyWhenUsed, Ready
    <3>. QED BY <1>1, <2>1, <3>1, Zenon DEF create_tls, Goto, StateInv, StorageInv,
             initvars
  <2>2. CASE thread_exit(t)
    BY <1>1, <2>2, Zenon DEF thread_exit, StateInv, StorageInv, initvars, tlsvars, keyvars
  <2>3. CASE lksmith_tls_destroy(t)
    BY <1>1, <2>3, Zenon DEF lksmith_tls_destroy, StateInv, StorageInv, initvars
  <2>4. CASE thread_gone(t)
    BY <1>1, <2>4, Zenon DEF thread_gone, StateInv, StorageInv, initvars, tlsvars, keyvars
  <2>. QED BY <2>1, <2>2, <2>3, <2>4, Zenon
<1>. QED BY <1>4, <1>5, <1>6, Zenon DEF StateInv

-----------------------------------------------------------------------------
(***************************************************************************)
(* The inductive invariant.                                                *)
(***************************************************************************)

\* A report is made only when r_pthread_mutex_lock is known, and so is every
\* real function that the handlers of condition variables call, where the
\* program does not use those before Locksmith is initialised.
LEMMA FaultSteps ==
  ASSUME StateInv, NEW t \in Threads, ClientCall(t) \/ HandlerStep(t),
         ~EarlyConds, NoNullCall
  PROVE  NoNullCall'
<1>1. done \in 0 .. Len(InitSteps) /\ Len(HandlerFunctions) <= Len(InitSteps)
      /\ Len(InitSteps) \in Nat /\ Len(HandlerFunctions) \in Nat
  BY InitStepsFacts DEF StateInv, StartupType
<1>2. ASSUME done = Len(InitSteps) \/ done >= Len(HandlerFunctions)
      PROVE  /\ Done("pthread_mutex_lock") /\ Done("pthread_mutex_unlock")
             /\ Done("pthread_cond_init") /\ Done("pthread_cond_destroy")
  BY <1>1, <1>2, FunctionsKnown, Zenon
<1>3. pc[t] \in Ready => done = Len(InitSteps)
  BY Zenon DEF StateInv, InitInv, ReadyWhenUsed
<1>4. ASSUME pthread_cond_init(t) \/ pthread_cond_destroy(t)
      PROVE  fault' = fault
  <2>1. done = Len(InitSteps)
    BY <1>4, Zenon DEF pthread_cond_init, pthread_cond_destroy, cond_handler,
       StateInv, InitInv
  <2>. QED BY <1>2, <1>4, <2>1, Zenon
           DEF pthread_cond_init, pthread_cond_destroy, cond_handler
<1>5. ASSUME lksmith_init_fails(t)
      PROVE  fault' \in {fault, "abort"}
  BY <1>1, <1>2, <1>5 DEF lksmith_init_fails, ReportThen
<1>6. ASSUME \/ lksmith_init_message(t) \/ create_tls_fails(t) \/ use_null(t)
             \/ use_tls(t)
      PROVE  fault' \in {fault, "crash"}
  <2>1. done = Len(InitSteps)
    BY <1>3, <1>6, Zenon DEF lksmith_init_message, create_tls_fails, use_null, use_tls,
       Ready
  <2>. QED BY <1>2, <1>6, <2>1, Zenon DEF lksmith_init_message, create_tls_fails,
           use_null, use_tls, ReportThen
<1>7. fault' \in {fault, "abort", "crash"}
  BY <1>4, <1>5, <1>6, Zenon DEF ClientCall, HandlerStep, get_or_create_tls,
     thread_exit, lksmith_tls_destroy, thread_gone, simple_spin_lock,
     lksmith_init, abort, lksmith_init_end, simple_spin_unlock, create_tls,
     startvars
<1>. QED BY <1>7, Zenon DEF NoNullCall

\* The log changes only through its own steps.
LEMMA LogSteps ==
  ASSUME LogType, LogInv, NEW t \in Threads, ClientCall(t) \/ HandlerStep(t)
  PROVE  LogType' /\ LogInv'
<1>1. CASE ErrorStep(t)
  BY <1>1, ErrorStepInv, Zenon
<1>2. CASE UNCHANGED logvars
  BY <1>2, LogUnchanged, Zenon
<1>3. CASE step[t] = "out" /\ \E n \in Int : CallError(t, n)
  BY <1>3, CallErrorStep, Zenon
<1>4. 0 \in Int /\ \A n \in -1 .. MaxFrames : n \in Int
  BY StartupAssumption
<1>. QED BY <1>1, <1>2, <1>3, <1>4, ZenonT(30)
     DEF ClientCall, HandlerStep, get_or_create_tls,
     pthread_cond_init, pthread_cond_destroy, cond_handler, thread_exit,
     lksmith_tls_destroy, thread_gone, simple_spin_lock, lksmith_init,
     lksmith_init_fails, abort, lksmith_init_message, lksmith_init_end,
     simple_spin_unlock, create_tls, create_tls_fails, use_null, use_tls,
     ReportThen

\* The invariant holds at the start.
LEMMA StartupInit == Init => StartupInv
<1>1. SUFFICES ASSUME Init PROVE StartupInv
  BY Zenon
<1>2. LogType /\ LogInv
  BY <1>1, ErrorLogAssumption, Zenon DEF Init, LogInit, LogType, LogInv
<1>3. StartupType
  <2>1. 0 \in 0 .. Len(InitSteps) /\ "idle" \in {"idle", "spin"}
    BY InitStepsFacts
  <2>. QED BY <1>1, <2>1, Zenon DEF Init, StartupType
<1>4. InitInv /\ StorageInv /\ NoNullCall
  BY <1>1, StartupAssumption, Zenon
     DEF Init, InitInv, ReadyWhenUsed, Ready, StorageInv, NoNullCall
<1>. QED BY <1>2, <1>3, <1>4, Zenon DEF StartupInv

\* Every step keeps it.
LEMMA StartupStep == StartupInv /\ [Next]_vars => StartupInv'
<1>1. SUFFICES ASSUME StartupInv, [Next]_vars PROVE StartupInv'
  BY Zenon
<1>2. LogType /\ LogInv /\ StateInv /\ (NoNullCall \/ EarlyConds)
  BY <1>1, Zenon DEF StartupInv, StateInv
<1>3. CASE Next
  <2>1. PICK t \in Threads : ClientCall(t) \/ HandlerStep(t)
    BY <1>3, Zenon DEF Next
  <2>2. LogType' /\ LogInv'
    BY <1>2, <2>1, LogSteps, Zenon
  <2>3. StateInv'
    <3>1. CASE UNCHANGED startvars
      BY <1>2, <3>1, Zenon DEF startvars, initvars, tlsvars, keyvars, StateInv, StartupType,
         InitInv, ReadyWhenUsed, StorageInv
    <3>. QED BY <1>2, <2>1, <3>1, MoveSteps, MoveInv, SectionSteps, StorageSteps, Zenon
             DEF ClientCall, HandlerStep
  <2>4. (NoNullCall \/ EarlyConds)'
    BY <1>2, <2>1, FaultSteps, Zenon
  <2>. QED BY <2>2, <2>3, <2>4, Zenon DEF StartupInv, StateInv
<1>4. CASE UNCHANGED vars
  BY <1>2, <1>4, LogUnchanged, Zenon DEF vars, startvars, initvars, tlsvars, keyvars, StateInv,
     StartupType, StartupInv, InitInv, ReadyWhenUsed, StorageInv, NoNullCall
<1>. QED BY <1>1, <1>3, <1>4, Zenon

\* The inductive invariant holds in every reachable state of Startup, for both
\* builds, any number of threads and any text of LKSMITH_LOG.
THEOREM StartupInvariance == Spec => []StartupInv
BY StartupInit, StartupStep, PTL DEF Spec

-----------------------------------------------------------------------------
(***************************************************************************)
(* What follows from it.                                                   *)
(***************************************************************************)

\* Whoever leaves the section under g_init_state_lock finds lksmith_init
\* complete, and it runs only once.
THEOREM InitialisedWhenUsed == Spec => []ReadyWhenUsed
BY StartupInvariance, PTL DEF StartupInv, InitInv

\* No NULL pointer is called when condition variables are not used before the
\* first lock; the run constructors shows what happens otherwise.
THEOREM FunctionsResolved ==
  ASSUME ~EarlyConds
  PROVE  Spec => []NoNullCall
<1>1. StartupInv => NoNullCall
  BY Zenon DEF StartupInv
<1>. QED BY <1>1, StartupInvariance, PTL

\* A handler works on freed storage only through the cache, in a thread whose
\* key has been destroyed: in every build, however the calls, the exit of the
\* thread and the destructor are interleaved, and whatever fails.
THEOREM StorageLive == Spec => []FreedOnlyInCache
<1>1. StartupInv => FreedOnlyInCache
  BY Zenon DEF StartupInv, StartupType, StorageInv, FreedOnlyInCache
<1>. QED BY <1>1, StartupInvariance, PTL

\* A build without the cache, then, never works on freed storage.
THEOREM KeyedStorageLive ==
  ASSUME TRUE \notin Builds
  PROVE  Spec => []NoUseAfterFree
<1>1. StartupInv => NoUseAfterFree
  BY StartupAssumption, Zenon DEF StartupInv, StartupType, StorageInv, NoUseAfterFree
<1>. QED BY <1>1, StartupInvariance, PTL

\* A thread that is gone has left no structure and no list behind, whatever its
\* destructors did; with libunwind_backtrace.c it has left nothing at all.
THEOREM NothingLeaks ==
  Spec => [](StorageReleased /\ (LibcBacktrace \/ ScratchReleased))
<1>1. StartupInv => StorageReleased /\ (LibcBacktrace \/ ScratchReleased)
  BY Zenon DEF StartupInv, StorageInv, StorageReleased, ScratchReleased
<1>. QED BY <1>1, StartupInvariance, PTL

\* Every line that is written has a target, and only an address read as 0 ends
\* the process instead of being replaced by stderr.
THEOREM TargetCorrect == Spec => []TargetReady
<1>1. StartupInv => TargetReady
  BY Zenon DEF StartupInv, LogType, LogInv, TargetReady
<1>. QED BY <1>1, StartupInvariance, PTL

\* The lines of a report stay together.
THEOREM ReportsStayWhole == Spec => ReportsWhole
<1> DEFINE Whole == \A t \in Threads : InReport(t) => last' = t
<1>1. ASSUME StartupInv, Next, NEW t \in Threads, InReport(t)
      PROVE  last' = t
  <2>1. last = t /\ g_error_lock = t
    BY <1>1, Zenon DEF StartupInv, LogInv, InReport
  <2>2. PICK u \in Threads : ClientCall(u) \/ HandlerStep(u)
    BY <1>1, Zenon DEF Next
  <2>3. CASE lksmith_errora_unlocked(u)
    BY <1>1, <2>1, <2>3, Zenon DEF StartupInv, LogInv, lksmith_errora_unlocked
  <2>4. CASE last' = last
    BY <2>1, <2>4, Zenon
  <2>. QED BY <2>2, <2>3, <2>4, ZenonT(30)
     DEF ClientCall, HandlerStep, get_or_create_tls,
     pthread_cond_init, pthread_cond_destroy, cond_handler, thread_exit,
     lksmith_tls_destroy, thread_gone, simple_spin_lock, lksmith_init,
     lksmith_init_fails, abort, lksmith_init_message, lksmith_init_end,
     simple_spin_unlock, create_tls, create_tls_fails, use_null, use_tls,
     ReportThen, CallError, ErrorStep, lksmith_errora_lock,
     lksmith_errora_with_bt_end, logvars
<1>2. StartupInv /\ [Next]_vars => [Whole]_logvars
  BY <1>1, Zenon DEF vars
<1>. QED BY <1>2, StartupInvariance, PTL DEF Spec, ReportsWhole
=============================================================================
