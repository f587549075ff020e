------------------------------ MODULE Startup ------------------------------
(***************************************************************************)
(* Initialisation and thread-local storage, with the error log they use:   *)
(* get_or_create_tls, through which nearly every handler starts; in the    *)
(* first thread that comes by, lksmith_init, which looks up the real       *)
(* pthreads functions and sets everything up under g_init_state_lock; and  *)
(* the destructor of the storage at the exit of a thread.                  *)
(*                                                                         *)
(* Two builds are told apart: with HAVE_IMPROVED_TLS the storage is cached *)
(* in a __thread variable, otherwise it is looked up by its key each time. *)
(* The cache is not cleared when the storage is freed.                     *)
(*                                                                         *)
(* Abstractions: a thread's storage (the structure and its list of held    *)
(* locks) is live, freed or absent, and so is the scratch area for its     *)
(* backtraces; what a handler does with them is one step, which may end in *)
(* a report.                                                               *)
(***************************************************************************)
EXTENDS ErrorLog

CONSTANTS
  Builds,        \* {TRUE}, {FALSE} or both: is HAVE_IMPROVED_TLS defined
  LibcBacktrace, \* backtraces are made by libc_backtrace.c, which needs a
                 \* scratch area; libunwind_backtrace.c uses none
  EarlyConds,    \* the program may use condition variables before any lock
  MaxFrames      \* bound: the length of a backtrace

ASSUME StartupAssumption ==
  /\ Builds \subseteq BOOLEAN
  /\ LibcBacktrace \in BOOLEAN /\ EarlyConds \in BOOLEAN
  /\ MaxFrames \in Nat

VARIABLES
  improved,          \* the build
  pc,                \* where the thread is in get_or_create_tls or its caller
  phase,             \* "run", "exiting" (its destructors run) or "gone"
  g_init_state_lock, \* the thread that holds it, or None
  g_initialized,
  done,              \* how many steps of lksmith_init have been taken
  specific,          \* the key has a value for the thread
  t_improved_tls,    \* the cache has one
  storage,           \* "none", "live" or "freed": the thread's storage
  scratch,           \* "none", "live", or "lost": the thread's scratch area,
                     \* which no pointer leads to when it is lost
  fault              \* "none", "abort", "null": a NULL pointer was called, or
                     \* "crash": a use of freed storage was fatal

initvars == <<g_init_state_lock, g_initialized, done>>
keyvars == <<specific, t_improved_tls, storage>>
tlsvars == <<keyvars, scratch>>
startvars == <<improved, pc, phase, initvars, tlsvars, fault>>
vars == <<logvars, startvars>>

\* The functions that lksmith_handler_init looks up, in this order.
HandlerFunctions ==
  <<"pthread_mutex_init", "pthread_mutex_destroy", "pthread_mutex_trylock",
    "pthread_mutex_lock", "pthread_mutex_timedlock", "pthread_mutex_unlock",
    "pthread_spin_init", "pthread_spin_destroy", "pthread_spin_lock",
    "pthread_spin_trylock", "pthread_spin_unlock", "pthread_cond_init",
    "pthread_cond_wait", "pthread_cond_timedwait", "pthread_cond_destroy">>

\* What lksmith_init does then, in this order.
SetupSteps ==
  <<"ignored_frames", "ignored_frame_patterns", "g_tls_key", "g_tree_lock",
    "g_cond_tree_lock">>

InitSteps == HandlerFunctions \o SetupSteps

\* The step f of lksmith_init has been taken.
Done(f) == \E i \in 1 .. done : InitSteps[i] = f

Init ==
  /\ LogInit
  /\ improved \in Builds
  /\ pc = [t \in Threads |-> "idle"]
  /\ phase = [t \in Threads |-> "run"]
  /\ g_init_state_lock = None
  /\ g_initialized = FALSE
  /\ done = 0
  /\ specific = [t \in Threads |-> FALSE]
  /\ t_improved_tls = [t \in Threads |-> FALSE]
  /\ storage = [t \in Threads |-> "none"]
  /\ scratch = [t \in Threads |-> "none"]
  /\ fault = "none"

Goto(t, p) == pc' = [pc EXCEPT ![t] = p]

\* Thread t goes on at p after a report with n frames.  The report starts with
\* a call of r_pthread_mutex_lock.
ReportThen(t, n, p) ==
  /\ CallError(t, n)
  /\ Goto(t, p)
  /\ fault' = IF Done("pthread_mutex_lock") THEN fault ELSE "null"

-----------------------------------------------------------------------------
\* A thread may call a handler when it runs, and while its destructors run,
\* before and after the one for the storage.
MayCall(t) == pc[t] = "idle" /\ phase[t] \in {"run", "exiting"}

\* A handler that starts with get_or_create_tls.
get_or_create_tls(t) ==
  /\ MayCall(t)
  /\ Goto(t, IF improved /\ t_improved_tls[t] THEN "use" ELSE "spin")
  /\ UNCHANGED <<logvars, improved, phase, initvars, tlsvars, fault>>

\* Mutant of simple_spin_lock: it does not wait.
simple_spin_lock_nowait(t) ==
  /\ pc[t] = "spin"
  /\ g_init_state_lock' = t
  /\ Goto(t, IF g_initialized THEN "unlock" ELSE "init")
  /\ UNCHANGED <<logvars, improved, phase, g_initialized, done, tlsvars, fault>>

\* The compare-and-swap of simple_spin_lock succeeds; the section starts.
simple_spin_lock(t) ==
  /\ pc[t] = "spin" /\ g_init_state_lock = None
  /\ g_init_state_lock' = t
  /\ Goto(t, IF g_initialized THEN "unlock" ELSE "init")
  /\ UNCHANGED <<logvars, improved, phase, g_initialized, done, tlsvars, fault>>

\* LOAD_FUNC and the other steps of lksmith_init succeed one after the other.
lksmith_init(t) ==
  /\ pc[t] = "init" /\ done < Len(InitSteps)
  /\ done' = done + 1
  /\ UNCHANGED <<logvars, improved, pc, phase, g_init_state_lock, g_initialized,
                 tlsvars, fault>>

\* Mutant of lksmith_init_fails: each failure is reported.
lksmith_init_fails_report(t) ==
  /\ pc[t] = "init" /\ done < Len(InitSteps)
  /\ ReportThen(t, 0, "abort")
  /\ UNCHANGED <<improved, phase, initvars, tlsvars>>

\* One of them fails: the process is aborted, after a report unless the real
\* functions are missing.
lksmith_init_fails(t) ==
  /\ pc[t] = "init" /\ done < Len(InitSteps)
  /\ IF done < Len(HandlerFunctions)
     THEN fault' = "abort" /\ UNCHANGED <<logvars, pc>>
     ELSE ReportThen(t, 0, "abort")
  /\ UNCHANGED <<improved, phase, initvars, tlsvars>>

abort(t) ==
  /\ pc[t] = "abort"
  /\ fault' = "abort"
  /\ UNCHANGED <<logvars, improved, pc, phase, initvars, tlsvars>>

\* The message that Locksmith has been initialised; g_init_state_lock is held.
lksmith_init_message(t) ==
  /\ pc[t] = "init" /\ done = Len(InitSteps)
  /\ ReportThen(t, 0, "initialized")
  /\ UNCHANGED <<improved, phase, initvars, tlsvars>>

\* Mutant of lksmith_init_end: g_initialized is not set.
lksmith_init_end_unset(t) ==
  /\ pc[t] = "initialized"
  /\ Goto(t, "unlock")
  /\ UNCHANGED <<logvars, improved, phase, initvars, tlsvars, fault>>

lksmith_init_end(t) ==
  /\ pc[t] = "initialized"
  /\ g_initialized' = TRUE
  /\ Goto(t, "unlock")
  /\ UNCHANGED <<logvars, improved, phase, g_init_state_lock, done, tlsvars,
                 fault>>

\* simple_spin_unlock; the build without the cache then asks for the key.
simple_spin_unlock(t) ==
  /\ pc[t] = "unlock"
  /\ g_init_state_lock' = None
  /\ Goto(t, IF ~improved /\ specific[t] THEN "use" ELSE "calloc")
  /\ UNCHANGED <<logvars, improved, phase, g_initialized, done, tlsvars, fault>>

\* The storage is allocated and bound to the key, and to the cache.
create_tls(t) ==
  /\ pc[t] = "calloc"
  /\ storage' = [storage EXCEPT ![t] = "live"]
  /\ specific' = [specific EXCEPT ![t] = TRUE]
  /\ t_improved_tls' = [t_improved_tls EXCEPT ![t] = improved]
  /\ Goto(t, "use")
  /\ UNCHANGED <<logvars, improved, phase, initvars, scratch, fault>>

\* Mutant of create_tls_fails: it goes on after the report.
create_tls_fails_continue(t) ==
  /\ pc[t] = "calloc"
  /\ ReportThen(t, 0, "use")
  /\ UNCHANGED <<improved, phase, initvars, tlsvars>>

\* calloc or pthread_setspecific fails, and the storage is freed again: it is
\* reported, and get_or_create_tls returns NULL.
create_tls_fails(t) ==
  /\ pc[t] = "calloc"
  /\ ReportThen(t, 0, "null")
  /\ UNCHANGED <<improved, phase, initvars, tlsvars>>

\* A handler without storage reports that and returns ENOMEM, or only returns
\* it (init_tls).
use_null(t) ==
  /\ pc[t] = "null"
  /\ \/ ReportThen(t, 0, "idle")
     \/ Goto(t, "idle") /\ UNCHANGED <<logvars, fault>>
  /\ UNCHANGED <<improved, phase, initvars, tlsvars>>

\* The scratch area when thread t makes a backtrace.
backtrace_scratch(t) ==
  IF LibcBacktrace
  THEN [scratch EXCEPT ![t] = IF storage[t] = "live" THEN "live" ELSE "lost"]
  ELSE scratch

\* A handler with storage returns, perhaps with a backtrace made
\* (holder_create), or it reports an error with a backtrace and returns
\* (lksmith_error_with_ti; -1: there is no memory for the backtrace).  Storage
\* that has been freed may still be as it was, and the handler goes on with
\* it, or using it is fatal.
use_tls(t) ==
  /\ pc[t] = "use"
  /\ \/ /\ Goto(t, "idle") /\ UNCHANGED <<logvars, fault>>
        /\ scratch' \in {scratch, backtrace_scratch(t)}
     \/ \E n \in -1 .. MaxFrames :
          /\ ReportThen(t, n, "idle")
          /\ scratch' = backtrace_scratch(t) \/ (n < 0 /\ scratch' = scratch)
     \/ /\ storage[t] = "freed"
        /\ fault' = "crash" /\ UNCHANGED <<logvars, pc, scratch>>
  /\ UNCHANGED <<improved, phase, initvars, keyvars>>

\* pthread_cond_init and pthread_cond_destroy do not start with
\* get_or_create_tls: they call the real functions fs without a look at
\* g_initialized.
cond_handler(t, fs) ==
  /\ MayCall(t) /\ (EarlyConds \/ g_initialized)
  /\ fault' = IF \A f \in fs : Done(f) THEN fault ELSE "null"
  /\ UNCHANGED <<logvars, improved, pc, phase, initvars, tlsvars>>

pthread_cond_init(t) == cond_handler(t, {"pthread_cond_init"})

pthread_cond_destroy(t) ==
  cond_handler(t, {"pthread_mutex_lock", "pthread_mutex_unlock",
                   "pthread_cond_destroy"})

-----------------------------------------------------------------------------
thread_exit(t) ==
  /\ pc[t] = "idle" /\ phase[t] = "run"
  /\ phase' = [phase EXCEPT ![t] = "exiting"]
  /\ UNCHANGED <<logvars, improved, pc, initvars, tlsvars, fault>>

\* Mutant of lksmith_tls_destroy: nothing is freed.
lksmith_tls_destroy_keep(t) ==
  /\ pc[t] = "idle" /\ phase[t] = "exiting" /\ specific[t]
  /\ specific' = [specific EXCEPT ![t] = FALSE]
  /\ UNCHANGED <<logvars, improved, pc, phase, initvars, t_improved_tls,
                 storage, scratch, fault>>

\* The C library clears the value of the key and calls the destructor, which
\* frees the list of held locks and the structure, and not the scratch area
\* that the structure points to.  The C library comes back to a key that has got
\* a value again, a limited number of times (PTHREAD_DESTRUCTOR_ITERATIONS): the
\* program's own destructors are taken to stop calling handlers before that.
lksmith_tls_destroy(t) ==
  /\ pc[t] = "idle" /\ phase[t] = "exiting" /\ specific[t]
  /\ specific' = [specific EXCEPT ![t] = FALSE]
  /\ storage' = [storage EXCEPT ![t] = "freed"]
  /\ scratch' = [scratch EXCEPT ![t] = IF @ = "live" THEN "lost" ELSE @]
  /\ UNCHANGED <<logvars, improved, pc, phase, initvars, t_improved_tls, fault>>

thread_gone(t) ==
  /\ pc[t] = "idle" /\ phase[t] = "exiting" /\ ~specific[t]
  /\ phase' = [phase EXCEPT ![t] = "gone"]
  /\ UNCHANGED <<logvars, improved, pc, initvars, tlsvars, fault>>

-----------------------------------------------------------------------------
\* The process has not ended.
Alive == fault = "none" /\ \A t \in Threads : step[t] # "null"

\* The steps of a call; a thread in the error log is there until it returns.
HandlerStep(t) ==
  /\ Alive
  /\ \/ ErrorStep(t) /\ UNCHANGED startvars
     \/ /\ step[t] = "out"
        /\ \/ simple_spin_lock(t)
           \/ lksmith_init(t)
           \/ lksmith_init_fails(t)
           \/ abort(t)
           \/ lksmith_init_message(t)
           \/ lksmith_init_end(t)
           \/ simple_spin_unlock(t)
           \/ create_tls(t)
           \/ create_tls_fails(t)
           \/ use_null(t)
           \/ use_tls(t)

ClientCall(t) ==
  /\ Alive /\ step[t] = "out"
  /\ \/ get_or_create_tls(t)
     \/ pthread_cond_init(t)
     \/ pthread_cond_destroy(t)
     \/ thread_exit(t)
     \/ lksmith_tls_destroy(t)
     \/ thread_gone(t)

Next == \E t \in Threads : ClientCall(t) \/ HandlerStep(t)

\* A thread inside of a call goes on.
Spec == Init /\ [][Next]_vars /\ \A t \in Threads : WF_vars(HandlerStep(t))

-----------------------------------------------------------------------------
(***************************************************************************)
(* Correctness.                                                            *)
(***************************************************************************)

\* The steps behind the section under g_init_state_lock.
Ready == {"unlock", "calloc", "null", "use"}

\* No thread comes out of the section before lksmith_init is complete, and
\* only one thread at a time is in it: lksmith_init never runs twice, however
\* many threads make their first call at the same time.
ReadyWhenUsed ==
  \A t \in Threads :
    /\ pc[t] \in Ready => g_initialized /\ done = Len(InitSteps)
    /\ pc[t] \in {"init", "initialized", "abort", "unlock"} =>
         g_init_state_lock = t

\* No handler calls a real pthreads function whose address has not been
\* looked up yet.
NoNullCall == fault # "null"

\* get_or_create_tls returns "NULL on OOM, the TLS otherwise": a handler works
\* on storage of its thread that exists.
NoUseAfterFree == \A t \in Threads : pc[t] = "use" => storage[t] = "live"

\* What holds of it: a handler works on storage that exists, also in a thread
\* whose destructors run, with the one exception of a build with the cache,
\* in a thread whose storage has been freed by the destructor of the key and
\* is still in the cache.  Without the cache such a thread gets new storage.
FreedOnlyInCache ==
  \A t \in Threads :
    pc[t] = "use" /\ storage[t] # "live" =>
      /\ improved /\ t_improved_tls[t]
      /\ storage[t] = "freed" /\ phase[t] = "exiting"

\* A thread that is gone has left no structure and no list of held locks
\* behind, also when a handler made it new ones while its destructors ran.
StorageReleased ==
  \A t \in Threads : phase[t] = "gone" => storage[t] # "live"

\* The comment at get_or_create_tls: the destructor is there "to clean up our
\* malloc()ed thread-local data when the thread in question exits".  The
\* scratch area for backtraces is malloc()ed, and only the structure leads to
\* it.
ScratchReleased ==
  \A t \in Threads : phase[t] = "gone" => scratch[t] = "none"

\* Initialisation does not get stuck between its two locks: when a thread has
\* come to the spin lock, Locksmith is eventually initialised, or the process
\* ends, aborted or by its message to a NULL callback.
StartupEnds ==
  \A t \in Threads :
    pc[t] = "spin" ~>
      \/ g_initialized \/ fault = "abort"
      \/ environment = "callback_null" /\ \E u \in Threads : step[u] = "null"

-----------------------------------------------------------------------------
(***************************************************************************)
(* The inductive invariant, from which the invariants above follow.        *)
(***************************************************************************)

\* The steps of the section under g_init_state_lock.
Section == {"init", "initialized", "abort", "unlock"}

StartupType ==
  /\ improved \in Builds
  /\ pc \in [Threads -> {"idle", "spin"} \cup Section \cup Ready]
  /\ phase \in [Threads -> {"run", "exiting", "gone"}]
  /\ g_init_state_lock \in Threads \cup {None}
  /\ g_initialized \in BOOLEAN
  /\ done \in 0 .. Len(InitSteps)
  /\ specific \in [Threads -> BOOLEAN]
  /\ t_improved_tls \in [Threads -> BOOLEAN]
  /\ storage \in [Threads -> {"none", "live", "freed"}]
  /\ scratch \in [Threads -> {"none", "live", "lost"}]
  /\ fault \in {"none", "abort", "null", "crash"}

\* lksmith_init is complete once g_initialized is set, and the one thread in
\* the section sees to it that it is before anybody comes out.
InitInv ==
  /\ g_initialized => done = Len(InitSteps)
  /\ \A t \in Threads : pc[t] = "initialized" => done = Len(InitSteps)
  /\ ReadyWhenUsed

\* The key has a value exactly as long as there is storage behind it, and the
\* cache is set only when there is or was, which takes an initialised Locksmith.
\* The scratch area is reached only through the storage.  A thread that is gone
\* does nothing.
StorageInv ==
  \A t \in Threads :
    /\ storage[t] = "live" <=> specific[t]
    /\ improved /\ t_improved_tls[t] => storage[t] # "none"
    /\ storage[t] # "none" => g_initialized
    /\ storage[t] = "freed" => phase[t] # "run"
    /\ phase[t] = "gone" => pc[t] = "idle" /\ ~specific[t]
    /\ scratch[t] = "live" => storage[t] = "live"
    /\ scratch[t] # "none" => LibcBacktrace
    /\ pc[t] = "use" => storage[t] = "live" \/ (improved /\ t_improved_tls[t])

\* Reports, initialisation and storage fit together: initialisation runs under
\* its lock, once, before any storage is used, whatever fails on the way.
StartupInv ==
  /\ LogType /\ LogInv /\ StartupType /\ InitInv /\ StorageInv
  /\ NoNullCall \/ EarlyConds
=============================================================================
