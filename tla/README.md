# A TLA+ verification of Locksmith

Locksmith is a library that is preloaded into a program and replaces the lock
functions of pthreads. It keeps a registry of the locks it has seen, learns the
order in which they are taken, and reports lock inversions, locks taken twice,
unlocks of locks that are not held, destroyed locks that are in use, and mutexes
taken under a spin lock. This directory holds a model of the library's core, the
configurations that TLC checks, and proofs that TLAPS checks.

## The system and its parts

| part | source | modelled by |
|---|---|---|
| handlers of mutexes and spin locks | `handler.c` 52-318 | `Locksmith` |
| registry: `g_tree`, `lksmith_optional_init`, `lksmith_destroy` | `lksmith.c` 827-976 | `Locksmith` |
| order: `lksmith_prelock`, `lksmith_search`, the arrays `before` | `lksmith.c` 625-712, 978-1115 | `Locksmith`, `LockGraph` |
| holders of a lock | `lksmith.c` 714-760 | `Locksmith` (as counts per thread), `Holders` (as lists) |
| the thread's list of held locks | `lksmith.c` 432-501 | `HeldList` |
| `lksmith_postlock`, `_preunlock`, `_postunlock` | `lksmith.c` 1117-1245 | `Locksmith` |
| the real locks (glibc) | external | `Locksmith` (`r_lock`, `r_unlock`, `r_destroy`) |
| condition variables | `lksmith.c` 856-895, 1247-1327, `handler.c` 320-388 | `CondVars` |
| the tree `g_tree` and the sorted arrays | `tree.h` 296-738, `lksmith.c` 612-701, 827-854 | `RedBlackTree`, `LockStore` |
| initialisation, thread-local storage | `lksmith.c` 272-430, `handler.c` 392-418, `util.c` 66-83 | `Startup` |
| error log | `error.c` | `ErrorLog` |
| backtraces | `libc_backtrace.c`, `libunwind_backtrace.c` | `Backtrace` |
| ignored frames | `lksmith.c` 205-267, 1039-1060 | `IgnoredFrames` |
| holder entries, thread names, dumps | `lksmith.c` 542-607, 770-808, 1329-1340, `util.c` 48-64 | `Holders` |

A handler runs in the thread of the program that calls it. `pthread_mutex_lock`
is `lksmith_prelock`, then the real lock function, then `lksmith_postlock`;
`pthread_mutex_unlock` is `lksmith_preunlock`, the real unlock and
`lksmith_postunlock`. Each of these sections takes the global mutex `g_tree_lock`
by itself, so between two sections of one thread the other threads may do
anything. Most of what can go wrong comes from there: what a section has
established must still be true in the next one.

## The modules

**`LockGraph`**: the relation that the arrays `before` hold, as a function from
locks to sets of locks: adding an edge (`lk_add_sorted`), removing a destroyed
lock (`lk_remove_sorted`), and the reference notions `Reaches` and `Acyclic`.

**`HeldList`**: the list `tls->held` as a sequence: append, remove the newest
occurrence, membership, and `CountOf`, the number of entries in a set of locks.

**`Locksmith`**: the handlers. The variables are in five groups: the registry
(`tree`, `recursive`, `spin_warn`, `before`, `holders`: the fields of
`struct lksmith_lock`), the locals of `lksmith_prelock` while it holds
`g_tree_lock` (`idx`, `painted`, `stack`, `inverted`), the thread-local data
(`held`, `num_spins`), the real locks (`kind`, `owner`, `count`), and the calls in
progress (`pc`, `ptr`, `op`, `skip`). `log` records which errors were reported.

Actions have the names of the functions they model. A section under `g_tree_lock`
is one step, with one exception: `lksmith_prelock` is split into the rounds of its
loop over the held locks (`lksmith_prelock_process_depends`), the visits of the
depth-first search (`lksmith_search`, `lksmith_search_return`), the report or the
new dependency (`report_inversion`, `lk_add_before`) and the end
(`lksmith_prelock_end`). The recursion of the search is the variable `stack`: for
each activation, the locks it has not visited yet. This is needed to state what a
search has found and to show that it ends.

| steps of a call | program counter |
|---|---|
| lock | `idle`, `depends`, (`search`, `hit` or `miss`, `depends`)*, `rlock`, `postlock` or `postfail`, `idle` |
| unlock | `idle`, `runlock`, `postunlock`, `idle` |
| mutex init | `idle`, `optinit`, `idle` or, when registering fails, `destroy` |
| spin init | `idle`, `optinit`, `rinit`, `idle` or, when the real init fails, `destroy` |
| destroy | `idle` (with `lksmith_destroy`), `rdestroy`, `idle` |

Abstractions. A lock is its address. The array `before` is a set, and the search
visits it in any order (the code: by address). The color of a lock is its
membership in `painted`. `holders` counts the entries of each thread; the code
finds an entry by the thread's name, so names are taken to be distinct and stable.
A call that the code refuses without having changed anything (an unlock of a lock
that the thread does not hold, an allocation that fails at the start) is a
stuttering step. Backtraces, `nlock` and message texts are left out. The thread's
data exists and `intercept` is 1.

What the program may do is the contract of pthreads that the handlers rely on
(`MayUse`, `MayInit`): it uses a lock only when it is initialised, and does not
initialise a lock that somebody is using. It may destroy a lock at any time, also
one that other threads are using or waiting for, may unlock what it does not hold,
may initialise a lock twice, may take locks in any order, and may end any time.

**`LockOrder`**, **`LockRegistry`**: what the two layers promise. `LockOrder` has
neither sections nor a search: a thread that wants a lock compares it, one step
each, with every lock it holds, and either the order grows or a warning is given.
`LocksmithRefinement` maps the state of `Locksmith` to it: a thread wants the lock
from its registration until `lksmith_postlock`, it holds what its list says, and
the warning is the report in `log`. `LockRegistry` is the part of it that speaks of
registered locks and their order, and is what the data structures implement.

**`CondVars`** extends `Locksmith` by the four handlers of condition variables:
`cond_lock` and `refcnt` are the fields of `struct lksmith_cond`, `cond` is the
argument of the call in progress, `cond_live` the real objects and `wait` the step
of the call: `cwait` (after `lksmith_cond_prewait`), `asleep`, `relock`, `cpost` for
a wait, `cdestroy` for a destroy. All steps of the locks fall in between. To the
other handlers a waiting thread is one that is inside an unlock of its mutex: while
it has the mutex (`cwait`, `cpost`) `pc` is `runlock`, while it has not (`asleep`,
`relock`) `pc` is `postunlock`; but it leaves the unlock half-way, with its holder
entry and its list untouched. An entry that does not exist is one without waiters,
since entries are never removed. The program may use a condition variable until its
real destroy, also between `lksmith_cond_predestroy` and that (`MayUseCond`), and
waits with a mutex that is initialised and that nobody is destroying (`MayWait`).

**`RedBlackTree`**: the macros of `tree.h` as operators on a record of links
(`root`, `kid`, `parent`, `red`); the mirrored halves of the macros are one
operator with a side as parameter. **`LockStore`** puts lock data into cells of the
heap, whose addresses have another order than the locks: the tree is sorted by the
address of the lock, the arrays by the address of its data.

**`ErrorLog`**: the reports. `g_log_type`, `g_log_file` and `g_error_cb` are set by
the first line that is written; a report is the lock `g_error_lock`, its lines one
by one, and the unlock. A callback whose address was read as 0 is called like any
other, which ends the process (the step `null`). **`Startup`** extends it by
`get_or_create_tls`, `lksmith_init` (twenty steps, each of which may fail), the
storage of a thread, its scratch area for backtraces, and the destructor. The
program's own destructors may call handlers before and after that one. `fault` says
how a process has ended: aborted, by a NULL function pointer, or by a use of freed
storage (which may also go unnoticed). The builds with and without
`HAVE_IMPROVED_TLS` are both in the model.

**`Backtrace`**: the two versions of `bt_frames_create` as recursive operators on
the stack and on the number of allocations that will succeed; libunwind may also
fail to start, or to find the name of a frame (`Unnamed`). **`IgnoredFrames`**:
the sorted table, the binary search and the patterns. **`Holders`** uses both: the
lists of holders, with names and backtraces, through lock, failed lock, unlock and
renaming, and the dumps of these lists into a buffer (functions that are there for
a debugger; the library does not call them). `calls` is not in the code: it
remembers the calls that the entries should stand for. A process that has run off
the end of a list or of an array of frames is not followed further.

**`MCLocksmith`**, **`MCCondVars`**, **`MCLockStore`**, **`MCStartup`**,
**`MCHolders`**: instances for TLC: model values, initial kinds of locks, stacks,
and the symmetry sets.

**`LockDataProofs`**, **`HeldListProofs`**: lemmas on the operators of the first
two modules. **`LocksmithControlProofs`**, **`LocksmithStepProofs`**: every action
keeps types and control, the books, the registry, the search and the order.
**`LocksmithProofs`**: the theorems about the locks.
**`LocksmithRefinementProofs`**: they implement `LockOrder`.
**`CondVarsProofs`**, **`StartupProofs`**: the theorems about condition variables,
and about initialisation, storage and log.

## What TLC checks

Threads are symmetric in most runs, as are the names in `Holders`: nothing but
equality is asked of them. The liveness properties are checked without symmetry.

| run | instance | checked | distinct states |
|---|---|---|---|
| `order` | 2 threads, 3 mutexes, 3 deep, fair | `SearchSound`, `SearchComplete`, `AcyclicUnlessReported`, `CircularWaitReported`, `OwnerMatch`, `OnlyOwnerReleases`, `TreeLockReleased` | 636,146 |
| `failures` | 2 threads, a mutex and a spin lock, initialised and destroyed; allocations fail, timeouts, exempted calls | `TypeOK`, `IndInv`, `SpinCount`, `SpinSleepWarned`, `NoLogicError`, `UnlockSucceeds`, `InUseStaysRegistered`, `NoDangling`, `DependencyKept` | 1,309,242 |
| `condvars` | 3 threads, 2 mutexes of which one is destroyed and initialised again, also as a recursive one, 1 condition variable | `CondInv`, `HoldersMatch`, `SelfDeadlockReported`, `RefcntMatch`, `WaitersAgree`, `WaitedMutexKept`, `CondOwnerMatch`, `DestroyChecked`, `ImplementsLockOrder` | 511,658 |
| `store` | 7 locks, 7 cells | `RedBlack`, `LookupsComplete`, `ArraysSorted`, `ImplementsRegistry` | 14,966 |
| `startup` | 2 threads, both builds, the C library's backtraces, all 10 texts of `LKSMITH_LOG`, fair | `StartupInv`, `ReadyWhenUsed`, `NoNullCall`, `FreedOnlyInCache`, `StorageReleased`, `TargetReady`, `ReportsWhole`, `StartupEnds` | 214,700 |
| `holders` | 2 threads, 1 recursive lock, both builds, memory runs out, libunwind fails | `EntriesMatch`, `SkipsAsConfigured`, `DumpsFit` | 40,344 |

Six more runs end in a counterexample, see "Where code and documentation
disagree".

What the properties say:

- `SearchSound`, `SearchComplete`: the colored depth-first search agrees with
  reachability in the recorded graph. Completeness ends with the first inversion
  that a call reports: all searches of a call share one color, and a search that
  was cut short leaves painted locks behind whose predecessors were not visited,
  so a later search of the same call may miss an inversion. It may then record a
  dependency that closes a cycle; this is why the order is acyclic only until the
  first report.
- `AcyclicUnlessReported`, `CircularWaitReported`: as long as nothing was reported
  the learned order is a partial order, and threads that wait for each other in a
  circle have been reported before the last of them blocked. This is what
  Locksmith is for. It is not promised when an allocation has failed or when a
  call was exempted by the ignored frames.
- `SelfDeadlockReported`: the same for a thread that waits for itself, for locks
  registered as not recursive. A lock that Locksmith first sees in
  `lksmith_prelock` is registered as recursive, so for statically initialised
  mutexes nothing is promised.
- `NoLogicError`, `InUseStaysRegistered`, `UnlockSucceeds`: what one section
  established holds in the next: no branch that the code calls a logic error is
  reached, locks in use are not unregistered, and an unlock that was let through
  is made by the owner of a live lock. All three hold also when memory runs out,
  which the run `failures` lets happen.
- `HoldersMatch`, `OwnerMatch`, `SpinCount`: three pieces of bookkeeping agree: the
  holder entries, the held lists and the real owners. They differ by exactly the
  call in progress. With a failing `tls_append_held` the first two do not hold: the
  real lock is taken and its holder entered, but the list lacks it, so that the
  lock can neither be unlocked nor destroyed from then on.
- `SpinSleepWarned`: a mutex taken on top of a spin lock has its warning.
- `NoDangling`, `DependencyKept`, `OnlyOwnerReleases`: pointers to destroyed locks
  are gone, dependencies disappear only with a lock, real locks are released only
  by their owner.
- `TreeLockReleased`: no thread stays in `lksmith_prelock` for ever, also on a
  graph that inversions have made cyclic. With three nested locks this happens in
  the run: a call that takes the third lock makes two searches with one color, and
  the first may be cut short; an inversion that is missed in this way closes a cycle
  among the other two locks, and a later search for the third one comes back to
  where it was and is stopped by the color alone.
- `ImplementsLockOrder`: the handlers, section by section and visit by visit, are
  an implementation of `LockOrder`: each step is one of its steps or changes
  nothing that it speaks of. With inversions already reported an edge may be added
  although the reverse order is recorded (the search missed it for the reason
  above); `Compare` allows exactly that. The run `condvars` checks it of the locks
  with condition variables on top, where a wait gives a lock back and takes it again
  unseen by the abstract specification; the theorem `OrderImplemented` shows it of
  `Locksmith` by itself, for all constants.
- `RefcntMatch`, `WaitersAgree`, `DestroyChecked`: `refcnt` is the number of threads
  between the two sections of a wait, these threads use one mutex, and a destroy of
  the condition variable gets past `lksmith_cond_predestroy` only when there are
  none. That is all the code checks: a wait that begins between this section and
  the real destroy is possible in the model and promised nothing.
- `WaitedMutexKept`, `CondOwnerMatch`: a sleeping thread does not own its mutex, but
  its holder entry and its list go on as if it did. This is what keeps another
  thread from destroying the mutex, and the lists fit again when the wait returns.
- `RedBlack`, `LookupsComplete`, `ArraysSorted`, `ImplementsRegistry`: the tree stays
  balanced with mutual links, every registered lock is found and visited, the arrays
  stay sorted, and all of it together is the sets that `Locksmith` uses.
- `ReadyWhenUsed`, `NoNullCall`, `StartupEnds`: nobody gets past
  `g_init_state_lock` before initialisation is complete, no function pointer is
  called before it is looked up, also not by the report of a failure, and once a
  thread has come to `g_init_state_lock` the library is eventually initialised or
  the process ends.
- `FreedOnlyInCache`, `StorageReleased`: a handler works on storage that exists, also
  when a destructor of the program calls it in an exiting thread; the one exception
  is the cache, which is not cleared when the storage is freed (see `late_calls`
  below). A thread that is gone has left no structure and no list of held locks
  behind; the scratch area is another matter (see `thread_exit`).
- `TargetReady`, `ReportsWhole`: each line that is written has a usable target, and
  no text of `LKSMITH_LOG` keeps a line from being written but a callback address
  that is read as 0, which is accepted and then called. The lines of a report stay
  together.
- `EntriesMatch`: the entries with a thread's name are its calls, newest first, each
  with the whole stack from which the call was made, in spite of scratch areas that
  were too small and of memory running out.
- `SkipsAsConfigured`: a call is exempted exactly when the environment names or
  matches one of its frames, for tables in any order, with repeated and with empty
  names. (In the libc build a frame is what `backtrace_symbols` prints, with file
  and address, so that in practice only patterns match; the model takes the text of
  a frame as given.)
- `DumpsFit`: the text and the offset of a dump stay in the buffer.

Bounds. `MaxHeld` bounds the locks that a thread holds. Three is the least with
which a call makes two searches; two threads then suffice to make every order of
three locks. A circle of three waiting threads is not in a run: that one is covered
by the theorem `DeadlockReported`. Two locks are enough for a destroyed lock with an
edge in either direction. In `failures` all mutexes are made without an attribute:
with a recursive one and appends that fail, a thread can take it without end and no
bound on the list stops it. The proofs remove these bounds for the properties that
they cover. Three threads on a condition
variable are two waiters with one mutex and a third thread with another, or one
that destroys. Seven locks make trees that are deep enough for every case of the
rebalancing after an insertion and a removal (TLC's coverage shows each branch
taken). One lock collects the others
in its array (`Targets`); the arrays do not depend on each other. `MaxFrames` is a
report of a message and two frames. In `Holders` the sizes of the buffers are small
(`INITIAL_SCRATCH_SIZE` 2 for 16, `MAX_SCRATCH_SIZE` 8 for 8192, `INITIAL_CAP` 3
for 32, `STACK_BUF_SZ` 1 for 512) and the stacks lie on both sides of their
boundaries; `MaxCalls` is the depth of the recursion, `Allocs` the numbers of
allocations that succeed before memory runs out, `Plenty` a number that is never
reached, `buf_len` a buffer that some dumps fill and others do not.

What `startup` and `holders` take from the program: condition variables are not the
first thing it uses (`EarlyConds`), a thread is renamed only while it holds nothing
and to a name of its own (`BusyRenames`), and in the libunwind build a backtrace has
never as many frames as its array. The next section shows what happens otherwise.

Deadlock is not checked: threads of the program may all be blocked in the real lock
functions, which is exactly the situation of `CircularWaitReported`, or the program
may end; `LockStore` may be full; in `Holders` a process ends when it frees an array
of frames that has no terminator.

Fairness. `FairSpec` of `Locksmith` is weak fairness of the steps that a thread
makes inside a handler: the operating system runs every thread that can run.
Nothing is assumed of the program's calls. Weak fairness does not promise a thread
that it gets `g_tree_lock`, and `TreeLockReleased` does not need it. `Spec` of
`Startup` assumes the same for `HandlerStep`. Here a thread spins for
`g_init_state_lock`, and `StartupEnds` speaks of the initialisation itself, not of
one spinning thread: `simple_spin_lock` is not fair.

## Where code and documentation disagree

- `rename` (`HolderRemoveReturns`): `lk_holder_remove` tests `holder` where it means
  `*holder` (`lksmith.c:754`), so it never returns the `-ENOENT` of its comment. A
  thread that is renamed between lock and unlock has no entry with its new name, and
  NULL is dereferenced.
- `unwind` (`FramesTerminated`): in the libunwind build the terminator of a backtrace
  is written behind the array when the number of frames is its capacity
  (`libunwind_backtrace.c:145`); with no frames at all there is no array. (The same
  property fails when a name cannot be found or copied: the array is then freed
  before it has a terminator. The run `holders` has these failures too, and follows
  the process up to there.)
- `constructors` (`NoNullCall`): `pthread_cond_init` and `pthread_cond_destroy` do not
  initialise the library, and call NULL when they are the first functions used. The
  README says that global constructors are no problem.
- `cond_deadlock` (`CondCircularWaitReported`): the mutex of a wait is taken back
  inside the real function, in whatever order that is; two threads can deadlock in
  it without a report of the inversion.
- `late_calls` (`NoUseAfterFree`): with `HAVE_IMPROVED_TLS` the destructor of the
  storage does not clear `t_improved_tls`, and a handler that a later destructor of
  the thread calls gets freed storage from `get_or_create_tls` (`lksmith.c:383`),
  which promises "NULL on OOM, the TLS otherwise".
- `thread_exit` (`ScratchReleased`): `lksmith_tls_destroy` frees the structure and not
  the scratch area that it points to, although the comment at `lksmith.c:369` has it
  "clean up our malloc()ed thread-local data".

One more disagreement needs no run: the comment at `error.c:66` says that
`g_error_lock` "is not held while the callback is in progress", and
`lksmith_errora_unlocked` calls the callback with it held. `error.h:39` asks callbacks
to take no mutex that Locksmith watches, and the model takes them to do so.

## What is proved

Locks. The theorems of `LocksmithProofs` hold for every set of threads and locks, every
`MaxHeld`, every choice of failing allocations and every answer of the ignored
frames. They assume `ConstantsAssumption` of `Locksmith`, which TLC evaluates in
every run: mutexes and spin locks are different, `None` is neither a thread nor a
lock, initial kinds fit the locks, and the option sets have the right members.

`Invariance` shows that `IndInv` is an invariant; TLC checks it in `failures`, and in
`condvars` as a part of `CondInv`. The
safety invariants follow from it: `TypeCorrect`, `LogicErrorFree`,
`HoldersCorrect`, `OwnersCorrect`, `SpinsCorrect`, `SleepersWarned`,
`NothingDangles`, `UnlockCorrect`, `RegistrationCorrect`, `SearchIsSound`, `SearchIsComplete`,
`OrderIsAcyclic`, `DeadlockReported`, `RecursionReported`, and the action
properties `DependenciesKept` and `ReleaseByOwner`.

Why the invariant needs its parts:

- `ControlInv` ties the program counter to the argument, to `g_tree_lock` and to
  the loop index. `PrelockControl` says that the colors are fresh for a new call.
- `HoldersInv` and `OwnerInv` have an inequality that holds also when appends fail
  (holder entries and real ownership *cover* the list) next to the equation for the
  case that they do not. The inequality carries `NoLogicError` and
  `UnlockSucceeds`: a lock in the list has a holder entry, so `lksmith_destroy`
  refuses it.
- `RegistryInv`: a lock with a holder entry is registered, and the graph speaks of
  registered locks only.
- `SearchInv` is the invariant of the search: what is still to be visited is
  reachable from the start, and the painted locks together with those still to
  visit are closed under `before` and do not contain the lock looked for. When
  nothing is left to visit, the painted locks are closed, so the lock looked for
  is not reachable.
- `OrderInv`: each held lock that the loop has dealt with has left an edge or a
  report, and this stays true while the thread waits in the real lock function,
  since neither lock can be destroyed meanwhile.

`DeadlockReported`: every lock waited for in the circle is owned by a thread that
itself waits, so `OrderInv` gives an edge from it to another lock waited for. The
locks waited for are thus a non-empty set in which each comes before another one,
which is what `Acyclic` rules out: it says that every non-empty set of locks has a
member that comes before no member of the set (on a finite graph, that there is no
cycle).

The facts on `CountOf` need cardinalities of finite sets. They are proved once in
`HeldListProofs` (`CountFactsHold`); the lemmas of the parts take them as the
hypothesis `CountFacts`, which `LocksmithProofs` discharges.

Refinement. `OrderImplemented` shows, for the same constants, that `Locksmith`
implements `LockOrder`. The steps of a search change nothing that `LockOrder`
speaks of. `report_inversion` is `Warn` and `lk_add_before` is `Compare`: `SearchInv`
says that what the search has found is what these two ask of the graph, up to the
case of an inversion that was reported before. When `lksmith_postlock` puts a lock
into the list, `OrderInv` says that every member of the list comes before it in the
recorded order. Comparisons may be missing (`Lossy`) only where calls can be
exempted or an edge can be lost for lack of memory; `SkipInv` says that no call is
exempted otherwise.

Condition variables. `CondInvariance` shows `CondInv`: the invariant `IndInv` of the
locks, for the system with threads asleep in waits, and the books of the condition
variables. `IndInv` is not proved again for each of its parts. A step of another
handler, and the real unlock at the start of a wait, are steps of `Locksmith` on
the variables of `Locksmith`, and `StepInv` applies to them; the other steps of a
wait either leave these variables alone or only move one thread between `idle`,
`runlock` and `postunlock` and give a mutex back (`Aside`), for which `AsideKeeps`
and `RelockKeeps` show that the invariant is kept. This works because a wait, like
an unlock, has its mutex in the list of the thread all the time (`ControlInv`), so
that the holder entry is there and `lksmith_destroy` refuses the mutex. `WaitInv`
ties `wait` to `pc` and says that nobody is about to destroy the mutex of a wait;
`FiniteWaiters` is there because the cardinality of a set only counts when the set
is finite, and the set of threads need not be. `RefcntCorrect`, `OneMutexPerCond`,
`DestroyCorrect`, `WaitKeepsMutex` and `WaitKeepsCount` follow. They assume what
`MayUseCond` and `MayWait` ask of the program. `DestroyCorrect` is about the step from
`lksmith_cond_predestroy` to the real destroy: since `refcnt` counts the waiters
exactly, a count of 0 means that there are none.

Initialisation, storage, log. `StartupInvariance` shows `StartupInv` for both
builds, all threads and all lengths of reports: `InitInv` is the state of the
initialisation at each of its steps, `StorageInv` relates the cached pointer, the
value of the key and the storage of each thread through its exit, `LogInv` says who
holds `g_error_lock` and when the target is set. `InitialisedWhenUsed`,
`TargetCorrect` and `StorageLive` follow without further assumptions; `StorageLive` is
`FreedOnlyInCache`, and `KeyedStorageLive` draws from it that without the cache
(`TRUE \notin Builds`) handlers never use freed storage. `NothingLeaks` says that
storage is released, and with libunwind the scratch area too, as there is none.
`ReportsStayWhole` is the action property `ReportsWhole`. `FunctionsResolved` has the
hypothesis that the program does not begin with condition variables (the run
`constructors` shows the other case).

Only model-checked. `TreeLockReleased` and `StartupEnds` are liveness properties
under fairness, which this prover does not handle. `LockStore` (`RedBlack`,
`LookupsComplete`, `ArraysSorted`, `ImplementsRegistry`) and `Holders`
(`EntriesMatch`, `SkipsAsConfigured`, `DumpsFit`) rest on recursive operators, the
tree, the backtraces, the binary search and the dumps, about which it cannot reason
by induction. `CondCircularWaitReported`, which `Locksmith` alone satisfies as
`CircularWaitReported`, is false with condition variables.

## Not modelled

- The attribute object of `pthread_mutex_init`: `pthread_mutex_real_init` changes it
  through a cast (`handler.c:130`). Attributes are values in `Locksmith`; objects
  shared between calls would be a further variable of all its proofs.
- The intercept flag: it is 0 only while the library itself makes a backtrace, when
  the handlers go straight to the real functions.
- Error callbacks that call back into the handlers (`error.c:155`), against
  `error.h:39`: they run with `g_error_lock` and often `g_tree_lock` held.
- Programs that break the contract of pthreads: a lock that is initialised while it
  is in use (`MayInit`), or a wait with a mutex that is being destroyed (`MayWait`).
- Fork, robust and process-shared mutexes: the handlers do not look at them.
- `NFIND`, `PREV`, the reverse traversal and the splay trees of `tree.h`: unused.
- `terror`, the wording of messages, `nlock`; `mem.c`, which only the tests use; the
  tests themselves and the build configuration.
