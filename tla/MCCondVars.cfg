\* Three threads that wait with two mutexes on one condition variable; one of
\* the mutexes is destroyed and initialised again, perhaps as a recursive one.
CONSTANTS
  t1 = t1
  t2 = t2
  t3 = t3
  a = a
  b = b
  c1 = c1
  None = None
  Threads = {t1, t2, t3}
  Mutexes = {a, b}
  Spins = {}
  Dynamic = {b}
  StaticKind <- StaticMix
  AttrTypes = {"none", "recursive"}
  LockOps = {"lock"}
  Skips = {FALSE}
  Oom = {}
  MaxHeld = 2
  Conds = {c1}
SYMMETRY ThreadSymmetry
SPECIFICATION CondSpec
INVARIANTS
  CondInv
  HoldersMatch
  SelfDeadlockReported
  RefcntMatch
  WaitersAgree
  WaitedMutexKept
  CondOwnerMatch
PROPERTIES
  DestroyChecked
  ImplementsLockOrder
\* Every thread may be blocked in the real lock function, or be done.
CHECK_DEADLOCK FALSE
