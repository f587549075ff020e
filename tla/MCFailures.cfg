\* A mutex and a spin lock, both initialised and destroyed by the program;
\* allocations that fail, timeouts, and calls exempted from the dependency
\* processing.
CONSTANTS
  t1 = t1
  t2 = t2
  t3 = t3
  a = a
  b = b
  c = c
  s1 = s1
  None = None
  Threads = {t1, t2}
  Mutexes = {a}
  Spins = {s1}
  Dynamic = {a, s1}
  StaticKind <- StaticMix
  AttrTypes = {"none"}
  LockOps = {"lock", "try", "timed"}
  Skips = {FALSE, TRUE}
  Oom = {"insert", "held", "edge"}
  MaxHeld = 2
SYMMETRY ThreadSymmetry
SPECIFICATION Spec
INVARIANTS
  TypeOK
  IndInv
  SpinCount
  SpinSleepWarned
  NoLogicError
  UnlockSucceeds
  InUseStaysRegistered
  NoDangling
PROPERTIES
  DependencyKept
\* Every thread may be blocked in the real lock function, or be done.
CHECK_DEADLOCK FALSE
