\* Two normal mutexes that two threads take in one order, and a wait.
CONSTANTS
  t1 = t1
  t2 = t2
  t3 = t3
  a = a
  b = b
  c1 = c1
  None = None
  Threads = {t1, t2}
  Mutexes = {a, b}
  Spins = {}
  Dynamic = {}
  StaticKind <- StaticNormal
  AttrTypes = {}
  LockOps = {"lock"}
  Skips = {FALSE}
  Oom = {}
  MaxHeld = 2
  Conds = {c1}
SYMMETRY ThreadSymmetry
SPECIFICATION CondSpec
INVARIANTS
  CondCircularWaitReported
\* Every thread may be blocked in the real lock function, or be done.
CHECK_DEADLOCK FALSE
