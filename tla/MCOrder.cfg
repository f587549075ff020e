\* Two threads and three mutexes, each thread up to three deep, so that a call
\* makes two searches with one color; under fair scheduling.
CONSTANTS
  t1 = t1
  t2 = t2
  t3 = t3
  a = a
  b = b
  c = c
  s1 = s1
  None = None
  Threads = {t1, t2}
  Mutexes = {a, b, c}
  Spins = {}
  Dynamic = {}
  StaticKind <- StaticNormal
  AttrTypes = {}
  LockOps = {"lock"}
  Skips = {FALSE}
  Oom = {}
  MaxHeld = 3
SPECIFICATION FairSpec
INVARIANTS
  SearchSound
  SearchComplete
  AcyclicUnlessReported
  CircularWaitReported
  OwnerMatch
PROPERTIES
  OnlyOwnerReleases
  TreeLockReleased
\* Every thread may be blocked in the real lock function, or be done.
CHECK_DEADLOCK FALSE
