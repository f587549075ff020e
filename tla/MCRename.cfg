\* Threads that change their names while they hold locks.
CONSTANTS
  t1 = t1
  t2 = t2
  a = a
  n1 = n1
  n2 = n2
  n3 = n3
  Threads = {t1, t2}
  Locks = {a}
  Names = {n1, n2, n3}
  Builds = {"libc"}
  OutOfMemory = {}
  Stacks <- FullStack
  FrameTexts <- SomeFrameTexts
  PatternTexts <- SomePatternTexts
  Matches <- SomeMatches
  INITIAL_SCRATCH_SIZE = 2
  MAX_SCRATCH_SIZE = 8
  INITIAL_CAP = 3
  STACK_BUF_SZ = 1
  Unnamed = {4}
  BusyRenames = TRUE
  MaxCalls = 2
  Allocs = {0, 1, 2, 3, 4}
  Plenty = 20
  buf_len = 24
SYMMETRY Symmetry
SPECIFICATION Spec
INVARIANT
  HolderRemoveReturns
