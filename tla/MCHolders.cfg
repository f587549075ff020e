\* Both builds; two threads take a recursive lock up to three times, fail to
\* take it, run out of memory and change their names while they have no entries.
CONSTANTS
  t1 = t1
  t2 = t2
  a = a
  n1 = n1
  n2 = n2
  n3 = n3
  Threads = {t1, t2}
  Locks = {a}
  Names = {n1, n2, n3}
  Builds = {"libc", "libunwind"}
  OutOfMemory = {"libc", "libunwind"}
  Stacks <- MoreStacks
  FrameTexts <- SomeFrameTexts
  PatternTexts <- SomePatternTexts
  Matches <- SomeMatches
  INITIAL_SCRATCH_SIZE = 2
  MAX_SCRATCH_SIZE = 8
  INITIAL_CAP = 3
  STACK_BUF_SZ = 1
  Unnamed = {4}
  BusyRenames = FALSE
  MaxCalls = 3
  Allocs = {0, 1, 2, 3, 4}
  Plenty = 20
  buf_len = 24
\* A process ends when it leaves an array of the libunwind build.
CHECK_DEADLOCK FALSE
SYMMETRY Symmetry
SPECIFICATION Spec
INVARIANTS
  EntriesMatch
  SkipsAsConfigured
  DumpsFit
