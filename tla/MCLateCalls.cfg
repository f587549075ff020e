\* The build with the cache (the default); threads whose destructors lock and
\* unlock mutexes.
CONSTANTS
  t1 = t1
  t2 = t2
  None = None
  Threads = {t1, t2}
  Environments = {"unset"}
  Builds = {TRUE}
  LibcBacktrace = FALSE
  EarlyConds = FALSE
  MaxFrames = 2
SPECIFICATION Spec
INVARIANT
  NoUseAfterFree
CHECK_DEADLOCK FALSE
