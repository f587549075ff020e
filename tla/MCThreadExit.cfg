\* Threads that make backtraces with libc_backtrace.c, and exit.
CONSTANTS
  t1 = t1
  t2 = t2
  None = None
  Threads = {t1, t2}
  Environments = {"unset"}
  Builds = {TRUE, FALSE}
  LibcBacktrace = TRUE
  EarlyConds = FALSE
  MaxFrames = 2
SPECIFICATION Spec
INVARIANT
  ScratchReleased
CHECK_DEADLOCK FALSE
