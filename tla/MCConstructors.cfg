\* A program that uses condition variables before any lock, as the constructor
\* of a global object may.
CONSTANTS
  t1 = t1
  t2 = t2
  None = None
  Threads = {t1, t2}
  Environments = {"unset"}
  Builds = {TRUE, FALSE}
  LibcBacktrace = TRUE
  EarlyConds = TRUE
  MaxFrames = 2
SPECIFICATION Spec
INVARIANT
  NoNullCall
CHECK_DEADLOCK FALSE
