\* Both builds; two threads that make their first calls at the same time, use
\* their storage, report errors and exit.
CONSTANTS
  t1 = t1
  t2 = t2
  None = None
  Threads = {t1, t2}
  Environments = {"unset", "syslog", "stderr", "stdout", "file",
                  "file_unwritable", "callback", "callback_unreadable",
                  "callback_null", "other"}
  Builds = {TRUE, FALSE}
  LibcBacktrace = TRUE
  EarlyConds = FALSE
  MaxFrames = 2
SPECIFICATION Spec
INVARIANTS
  StartupInv
  ReadyWhenUsed
  NoNullCall
  FreedOnlyInCache
  StorageReleased
  TargetReady
PROPERTIES
  ReportsWhole
  StartupEnds
\* The process ends when all threads are gone or when it is aborted.
CHECK_DEADLOCK FALSE
