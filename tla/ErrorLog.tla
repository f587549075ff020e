------------------------------ MODULE ErrorLog ------------------------------
(***************************************************************************)
(* The error log (error.c).  A report is one line, or a line followed by   *)
(* the frames of a backtrace; each line goes to the target that the        *)
(* environment variable LKSMITH_LOG names, which is looked at when the     *)
(* first line is written.  g_error_lock, a real mutex that Locksmith does  *)
(* not watch, protects the target and the lines of a report.               *)
(*                                                                         *)
(* The value of LKSMITH_LOG is one of Environments, the kinds of text that *)
(* lksmith_log_init tells apart.  The error callback of the program is one *)
(* step: error.h asks it to take no lock that Locksmith watches.           *)
(***************************************************************************)
EXTENDS Integers, Sequences

CONSTANTS
  Threads,
  None,
  Environments \* the texts of LKSMITH_LOG to consider

ASSUME ErrorLogAssumption ==
  /\ None \notin Threads
  /\ Environments \subseteq
       {"unset", "syslog", "stderr", "stdout", "file", "file_unwritable",
        "callback", "callback_unreadable", "callback_null", "other"}

VARIABLES
  environment,  \* the text of LKSMITH_LOG
  g_error_lock, \* the thread that holds it, or None
  g_log_type,   \* "uninit", "syslog", "file" or "callback"
  g_log_file,   \* the file that lines go to, or "null"
  g_error_cb,   \* the callback is not NULL
  lines,        \* the lines of its report that a thread has still to write
  step,         \* where the thread is in lksmith_errora or _errora_with_bt
  last          \* the thread that wrote the last line, or None

logvars == <<environment, g_error_lock, g_log_type, g_log_file, g_error_cb,
             lines, step, last>>

LogInit ==
  /\ environment \in Environments
  /\ g_error_lock = None
  /\ g_log_type = "uninit" /\ g_log_file = "null" /\ g_error_cb = FALSE
  /\ lines = [t \in Threads |-> 0]
  /\ step = [t \in Threads |-> "out"]
  /\ last = None

-----------------------------------------------------------------------------
\* lksmith_log_init_file: a file that cannot be opened is replaced by stderr.
lksmith_log_init_file(e) == IF e = "file" THEN "file" ELSE "stderr"

\* lksmith_log_init_cb returns 0: the address starts with 0x and is in range.
\* "callback_null" is every address that strtoull reads as 0 (0x0, or 0x with
\* no digit behind it): it is accepted, and the callback is NULL.
lksmith_log_init_cb(e) == e \in {"callback", "callback_null"}

ToFile(f) == [type |-> "file", file |-> f, cb |-> FALSE]

ToCallback(e) == [type |-> "callback", file |-> "null", cb |-> e = "callback"]

\* Mutant of lksmith_log_init: a callback that cannot be read is kept.
lksmith_log_init_nofallback(e) ==
  CASE e = "syslog" -> [type |-> "syslog", file |-> "null", cb |-> FALSE]
    [] e \in {"callback", "callback_unreadable"} -> ToCallback(e)
    [] OTHER -> ToFile("stderr")

\* lksmith_log_init: the target for each text of LKSMITH_LOG.
lksmith_log_init(e) ==
  CASE e = "syslog" -> [type |-> "syslog", file |-> "null", cb |-> FALSE]
    [] e = "stdout" -> ToFile("stdout")
    [] e \in {"file", "file_unwritable"} -> ToFile(lksmith_log_init_file(e))
    [] lksmith_log_init_cb(e) -> ToCallback(e)
    [] OTHER -> ToFile("stderr")

\* Thread t calls lksmith_error (n = 0) or lksmith_errora_with_bt with n
\* frames; a backtrace that could not be made (n < 0) has none.
CallError(t, n) ==
  /\ step' = [step EXCEPT ![t] = "lock"]
  /\ lines' = [lines EXCEPT ![t] = IF n < 0 THEN 1 ELSE n + 1]
  /\ UNCHANGED <<environment, g_error_lock, g_log_type, g_log_file, g_error_cb,
                 last>>

\* r_pthread_mutex_lock of g_error_lock.
lksmith_errora_lock(t) ==
  /\ step[t] = "lock" /\ g_error_lock = None
  /\ g_error_lock' = t
  /\ step' = [step EXCEPT ![t] = "message"]
  /\ UNCHANGED <<environment, g_log_type, g_log_file, g_error_cb, lines, last>>

\* lksmith_errora_unlocked: one line; the first one of all sets the target up.
\* A callback is called without a look at its address: with NULL the process
\* ends here (the step "null").
lksmith_errora_unlocked(t) ==
  LET target == IF g_log_type = "uninit" THEN lksmith_log_init(environment)
                ELSE [type |-> g_log_type, file |-> g_log_file,
                      cb |-> g_error_cb]
      null == target.type = "callback" /\ ~target.cb
  IN  /\ step[t] \in {"message", "frames"} /\ lines[t] > 0
      /\ g_log_type' = target.type
      /\ g_log_file' = target.file
      /\ g_error_cb' = target.cb
      /\ lines' = [lines EXCEPT ![t] = @ - 1]
      /\ step' = [step EXCEPT ![t] = IF null THEN "null" ELSE "frames"]
      /\ last' = IF null THEN last ELSE t
      /\ UNCHANGED <<environment, g_error_lock>>

\* Mutant of the next action: the lock is given up before the frames.
lksmith_errora_with_bt_end_early(t) ==
  /\ step[t] = "frames" /\ (lines[t] = 0 \/ g_error_lock = t)
  /\ g_error_lock' = IF g_error_lock = t THEN None ELSE g_error_lock
  /\ step' = [step EXCEPT ![t] = IF lines[t] = 0 THEN "out" ELSE @]
  /\ UNCHANGED <<environment, g_log_type, g_log_file, g_error_cb, lines, last>>

\* The report is complete and g_error_lock is released.
lksmith_errora_with_bt_end(t) ==
  /\ step[t] = "frames" /\ lines[t] = 0
  /\ g_error_lock' = None
  /\ step' = [step EXCEPT ![t] = "out"]
  /\ UNCHANGED <<environment, g_log_type, g_log_file, g_error_cb, lines, last>>

ErrorStep(t) ==
  \/ lksmith_errora_lock(t)
  \/ lksmith_errora_unlocked(t)
  \/ lksmith_errora_with_bt_end(t)

-----------------------------------------------------------------------------
\* Thread t has written the first line of its report and not yet the last one.
InReport(t) == step[t] = "frames" /\ lines[t] > 0

\* The lines of a report stay together: once a thread has written the first
\* line, no other thread writes a line before it has written its last.
ReportsWhole ==
  [][\A t \in Threads : InReport(t) => last' = t]_logvars

\* A line that is written has somewhere to go, and a text of LKSMITH_LOG that
\* cannot be used does not keep a report from being written: each fallback of
\* lksmith_log_init leaves a type that is known, with a file for the type file
\* and a function for the type callback.  The one exception is an address read
\* as 0, which lksmith_log_init_cb accepts: it ends the process.
TargetReady ==
  /\ last # None =>
       \/ g_log_type = "syslog"
       \/ g_log_type = "file" /\ g_log_file # "null"
       \/ g_log_type = "callback" /\ g_error_cb
  /\ \A t \in Threads : step[t] = "null" => environment = "callback_null"
-----------------------------------------------------------------------------
(***************************************************************************)
(* The part of the inductive invariant of Startup that is about the log.   *)
(***************************************************************************)

LogType ==
  /\ environment \in Environments
  /\ g_error_lock \in Threads \cup {None}
  /\ g_log_type \in {"uninit", "syslog", "file", "callback"}
  /\ g_log_file \in {"null", "file", "stderr", "stdout"}
  /\ g_error_cb \in BOOLEAN
  /\ lines \in [Threads -> Nat]
  /\ step \in [Threads -> {"out", "lock", "message", "frames", "null"}]
  /\ last \in Threads \cup {None}

\* A thread that writes lines holds g_error_lock, and nobody has written one
\* since its own first.  The target is set up when there is a line, and only
\* the address 0 leaves the type callback without a function.
LogInv ==
  /\ \A t \in Threads :
       /\ step[t] \in {"message", "frames", "null"} => g_error_lock = t
       /\ step[t] = "frames" => last = t
       /\ step[t] = "null" => g_log_type = "callback" /\ ~g_error_cb
  /\ last # None =>
       g_log_type # "uninit" /\ (g_log_type = "callback" => g_error_cb)
  /\ g_log_type = "file" => g_log_file # "null"
  /\ g_log_type = "callback" => g_error_cb \/ environment = "callback_null"
=============================================================================
