------------------------------ MODULE Holders ------------------------------
(***************************************************************************)
(* The holders of a lock: one entry, with the name of the thread and a     *)
(* backtrace, for every call of lksmith_prelock that is not yet undone.    *)
(* An entry is found again by the name of its thread, which the program    *)
(* can change.  The module composes the backtraces, the ignored frames and *)
(* the dumps of lock data with the life of the entries.                    *)
(*                                                                         *)
(* Abstractions: a name stands for the LKSMITH_THREAD_NAME_MAX - 1         *)
(* characters that are stored; the lock data exist; what lksmith_prelock   *)
(* does under g_tree_lock is one step, and its dependency processing is in *)
(* Locksmith.                                                              *)
(***************************************************************************)
EXTENDS Backtrace, IgnoredFrames

CONSTANTS
  Threads, Locks,
  Names,       \* the names that threads may have
  Builds,      \* "libc", "libunwind" or both
  OutOfMemory, \* the builds in which allocations may fail
  Stacks,      \* the stacks from which handlers are called
  FrameTexts, PatternTexts, \* the texts of the two variables
  BusyRenames, \* a thread may change its name while it has entries, and to
               \* the name of another thread
  MaxCalls,    \* bound: the entries of a thread for one lock
  Allocs,      \* the numbers of allocations after which the memory may end
  Plenty,      \* more allocations than any call makes
  buf_len      \* the size of the buffer for a dump

ASSUME HoldersAssumption ==
  /\ Builds \subseteq {"libc", "libunwind"} /\ OutOfMemory \subseteq Builds
  /\ BusyRenames \in BOOLEAN
  /\ Allocs \subseteq Nat
  /\ {MaxCalls, Plenty, buf_len} \subseteq Nat \ {0}

VARIABLES
  build, frame_text, pattern_text, \* the build and the environment
  g_ignored_frames, g_ignored_frame_patterns,
  name,        \* name[t]: tls->name
  scratch_len, \* scratch_len[t]: tls->backtrace_scratch_len
  holders,     \* holders[l]: the list of entries, with its head first
  last_bt,     \* what the last bt_frames_create left behind (libunwind)
  calls,       \* calls[t][l]: the calls that are not undone, the last one first
  waiting,     \* waiting[t]: the locks between lksmith_prelock and _postlock
  found        \* FALSE once lk_holder_remove has gone past the end of a list

environment == <<build, frame_text, pattern_text, g_ignored_frames,
                 g_ignored_frame_patterns>>
vars == <<environment, name, scratch_len, holders, last_bt, calls, waiting,
          found>>

NoFrames == [ret |-> 0, frames |-> <<>>, scratch |-> 0, cap |-> 1, null |-> 0]

\* The names that threads start with: platform_create_thread_name makes them of
\* the number that the kernel gives the thread, or of a counter.
platform_create_thread_name == Injection(Threads, Names)

Init ==
  /\ build \in Builds
  /\ frame_text \in FrameTexts /\ pattern_text \in PatternTexts
  /\ g_ignored_frames = lksmith_init_ignored(frame_text)
  /\ g_ignored_frame_patterns = lksmith_init_ignored(pattern_text)
  /\ name \in platform_create_thread_name
  /\ scratch_len = [t \in Threads |-> 0]
  /\ holders = [l \in Locks |-> <<>>]
  /\ last_bt = NoFrames
  /\ calls = [t \in Threads |-> [l \in Locks |-> <<>>]]
  /\ waiting = [t \in Threads |-> {}]
  /\ found = TRUE

-----------------------------------------------------------------------------
bt_frames_create(t, stack, allocs, cursor) ==
  IF build = "libc" THEN libc_frames_create(scratch_len[t], stack, allocs)
  ELSE unwind_frames_create(stack, allocs, cursor)

lk_holder_add(list, holder) == <<holder>> \o list

\* The positions of the entries with the name n.
Named(list, n) == {i \in DOMAIN list : list[i].name = n}

\* Mutant of lk_holder_remove: the entry that was put in first is taken out.
lk_holder_remove_oldest(list, n) ==
  RemoveAt(list, CHOOSE i \in Named(list, n) : \A j \in Named(list, n) : j <= i)

\* lk_holder_remove: the first entry with the name n is taken out.
lk_holder_remove(list, n) ==
  RemoveAt(list, CHOOSE i \in Named(list, n) : \A j \in Named(list, n) : i <= j)

\* lk_holder_remove for thread t and lock l.  Without an entry the loop ends at
\* the end of the list; the check for that, of holder, is never true, and
\* (*holder)->next is read from NULL.
RemoveHolder(t, l) ==
  IF Named(holders[l], name[t]) # {}
  THEN /\ holders' = [holders EXCEPT ![l] = lk_holder_remove(@, name[t])]
       /\ UNCHANGED found
  ELSE found' = FALSE /\ UNCHANGED holders

\* Thread t owns lock l, or has asked for it and not yet got it.
Owns(t, l) == Len(calls[t][l]) > (IF l \in waiting[t] THEN 1 ELSE 0)

\* The entry that holder_create makes, with the backtrace bt.
NewHolder(t, bt) == [name |-> name[t], frames |-> bt.frames]

\* lksmith_prelock: with holder_create, which makes the backtrace, and
\* should_skip_dependency_processing.  It fails when there is no backtrace, or
\* no memory for the holder, for the backtrace or for new lock data.
lksmith_prelock(t, l, stack, allocs, cursor) ==
  LET bt == bt_frames_create(t, stack, allocs - 1, cursor)
      call == [stack |-> stack,
               skipped |-> should_skip_dependency_processing(bt.frames,
                             g_ignored_frames, g_ignored_frame_patterns)]
  IN  /\ waiting[t] = {} /\ Len(calls[t][l]) < MaxCalls
      /\ scratch_len' = [scratch_len EXCEPT
                           ![t] = IF allocs = 0 THEN @ ELSE bt.scratch]
      /\ last_bt' = IF allocs = 0 \/ build = "libc" THEN last_bt ELSE bt
      /\ \/ /\ allocs > 0 /\ bt.ret >= 0
            /\ holders' = [holders EXCEPT
                             ![l] = lk_holder_add(@, NewHolder(t, bt))]
            /\ calls' = [calls EXCEPT ![t][l] = <<call>> \o @]
            /\ waiting' = [waiting EXCEPT ![t] = {l}]
         \/ /\ allocs = 0 \/ bt.ret < 0 \/ build \in OutOfMemory
            /\ UNCHANGED <<holders, calls, waiting>>
      /\ UNCHANGED <<environment, name, found>>

\* lksmith_postlock after the real lock was taken, and after it was not.
lksmith_postlock(t, l) ==
  /\ l \in waiting[t] /\ \A u \in Threads \ {t} : ~Owns(u, l)
  /\ waiting' = [waiting EXCEPT ![t] = {}]
  /\ UNCHANGED <<environment, name, scratch_len, holders, last_bt, calls,
                 found>>

lksmith_postlock_error(t, l) ==
  /\ l \in waiting[t]
  /\ waiting' = [waiting EXCEPT ![t] = {}]
  /\ calls' = [calls EXCEPT ![t][l] = Tail(@)]
  /\ RemoveHolder(t, l)
  /\ UNCHANGED <<environment, name, scratch_len, last_bt>>

lksmith_postunlock(t, l) ==
  /\ waiting[t] = {} /\ Owns(t, l)
  /\ calls' = [calls EXCEPT ![t][l] = Tail(@)]
  /\ RemoveHolder(t, l)
  /\ UNCHANGED <<environment, name, scratch_len, last_bt, waiting>>

\* lksmith_set_thread_name.
lksmith_set_thread_name(t, n) ==
  /\ waiting[t] = {} /\ n # name[t]
  /\ \/ BusyRenames
     \/ /\ \A l \in Locks : calls[t][l] = <<>>
        /\ \A u \in Threads : name[u] # n
  /\ name' = [name EXCEPT ![t] = n]
  /\ UNCHANGED <<environment, scratch_len, holders, last_bt, calls, waiting,
                 found>>

\* A process is not followed beyond a list or an array that was left at its end.
Next ==
  /\ found /\ FreesInBounds(last_bt)
  /\ \E t \in Threads :
       \/ \E l \in Locks, s \in Stacks : lksmith_prelock(t, l, s, Plenty, TRUE)
       \/ \E l \in Locks, s \in Stacks :
            build = "libunwind" /\ lksmith_prelock(t, l, s, Plenty, FALSE)
       \/ \E l \in Locks, s \in Stacks, n \in Allocs :
            build \in OutOfMemory /\ lksmith_prelock(t, l, s, n, TRUE)
       \/ \E l \in Locks : lksmith_postlock(t, l)
       \/ \E l \in Locks : lksmith_postlock_error(t, l)
       \/ \E l \in Locks : lksmith_postunlock(t, l)
       \/ \E n \in Names : lksmith_set_thread_name(t, n)

Spec == Init /\ [][Next]_vars

-----------------------------------------------------------------------------
(***************************************************************************)
(* The dump of lock data (lk_dump, holder_dump) into a buffer.  A buffer   *)
(* is given by the offset that fwdprintf keeps and by the length of the    *)
(* text in it; a piece of text by its length.                              *)
(***************************************************************************)
Smaller(a, b) == IF a < b THEN a ELSE b

\* Mutant of fwdprintf: the offset is not limited.
fwdprintf_unlimited(b, n) ==
  LET size == buf_len - b.off
  IN  [off |-> b.off + n,
       text |-> b.text + (IF size = 0 THEN 0 ELSE Smaller(n, size - 1))]

\* fwdprintf: vsnprintf gets the rest of the buffer, and leaves room for the
\* terminating NUL unless nothing is left.
fwdprintf(b, n) ==
  LET size == buf_len - b.off
  IN  [off |-> IF b.off + n > buf_len THEN buf_len ELSE b.off + n,
       text |-> b.text + (IF size = 0 THEN 0 ELSE Smaller(n, size - 1))]

RECURSIVE Listed(_, _)
\* The lengths of the pieces that are printed for a list: before each element
\* its prefix, which is empty for the first one and a separator for the others.
Listed(prefix, elements) ==
  IF elements = <<>> THEN <<>>
  ELSE <<prefix>> \o Head(elements) \o Listed(2, Tail(elements))

holder_dump(h) ==
  <<3>> \o Listed(0, [i \in DOMAIN h.frames |-> <<h.frames[i]>>]) \o <<2>>

lk_dump(l, before_size) ==
  <<5>> \o Listed(0, [i \in 1 .. before_size |-> <<4>>]) \o <<3>>
        \o Listed(0, [i \in DOMAIN holders[l] |-> holder_dump(holders[l][i])])
        \o <<2>>

RECURSIVE Printed(_, _)
\* The buffer b after all the pieces have been printed to it, or when its offset
\* has left it.
Printed(b, pieces) ==
  IF b.off > buf_len \/ pieces = <<>> THEN b
  ELSE Printed(fwdprintf(b, Head(pieces)), Tail(pieces))

RECURSIVE Total(_)
Total(pieces) == IF pieces = <<>> THEN 0 ELSE Head(pieces) + Total(Tail(pieces))

-----------------------------------------------------------------------------
(***************************************************************************)
(* Correctness.                                                            *)
(***************************************************************************)

\* The entries that lk_holder_remove would take for a thread's own are the
\* thread's calls, with their whole backtraces, and in reverse order, also when
\* a recursive lock is taken over and over and other threads' entries stand
\* between; there are no entries of other names.
EntriesMatch ==
  \A l \in Locks :
    /\ \A t \in Threads :
         LET own == SelectSeq(holders[l], LAMBDA h : h.name = name[t])
         IN  /\ Len(own) = Len(calls[t][l])
             /\ \A i \in DOMAIN own : own[i].frames = calls[t][l][i].stack
    /\ \A i \in DOMAIN holders[l] :
         \E t \in Threads : holders[l][i].name = name[t]

\* Dependency processing is skipped for a call exactly if the environment asks
\* for it: the table is sorted as bsearch needs it, and the backtrace is not
\* cut off before the frame that counts.
SkipsAsConfigured ==
  \A t \in Threads, l \in Locks : \A i \in DOMAIN calls[t][l] :
    calls[t][l][i].skipped <=>
      Ignored(calls[t][l][i].stack, frame_text, pattern_text)

\* bt_frames_create of the libunwind build leaves an array that bt_frames_free
\* can walk: its NULL terminator is in the array, right behind the frames.
FramesTerminated == build = "libunwind" => FreesInBounds(last_bt)

\* However much there is to print, a dump stays in its buffer, and the buffer
\* has a prefix of the whole text and its NUL.
DumpsFit ==
  \A l \in Locks, before_size \in 0 .. 2 :
    LET pieces == lk_dump(l, before_size)
        b == Printed([off |-> 0, text |-> 0], pieces)
    IN  /\ b.off <= buf_len
        /\ b.text = Smaller(Total(pieces), buf_len - 1)

\* lk_holder_remove returns: it finds the entry, or it returns -ENOENT.
HolderRemoveReturns == found
=============================================================================
