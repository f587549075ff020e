----------------------------- MODULE Backtrace -----------------------------
(***************************************************************************)
(* bt_frames_create in its two builds: with the backtrace function of the  *)
(* C library (libc_backtrace.c) and with libunwind                         *)
(* (libunwind_backtrace.c).  A stack is a sequence of frames; a frame is a *)
(* number, which is also the size of its name in the libunwind build.      *)
(*                                                                         *)
(* Each operator gets the number of allocations that succeed before the    *)
(* memory is exhausted, and returns what the function leaves behind:       *)
(*   ret        the number of frames, or a negative error code;            *)
(*   frames     the frames that the caller gets;                           *)
(*   scratch    the size of the thread's scratch area (C library);         *)
(*   cap, null  the size of the array of frames, and the index at which    *)
(*              its NULL terminator was written, or -1 (libunwind).        *)
(***************************************************************************)
EXTENDS Integers, Sequences, SequencesExt

CONSTANTS
  INITIAL_SCRATCH_SIZE, \* 16 in the code
  MAX_SCRATCH_SIZE,     \* 8192 in the code
  INITIAL_CAP,          \* 32 in the code
  STACK_BUF_SZ,         \* 512 in the code
  Unnamed               \* the frames for which libunwind finds no name

ASSUME BacktraceAssumption ==
  /\ {INITIAL_SCRATCH_SIZE, INITIAL_CAP, STACK_BUF_SZ} \subseteq Nat \ {0}
  /\ MAX_SCRATCH_SIZE \in Nat

ENOMEM == 12
EIO == 5

-----------------------------------------------------------------------------
\* Mutant of try_backtrace: a full scratch area is taken to be enough.
try_backtrace_full(scratch_len, depth) ==
  IF scratch_len = 0 THEN -ENOMEM
  ELSE IF depth > scratch_len THEN scratch_len ELSE depth

\* try_backtrace: a backtrace that fills the scratch area may be cut off.
try_backtrace(scratch_len, depth) ==
  IF scratch_len = 0 \/ depth >= scratch_len THEN -ENOMEM ELSE depth

RECURSIVE libc_frames_create(_, _, _)
\* bt_frames_create of libc_backtrace.c: the scratch area grows until the
\* stack fits, and is kept for the next backtrace of the thread.
libc_frames_create(scratch_len, stack, allocs) ==
  LET num_symbols == try_backtrace(scratch_len, Len(stack))
      next_size == IF scratch_len = 0 THEN INITIAL_SCRATCH_SIZE
                   ELSE scratch_len * 2
      result(r) == [ret |-> r, frames |-> SubSeq(stack, 1, r),
                    scratch |-> scratch_len, cap |-> r, null |-> -1]
  IN  IF num_symbols >= 0
      THEN result(IF allocs = 0 THEN -ENOMEM ELSE num_symbols)
      ELSE IF next_size > MAX_SCRATCH_SIZE \/ allocs = 0 THEN result(-ENOMEM)
      ELSE libc_frames_create(next_size, stack, allocs - 1)

-----------------------------------------------------------------------------
RECURSIVE do_get_proc_fname(_, _, _)
\* do_get_proc_fname: the name goes to a buffer on the stack of STACK_BUF_SZ
\* bytes, or to one on the heap that grows until the name (of size f) fits;
\* then it is copied.  Any other error of unw_get_proc_name ends it.
do_get_proc_fname(f, heap_buf_len, allocs) ==
  LET size == IF heap_buf_len = 0 THEN STACK_BUF_SZ ELSE heap_buf_len
  IN  IF f \in Unnamed
      THEN [ret |-> EIO, heap_buf_len |-> heap_buf_len, allocs |-> allocs]
      ELSE IF f > size /\ allocs > 0
      THEN do_get_proc_fname(f, size * 2, allocs - 1)
      ELSE [ret |-> IF allocs = 0 THEN ENOMEM ELSE 0,
            heap_buf_len |-> heap_buf_len, allocs |-> allocs - 1]

RECURSIVE unwind_steps(_, _)
\* The loop over the frames that are left: the array grows, a name is found.
unwind_steps(s, stack) ==
  LET full == Len(s.frames) + 1 > s.cap
      new_cap == IF s.cap = 0 THEN INITIAL_CAP ELSE s.cap * 2
      cap == IF full THEN new_cap ELSE s.cap
      proc == do_get_proc_fname(Head(stack), s.heap_buf_len,
                                IF full THEN s.allocs - 1 ELSE s.allocs)
  IN  IF stack = <<>> THEN s
      ELSE IF full /\ s.allocs = 0 THEN [s EXCEPT !.ret = -EIO]
      ELSE IF proc.ret # 0 THEN [s EXCEPT !.ret = -EIO, !.cap = cap]
      ELSE unwind_steps([ret |-> s.ret + 1, cap |-> cap,
                         frames |-> Append(s.frames, Head(stack)),
                         heap_buf_len |-> proc.heap_buf_len,
                         allocs |-> proc.allocs], Tail(stack))

\* bt_frames_create of libunwind_backtrace.c; cursor says whether
\* unw_getcontext and unw_init_local succeed.
unwind_frames_create(stack, allocs, cursor) ==
  LET start == [ret |-> 0, frames |-> <<>>, cap |-> 0, heap_buf_len |-> 0,
                allocs |-> allocs]
      end == IF cursor THEN unwind_steps(start, stack)
             ELSE [start EXCEPT !.ret = -EIO]
  IN  [ret |-> end.ret, frames |-> end.frames, scratch |-> 0, cap |-> end.cap,
       null |-> IF end.ret < 0 THEN -1 ELSE Len(end.frames)]

\* bt_frames_free of libunwind_backtrace.c walks the array up to its NULL
\* terminator: what it needs is a terminator in the array, or no array.
FreesInBounds(r) ==
  IF r.ret < 0 THEN r.cap = 0 ELSE r.null = r.ret /\ r.null < r.cap
=============================================================================
