--------------------------- MODULE IgnoredFrames ---------------------------
(***************************************************************************)
(* The frames for which the dependency processing is skipped: the tables   *)
(* that lksmith_init_ignored makes of LKSMITH_IGNORED_FRAMES and           *)
(* LKSMITH_IGNORED_FRAME_PATTERNS, and should_skip_dependency_processing.  *)
(*                                                                         *)
(* The text of such a variable is the sequence of what is between its      *)
(* colons; 0 is an empty string.  The other strings are positive numbers,  *)
(* in the order of strcmp.                                                 *)
(***************************************************************************)
EXTENDS Integers, Sequences, SequencesExt

CONSTANT Matches \* the pairs of a pattern and a frame it matches (fnmatch)

\* The tokens that strtok_r finds: it passes over empty strings.
strtok(text) == SelectSeq(text, LAMBDA s : s # 0)

\* Mutant of lksmith_init_ignored: the table is not sorted.
lksmith_init_ignored_unsorted(text) == strtok(text)

\* lksmith_init_ignored: the sorted table of the strings in the text.
lksmith_init_ignored(text) == SortSeq(strtok(text), LAMBDA a, b : a < b)

RECURSIVE Probe(_, _, _, _)
\* bsearch between the indices l (included) and u (excluded).
Probe(key, table, l, u) ==
  LET i == (l + u) \div 2
  IN  /\ l < u
      /\ CASE key = table[i + 1] -> TRUE
           [] key < table[i + 1] -> Probe(key, table, l, i)
           [] key > table[i + 1] -> Probe(key, table, i + 1, u)

bsearch(key, table) == Probe(key, table, 0, Len(table))

fnmatch(pattern, frame) == <<pattern, frame>> \in Matches

\* should_skip_dependency_processing, for the frames of a holder.
should_skip_dependency_processing(frames, ignored, patterns) ==
  \E i \in DOMAIN frames :
    \/ bsearch(frames[i], ignored)
    \/ \E k \in DOMAIN patterns : fnmatch(patterns[k], frames[i])

\* What the two variables ask for: a frame of the stack is named in the one or
\* matched by a pattern in the other.
Ignored(stack, text, patterns) ==
  \E i \in DOMAIN stack :
    \/ stack[i] \in ToSet(text)
    \/ \E p \in ToSet(patterns) : fnmatch(p, stack[i])
=============================================================================
