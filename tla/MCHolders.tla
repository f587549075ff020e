----------------------------- MODULE MCHolders -----------------------------
(***************************************************************************)
(* Instances of Holders for TLC.                                           *)
(***************************************************************************)
EXTENDS Holders, TLC

CONSTANTS t1, t2, a, n1, n2, n3

\* Stacks at the boundaries of the scratch area (2, 4, 8), and with frames
\* that are ignored by name (1, 3), by pattern (5) or not at all (2).
SomeStacks == {<<2, 1>>, <<5, 2, 2, 2>>, <<2, 2, 2, 2, 2, 2, 3>>,
               <<2, 2, 2, 2, 2, 2, 2, 2>>}

\* The same, and a stack with a frame that libunwind cannot name.
MoreStacks == SomeStacks \cup {<<2, 4>>}

\* A stack that fills the array of the libunwind build.
FullStack == {<<2, 2, 2>>}

\* LKSMITH_IGNORED_FRAMES: not set, or "3::1:4:1".
SomeFrameTexts == {<<>>, <<3, 0, 1, 4, 1>>}

\* LKSMITH_IGNORED_FRAME_PATTERNS: not set, or two patterns.
SomePatternTexts == {<<>>, <<9, 8>>}

\* Pattern 9 matches frame 5.
SomeMatches == {<<9, 5>>}

\* Threads and names are only compared.
Symmetry == Permutations(Threads) \cup Permutations(Names)
=============================================================================
