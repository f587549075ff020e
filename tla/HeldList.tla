------------------------------ MODULE HeldList ------------------------------
(***************************************************************************)
(* The list of the locks that a thread holds, tls->held with tls->num_held *)
(* entries.  A lock is in it once for every time the thread has locked it. *)
(***************************************************************************)
EXTENDS Integers, Sequences, FiniteSets

tls_append_held(s, l) == Append(s, l)

tls_contains_lid(s, l) == \E i \in DOMAIN s : s[i] = l

\* The last position of lock l in the list s.
LastIndex(s, l) ==
  CHOOSE i \in DOMAIN s : s[i] = l /\ \A j \in DOMAIN s : s[j] = l => j <= i

\* The list s without its entry i: the entries behind it move up.
RemoveEntry(s, i) == SubSeq(s, 1, i - 1) \o SubSeq(s, i + 1, Len(s))

\* Mutant of tls_remove_held: locks are taken to be released in reverse order.
tls_remove_held_pop(s, l) == SubSeq(s, 1, Len(s) - 1)

\* tls_remove_held drops the last occurrence of lock l (ENOENT if none).
tls_remove_held(s, l) ==
  IF tls_contains_lid(s, l) THEN RemoveEntry(s, LastIndex(s, l)) ELSE s

\* How many entries of the list s are in the set L of locks.
CountOf(s, L) == Cardinality({i \in DOMAIN s : s[i] \in L})
=============================================================================
