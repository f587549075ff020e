----------------------------- MODULE LockStore -----------------------------
(***************************************************************************)
(* The data structures of the registry: g_tree, a red-black tree of lock   *)
(* data sorted by the address of the lock, and for each lock data the      *)
(* array before of pointers to other lock data, sorted by those pointers.  *)
(* Lock data live in heap cells; a cell that was freed may be used again,  *)
(* for any lock.  Each operation runs under g_tree_lock and is one step.   *)
(*                                                                         *)
(* It implements LockRegistry, where both structures are sets: what        *)
(* Locksmith takes them for.                                               *)
(***************************************************************************)
EXTENDS RedBlackTree, SequencesExt

CONSTANTS
  Locks,    \* the addresses of the locks, positive numbers
  Targets,  \* bound: the locks before which others are recorded
  Placement \* bound: the cells that calloc may return for a lock

ASSUME StoreAssumption ==
  /\ Locks \subseteq Nat \ {0} /\ Cells \subseteq Nat \ {0}
  /\ Targets \subseteq Locks
  /\ Placement \in [Locks -> SUBSET Cells]

VARIABLES
  g_tree,  \* the tree, with the links in the lock data
  key,     \* lk->ptr of each cell; 0 in a free cell
  before   \* lk->before of each cell

vars == <<g_tree, key, before>>

Init ==
  /\ g_tree = RB_INITIALIZER
  /\ key = [n \in Cells |-> 0]
  /\ before = [n \in Cells |-> << >>]

Allocated == {n \in Cells : key[n] # 0}

-----------------------------------------------------------------------------
\* The first index of array s whose entry is not smaller than n.
Scan(s, n) ==
  CHOOSE i \in 1 .. (Len(s) + 1) :
    /\ i <= Len(s) => s[i] >= n
    /\ \A j \in 1 .. (i - 1) : s[j] < n

Found(s, n) == Scan(s, n) <= Len(s) /\ s[Scan(s, n)] = n

\* Mutant of lk_add_sorted: the new entry goes to the end.
lk_add_sorted_end(s, n) == IF Found(s, n) THEN s ELSE Append(s, n)

lk_add_sorted(s, n) == IF Found(s, n) THEN s ELSE InsertAt(s, Scan(s, n), n)

\* Mutant of lk_remove_sorted: the last entry is never looked at.
lk_remove_sorted_short(s, n) ==
  IF Found(s, n) /\ Scan(s, n) < Len(s) THEN RemoveAt(s, Scan(s, n)) ELSE s

lk_remove_sorted(s, n) == IF Found(s, n) THEN RemoveAt(s, Scan(s, n)) ELSE s

lksmith_find(l) == RB_FIND(g_tree, key, l)

\* New lock data for lock l, in a free cell; when the lock is registered
\* already, the tree refuses them and they are freed.
lksmith_insert(l) ==
  \E n \in Placement[l] \ Allocated :
    LET k == [key EXCEPT ![n] = l] IN
    /\ g_tree' = RB_INSERT(g_tree, k, n)
    /\ key' = IF lksmith_find(l) = NULL THEN k ELSE key
    /\ UNCHANGED before

\* The lock a comes before the lock l.
lk_add_before(a, l) ==
  LET ak == lksmith_find(a)
      lk == lksmith_find(l)
  IN  /\ ak # NULL /\ lk # NULL /\ ak # lk
      /\ before' = [before EXCEPT ![lk] = lk_add_sorted(@, ak)]
      /\ UNCHANGED <<g_tree, key>>

\* The links of a cell that is not in use.
Wipe(T, n) ==
  [T EXCEPT !.kid["left"][n] = NULL, !.kid["right"][n] = NULL,
            !.parent[n] = NULL, !.red[n] = FALSE]

\* The lock data leave the tree, then every array that RB_FOREACH comes to,
\* and are freed.
lksmith_destroy(l) ==
  LET lk == lksmith_find(l)
      T == RB_REMOVE(g_tree, lk)
      visited == ToSet(RB_FOREACH(T))
  IN  /\ lk # NULL
      /\ g_tree' = Wipe(T, lk)
      /\ key' = [key EXCEPT ![lk] = 0]
      /\ before' = [n \in Cells |->
                      IF n = lk THEN << >>
                      ELSE IF n \in visited THEN lk_remove_sorted(before[n], lk)
                      ELSE before[n]]

Next ==
  \E l \in Locks :
    \/ lksmith_insert(l)
    \/ lksmith_destroy(l)
    \/ \E a \in Locks : l \in Targets /\ lk_add_before(a, l)

Spec == Init /\ [][Next]_vars

-----------------------------------------------------------------------------
(***************************************************************************)
(* Correctness.                                                            *)
(***************************************************************************)

\* The tree obeys the rules that keep lookups logarithmic, and its links are
\* mutual, after every insertion and removal.
RedBlack == IsRedBlack(g_tree, Allocated)

\* lksmith_find finds each registered lock, and RB_FOREACH visits it once, in
\* the order of addresses: no array is missed when lksmith_destroy removes a
\* lock from all of them.
LookupsComplete ==
  LET seq == RB_FOREACH(g_tree)
  IN  /\ ToSet(seq) = Allocated
      /\ \A n \in Allocated : lksmith_find(key[n]) = n
      /\ \A i, j \in DOMAIN seq : i < j => key[seq[i]] < key[seq[j]]

\* Each array has ascending entries without repetition, which the early exits
\* of lk_add_sorted and lk_remove_sorted rely on, also after cells were freed
\* and used again for other locks.
ArraysSorted ==
  \A n \in Cells : \A i, j \in DOMAIN before[n] :
    i < j => before[n][i] < before[n][j]

\* The locks that the array of cell n stands for.
KeysOf(n) == {key[m] : m \in ToSet(before[n])}

Registry == INSTANCE LockRegistry WITH
  locks <- {key[n] : n \in Allocated},
  order <- [l \in Locks |->
             UNION {KeysOf(n) : n \in {m \in Cells : key[m] = l}}]

\* The tree and the arrays together behave as a set of locks with a set of
\* earlier locks each: no lock is registered twice, and no entry is lost,
\* doubled or left behind by an insertion or a removal.
ImplementsRegistry == Registry!RegistrySpec
=============================================================================
