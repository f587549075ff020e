---------------------------- MODULE RedBlackTree ----------------------------
(***************************************************************************)
(* The red-black tree of tree.h, as operators on the links of its nodes.   *)
(* A tree is a record: the root, the links to the left and right children, *)
(* to the parent, and the color of each node.  A node is a positive        *)
(* number, NULL is 0.  Where the source has a left and a right version of  *)
(* the same code, the operator takes the side as a parameter.              *)
(***************************************************************************)
EXTENDS Integers, Sequences

CONSTANT Cells   \* the nodes

NULL == 0
Sides == {"left", "right"}
Other(s) == IF s = "left" THEN "right" ELSE "left"

RB_INITIALIZER ==
  [root |-> NULL,
   kid |-> [s \in Sides |-> [n \in Cells |-> NULL]],
   parent |-> [n \in Cells |-> NULL],
   red |-> [n \in Cells |-> FALSE]]

Red(T, n) == n # NULL /\ T.red[n]

\* The side of node p on which node n is; as in the source, n may be NULL.
Side(T, p, n) == IF T.kid["left"][p] = n THEN "left" ELSE "right"

\* Assignments that the source makes only to a node that exists.
SetParent(T, n, p) == IF n = NULL THEN T ELSE [T EXCEPT !.parent[n] = p]
SetColor(T, n, r) == IF n = NULL THEN T ELSE [T EXCEPT !.red[n] = r]

\* The link from p (or from the head) to node n leads to node m instead.
Relink(T, p, n, m) ==
  IF p = NULL THEN [T EXCEPT !.root = m]
  ELSE [T EXCEPT !.kid[Side(T, p, n)][p] = m]

\* RB_ROTATE_LEFT (s = "left") and RB_ROTATE_RIGHT: the child of e on the other
\* side takes the place of e, and e becomes its child on side s.
RB_ROTATE(T, s, e) ==
  LET o == Other(s)
      tmp == T.kid[o][e]
      inner == T.kid[s][tmp]
      p == T.parent[e]
      T1 == SetParent([T EXCEPT !.kid[o][e] = inner], inner, e)
      T2 == Relink([T1 EXCEPT !.parent[tmp] = p], p, e, tmp)
  IN  [T2 EXCEPT !.kid[s][tmp] = e, !.parent[e] = tmp]

RECURSIVE RB_INSERT_COLOR(_, _)
RB_INSERT_COLOR(T, elm) ==
  LET parent == T.parent[elm]
      gparent == T.parent[parent]
      s == Side(T, gparent, parent)
      uncle == T.kid[Other(s)][gparent]
      inner == T.kid[Other(s)][parent] = elm
      p == IF inner THEN elm ELSE parent
      T1 == IF inner THEN RB_ROTATE(T, s, parent) ELSE T
      T2 == [T1 EXCEPT !.red[p] = FALSE, !.red[gparent] = TRUE]
  IN  IF ~Red(T, parent) THEN [T EXCEPT !.red[T.root] = FALSE]
      ELSE IF Red(T, uncle)
      THEN RB_INSERT_COLOR([T EXCEPT !.red[uncle] = FALSE,
                                     !.red[parent] = FALSE,
                                     !.red[gparent] = TRUE], gparent)
      ELSE RB_INSERT_COLOR(RB_ROTATE(T2, Other(s), gparent),
                           IF inner THEN parent ELSE elm)

\* Mutant of RB_REMOVE_COLOR: the tree is not balanced again.
RB_REMOVE_COLOR_none(T, parent, elm) == T

RECURSIVE RB_REMOVE_COLOR(_, _, _)
RB_REMOVE_COLOR(T, parent, elm) ==
  LET s == Side(T, parent, elm)
      o == Other(s)
      sib0 == T.kid[o][parent]
      T1 == IF Red(T, sib0)
            THEN RB_ROTATE([T EXCEPT !.red[sib0] = FALSE, !.red[parent] = TRUE],
                           s, parent)
            ELSE T
      sib1 == T1.kid[o][parent]
      near == T1.kid[s][sib1]
      far == T1.kid[o][sib1]
      T2 == IF Red(T1, far) THEN T1
            ELSE RB_ROTATE(SetColor(SetColor(T1, near, FALSE), sib1, TRUE),
                           o, sib1)
      sib2 == T2.kid[o][parent]
      T3 == SetColor([T2 EXCEPT !.red[sib2] = T2.red[parent],
                                !.red[parent] = FALSE],
                     T2.kid[o][sib2], FALSE)
      T4 == RB_ROTATE(T3, s, parent)
  IN  IF Red(T, elm) \/ elm = T.root THEN SetColor(T, elm, FALSE)
      ELSE IF ~Red(T1, near) /\ ~Red(T1, far)
      THEN RB_REMOVE_COLOR([T1 EXCEPT !.red[sib1] = TRUE],
                           T1.parent[parent], parent)
      ELSE SetColor(T4, T4.root, FALSE)

\* The last node from n along the links on side s.
RECURSIVE Outermost(_, _, _)
Outermost(T, s, n) ==
  IF T.kid[s][n] = NULL THEN n ELSE Outermost(T, s, T.kid[s][n])

\* Takes node elm, which has at most one child, out of the links.
Unlink(T, elm, child) ==
  Relink(SetParent(T, child, T.parent[elm]), T.parent[elm], elm, child)

\* RB_REMOVE: a node with two children changes places with its successor.
RB_REMOVE(T, old) ==
  LET l == T.kid["left"][old]
      r == T.kid["right"][old]
      two == l # NULL /\ r # NULL
      elm == IF two THEN Outermost(T, "left", r) ELSE old
      child == IF elm = old /\ l # NULL THEN l ELSE T.kid["right"][elm]
      T1 == Unlink(T, elm, child)
      parent == IF two /\ T.parent[elm] = old THEN elm ELSE T.parent[elm]
      T2 == [T1 EXCEPT !.kid["left"][elm] = T1.kid["left"][old],
                       !.kid["right"][elm] = T1.kid["right"][old],
                       !.parent[elm] = T1.parent[old],
                       !.red[elm] = T1.red[old]]
      T3 == Relink(T2, T2.parent[old], old, elm)
      T4 == SetParent(SetParent(T3, T3.kid["left"][old], elm),
                      T3.kid["right"][old], elm)
      T5 == IF two THEN T4 ELSE T1
  IN  IF T.red[elm] THEN T5 ELSE RB_REMOVE_COLOR(T5, parent, child)

\* The node with key k, or else the node at which the search for it ends: the
\* way down that RB_INSERT and RB_FIND share.
RECURSIVE Descend(_, _, _, _)
Descend(T, key, n, k) ==
  LET s == IF k < key[n] THEN "left" ELSE "right"
  IN  IF key[n] = k \/ T.kid[s][n] = NULL THEN n
      ELSE Descend(T, key, T.kid[s][n], k)

RB_FIND(T, key, k) ==
  LET n == Descend(T, key, T.root, k)
  IN  IF T.root = NULL \/ key[n] # k THEN NULL ELSE n

\* RB_INSERT of node elm; no node has its key yet (otherwise nothing changes).
RB_INSERT(T, key, elm) ==
  LET p == Descend(T, key, T.root, key[elm])
      parent == IF T.root = NULL THEN NULL ELSE p
      s == IF key[elm] < key[p] THEN "left" ELSE "right"
      T1 == [T EXCEPT !.parent[elm] = parent, !.red[elm] = TRUE,
                      !.kid["left"][elm] = NULL, !.kid["right"][elm] = NULL]
      T2 == IF parent = NULL THEN [T1 EXCEPT !.root = elm]
            ELSE [T1 EXCEPT !.kid[s][parent] = elm]
  IN  IF RB_FIND(T, key, key[elm]) # NULL THEN T ELSE RB_INSERT_COLOR(T2, elm)

\* The first ancestor of n that is reached from its left child, or NULL.
RECURSIVE Ascend(_, _)
Ascend(T, n) ==
  LET p == T.parent[n]
  IN  IF p = NULL \/ T.kid["left"][p] = n THEN p ELSE Ascend(T, p)

\* Mutant of RB_NEXT: one step up only.
RB_NEXT_up(T, n) ==
  IF T.kid["right"][n] # NULL THEN Outermost(T, "left", T.kid["right"][n])
  ELSE IF T.parent[n] # NULL /\ T.kid["left"][T.parent[n]] = n THEN T.parent[n]
  ELSE NULL

RB_NEXT(T, n) ==
  IF T.kid["right"][n] # NULL THEN Outermost(T, "left", T.kid["right"][n])
  ELSE Ascend(T, n)

\* RB_MIN, that is RB_MINMAX with a negative value.
RB_MIN(T) == IF T.root = NULL THEN NULL ELSE Outermost(T, "left", T.root)

\* The nodes that RB_FOREACH visits, from node n on.
RECURSIVE Following(_, _)
Following(T, n) ==
  IF n = NULL THEN << >> ELSE <<n>> \o Following(T, RB_NEXT(T, n))
RB_FOREACH(T) == Following(T, RB_MIN(T))

-----------------------------------------------------------------------------
\* The number of black nodes on every way from node n to a NULL; -1 if the
\* ways differ.
RECURSIVE BlackHeight(_, _)
BlackHeight(T, n) ==
  LET l == BlackHeight(T, T.kid["left"][n])
      r == BlackHeight(T, T.kid["right"][n])
  IN  IF n = NULL THEN 0
      ELSE IF l # r THEN -1 ELSE IF T.red[n] THEN l ELSE l + 1

\* The rules of a red-black tree over the nodes N: the root is black, a red
\* node has no red child, all ways down have equally many black nodes, and the
\* links to parents are those to children backwards.
IsRedBlack(T, N) ==
  /\ ~Red(T, T.root)
  /\ \A n \in N, s \in Sides :
       LET m == T.kid[s][n]
       IN  m # NULL => m \in N /\ T.parent[m] = n /\ ~(T.red[n] /\ T.red[m])
  /\ T.root = NULL <=> N = {}
  /\ T.root # NULL => T.root \in N /\ T.parent[T.root] = NULL
  /\ BlackHeight(T, T.root) # -1
=============================================================================
