-------------------------------- MODULE RbTree --------------------------------
(***************************************************************************)
(* The red-black tree of src/util/alg_ds/ds/assoc_container/               *)
(* assoc_rb_tree.c, on which the maps of the RIC, the agent and the xApp   *)
(* stand.  Sequential: its owner calls it under a lock.  A step is one     *)
(* iteration of a loop (the descent of insert and find, the two fixups) or *)
(* the straight code between loops.                                        *)
(*                                                                         *)
(* A node is <<k, c>>, its key and a copy number: which address malloc     *)
(* gives it does not matter.  The code writes each case of a fixup twice,  *)
(* left and right; here the side is a parameter.                           *)
(***************************************************************************)
EXTENDS Integers, FiniteSets, Sequences

CONSTANTS Nodes,   \* <<key, copy>>
          Dummy,   \* tree->dummy, the leaf and the parent of the root
          Null     \* the NULL of the dummy's children

Sides == {"left", "right"}
Other(s) == IF s = "left" THEN "right" ELSE "left"
TreeKey(n) == n[1]
TreeKeys == {TreeKey(n) : n \in Nodes}

ASSUME NodesAssumption == /\ Dummy \notin Nodes /\ Null \notin Nodes \union {Dummy}
                          /\ IsFiniteSet(Nodes) /\ TreeKeys \subseteq Int

VARIABLES
  tree,        \* [root, kid, parent, color]: the links and colours
  used, size,  \* the nodes that are allocated; tree->size
  pc, arg,     \* position in the operation; its node, or <<the key searched for>>
  at, last,    \* descent: x_node and y_node; fixups: z_node or x_node is at
  fault        \* the assertion that failed, or "none"

treeVars == <<tree, used, size, pc, arg, at, last, fault>>

\* assoc_node_t.key's order: comp returns 1 when its first argument is smaller.
EqualIsSmaller(a, b) == IF a <= b THEN 1 ELSE -1
Comp(a, b) == IF a < b THEN 1 ELSE IF a > b THEN -1 ELSE 0

-----------------------------------------------------------------------------
(* Links.                                                                  *)

Paint(t, n, c) == [t EXCEPT !.color[n] = c]

\* The side of its parent n hangs from (the code looks at the left first).
SideOf(t, n) == IF t.kid["left"][t.parent[n]] = n THEN "left" ELSE "right"

\* The parent of u, or the root, points to v instead.
Hang(t, u, v) == IF t.parent[u] = Dummy THEN [t EXCEPT !.root = v]
                 ELSE [t EXCEPT !.kid[SideOf(t, u)][t.parent[u]] = v]

\* The dummy gets a parent too: delete_fixup goes up from there.
TransplantNodesOnly(t, u, v) ==
  IF v = Dummy THEN Hang(t, u, v) ELSE [Hang(t, u, v) EXCEPT !.parent[v] = t.parent[u]]
Transplant(t, u, v) == [Hang(t, u, v) EXCEPT !.parent[v] = t.parent[u]]

\* left_rotate (s = "left") and right_rotate: the child of n on the other side
\* takes its place.
RotateDroppingChild(t, s, n) ==
  LET y == t.kid[Other(s)][n]
  IN  [Transplant(t, n, y) EXCEPT !.kid[Other(s)][n] = Dummy, !.kid[s][y] = n, !.parent[n] = y]
Rotate(t, s, n) ==
  LET y == t.kid[Other(s)][n]
      b == t.kid[s][y]
      inner == [t EXCEPT !.kid[Other(s)][n] = b,
                         !.parent[b] = IF b = Dummy THEN @ ELSE n]
  IN  [Transplant(inner, n, y) EXCEPT !.kid[s][y] = n, !.parent[n] = y]

Leftmost(t, n) ==
  LET down[m \in Nodes \union {Dummy}] ==
        IF m = Dummy \/ t.kid["left"][m] = Dummy THEN m ELSE down[t.kid["left"][m]]
  IN  down[n]

-----------------------------------------------------------------------------
(* Iterators.                                                              *)

Front == Leftmost(tree, tree.root)

NextOf(n) ==
  LET right == tree.kid["right"][n]
      climb[m \in Nodes] ==
        LET p == tree.parent[m]
        IN  IF p = Dummy \/ tree.kid["left"][p] = m THEN p ELSE climb[p]
  IN  IF right # Dummy THEN Leftmost(tree, right) ELSE climb[n]

-----------------------------------------------------------------------------
(* Insertion.                                                              *)

TreeAbort(a) == fault' = a /\ UNCHANGED <<tree, used, size, pc, arg, at, last>>
TreeRest == at' = Dummy /\ last' = Dummy /\ arg' = Dummy /\ pc' = "idle"

\* create_node_rb_tree, then the descent starts at the root.
Insert(n) ==
  /\ pc = "idle" /\ n \notin used
  /\ used' = used \union {n}
  /\ tree' = [tree EXCEPT !.parent[n] = Dummy, !.kid["left"][n] = Dummy,
                          !.kid["right"][n] = Dummy, !.color[n] = "red"]
  /\ pc' = "insert" /\ arg' = n /\ at' = tree.root /\ last' = Dummy
  /\ UNCHANGED <<size, fault>>

InsertDescend ==
  /\ pc = "insert" /\ at # Dummy
  /\ last' = at
  /\ at' = tree.kid[IF Comp(TreeKey(arg), TreeKey(at)) = 1 THEN "left" ELSE "right"][at]
  /\ UNCHANGED <<tree, used, size, pc, arg, fault>>

InsertLink ==
  /\ pc = "insert" /\ at = Dummy
  /\ LET t == [tree EXCEPT !.parent[arg] = last]
         s == IF Comp(TreeKey(arg), TreeKey(last)) = 1 THEN "left" ELSE "right"
     IN  tree' = IF last = Dummy THEN [t EXCEPT !.root = arg]
                 ELSE [t EXCEPT !.kid[s][last] = arg]
  /\ pc' = "insertFixup" /\ at' = arg /\ last' = Dummy
  /\ UNCHANGED <<used, size, arg, fault>>

\* Case 2: z, a child on the inner side, and its parent change places.
OuterChild(t, s, p, z) == IF z = t.kid[Other(s)][p] THEN Rotate(t, s, p) ELSE t

\* Case 3: the grandparent goes down on the other side, in the parent's colours.
RaiseParent(t, s, p, g) ==
  Rotate(Paint(Paint(t, p, "black"), g, "red"), Other(s), g)

InsertFixup ==
  /\ pc = "insertFixup" /\ tree.color[tree.parent[at]] = "red"
  /\ LET p == tree.parent[at]
         g == tree.parent[p]
         s == SideOf(tree, p)
         u == tree.kid[Other(s)][g]
         up == IF at = tree.kid[Other(s)][p] THEN at ELSE p
     IN  IF g = Dummy THEN TreeAbort("null_dereference")
         ELSE /\ \/ /\ tree.color[u] = "red"
                    /\ tree' = Paint(Paint(Paint(tree, p, "black"), u, "black"), g, "red")
                    /\ at' = g
                 \/ /\ tree.color[u] = "black"
                    /\ tree' = RaiseParent(OuterChild(tree, s, p, at), s, up, g)
                    /\ at' = IF up = at THEN p ELSE at
              /\ UNCHANGED <<used, size, pc, arg, last, fault>>

InsertDone ==
  /\ pc = "insertFixup" /\ tree.color[tree.parent[at]] # "red"
  /\ tree' = Paint(tree, tree.root, "black")
  /\ size' = size + 1
  /\ TreeRest
  /\ UNCHANGED <<used, fault>>

-----------------------------------------------------------------------------
(* Extraction.                                                             *)

Extract(k) ==
  /\ pc = "idle"
  /\ pc' = "extract" /\ arg' = <<k>> /\ at' = tree.root /\ last' = Dummy
  /\ UNCHANGED <<tree, used, size, fault>>

\* find_rb_tree stops at the end or at a node with the key.
Arrived == at # Dummy => Comp(TreeKey(arg), TreeKey(at)) = 0

FindDescend ==
  /\ pc = "extract" /\ ~Arrived
  /\ at' = tree.kid[IF Comp(TreeKey(arg), TreeKey(at)) = 1 THEN "left" ELSE "right"][at]
  /\ UNCHANGED <<tree, used, size, pc, arg, last, fault>>

\* assoc_rb_tree_extract_node: what takes the place of z, and where a black
\* node is missing afterwards.
Unlinked(t, z) ==
  LET l == t.kid["left"][z]
      r == t.kid["right"][z]
      y == Leftmost(t, r)
      x == t.kid["right"][y]
      below == IF t.parent[y] = z THEN [t EXCEPT !.parent[x] = y]
               ELSE [Transplant(t, y, x) EXCEPT !.kid["right"][y] = r, !.parent[r] = y]
  IN  IF l = Dummy THEN Transplant(t, z, r)
      ELSE IF r = Dummy THEN Transplant(t, z, l)
      ELSE [Transplant(below, z, y) EXCEPT !.kid["left"][y] = l, !.parent[l] = y,
                                           !.color[y] = t.color[z]]

Replacement(t, z) ==
  LET l == t.kid["left"][z]
      r == t.kid["right"][z]
  IN  IF l = Dummy THEN r ELSE IF r = Dummy THEN l ELSE t.kid["right"][Leftmost(t, r)]

ColorLostIsOfNode(t, z) == t.color[z]
ColorLost(t, z) ==
  IF Dummy \in {t.kid["left"][z], t.kid["right"][z]} THEN t.color[z]
  ELSE t.color[Leftmost(t, t.kid["right"][z])]

\* z, no longer in the tree t, is freed: nothing is left of its fields.
Free(t, z) ==
  /\ tree' = [t EXCEPT !.parent[z] = Dummy, !.kid["left"][z] = Dummy,
                       !.kid["right"][z] = Dummy, !.color[z] = "red"]
  /\ used' = used \ {z}
  /\ size' = size - 1
  /\ TreeRest
  /\ UNCHANGED fault

Unlink ==
  /\ pc = "extract" /\ Arrived
  /\ IF at = Dummy THEN TreeAbort("extract_missing")
     ELSE \/ /\ ColorLost(tree, at) = "black"
             /\ tree' = Unlinked(tree, at)
             /\ pc' = "deleteFixup" /\ arg' = at /\ at' = Replacement(tree, at)
             /\ UNCHANGED <<used, size, last, fault>>
          \/ /\ ColorLost(tree, at) = "red"
             /\ Free(Unlinked(tree, at), at)

Sibling(t, n) == t.kid[Other(SideOf(t, n))][t.parent[n]]
NearNephew(t, n) == t.kid[SideOf(t, n)][Sibling(t, n)]
FarNephew(t, n) == t.kid[Other(SideOf(t, n))][Sibling(t, n)]

\* Case 1: a red sibling is rotated up; the new sibling is black.
BlackSibling(t, n) ==
  LET p == t.parent[n]
  IN  IF t.color[Sibling(t, n)] = "black" THEN t
      ELSE Rotate(Paint(Paint(t, Sibling(t, n), "black"), p, "red"), SideOf(t, n), p)

\* Case 3: the red nephew is brought to the far side.
RedFarNephew(t, n) ==
  LET w == Sibling(t, n)
  IN  IF t.color[FarNephew(t, n)] = "red" THEN t
      ELSE Rotate(Paint(Paint(t, NearNephew(t, n), "black"), w, "red"),
                  Other(SideOf(t, n)), w)

\* Case 4: the sibling takes the place and the colour of the parent.
RaiseSibling(t, n) ==
  LET p == t.parent[n]
      painted == [t EXCEPT !.color[Sibling(t, n)] = t.color[p], !.color[p] = "black",
                           !.color[FarNephew(t, n)] = "black"]
  IN  Rotate(painted, SideOf(t, n), p)

FixupGoesOn == at # tree.root /\ tree.color[at] = "black"

DeleteFixup ==
  /\ pc = "deleteFixup" /\ FixupGoesOn
  /\ LET t == BlackSibling(tree, at)
         w == Sibling(t, at)
     IN  IF Sibling(tree, at) = Dummy THEN TreeAbort("null_dereference")
         ELSE IF w = Dummy THEN TreeAbort("null_dereference")
         ELSE IF t.color[w] = "red" THEN TreeAbort("sibling_red")
         ELSE \/ /\ t.color[NearNephew(t, at)] = "black" /\ t.color[FarNephew(t, at)] = "black"
                 /\ tree' = Paint(t, w, "red")
                 /\ at' = t.parent[at]
                 /\ UNCHANGED <<used, size, pc, arg, last, fault>>
              \/ /\ "red" \in {t.color[NearNephew(t, at)], t.color[FarNephew(t, at)]}
                 /\ LET f == RedFarNephew(t, at)
                    IN  IF f.color[Sibling(f, at)] = "red" THEN TreeAbort("sibling_red")
                        ELSE /\ tree' = RaiseSibling(f, at)
                             /\ at' = tree'.root
                             /\ UNCHANGED <<used, size, pc, arg, last, fault>>

DeleteDone ==
  /\ pc = "deleteFixup" /\ ~FixupGoesOn
  /\ Free(Paint(tree, at, "black"), arg)

-----------------------------------------------------------------------------
TreeInit ==
  /\ tree = [root |-> Dummy,
             kid |-> [s \in Sides |-> [n \in Nodes \union {Dummy} |->
                                         IF n = Dummy THEN Null ELSE Dummy]],
             parent |-> [n \in Nodes \union {Dummy} |-> IF n = Dummy THEN Null ELSE Dummy],
             color |-> [n \in Nodes \union {Dummy} |-> IF n = Dummy THEN "black" ELSE "red"]]
  /\ used = {} /\ size = 0
  /\ pc = "idle" /\ arg = Dummy /\ at = Dummy /\ last = Dummy
  /\ fault = "none"

TreeStep == InsertDescend \/ InsertLink \/ InsertFixup \/ InsertDone
            \/ FindDescend \/ Unlink \/ DeleteFixup \/ DeleteDone

TreeNext ==
  /\ fault = "none"
  /\ \/ \E n \in Nodes : Insert(n)
     \/ \E k \in TreeKeys : Extract(k)
     \/ TreeStep

TreeSpec == TreeInit /\ [][TreeNext]_treeVars

-----------------------------------------------------------------------------
(* Properties.                                                             *)

\* The nodes from front to end, read off the links (Depth guards against a
\* cycle: a sound tree of that many nodes is not higher).
Depth == Cardinality(Nodes)
InOrder ==
  LET walk[d \in 0 .. Depth] ==
        [n \in Nodes \union {Dummy} |->
           IF d = 0 \/ n = Dummy THEN <<>>
           ELSE walk[d - 1][tree.kid["left"][n]] \o <<n>> \o walk[d - 1][tree.kid["right"][n]]]
  IN  walk[Depth][tree.root]

\* The black nodes on the ways from n down to a leaf; while a black is missing,
\* the link to the node at the gap counts for one.
Black(t, n) == IF t.color[n] = "black" THEN 1 ELSE 0
Missing(n, s) ==
  IF pc = "deleteFixup" /\ tree.kid[s][n] = at /\ tree.parent[at] = n THEN 1 ELSE 0
Blacks ==
  LET count[d \in 0 .. Depth] ==
        [n \in Nodes \union {Dummy} |->
           IF d = 0 \/ n = Dummy THEN {0}
           ELSE UNION {{Black(tree, n) + Missing(n, s) + b : b \in count[d - 1][tree.kid[s][n]]}
                       : s \in Sides}]
  IN  count[Depth][tree.root]

Linked == {InOrder[i] : i \in DOMAIN InOrder}

\* Every linked node is reached once, from its parent.
LinksAgree ==
  /\ Linked = IF pc \in {"insert", "deleteFixup"} THEN used \ {arg} ELSE used
  /\ Len(InOrder) = Cardinality(Linked)
  /\ tree.root # Dummy => tree.parent[tree.root] = Dummy
  /\ \A n \in Linked, s \in Sides :
       tree.kid[s][n] # Dummy => tree.parent[tree.kid[s][n]] = n

\* Where a fixup is at work, and only there, two reds may follow each other: the
\* node at which an insertion has arrived hangs from a red one; the one at which a
\* deletion has arrived, when red, is about to be painted.
InRepair(parent, n) == \/ pc = "insertFixup" /\ n = at
                       \/ pc = "deleteFixup" /\ at \in {parent, n}

\* The rules of a red-black tree, which keep it from degenerating, hold between
\* operations, and in every round of a fixup except at the node it is at.
RedBlack ==
  /\ LinksAgree
  /\ tree.color[Dummy] = "black"
  /\ \A n \in Linked : tree.color[n] = "red" /\ tree.color[tree.parent[n]] = "red"
                         => InRepair(tree.parent[n], n)
  /\ tree.color[tree.root] = "red" => pc \in {"insertFixup", "deleteFixup"} /\ at = tree.root
  /\ Cardinality(Blacks) = 1
  /\ pc = "idle" => size = Cardinality(used)

\* An extraction fails its assertion only for a key that is not in the tree; no
\* other assertion fails and no NULL is followed.  The iterators visit every
\* node once, in the order of the keys.
TreeFinds ==
  /\ fault # "none" => fault = "extract_missing" /\ \A n \in used : TreeKey(n) # TreeKey(arg)
  /\ pc = "idle" =>
       LET visited == InOrder \o <<Dummy>>
       IN  Front = visited[1] /\ \A i \in DOMAIN InOrder : NextOf(visited[i]) = visited[i + 1]

TreeBag == INSTANCE OrderedBag WITH Entries <- Nodes, KeyOf <- TreeKey, entries <- InOrder

\* The tree is an ordered bag: an insertion adds its node behind those with the
\* same key, an extraction takes out one node with the key, and neither descents
\* nor fixups change what is in it or in which order.
TreeIsBag == TreeBag!Spec
===============================================================================
