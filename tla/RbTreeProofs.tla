----------------------------- MODULE RbTreeProofs -----------------------------
(***************************************************************************)
(* What the operators of RbTree do to a tree: rotations and fixups, a node *)
(* that comes and one that goes, the walk in order and the ways down.  For *)
(* any finite set of nodes with any keys; ContainersProofs takes the steps *)
(* of TreeNext from here.                                                  *)
(***************************************************************************)
EXTENDS RbTree, SequenceTheorems, FiniteSetTheorems, WellFoundedInduction, TLAPS

-----------------------------------------------------------------------------
(* Links and colours, one field at a time.                                 *)

ND == Nodes \union {Dummy}
Links == ND \union {Null}
Colors == {"red", "black"}

Trees == [root : ND, kid : [Sides -> [ND -> Links]],
          parent : [ND -> Links], color : [ND -> Colors]]

\* There are two sides.
LEMMA SidesAre ==
  /\ "left" \in Sides /\ "right" \in Sides
  /\ \A s \in Sides : /\ Other(s) \in Sides /\ Other(s) # s /\ Other(Other(s)) = s
                      /\ \A r \in Sides : r = s \/ r = Other(s)
BY DEF Sides, Other

\* The fields of a tree.
LEMMA TreeFields ==
  ASSUME NEW t \in Trees
  PROVE  /\ t.root \in ND
         /\ \A s \in Sides, n \in ND : t.kid[s][n] \in Links
         /\ \A n \in ND : t.parent[n] \in Links /\ t.color[n] \in Colors
BY DEF Trees, Links

\* A node gets another child, another parent; the tree another root.
WithKid(t, s, n, v) == [t EXCEPT !.kid[s][n] = v]
WithParent(t, n, v) == [t EXCEPT !.parent[n] = v]
WithRoot(t, v) == [t EXCEPT !.root = v]

\* Only that child changes.
LEMMA SetKid ==
  ASSUME NEW t \in Trees, NEW s \in Sides, NEW n \in ND, NEW v \in ND
  PROVE  /\ WithKid(t, s, n, v) \in Trees
         /\ WithKid(t, s, n, v).root = t.root
         /\ \A r \in Sides, m \in ND : WithKid(t, s, n, v).kid[r][m] =
                                         IF r = s /\ m = n THEN v ELSE t.kid[r][m]
         /\ WithKid(t, s, n, v).parent = t.parent
         /\ WithKid(t, s, n, v).color = t.color
<1>1. v \in Links
  BY DEF Links
<1> QED  BY <1>1 DEF Trees, WithKid

\* Only that parent changes.
LEMMA SetParent ==
  ASSUME NEW t \in Trees, NEW n \in ND, NEW v \in Links
  PROVE  /\ WithParent(t, n, v) \in Trees
         /\ WithParent(t, n, v).root = t.root
         /\ WithParent(t, n, v).kid = t.kid
         /\ \A m \in ND : WithParent(t, n, v).parent[m] = IF m = n THEN v ELSE t.parent[m]
         /\ WithParent(t, n, v).color = t.color
BY DEF Trees, WithParent

\* Only the root changes.
LEMMA SetRoot ==
  ASSUME NEW t \in Trees, NEW v \in ND
  PROVE  /\ WithRoot(t, v) \in Trees
         /\ WithRoot(t, v).root = v
         /\ WithRoot(t, v).kid = t.kid
         /\ WithRoot(t, v).parent = t.parent
         /\ WithRoot(t, v).color = t.color
BY DEF Trees, WithRoot

\* A node gets another colour.
LEMMA PaintIs ==
  ASSUME NEW t \in Trees, NEW n \in ND, NEW c \in Colors
  PROVE  /\ Paint(t, n, c) \in Trees
         /\ Paint(t, n, c).root = t.root /\ Paint(t, n, c).kid = t.kid
         /\ Paint(t, n, c).parent = t.parent
         /\ \A m \in ND : Paint(t, n, c).color[m] = IF m = n THEN c ELSE t.color[m]
BY DEF Trees, Paint

\* Where u hangs, v hangs.
LEMMA HangIs ==
  ASSUME NEW t \in Trees, NEW u \in Nodes, NEW v \in ND, t.parent[u] \in ND
  PROVE  /\ Hang(t, u, v) \in Trees
         /\ Hang(t, u, v).root = (IF t.parent[u] = Dummy THEN v ELSE t.root)
         /\ \A r \in Sides, m \in ND :
              Hang(t, u, v).kid[r][m] = IF m = t.parent[u] /\ m # Dummy /\ r = SideOf(t, u)
                                        THEN v ELSE t.kid[r][m]
         /\ Hang(t, u, v).parent = t.parent /\ Hang(t, u, v).color = t.color
<1>1. CASE t.parent[u] = Dummy
  <2>1. Hang(t, u, v) = WithRoot(t, v)
    BY <1>1 DEF Hang, WithRoot
  <2> QED  BY <1>1, <2>1, SetRoot
<1>2. CASE t.parent[u] # Dummy
  <2>1. Hang(t, u, v) = WithKid(t, SideOf(t, u), t.parent[u], v)
    BY <1>2 DEF Hang, WithKid
  <2>2. PICK s \in Sides : s = SideOf(t, u)
    BY DEF SideOf, Sides
  <2>3. PICK q \in ND : q = t.parent[u]
    OBVIOUS
  <2>4. /\ WithKid(t, s, q, v) \in Trees /\ WithKid(t, s, q, v).root = t.root
        /\ \A r \in Sides, m \in ND : WithKid(t, s, q, v).kid[r][m] =
                                        IF r = s /\ m = q THEN v ELSE t.kid[r][m]
        /\ WithKid(t, s, q, v).parent = t.parent /\ WithKid(t, s, q, v).color = t.color
    BY ONLY SetKid, t \in Trees, v \in ND, q \in ND, s \in Sides
  <2>5. Hang(t, u, v) = WithKid(t, s, q, v)
    BY <2>1, <2>2, <2>3
  <2> QED  BY <1>2, <2>2, <2>3, <2>4, <2>5
<1> QED  BY <1>1, <1>2

\* v has the place of u.
LEMMA TransplantIs ==
  ASSUME NEW t \in Trees, NEW u \in Nodes, NEW v \in ND, t.parent[u] \in ND
  PROVE  /\ Transplant(t, u, v) \in Trees
         /\ Transplant(t, u, v).root = (IF t.parent[u] = Dummy THEN v ELSE t.root)
         /\ \A r \in Sides, m \in ND :
              Transplant(t, u, v).kid[r][m] = IF m = t.parent[u] /\ m # Dummy /\ r = SideOf(t, u)
                                              THEN v ELSE t.kid[r][m]
         /\ \A m \in ND : Transplant(t, u, v).parent[m] = IF m = v THEN t.parent[u] ELSE t.parent[m]
         /\ Transplant(t, u, v).color = t.color
<1>1. Transplant(t, u, v) = WithParent(Hang(t, u, v), v, t.parent[u])
  BY DEF Transplant, WithParent
<1>2. t.parent[u] \in Links
  BY DEF Links
<1> QED  BY <1>1, <1>2, HangIs, SetParent

\* n goes down on side s, its other child y comes up, and the child b of y changes sides.
RotatesTo(t, s, n, y, b, u) ==
  /\ u \in Trees /\ u.color = t.color
  /\ u.root = IF t.parent[n] = Dummy THEN y ELSE t.root
  /\ \A r \in Sides, m \in ND :
       u.kid[r][m] = IF m = y /\ r = s THEN n
                     ELSE IF m = n /\ r = Other(s) THEN b
                     ELSE IF m = t.parent[n] /\ m # Dummy /\ r = SideOf(t, n) THEN y
                     ELSE t.kid[r][m]
  /\ \A m \in ND :
       u.parent[m] = IF m = n THEN y ELSE IF m = y THEN t.parent[n]
                     ELSE IF m = b /\ m # Dummy THEN n ELSE t.parent[m]

\* left_rotate and right_rotate.
LEMMA RotateIs ==
  ASSUME NEW t \in Trees, NEW s \in Sides, NEW n \in Nodes, NEW y \in Nodes, NEW b \in ND,
         NEW p \in ND, p = t.parent[n],
         y = t.kid[Other(s)][n], b = t.kid[s][y],
         y # n, b # n, b # y, p # n, p # y
  PROVE  RotatesTo(t, s, n, y, b, Rotate(t, s, n))
<1>1. PICK o \in Sides : o = Other(s) /\ o # s
  BY SidesAre
<1>2. n \in ND /\ y \in ND /\ Dummy \notin Nodes /\ y \in Links
  BY NodesAssumption DEF ND, Links
<1>3. PICK v \in Links : v = IF b = Dummy THEN t.parent[b] ELSE n
  <2>1. t.parent[b] \in Links
    BY ONLY TreeFields, t \in Trees, b \in ND
  <2>2. n \in Links
    BY DEF ND, Links
  <2> QED  BY <2>1, <2>2
<1> DEFINE K == WithKid(t, o, n, b)
           I == WithParent(K, b, v)
           J == Transplant(I, n, y)
           L == WithKid(J, s, y, n)
           U == WithParent(L, n, y)
<1>4. Rotate(t, s, n) = U
  <2>1. I = [t EXCEPT !.kid[o][n] = b, !.parent[b] = v]
    BY DEF WithKid, WithParent
  <2>2. I = [t EXCEPT !.kid[o][n] = b, !.parent[b] = IF b = Dummy THEN @ ELSE n]
    BY <2>1, <1>3
  <2>3. U = [J EXCEPT !.kid[s][y] = n, !.parent[n] = y]
    BY DEF WithKid, WithParent
  <2> HIDE DEF I, U
  <2> QED  BY <1>1, <2>2, <2>3, Zenon DEF Rotate
<1>5. /\ K \in Trees /\ K.root = t.root
      /\ \A r \in Sides, m \in ND : K.kid[r][m] = IF r = o /\ m = n THEN b ELSE t.kid[r][m]
      /\ K.parent = t.parent /\ K.color = t.color
  BY ONLY <1>2, SetKid, t \in Trees, o \in Sides, b \in ND
<1> HIDE DEF K
<1>6. /\ I \in Trees /\ I.root = t.root /\ I.kid = K.kid
      /\ \A m \in ND : I.parent[m] = IF m = b THEN v ELSE t.parent[m]
      /\ I.color = t.color
  BY ONLY <1>5, SetParent, b \in ND, v \in Links
<1> HIDE DEF I
<1>7. I.parent[n] = p
  BY <1>2, <1>6
<1>8. SideOf(I, n) = SideOf(t, n)
  <2>1. "left" \in Sides
    BY SidesAre
  <2>2. K.kid["left"][p] = t.kid["left"][p]
    BY <1>5, <2>1
  <2>3. I.kid["left"][p] = t.kid["left"][p]
    BY <1>6, <2>2
  <2> QED  BY <1>7, <2>3 DEF SideOf
<1>9. /\ J \in Trees /\ J.root = (IF p = Dummy THEN y ELSE t.root)
      /\ \A r \in Sides, m \in ND :
           J.kid[r][m] = IF m = p /\ m # Dummy /\ r = SideOf(t, n) THEN y ELSE K.kid[r][m]
      /\ \A m \in ND : J.parent[m] = IF m = y THEN p ELSE I.parent[m]
      /\ J.color = t.color
  BY ONLY <1>2, <1>6, <1>7, <1>8, TransplantIs, n \in Nodes, p \in ND
<1> HIDE DEF J
<1>10. /\ L \in Trees /\ L.root = J.root
       /\ \A r \in Sides, m \in ND : L.kid[r][m] = IF r = s /\ m = y THEN n ELSE J.kid[r][m]
       /\ L.parent = J.parent /\ L.color = J.color
  BY ONLY <1>2, <1>9, SetKid, s \in Sides
<1> HIDE DEF L
<1>11. /\ U \in Trees /\ U.root = L.root /\ U.kid = L.kid
       /\ \A m \in ND : U.parent[m] = IF m = n THEN y ELSE L.parent[m]
       /\ U.color = L.color
  <2>1. n \in ND /\ y \in Links
    BY <1>2
  <2>2. L \in Trees
    BY <1>10
  <2> QED  BY ONLY <2>1, <2>2, SetParent
<1> HIDE DEF U
<1>12. \A r \in Sides, m \in ND :
         U.kid[r][m] = IF m = y /\ r = s THEN n
                       ELSE IF m = n /\ r = o THEN b
                       ELSE IF m = p /\ m # Dummy /\ r = SideOf(t, n) THEN y
                       ELSE t.kid[r][m]
  BY ONLY <1>5, <1>9, <1>10, <1>11, p # n
<1>13. \A m \in ND :
         U.parent[m] = IF m = n THEN y ELSE IF m = y THEN p
                       ELSE IF m = b /\ m # Dummy THEN n ELSE t.parent[m]
  BY ONLY <1>3, <1>6, <1>9, <1>10, <1>11, b # n, b # y, y # n
<1>14. U.color = t.color /\ U.root = IF p = Dummy THEN y ELSE t.root
  BY <1>6, <1>9, <1>10, <1>11
<1> QED  BY <1>1, <1>4, <1>11, <1>12, <1>13, <1>14 DEF RotatesTo

-----------------------------------------------------------------------------
(* The order of the nodes.  A tree is well formed when its nodes can be    *)
(* numbered so that the nodes below n are an interval around n's number,   *)
(* on either side of which n's kids have what is left of it.               *)

Dir(s) == IF s = "left" THEN -1 ELSE 1

\* The kid of n on side s is of the nodes S, and it has the part of n's
\* interval on that side; a node without a kid there is the end of its interval.
Link(t, S, p, e, s, n) ==
  \/ t.kid[s][n] = Dummy /\ e[s][n] = p[n]
  \/ /\ t.kid[s][n] \in S /\ t.parent[t.kid[s][n]] = n
     /\ e[s][t.kid[s][n]] = e[s][n] /\ e[Other(s)][t.kid[s][n]] = p[n] + Dir(s)

Hangs(t, S, n) ==
  \/ n = t.root /\ t.parent[n] = Dummy
  \/ n # t.root /\ t.parent[n] \in S /\ \E s \in Sides : t.kid[s][t.parent[n]] = n

Top(t, S, l, e) == \/ S = {} /\ t.root = Dummy
                   \/ t.root \in S /\ e["left"][t.root] = 1 /\ e["right"][t.root] = l

Spans(p, e, n) == e["left"][n] <= p[n] /\ p[n] <= e["right"][n]

Numbers == [ND -> Int]
Ends == [Sides -> [ND -> Int]]

\* The nodes S, numbered by p from 1 to l, are a tree; n has the interval from
\* e["left"][n] to e["right"][n].
Shape(t, S, l, p, e) ==
  /\ t \in Trees /\ S \in SUBSET Nodes /\ l \in Nat /\ p \in Numbers /\ e \in Ends
  /\ Top(t, S, l, e)
  /\ \A n \in S : Spans(p, e, n)
  /\ \A n \in S : Hangs(t, S, n)
  /\ \A n \in S, s \in Sides : Link(t, S, p, e, s, n)

\* Numbers and ends are integers.
LEMMA NumberTypes ==
  ASSUME NEW p \in Numbers, NEW e \in Ends, NEW n \in ND
  PROVE  p[n] \in Int /\ \A s \in Sides : e[s][n] \in Int
BY DEF Numbers, Ends

\* A node is not the dummy.
LEMMA NodeIs ==
  ASSUME NEW S \in SUBSET Nodes, NEW n \in S
  PROVE  n \in Nodes /\ n \in ND /\ n # Dummy /\ n \in Links
BY NodesAssumption DEF ND, Links

\* A kid hangs from one node, on one side.
LEMMA KidIs ==
  ASSUME NEW t, NEW S, NEW l, NEW p, NEW e, Shape(t, S, l, p, e),
         NEW n \in S, NEW s \in Sides, NEW k \in S, k = t.kid[s][n]
  PROVE  /\ t.parent[k] = n /\ k # n /\ t.kid[Other(s)][n] # k /\ SideOf(t, k) = s /\ k # t.root
         /\ e[s][k] = e[s][n] /\ e[Other(s)][k] = p[n] + Dir(s)
<1>1. S \in SUBSET Nodes /\ p \in Numbers /\ e \in Ends
  BY DEF Shape
<1>2. n \in ND /\ k \in ND /\ k # Dummy /\ n # Dummy
  BY <1>1, NodeIs
<1>3. p[n] \in Int /\ \A r \in Sides : e[r][n] \in Int /\ e[r][k] \in Int
  BY <1>1, <1>2, NumberTypes
<1>4. \A r \in Sides : t.kid[r][n] = k => /\ t.parent[k] = n
                                          /\ e[r][k] = e[r][n] /\ e[Other(r)][k] = p[n] + Dir(r)
  BY <1>2 DEF Shape, Link
<1>5. t.parent[k] = n /\ e[s][k] = e[s][n] /\ e[Other(s)][k] = p[n] + Dir(s)
  BY <1>4
<1>6. Spans(p, e, n) /\ Spans(p, e, k) /\ Hangs(t, S, k)
  BY DEF Shape
<1>7. k # n
  BY <1>3, <1>5, <1>6 DEF Spans, Sides, Other, Dir
<1>8. t.kid[Other(s)][n] # k
  <2> SUFFICES ASSUME t.kid[Other(s)][n] = k PROVE FALSE
    OBVIOUS
  <2>1. Other(s) \in Sides
    BY SidesAre
  <2>2. e[Other(s)][k] = e[Other(s)][n]
    BY <1>4, <2>1
  <2> QED  BY <1>3, <1>5, <1>6, <2>2 DEF Spans, Sides, Other, Dir
<1>9. SideOf(t, k) = s
  BY <1>5, <1>8 DEF SideOf, Sides, Other
<1>10. k # t.root
  BY <1>2, <1>5, <1>6 DEF Hangs
<1> QED  BY <1>5, <1>7, <1>8, <1>9, <1>10

\* A node hangs from its parent on the side the code finds.
LEMMA ParentIs ==
  ASSUME NEW t, NEW S, NEW l, NEW p, NEW e, Shape(t, S, l, p, e), NEW n \in S
  PROVE  /\ SideOf(t, n) \in Sides /\ t.parent[n] \in S \union {Dummy}
         /\ (t.parent[n] = Dummy) <=> (n = t.root)
         /\ n # t.root => t.parent[n] \in S /\ t.kid[SideOf(t, n)][t.parent[n]] = n
<1>1. Hangs(t, S, n) /\ S \in SUBSET Nodes
  BY DEF Shape
<1>2. Dummy \notin S
  BY <1>1, NodeIs
<1> QED  BY <1>1, <1>2 DEF Hangs, SideOf, Sides

-----------------------------------------------------------------------------
(* Rotations.                                                              *)

\* The intervals after a rotation.
Turned(e, p, s, n, y) == [e EXCEPT ![Other(s)][n] = p[y] + Dir(s), ![s][y] = e[s][n]]

WithEnd(e, s, n, v) == [e EXCEPT ![s][n] = v]

\* Only that end changes.
LEMMA SetEnd ==
  ASSUME NEW e \in Ends, NEW s \in Sides, NEW n \in ND, NEW v \in Int
  PROVE  /\ WithEnd(e, s, n, v) \in Ends
         /\ \A r \in Sides, m \in ND : WithEnd(e, s, n, v)[r][m] = IF r = s /\ m = n THEN v ELSE e[r][m]
BY DEF Ends, WithEnd

\* Two intervals change, each at one end.
LEMMA TurnedIs ==
  ASSUME NEW p \in Numbers, NEW e \in Ends, NEW s \in Sides, NEW n \in ND, NEW y \in ND
  PROVE  /\ Turned(e, p, s, n, y) \in Ends
         /\ \A r \in Sides, m \in ND :
              Turned(e, p, s, n, y)[r][m] = IF r = Other(s) /\ m = n THEN p[y] + Dir(s)
                                            ELSE IF r = s /\ m = y THEN e[s][n] ELSE e[r][m]
<1>1. PICK o \in Sides : o = Other(s) /\ o # s
  BY SidesAre
<1>2. PICK v \in Int : v = p[y] + Dir(s)
  BY DEF Numbers, Dir
<1>3. PICK w \in Int : w = e[s][n]
  BY DEF Ends
<1> DEFINE D == WithEnd(e, o, n, v)
           F == WithEnd(D, s, y, w)
<1>4. Turned(e, p, s, n, y) = F
  BY <1>1, <1>2, <1>3 DEF Turned, WithEnd
<1>5. D \in Ends /\ \A r \in Sides, m \in ND : D[r][m] = IF r = o /\ m = n THEN v ELSE e[r][m]
  BY ONLY SetEnd, e \in Ends, o \in Sides, n \in ND, v \in Int
<1> HIDE DEF D
<1>6. F \in Ends /\ \A r \in Sides, m \in ND : F[r][m] = IF r = s /\ m = y THEN w ELSE D[r][m]
  BY ONLY <1>5, SetEnd, s \in Sides, y \in ND, w \in Int
<1> HIDE DEF F
<1>7. \A r \in Sides, m \in ND : F[r][m] = IF r = o /\ m = n THEN v ELSE IF r = s /\ m = y THEN w ELSE e[r][m]
  BY ONLY <1>1, <1>5, <1>6
<1> QED  BY <1>1, <1>2, <1>3, <1>4, <1>6, <1>7

\* Who is who in a rotation.
LEMMA RotationNodes ==
  ASSUME NEW t, NEW S, NEW l, NEW p, NEW e, Shape(t, S, l, p, e),
         NEW s \in Sides, NEW n \in S, NEW y \in S, NEW b, y = t.kid[Other(s)][n], b = t.kid[s][y]
  PROVE  /\ b \in S \union {Dummy} /\ t.parent[n] \in S \union {Dummy} /\ t.parent[y] = n
         /\ y # n /\ b # n /\ b # y /\ t.parent[n] # n /\ t.parent[n] # y
         /\ b # Dummy => t.parent[b] = y
<1>1. S \in SUBSET Nodes /\ p \in Numbers /\ e \in Ends /\ Dummy \notin S /\ Other(s) \in Sides
      /\ n \in ND /\ y \in ND
  BY SidesAre, NodeIs DEF Shape
<1>2. /\ t.parent[y] = n /\ y # n /\ t.parent[n] \in S \union {Dummy}
      /\ e[Other(s)][y] = e[Other(s)][n] /\ e[s][y] = p[n] + Dir(Other(s))
  BY <1>1, KidIs, ParentIs, SidesAre
<1>3. \A m \in S : m # t.root => t.parent[m] \in S /\ t.kid[SideOf(t, m)][t.parent[m]] = m
                                 /\ SideOf(t, m) \in Sides
  BY ParentIs
<1>4. t.parent[n] # n
  <2> SUFFICES ASSUME t.parent[n] = n PROVE FALSE
    OBVIOUS
  <2>1. PICK r \in Sides : t.kid[r][n] = n
    BY <1>1, <1>3, ParentIs
  <2> QED  BY <2>1, KidIs
<1>5. Spans(p, e, n) /\ Spans(p, e, y)
  BY DEF Shape
<1>6. p[n] \in Int /\ p[y] \in Int /\ \A r \in Sides : e[r][n] \in Int /\ e[r][y] \in Int
  BY <1>1, NumberTypes
<1>7. t.parent[n] # y
  <2> SUFFICES ASSUME t.parent[n] = y PROVE FALSE
    OBVIOUS
  <2>1. PICK r \in Sides : t.kid[r][y] = n
    BY <1>1, <1>3, ParentIs
  <2>2. e[r][n] = e[r][y] /\ e[Other(r)][n] = p[y] + Dir(r)
    BY <2>1, KidIs
  <2> QED  BY <1>2, <1>5, <1>6, <2>2 DEF Spans, Sides, Other, Dir
<1>8. Link(t, S, p, e, s, y)
  BY DEF Shape
<1>9. b \in S \union {Dummy} /\ (b # Dummy => t.parent[b] = y)
  BY <1>8 DEF Link
<1>10. b # y
  BY <1>9, <1>1, KidIs
<1>11. b # n
  BY <1>7, <1>9, <1>1
<1> QED  BY <1>2, <1>4, <1>7, <1>9, <1>10, <1>11

\* A rotation keeps the order of the nodes.
LEMMA RotateShape ==
  ASSUME NEW t, NEW S, NEW l, NEW p, NEW e, Shape(t, S, l, p, e),
         NEW s \in Sides, NEW n \in S, NEW y \in S, NEW b, y = t.kid[Other(s)][n], b = t.kid[s][y],
         NEW u, RotatesTo(t, s, n, y, b, u)
  PROVE  Shape(u, S, l, p, Turned(e, p, s, n, y))
<1>0. PICK o \in Sides : o = Other(s) /\ o # s /\ s = Other(o)
  BY SidesAre
<1>1. S \in SUBSET Nodes /\ l \in Nat /\ p \in Numbers /\ e \in Ends /\ Dummy \notin S /\ n \in ND /\ y \in ND
  BY NodeIs DEF Shape
<1>2. PICK g \in S \union {Dummy} : g = t.parent[n]
  BY RotationNodes
<1>3. /\ b \in S \union {Dummy} /\ t.parent[y] = n /\ y # n /\ b # n /\ b # y /\ g # n /\ g # y
      /\ b # Dummy => t.parent[b] = y
  BY <1>2, RotationNodes
<1>4. /\ u \in Trees /\ u.root = (IF g = Dummy THEN y ELSE t.root)
      /\ \A r \in Sides, m \in S :
           u.kid[r][m] = IF m = y /\ r = s THEN n ELSE IF m = n /\ r = o THEN b
                         ELSE IF m = g /\ r = SideOf(t, n) THEN y ELSE t.kid[r][m]
      /\ \A m \in S : u.parent[m] = IF m = n THEN y ELSE IF m = y THEN g
                                    ELSE IF m = b THEN n ELSE t.parent[m]
  BY <1>0, <1>1, <1>2, NodeIs DEF RotatesTo
<1>5. PICK f \in Ends : f = Turned(e, p, s, n, y)
  BY <1>1, TurnedIs
<1>6. \A r \in Sides, m \in S : f[r][m] = IF r = o /\ m = n THEN p[y] + Dir(s)
                                         ELSE IF r = s /\ m = y THEN e[s][n] ELSE e[r][m]
  <2>1. \A m \in S : m \in ND
    BY <1>1, NodeIs
  <2>2. \A r \in Sides, m \in ND :
          f[r][m] = IF r = Other(s) /\ m = n THEN p[y] + Dir(s) ELSE IF r = s /\ m = y THEN e[s][n] ELSE e[r][m]
    BY <1>1, <1>5, TurnedIs
  <2> QED  BY <1>0, <2>1, <2>2
<1>7. \A m \in S : p[m] \in Int /\ \A r \in Sides : e[r][m] \in Int
  BY <1>1, NodeIs, NumberTypes
<1>8. \A m \in S : e["left"][m] <= p[m] /\ p[m] <= e["right"][m]
  BY DEF Shape, Spans
<1>9. e[o][y] = e[o][n] /\ e[s][y] = p[n] + Dir(o)
  BY <1>0, KidIs
<1>10. \A m \in S : Spans(p, f, m)
  BY <1>0, <1>6, <1>7, <1>8, <1>9 DEF Spans, Sides, Other, Dir
<1>11. g # Dummy => g \in S /\ t.kid[SideOf(t, n)][g] = n /\ SideOf(t, n) \in Sides
  BY <1>2, ParentIs
<1>12. g = Dummy <=> n = t.root
  BY <1>2, ParentIs
<1>13. Top(u, S, l, f)
  <2>1. t.root \in S /\ e["left"][t.root] = 1 /\ e["right"][t.root] = l
    <3>1. Top(t, S, l, e)
      BY ONLY Shape(t, S, l, p, e) DEF Shape
    <3> QED  BY <3>1 DEF Top
  <2>2. CASE g = Dummy
    <3>1. u.root = y /\ n = t.root
      BY <1>4, <1>12, <2>2
    <3>2. f[s][y] = e[s][n] /\ f[o][y] = e[o][n]
      BY <1>0, <1>3, <1>6, <1>9
    <3> QED  BY <1>0, <2>1, <3>1, <3>2 DEF Top, Sides, Other
  <2>3. CASE g # Dummy
    <3>1. u.root = t.root /\ n # t.root
      BY <1>4, <1>12, <2>3
    <3>2. y # t.root
      BY <1>0, KidIs
    <3>3. "left" \in Sides /\ "right" \in Sides
      BY SidesAre
    <3> QED  BY <1>6, <2>1, <3>1, <3>2, <3>3 DEF Top
  <2> QED  BY <2>2, <2>3
<1>14. ASSUME NEW m \in S, NEW r \in Sides
       PROVE  Link(u, S, p, f, r, m)
  <2>1. PICK k : k = t.kid[r][m] /\ \/ k = Dummy /\ e[r][m] = p[m]
                                    \/ /\ k \in S /\ t.parent[k] = m
                                       /\ e[r][k] = e[r][m] /\ e[Other(r)][k] = p[m] + Dir(r)
    BY DEF Shape, Link
  <2>2. CASE m = y /\ r = s
    <3>1. u.kid[r][m] = n /\ u.parent[n] = y
      BY <1>4, <2>2
    <3>2. f[s][n] = e[s][n] /\ f[s][y] = e[s][n] /\ f[o][n] = p[y] + Dir(s)
      BY <1>0, <1>3, <1>6
    <3> QED  BY <1>0, <2>2, <3>1, <3>2 DEF Link
  <2>3. CASE m = n /\ r = o
    <3>1. u.kid[r][m] = b
      BY <1>0, <1>3, <1>4, <2>3
    <3>2. f[o][n] = p[y] + Dir(s)
      BY <1>6
    <3>3. Link(t, S, p, e, s, y)
      BY DEF Shape
    <3>4. CASE b = Dummy
      <4>1. e[s][y] = p[y]
        BY <1>1, <3>3, <3>4 DEF Link
      <4>2. f[o][n] = p[n]
        <5>1. Dir(o) = 0 - Dir(s) /\ Dir(s) \in Int
          BY <1>0 DEF Sides, Other, Dir
        <5>2. p[n] \in Int
          BY ONLY <1>7, n \in S
        <5> QED  BY ONLY <1>9, <3>2, <4>1, <5>1, <5>2
      <4> QED  BY <2>3, <3>1, <3>4, <4>2 DEF Link
    <3>5. CASE b \in S
      <4>1. e[s][b] = e[s][y] /\ e[o][b] = p[y] + Dir(s)
        BY <1>0, <3>5, KidIs
      <4>2. u.parent[b] = n
        BY ONLY <1>3, <1>4, <3>5
      <4>3. f[o][b] = e[o][b] /\ f[s][b] = e[s][b]
        BY <1>3, <1>6, <3>5
      <4>4. f[r][b] = f[r][m] /\ f[Other(r)][b] = p[m] + Dir(r)
        BY ONLY <1>0, <1>9, <2>3, <3>2, <4>1, <4>3
      <4> QED  BY ONLY <2>3, <3>1, <3>5, <4>2, <4>4 DEF Link
    <3> QED  BY <1>3, <3>4, <3>5
  <2>4. CASE m = g /\ r = SideOf(t, n)
    <3>1. u.kid[r][m] = y /\ u.parent[y] = m
      BY <1>3, <1>4, <2>4
    <3>2. e[r][n] = e[r][m] /\ e[Other(r)][n] = p[m] + Dir(r)
      BY <1>1, <1>11, <2>4, KidIs
    <3>3. f[r][m] = e[r][m]
      BY <1>3, <1>6, <2>4
    <3>4. f[s][y] = e[s][n] /\ f[o][y] = e[o][n]
      BY <1>0, <1>3, <1>6, <1>9
    <3>5. f[r][y] = e[r][n] /\ f[Other(r)][y] = e[Other(r)][n]
      BY <1>0, <3>4 DEF Sides, Other
    <3> QED  BY <3>1, <3>2, <3>3, <3>5 DEF Link
  <2>5. CASE ~(m = y /\ r = s) /\ ~(m = n /\ r = o) /\ ~(m = g /\ r = SideOf(t, n))
    <3>1. u.kid[r][m] = k
      BY <1>4, <2>1, <2>5
    <3>2. f[r][m] = e[r][m]
      BY <1>6, <2>5
    <3>3. CASE k = Dummy
      BY <1>1, <2>1, <3>1, <3>2, <3>3 DEF Link
    <3>4. CASE k \in S
      <4>1. t.parent[k] = m
        BY <1>1, <2>1, <3>4
      <4>2. k # n
        BY <1>2, <2>1, <2>5, <3>4, <4>1, KidIs
      <4>3. k # y
        <5> SUFFICES ASSUME k = y PROVE FALSE
          OBVIOUS
        <5>1. m = n /\ r # o
          BY <1>3, <2>5, <4>1
        <5>2. r = s
          <6>1. o \in Sides /\ o # s
            BY ONLY <1>0
          <6> QED  BY ONLY <5>1, <6>1, s \in Sides, r \in Sides, Zenon DEF Sides
        <5> QED  BY <1>0, <2>1, <5>1, <5>2, KidIs
      <4>4. k # b
        <5> SUFFICES ASSUME k = b PROVE FALSE
          OBVIOUS
        <5>1. m = y
          BY <1>1, <1>3, <3>4, <4>1
        <5>2. r = o
          BY <1>0, <2>5, <5>1, SidesAre
        <5>3. b \in S /\ b = t.kid[s][y]
          BY <3>4
        <5>4. t.kid[Other(s)][y] # b
          BY ONLY <5>3, KidIs, Shape(t, S, l, p, e), y \in S, s \in Sides
        <5> QED  BY ONLY <1>0, <2>1, <5>1, <5>2, <5>4, k = b
      <4>5. u.parent[k] = m
        BY <1>4, <3>4, <4>1, <4>2, <4>3, <4>4
      <4>6. f[r][k] = e[r][k] /\ f[Other(r)][k] = e[Other(r)][k]
        BY <1>6, <3>4, <4>2, <4>3, SidesAre
      <4> QED  BY <1>1, <2>1, <3>1, <3>2, <3>4, <4>5, <4>6 DEF Link
    <3> QED  BY <2>1, <3>3, <3>4
  <2> QED  BY <2>2, <2>3, <2>4, <2>5
<1>15. ASSUME NEW m \in S
       PROVE  Hangs(u, S, m)
  <2>1. CASE m = n
    <3>1. u.parent[m] = y /\ u.kid[s][y] = m
      BY <1>4, <2>1
    <3>2. m # u.root
      <4>1. CASE g = Dummy
        BY <1>3, <1>4, <2>1, <4>1
      <4>2. CASE g # Dummy
        BY <1>4, <1>12, <2>1, <4>2
      <4> QED  BY <4>1, <4>2
    <3> QED  BY <3>1, <3>2 DEF Hangs
  <2>2. CASE m = y
    <3>1. u.parent[m] = g
      BY <1>3, <1>4, <2>2
    <3>2. CASE g = Dummy
      BY <1>4, <2>2, <3>1, <3>2 DEF Hangs
    <3>3. CASE g # Dummy
      <4>1. u.kid[SideOf(t, n)][g] = y
        BY <1>3, <1>4, <1>11, <3>3
      <4>2. u.root # y
        BY <1>0, <1>4, <3>3, KidIs
      <4> QED  BY <1>11, <2>2, <3>1, <3>3, <4>1, <4>2 DEF Hangs
    <3> QED  BY <3>2, <3>3
  <2>3. CASE m = b
    <3>1. u.parent[m] = n /\ u.kid[o][n] = m
      BY <1>0, <1>3, <1>4, <2>3
    <3>2. m # u.root
      BY <1>1, <1>3, <1>4, <2>3, KidIs
    <3> QED  BY ONLY <1>0, <3>1, <3>2, n \in S DEF Hangs
  <2>4. CASE m # n /\ m # y /\ m # b
    <3>1. u.parent[m] = t.parent[m]
      BY <1>4, <2>4
    <3>2. CASE m = t.root
      <4>1. g # Dummy /\ u.root = t.root
        BY <1>4, <1>12, <2>4, <3>2
      <4> QED  BY <3>1, <3>2, <4>1, ParentIs DEF Hangs
    <3>3. CASE m # t.root
      <4>1. PICK q \in S, r \in Sides : q = t.parent[m] /\ t.kid[r][q] = m
        BY <3>3, ParentIs
      <4>2. ~(q = y /\ r = s) /\ ~(q = n /\ r = o) /\ ~(q = g /\ r = SideOf(t, n))
        BY <1>0, <1>11, <1>1, <2>4, <4>1
      <4>3. u.kid[r][q] = m
        BY <1>4, <4>1, <4>2
      <4>4. m # u.root
        BY <1>4, <2>4, <3>3
      <4> QED  BY <3>1, <4>1, <4>3, <4>4 DEF Hangs
    <3> QED  BY <3>2, <3>3
  <2> QED  BY <2>1, <2>2, <2>3, <2>4
<1> QED  BY <1>1, <1>4, <1>5, <1>10, <1>13, <1>14, <1>15 DEF Shape

-----------------------------------------------------------------------------
(* Black heights, and reds that follow each other.                         *)

Gap(gp, gs, n, s) == IF n = gp /\ s = gs THEN 1 ELSE 0

\* h is the number of black nodes on every way down; on the side gs of gp
\* one is missing.
Heights(t, S, h, gp, gs) ==
  /\ h \in [ND -> Nat] /\ h[Dummy] = 0
  /\ \A n \in S, s \in Sides : h[n] = Black(t, n) + h[t.kid[s][n]] + Gap(gp, gs, n, s)

Sound(t, S, l, p, e, h, gp, gs) ==
  Shape(t, S, l, p, e) /\ Heights(t, S, h, gp, gs) /\ t.color[Dummy] = "black"

RedPair(t, n) == t.color[n] = "red" /\ t.color[t.parent[n]] = "red"

\* v is t in other colours.
Repainted(t, v) == v \in Trees /\ v.root = t.root /\ v.kid = t.kid /\ v.parent = t.parent

\* Colours do not matter for the shape.
LEMMA RepaintedShape ==
  ASSUME NEW t, NEW S, NEW l, NEW p, NEW e, Shape(t, S, l, p, e), NEW v, Repainted(t, v)
  PROVE  Shape(v, S, l, p, e)
BY DEF Repainted, Shape, Top, Hangs, Link

\* A kid is a node or the dummy.
LEMMA KidTypes ==
  ASSUME NEW t, NEW S, NEW l, NEW p, NEW e, Shape(t, S, l, p, e), NEW n \in S, NEW s \in Sides
  PROVE  /\ t.kid[s][n] \in S \union {Dummy} /\ t.kid[s][n] \in ND
         /\ t.kid[s][n] # Dummy => t.kid[s][n] \in S /\ t.parent[t.kid[s][n]] = n
         /\ t.kid[s][n] = Dummy => e[s][n] = p[n]
<1>1. Link(t, S, p, e, s, n) /\ S \in SUBSET Nodes
  BY DEF Shape
<1> QED  BY <1>1, NodeIs DEF Link, ND

\* A rotation of a well formed tree.
LEMMA RotateOf ==
  ASSUME NEW t, NEW S, NEW l, NEW p, NEW e, Shape(t, S, l, p, e),
         NEW s \in Sides, NEW n \in S, NEW y \in S, NEW b, y = t.kid[Other(s)][n], b = t.kid[s][y]
  PROVE  RotatesTo(t, s, n, y, b, Rotate(t, s, n))
<1>1. t \in Trees /\ n \in Nodes /\ y \in Nodes
  BY NodeIs DEF Shape
<1>2. b \in ND /\ t.parent[n] \in ND
  BY RotationNodes DEF Shape, ND
<1>3. y # n /\ b # n /\ b # y /\ t.parent[n] # n /\ t.parent[n] # y
  BY RotationNodes
<1> QED  BY <1>1, <1>2, <1>3, RotateIs

\* A rotation with which a red node takes the place and the colour of its
\* parent, which becomes red, changes the number of blacks on no way.
LEMMA RaiseRed ==
  ASSUME NEW t, NEW S, NEW l, NEW p, NEW e, NEW h, NEW gp, NEW gs, Sound(t, S, l, p, e, h, gp, gs),
         NEW s \in Sides, NEW n \in S, NEW y \in S, NEW b, y = t.kid[Other(s)][n], b = t.kid[s][y],
         t.color[y] = "red", gp # y, gp = n => gs = s,
         NEW v, Repainted(t, v),
         \A m \in ND : v.color[m] = IF m = y THEN t.color[n] ELSE IF m = n THEN "red" ELSE t.color[m]
  PROVE  /\ RotatesTo(v, s, n, y, b, Rotate(v, s, n))
         /\ \E f, g : Sound(Rotate(v, s, n), S, l, p, f, g, gp, gs)
<1>0. PICK o \in Sides : o = Other(s) /\ o # s
  BY SidesAre
<1>1. Shape(t, S, l, p, e) /\ Heights(t, S, h, gp, gs) /\ t.color[Dummy] = "black"
  BY DEF Sound
<1>2. /\ S \in SUBSET Nodes /\ n \in ND /\ y \in ND /\ n # Dummy /\ y # Dummy /\ Dummy \in ND
      /\ Dummy \notin S /\ \A m \in S : m \in ND
  BY <1>1, NodeIs DEF Shape, ND
<1>3. Shape(v, S, l, p, e)
  BY <1>1, RepaintedShape
<1>4. v.kid = t.kid /\ v.parent = t.parent
  BY DEF Repainted
<1>5. RotatesTo(v, s, n, y, b, Rotate(v, s, n))
  BY <1>3, <1>4, RotateOf
<1>6. PICK u : u = Rotate(v, s, n)
  OBVIOUS
<1>7. Shape(u, S, l, p, Turned(e, p, s, n, y))
  BY <1>3, <1>4, <1>5, <1>6, RotateShape
<1>8. PICK q \in S \union {Dummy} : q = t.parent[n]
  BY <1>1, RotationNodes
<1>9. /\ b \in S \union {Dummy} /\ t.parent[y] = n /\ y # n /\ b # n /\ b # y /\ q # n /\ q # y
  BY <1>1, <1>8, RotationNodes
<1>10. \A r \in Sides, m \in S :
         u.kid[r][m] = IF m = y /\ r = s THEN n ELSE IF m = n /\ r = o THEN b
                       ELSE IF m = q /\ r = SideOf(v, n) THEN y ELSE t.kid[r][m]
  <2>1. \A r \in Sides, m \in ND :
         u.kid[r][m] = IF m = y /\ r = s THEN n ELSE IF m = n /\ r = o THEN b
                       ELSE IF m = q /\ m # Dummy /\ r = SideOf(v, n) THEN y ELSE t.kid[r][m]
    BY <1>0, <1>4, <1>5, <1>6, <1>8 DEF RotatesTo
  <2> QED  BY <1>2, <2>1
<1>11. \A m \in ND : u.color[m] = IF m = y THEN t.color[n] ELSE IF m = n THEN "red" ELSE t.color[m]
  BY <1>5, <1>6 DEF RotatesTo
<1>12. h \in [ND -> Nat] /\ h[Dummy] = 0
       /\ \A m \in S, r \in Sides : h[m] = Black(t, m) + h[t.kid[r][m]] + Gap(gp, gs, m, r)
  BY <1>1 DEF Heights
<1>13. PICK g \in [ND -> Nat] : \A m \in ND : g[m] = IF m = n THEN h[y] ELSE IF m = y THEN h[n] ELSE h[m]
  <2> DEFINE G == [m \in ND |-> IF m = n THEN h[y] ELSE IF m = y THEN h[n] ELSE h[m]]
  <2>1. G \in [ND -> Nat]
    BY <1>2, <1>12
  <2> QED  BY <2>1
<1>14. \A m \in S, r \in Sides : t.kid[r][m] \in ND
  BY <1>1, KidTypes
<1>15. /\ Black(u, y) = Black(t, n) /\ Black(u, n) = 0 /\ Black(t, y) = 0
       /\ \A m \in S : m # n /\ m # y => Black(u, m) = Black(t, m)
  BY <1>2, <1>9, <1>11 DEF Black
<1>16. \A m \in S : Black(t, m) \in Nat
  BY DEF Black
<1>17. h[n] = Black(t, n) + h[y]
  <2>1. h[n] = Black(t, n) + h[t.kid[o][n]] + Gap(gp, gs, n, o)
    BY <1>12
  <2>2. Gap(gp, gs, n, o) = 0
    BY <1>0 DEF Gap
  <2> QED  BY <1>0, <1>2, <1>12, <1>16, <2>1, <2>2
<1>18. \A r \in Sides : h[y] = h[t.kid[r][y]] /\ Gap(gp, gs, y, r) = 0
  <2> SUFFICES ASSUME NEW r \in Sides PROVE h[y] = h[t.kid[r][y]] /\ Gap(gp, gs, y, r) = 0
    OBVIOUS
  <2>1. Gap(gp, gs, y, r) = 0
    BY DEF Gap
  <2>2. h[y] = 0 + h[t.kid[r][y]] + 0
    BY <1>12, <1>15, <2>1
  <2> QED  BY <1>12, <1>14, <2>1, <2>2
<1>19. ASSUME NEW m \in S, NEW r \in Sides
       PROVE  g[m] = Black(u, m) + g[u.kid[r][m]] + Gap(gp, gs, m, r)
  <2>0. Gap(gp, gs, m, r) \in Nat
    BY DEF Gap
  <2>1. CASE m = y /\ r = s
    <3>1. u.kid[r][m] = n
      BY <1>10, <2>1
    <3>2. g[m] = h[n] /\ g[n] = h[y]
      BY <1>2, <1>9, <1>13, <2>1
    <3> QED  BY <1>2, <1>12, <1>15, <1>16, <1>17, <1>18, <2>1, <3>1, <3>2
  <2>2. CASE m = y /\ r = o
    <3>1. PICK k \in ND : k = t.kid[r][m] /\ u.kid[r][m] = k
      BY <1>0, <1>9, <1>10, <1>14, <2>2
    <3>2. k # n /\ k # y
      <4>1. t.parent[n] # y
        BY <1>8, <1>9
      <4>2. k # n
        BY <1>1, <2>2, <3>1, <4>1, KidIs
      <4> QED  BY <1>1, <2>2, <3>1, <4>2, KidIs
    <3>3. g[m] = h[n] /\ g[k] = h[k] /\ h[k] = h[y]
      BY <1>2, <1>9, <1>13, <1>18, <2>2, <3>1, <3>2
    <3> QED  BY <1>2, <1>12, <1>15, <1>16, <1>17, <1>18, <2>2, <3>1, <3>3
  <2>3. CASE m = n /\ r = o
    <3>1. u.kid[r][m] = b
      BY <1>0, <1>9, <1>10, <2>3
    <3>2. b \in ND /\ g[n] = h[y] /\ g[b] = h[b]
      BY <1>2, <1>9, <1>13 DEF ND
    <3>3. h[y] = h[b] /\ Gap(gp, gs, n, o) = 0
      BY <1>0, <1>18 DEF Gap
    <3> QED  BY <1>12, <1>15, <2>3, <3>1, <3>2, <3>3
  <2>4. CASE m = n /\ r = s
    <3>1. PICK k \in ND : k = t.kid[r][m] /\ u.kid[r][m] = k
      BY <1>0, <1>9, <1>10, <1>14, <2>4
    <3>2. k # n /\ k # y
      BY <1>0, <1>1, <2>4, <3>1, KidIs
    <3>3. g[m] = h[y] /\ g[k] = h[k]
      BY <1>2, <1>9, <1>13, <2>4, <3>1, <3>2
    <3>4. h[n] = Black(t, n) + h[k] + Gap(gp, gs, n, s)
      BY <1>12, <2>4, <3>1
    <3>5. h[k] \in Nat /\ h[y] \in Nat
      BY <1>2, <1>12
    <3> QED  BY <1>15, <1>16, <1>17, <2>0, <2>4, <3>1, <3>3, <3>4, <3>5
  <2>5. CASE m = q /\ r = SideOf(v, n)
    <3>1. u.kid[r][m] = y
      BY <1>9, <1>10, <2>5
    <3>2. g[m] = h[m] /\ g[y] = h[n]
      BY <1>2, <1>9, <1>13, <2>5
    <3>3. t.kid[r][m] = n
      <4>1. SideOf(v, n) = SideOf(t, n) /\ q # Dummy
        BY <1>2, <1>4, <2>5 DEF SideOf
      <4> QED  BY <1>1, <1>8, <2>5, <4>1, ParentIs
    <3>4. h[m] = Black(t, m) + h[n] + Gap(gp, gs, m, r)
      BY <1>12, <3>3
    <3> QED  BY <1>9, <1>15, <2>5, <3>1, <3>2, <3>4
  <2>6. CASE m # n /\ m # y /\ ~(m = q /\ r = SideOf(v, n))
    <3>1. PICK k \in ND : k = t.kid[r][m] /\ u.kid[r][m] = k
      BY <1>10, <1>14, <2>6
    <3>2. k # y
      BY <1>1, <1>9, <2>6, <3>1, KidIs
    <3>3. k # n
      <4> SUFFICES ASSUME k = n PROVE FALSE
        OBVIOUS
      <4>1. m = q /\ SideOf(t, n) = r
        BY <1>1, <1>8, <3>1, KidIs
      <4>2. SideOf(v, n) = SideOf(t, n)
        BY <1>4 DEF SideOf
      <4> QED  BY <2>6, <4>1, <4>2
    <3>4. g[m] = h[m] /\ g[k] = h[k]
      BY <1>2, <1>13, <2>6, <3>1, <3>2, <3>3
    <3>5. h[m] = Black(t, m) + h[k] + Gap(gp, gs, m, r)
      BY <1>12, <3>1
    <3> QED  BY <1>15, <2>6, <3>1, <3>4, <3>5
  <2> QED  BY <1>0, <2>1, <2>2, <2>3, <2>4, <2>5, <2>6, SidesAre
<1>20. Heights(u, S, g, gp, gs)
  <2>1. g[Dummy] = 0
    BY <1>2, <1>12, <1>13
  <2> QED  BY <1>13, <1>19, <2>1 DEF Heights
<1>21. u.color[Dummy] = "black"
  BY <1>1, <1>2, <1>11
<1> QED  BY <1>5, <1>6, <1>7, <1>20, <1>21 DEF Sound

\* Where two reds can follow each other after such a rotation.
LEMMA RaiseReds ==
  ASSUME NEW t, NEW S, NEW l, NEW p, NEW e, Shape(t, S, l, p, e), t.color[Dummy] = "black",
         NEW s \in Sides, NEW n \in S, NEW y \in S, NEW b, y = t.kid[Other(s)][n], b = t.kid[s][y],
         t.color[y] = "red", NEW v, Repainted(t, v),
         \A m \in ND : v.color[m] = IF m = y THEN t.color[n] ELSE IF m = n THEN "red" ELSE t.color[m],
         NEW u, RotatesTo(v, s, n, y, b, u),
         NEW m \in S, RedPair(u, m)
  PROVE  \/ m = n /\ t.color[n] = "red"
         \/ m = y /\ RedPair(t, n)
         \/ m = t.kid[s][n] /\ t.color[m] = "red"
         \/ /\ RedPair(t, m) /\ m # n /\ m # y
            /\ t.parent[m] = y => m = b \/ t.color[n] = "red"
<1>0. PICK o \in Sides : o = Other(s) /\ o # s
  BY SidesAre
<1>1. /\ S \in SUBSET Nodes /\ \A k \in S : k \in ND /\ k # Dummy
      /\ Dummy \in ND
  BY NodeIs DEF Shape, ND
<1>2. PICK q \in S \union {Dummy} : q = t.parent[n]
  BY RotationNodes
<1>3. /\ b \in S \union {Dummy} /\ t.parent[y] = n /\ y # n /\ b # n /\ b # y /\ q # n /\ q # y
      /\ b # Dummy => t.parent[b] = y
  BY <1>2, RotationNodes
<1>4. \A k \in ND : u.color[k] = IF k = y THEN t.color[n] ELSE IF k = n THEN "red" ELSE t.color[k]
  BY DEF RotatesTo
<1>5. u.parent[m] = IF m = n THEN y ELSE IF m = y THEN q ELSE IF m = b THEN n ELSE t.parent[m]
  BY <1>1, <1>2 DEF RotatesTo, Repainted
<1>6. t.parent[m] \in ND
  BY <1>1, ParentIs DEF ND
<1>7. CASE m = n
  BY <1>1, <1>3, <1>4, <1>5, <1>7 DEF RedPair
<1>8. CASE m = y
  <2>1. q \in ND /\ u.parent[m] = q
    BY <1>1, <1>3, <1>5, <1>8
  <2>2. u.color[m] = t.color[n] /\ u.color[q] = t.color[q]
    BY ONLY <1>1, <1>3, <1>4, <1>8, <2>1, m \in S, n \in S
  <2> QED  BY <1>2, <1>8, <2>1, <2>2 DEF RedPair
<1>9. CASE m = b
  <2>1. u.color[m] = t.color[m]
    BY <1>1, <1>3, <1>4, <1>9
  <2>2. t.parent[m] = y
    BY <1>1, <1>3, <1>9
  <2>3. RedPair(t, m)
    BY <2>1, <2>2 DEF RedPair
  <2> QED  BY ONLY <1>3, <1>9, <2>3
<1>10. CASE m # n /\ m # y /\ m # b
  <2>1. u.color[m] = t.color[m] /\ u.parent[m] = t.parent[m]
    BY <1>1, <1>4, <1>5, <1>10
  <2>2. CASE t.parent[m] = n
    <3>1. m # t.root
      BY <1>1, <2>2, ParentIs
    <3>2. SideOf(t, m) \in Sides /\ t.kid[SideOf(t, m)][n] = m
      BY <2>2, <3>1, ParentIs
    <3>3. SideOf(t, m) = s
      BY <1>0, <1>10, <3>2, SidesAre
    <3> QED  BY <2>1, <3>2, <3>3 DEF RedPair
  <2>3. CASE t.parent[m] = y
    BY <1>1, <1>4, <1>10, <2>1, <2>3 DEF RedPair
  <2>4. CASE t.parent[m] # n /\ t.parent[m] # y
    BY <1>1, <1>4, <1>6, <1>10, <2>1, <2>4 DEF RedPair
  <2> QED  BY <2>2, <2>3, <2>4
<1> QED  BY <1>7, <1>8, <1>9, <1>10

\* The links of what is not in the tree do not change.
Outside(S, t, u) == \A m \in ND \ S : /\ u.parent[m] = t.parent[m]
                                      /\ \A r \in Sides : u.kid[r][m] = t.kid[r][m]

\* A rotation leaves the links of other nodes alone, and those of the dummy.
LEMMA RotateOutside ==
  ASSUME NEW t, NEW S, NEW l, NEW p, NEW e, Shape(t, S, l, p, e),
         NEW s \in Sides, NEW n \in S, NEW y \in S, NEW b, y = t.kid[Other(s)][n], b = t.kid[s][y],
         NEW v, Repainted(t, v), NEW u, RotatesTo(v, s, n, y, b, u)
  PROVE  Outside(S, t, u)
<1>1. b \in S \union {Dummy} /\ t.parent[n] \in S \union {Dummy}
  BY RotationNodes
<1>2. v.kid = t.kid /\ v.parent = t.parent
  BY DEF Repainted
<1> SUFFICES ASSUME NEW m \in ND, m \notin S
             PROVE  u.parent[m] = t.parent[m] /\ \A r \in Sides : u.kid[r][m] = t.kid[r][m]
  BY DEF Outside
<1> QED  BY <1>1, <1>2 DEF RotatesTo

-----------------------------------------------------------------------------
(* The fixup of an insertion.                                              *)

\* The tree is sound, x is red, hangs on side s of the red p, and p on side s of g.
OuterRed(t, S, l, p, e, h, s, x, m, g) ==
  /\ Sound(t, S, l, p, e, h, Dummy, "left") /\ s \in Sides
  /\ x \in S /\ m \in S /\ g \in S /\ m = t.kid[s][g] /\ x = t.kid[s][m]
  /\ t.color[x] = "red" /\ t.color[m] = "red" /\ t.color[g] = "black"
  /\ t.color[t.kid[Other(s)][g]] = "black" /\ t.color[t.root] = "black"
  /\ \A n \in S : RedPair(t, n) => n = x

\* Two repaintings.
LEMMA PaintTwice ==
  ASSUME NEW t \in Trees, NEW n \in ND, NEW m \in ND, NEW c \in Colors, NEW d \in Colors
  PROVE  /\ Repainted(t, Paint(Paint(t, n, c), m, d))
         /\ \A k \in ND : Paint(Paint(t, n, c), m, d).color[k] =
                            IF k = m THEN d ELSE IF k = n THEN c ELSE t.color[k]
<1> DEFINE K == Paint(t, n, c)
<1>1. /\ K \in Trees /\ K.root = t.root /\ K.kid = t.kid /\ K.parent = t.parent
      /\ \A k \in ND : K.color[k] = IF k = n THEN c ELSE t.color[k]
  BY PaintIs
<1> HIDE DEF K
<1>2. /\ Paint(K, m, d) \in Trees /\ Paint(K, m, d).root = K.root
      /\ Paint(K, m, d).kid = K.kid /\ Paint(K, m, d).parent = K.parent
      /\ \A k \in ND : Paint(K, m, d).color[k] = IF k = m THEN d ELSE K.color[k]
  BY <1>1, PaintIs
<1>3. Repainted(t, Paint(K, m, d))
  BY <1>1, <1>2 DEF Repainted
<1>4. \A k \in ND : Paint(K, m, d).color[k] = IF k = m THEN d ELSE IF k = n THEN c ELSE t.color[k]
  BY ONLY <1>1, <1>2
<1> QED  BY <1>3, <1>4 DEF K

\* Case 3: the tree is in order.
LEMMA RaiseParentIs ==
  ASSUME NEW t, NEW S, NEW l, NEW p, NEW e, NEW h, NEW s, NEW x, NEW m, NEW g,
         OuterRed(t, S, l, p, e, h, s, x, m, g)
  PROVE  LET u == RaiseParent(t, s, m, g)
         IN  /\ \E f, k : Sound(u, S, l, p, f, k, Dummy, "left")
             /\ \A n \in S : ~RedPair(u, n)
             /\ u.color[u.root] = "black" /\ u.color[x] = "red" /\ Outside(S, t, u)
<1>1. /\ Sound(t, S, l, p, e, h, Dummy, "left") /\ s \in Sides
      /\ x \in S /\ m \in S /\ g \in S /\ m = t.kid[s][g] /\ x = t.kid[s][m]
      /\ t.color[x] = "red" /\ t.color[m] = "red" /\ t.color[g] = "black"
      /\ t.color[t.kid[Other(s)][g]] = "black" /\ t.color[t.root] = "black"
      /\ \A n \in S : RedPair(t, n) => n = x
  BY DEF OuterRed
<1>2. PICK o \in Sides : o = Other(s) /\ o # s /\ Other(o) = s
  BY <1>1, SidesAre
<1>3. Shape(t, S, l, p, e) /\ t.color[Dummy] = "black"
  BY <1>1 DEF Sound
<1>4. /\ t \in Trees /\ S \in SUBSET Nodes /\ Dummy \in ND /\ Dummy \notin S
      /\ \A n \in S : n \in ND
  BY <1>3, NodeIs DEF Shape, ND
<1> DEFINE v == Paint(Paint(t, m, "black"), g, "red")
           u == Rotate(v, o, g)
<1>5. Repainted(t, v) /\ \A k \in ND : v.color[k] = IF k = g THEN "red" ELSE IF k = m THEN "black" ELSE t.color[k]
  BY <1>1, <1>4, PaintTwice DEF Colors
<1> HIDE DEF v
<1>6. m # g /\ t.parent[m] = g
  BY <1>1, <1>3, KidIs
<1>7. \A k \in ND : v.color[k] = IF k = m THEN t.color[g] ELSE IF k = g THEN "red" ELSE t.color[k]
  BY <1>1, <1>5, <1>6
<1>8. PICK b : b = t.kid[o][m]
  OBVIOUS
<1>9. m = t.kid[Other(o)][g]
  BY <1>1, <1>2
<1>10. /\ RotatesTo(v, o, g, m, b, u)
       /\ \E f, k : Sound(u, S, l, p, f, k, Dummy, "left")
  <2>1. Dummy # m /\ Dummy # g
    BY <1>1, <1>4
  <2> QED  BY <1>1, <1>5, <1>7, <1>8, <1>9, <2>1, RaiseRed
<1> HIDE DEF u
<1>11. ASSUME NEW n \in S, RedPair(u, n) PROVE FALSE
  <2>1. \/ n = g /\ t.color[g] = "red"
        \/ n = m /\ RedPair(t, g)
        \/ n = t.kid[o][g] /\ t.color[n] = "red"
        \/ /\ RedPair(t, n) /\ n # g /\ n # m
           /\ t.parent[n] = m => n = b \/ t.color[g] = "red"
    BY <1>1, <1>3, <1>5, <1>7, <1>8, <1>9, <1>10, <1>11, RaiseReds
  <2>2. ~RedPair(t, g)
    BY <1>1 DEF RedPair
  <2>3. n = x /\ n = b /\ t.parent[x] = m
    BY <1>1, <1>2, <1>3, <2>1, <2>2, KidIs
  <2>4. t.kid[Other(s)][m] # x
    BY <1>1, <1>3, KidIs
  <2> QED  BY <1>2, <1>8, <2>3, <2>4
<1>12. \A k \in ND : u.color[k] = v.color[k]
  BY <1>10 DEF RotatesTo
<1>13. x # m /\ x # g
  <2>1. t.parent[x] = m /\ x # m
    BY <1>1, <1>3, KidIs
  <2> QED  BY <1>1, <2>1
<1>14. u.color[x] = "red"
  BY <1>1, <1>4, <1>7, <1>12, <1>13
<1>15. u.color[u.root] = "black"
  <2>1. u.root = IF t.parent[g] = Dummy THEN m ELSE t.root
    BY <1>5, <1>10 DEF RotatesTo, Repainted
  <2>2. CASE t.parent[g] = Dummy
    BY <1>1, <1>4, <1>7, <1>12, <2>1, <2>2
  <2>3. CASE t.parent[g] # Dummy
    <3>1. t.root # g /\ t.root \in ND
      BY <1>1, <1>3, <1>4, <2>3, ParentIs DEF Trees
    <3> QED  BY <1>1, <1>7, <1>12, <2>1, <2>3, <3>1
  <2> QED  BY <2>2, <2>3
<1>16. Outside(S, t, u)
  BY <1>1, <1>3, <1>5, <1>8, <1>9, <1>10, RotateOutside
<1>17. u = RaiseParent(t, s, m, g)
  BY <1>2 DEF u, v, RaiseParent
<1> QED  BY <1>10, <1>11, <1>14, <1>15, <1>16, <1>17

\* Case 2 leads to case 3.
LEMMA OuterChildIs ==
  ASSUME NEW t, NEW S, NEW l, NEW p, NEW e, NEW h, Sound(t, S, l, p, e, h, Dummy, "left"),
         NEW s \in Sides, NEW x \in S, NEW m \in S, NEW g \in S, m = t.kid[s][g], x = t.kid[Other(s)][m],
         t.color[x] = "red", t.color[m] = "red", t.color[g] = "black",
         t.color[t.kid[Other(s)][g]] = "black", t.color[t.root] = "black",
         \A n \in S : RedPair(t, n) => n = x
  PROVE  /\ \E f, k : OuterRed(Rotate(t, s, m), S, l, p, f, k, s, m, x, g)
         /\ Outside(S, t, Rotate(t, s, m))
<1>1. PICK o \in Sides : o = Other(s) /\ o # s /\ Other(o) = s
  BY SidesAre
<1>2. Shape(t, S, l, p, e) /\ t.color[Dummy] = "black"
  BY DEF Sound
<1>3. /\ t \in Trees /\ S \in SUBSET Nodes /\ Dummy \in ND /\ Dummy \notin S
      /\ \A n \in S : n \in ND
  BY <1>2, NodeIs DEF Shape, ND
<1>4. PICK b : b = t.kid[s][x]
  OBVIOUS
<1>5. Repainted(t, t) /\ \A k \in ND : t.color[k] = IF k = x THEN t.color[m] ELSE IF k = m THEN "red" ELSE t.color[k]
  BY <1>3 DEF Repainted
<1> DEFINE u == Rotate(t, s, m)
<1>6. RotatesTo(t, s, m, x, b, u) /\ \E f, k : Sound(u, S, l, p, f, k, Dummy, "left")
  <2>1. Dummy # m /\ Dummy # x
    BY <1>3
  <2> QED  BY <1>4, <1>5, <2>1, RaiseRed
<1> HIDE DEF u
<1>7. t.parent[m] = g /\ SideOf(t, m) = s /\ m # g /\ m # t.root
  BY <1>2, KidIs
<1>8. t.parent[x] = m /\ x # m /\ x # t.root
  BY <1>1, <1>2, KidIs
<1>9. x # g
  BY <1>2, <1>4, <1>7, RotationNodes
<1>10. \A r \in Sides, n \in S :
         u.kid[r][n] = IF n = x /\ r = s THEN m ELSE IF n = m /\ r = o THEN b
                       ELSE IF n = g /\ r = s THEN x ELSE t.kid[r][n]
  <2>1. \A r \in Sides, n \in S :
         u.kid[r][n] = IF n = x /\ r = s THEN m ELSE IF n = m /\ r = o THEN b
                       ELSE IF n = g /\ n # Dummy /\ r = s THEN x ELSE t.kid[r][n]
    BY <1>1, <1>3, <1>6, <1>7 DEF RotatesTo
  <2> QED  BY <1>3, <2>1
<1>11. x = u.kid[s][g] /\ m = u.kid[s][x] /\ u.kid[o][g] = t.kid[o][g]
  BY <1>1, <1>7, <1>8, <1>9, <1>10
<1>12. u.color = t.color
  BY <1>6 DEF RotatesTo
<1>13. u.root = t.root
  BY <1>3, <1>6, <1>7 DEF RotatesTo
<1>14. ASSUME NEW n \in S, RedPair(u, n) PROVE n = m
  <2>1. \/ n = m
        \/ n = x /\ RedPair(t, m)
        \/ n = t.kid[s][m] /\ t.color[n] = "red"
        \/ RedPair(t, n) /\ n # m /\ n # x
    BY <1>2, <1>4, <1>5, <1>6, <1>14, RaiseReds
  <2>2. ~RedPair(t, m)
    BY <1>7 DEF RedPair
  <2>3. n = t.kid[s][m] => t.parent[n] = m /\ n # x
    BY <1>1, <1>2, KidIs
  <2>4. n = t.kid[s][m] /\ t.color[n] = "red" => FALSE
    BY <2>3 DEF RedPair
  <2>5. RedPair(t, n) => n = x
    OBVIOUS
  <2> QED  BY ONLY <1>14, <2>1, <2>2, <2>4, <2>5
<1>15. PICK f, k : Sound(u, S, l, p, f, k, Dummy, "left")
  BY <1>6
<1>16. OuterRed(u, S, l, p, f, k, s, m, x, g)
  <2>1. t.color[u.kid[Other(s)][g]] = "black" /\ t.color[u.root] = "black"
    BY <1>1, <1>11, <1>13
  <2> QED  BY <1>11, <1>12, <1>14, <1>15, <2>1 DEF OuterRed
<1>17. Outside(S, t, u)
  BY <1>2, <1>4, <1>5, <1>6, RotateOutside
<1> QED  BY <1>16, <1>17 DEF u

\* The two ways a turn of insert_fixup goes.
Recoloured(t, m, u, g) == Paint(Paint(Paint(t, m, "black"), u, "black"), g, "red")

\* Case 1: the red uncle.
LEMMA RecolouredIs ==
  ASSUME NEW t, NEW S, NEW l, NEW p, NEW e, NEW h, Sound(t, S, l, p, e, h, Dummy, "left"),
         NEW s \in Sides, NEW x \in S, NEW m \in S, NEW g \in S, NEW y \in S,
         m = t.kid[s][g], y = t.kid[Other(s)][g], t.parent[x] = m,
         t.color[m] = "red", t.color[y] = "red", t.color[g] = "black",
         \A n \in S : RedPair(t, n) => n = x
  PROVE  LET u == Recoloured(t, m, y, g)
         IN  /\ Repainted(t, u)
             /\ \E k : Sound(u, S, l, p, e, k, Dummy, "left")
             /\ \A n \in S : RedPair(u, n) => n = g
             /\ u.color[g] = "red" /\ (u.color[u.root] = "red" => t.color[t.root] = "red" \/ g = u.root)
             /\ Outside(S, t, u)
<1>1. PICK o \in Sides : o = Other(s) /\ o # s /\ Other(o) = s
  BY SidesAre
<1>2. Shape(t, S, l, p, e) /\ t.color[Dummy] = "black" /\ Heights(t, S, h, Dummy, "left")
  BY DEF Sound
<1>3. /\ t \in Trees /\ S \in SUBSET Nodes /\ Dummy \in ND /\ Dummy \notin S
      /\ \A n \in S : n \in ND
  BY <1>2, NodeIs DEF Shape, ND
<1>4. t.parent[m] = g /\ m # g /\ SideOf(t, m) = s
  BY <1>2, KidIs
<1>5. t.parent[y] = g /\ y # g /\ y # m /\ SideOf(t, y) = o
  BY <1>1, <1>2, KidIs
<1> DEFINE w == Paint(Paint(t, m, "black"), y, "black")
           u == Recoloured(t, m, y, g)
<1>6. Repainted(t, w) /\ \A k \in ND : w.color[k] = IF k = y THEN "black" ELSE IF k = m THEN "black" ELSE t.color[k]
  <2>1. "black" \in Colors /\ m \in ND /\ y \in ND
    BY <1>3 DEF Colors
  <2> QED  BY ONLY <1>3, <2>1, PaintTwice
<1>7. u = Paint(w, g, "red")
  BY DEF Recoloured
<1> HIDE DEF w, u
<1>8. /\ u \in Trees /\ u.root = w.root /\ u.kid = w.kid /\ u.parent = w.parent
      /\ \A k \in ND : u.color[k] = IF k = g THEN "red" ELSE w.color[k]
  <2>1. w \in Trees /\ g \in ND /\ "red" \in Colors
    BY <1>3, <1>6 DEF Repainted, Colors
  <2> QED  BY <1>7, <2>1, PaintIs
<1>9. Repainted(t, u)
  BY <1>6, <1>8 DEF Repainted
<1>10. \A k \in ND : u.color[k] = IF k = g THEN "red" ELSE IF k = y \/ k = m THEN "black" ELSE t.color[k]
  BY <1>6, <1>8
<1>11. Shape(u, S, l, p, e)
  BY <1>2, <1>9, RepaintedShape
<1>12. u.kid = t.kid /\ u.parent = t.parent /\ u.root = t.root
  BY <1>9 DEF Repainted
<1>13. h \in [ND -> Nat] /\ h[Dummy] = 0
       /\ \A n \in S, r \in Sides : h[n] = Black(t, n) + h[t.kid[r][n]] + Gap(Dummy, "left", n, r)
  BY <1>2 DEF Heights
<1>14. PICK k \in [ND -> Nat] : \A n \in ND : k[n] = IF n = m \/ n = y THEN h[n] + 1 ELSE h[n]
  <2> DEFINE K == [n \in ND |-> IF n = m \/ n = y THEN h[n] + 1 ELSE h[n]]
  <2>1. K \in [ND -> Nat]
    BY <1>13
  <2> QED  BY <2>1
<1>15. \A n \in S : Black(u, n) = IF n = g THEN 0 ELSE IF n = m \/ n = y THEN 1 ELSE Black(t, n)
  BY <1>3, <1>10 DEF Black
<1>16. Black(t, g) = 1 /\ Black(t, m) = 0 /\ Black(t, y) = 0 /\ \A n \in S : Black(t, n) \in Nat
  BY DEF Black
<1>17. ASSUME NEW n \in S, NEW r \in Sides
       PROVE  k[n] = Black(u, n) + k[u.kid[r][n]] + Gap(Dummy, "left", n, r)
  <2>1. Gap(Dummy, "left", n, r) = 0
    BY <1>3 DEF Gap
  <2>2. PICK c \in ND : c = t.kid[r][n] /\ c \in S \union {Dummy} /\ (c # Dummy => t.parent[c] = n)
    BY <1>2, KidTypes
  <2>3. h[n] = Black(t, n) + h[c] /\ h[c] \in Nat /\ h[n] \in Nat
    <3>1. h[n] = Black(t, n) + h[c] + 0
      BY <1>13, <2>1, <2>2
    <3> QED  BY <1>3, <1>13, <1>16, <2>2, <3>1
  <2>4. CASE n = g
    <3>1. c = m \/ c = y
      BY <1>1, <2>2, <2>4, SidesAre
    <3> QED  BY <1>3, <1>4, <1>5, <1>12, <1>14, <1>15, <1>16, <2>1, <2>2, <2>3, <2>4, <3>1
  <2>5. CASE n # g
    <3>1. c # m /\ c # y
      BY <1>3, <1>4, <1>5, <2>2, <2>5
    <3>2. k[c] = h[c]
      BY <1>14, <2>2, <3>1
    <3> QED  BY <1>3, <1>12, <1>14, <1>15, <1>16, <2>1, <2>2, <2>3, <2>5, <3>2
  <2> QED  BY <2>4, <2>5
<1>18. Heights(u, S, k, Dummy, "left")
  <2>1. k[Dummy] = 0
    BY <1>3, <1>13, <1>14
  <2> QED  BY <1>14, <1>17, <2>1 DEF Heights
<1>19. u.color[Dummy] = "black"
  BY <1>2, <1>3, <1>10
<1>20. Sound(u, S, l, p, e, k, Dummy, "left")
  BY <1>11, <1>18, <1>19 DEF Sound
<1>21. ASSUME NEW n \in S, RedPair(u, n), n # g PROVE FALSE
  <2>1. n # m /\ n # y /\ t.color[n] = "red"
    BY <1>3, <1>10, <1>21 DEF RedPair
  <2>2. PICK q \in S \union {Dummy} : q = t.parent[n]
    BY <1>2, ParentIs
  <2>3. u.color[q] = "red"
    BY <1>12, <1>21, <2>2 DEF RedPair
  <2>4. q # m /\ q # y /\ q # Dummy
    BY <1>3, <1>4, <1>5, <1>10, <1>19, <2>3
  <2>5. q # g
    <3> SUFFICES ASSUME q = g PROVE FALSE
      OBVIOUS
    <3>1. SideOf(t, n) \in Sides /\ t.kid[SideOf(t, n)][g] = n
      BY <1>2, <2>2, <2>4, ParentIs
    <3> QED  BY <1>1, <2>1, <3>1, SidesAre
  <2>6. RedPair(t, n)
    BY <1>3, <1>10, <2>1, <2>2, <2>3, <2>4, <2>5 DEF RedPair
  <2> QED  BY <2>2, <2>4, <2>6
<1>22. u.color[g] = "red"
  BY <1>3, <1>10
<1>23. u.color[u.root] = "red" => t.color[t.root] = "red" \/ g = u.root
  <2>1. t.root \in ND
    BY <1>3 DEF Trees
  <2> QED  BY <1>10, <1>12, <2>1
<1>24. Outside(S, t, u)
  BY <1>12 DEF Outside
<1> QED  BY <1>9, <1>20, <1>21, <1>22, <1>23, <1>24 DEF u

-----------------------------------------------------------------------------
(* The fixup of a deletion.                                                *)

\* On the way to x, the kid of g on side s, one black is missing.
Deficient(t, S, l, p, e, h, x, g, s) ==
  /\ Sound(t, S, l, p, e, h, g, s) /\ g \in S /\ s \in Sides
  /\ x \in S \union {Dummy} /\ x = t.kid[s][g] /\ t.parent[x] = g
  /\ t.color[x] = "black" /\ t.color[t.root] = "black"
  /\ \A n \in S : ~RedPair(t, n)

\* There is a sibling, because it is higher.
LEMMA SiblingIs ==
  ASSUME NEW t, NEW S, NEW l, NEW p, NEW e, NEW h, NEW x, NEW g, NEW s,
         Deficient(t, S, l, p, e, h, x, g, s)
  PROVE  /\ SideOf(t, x) = s /\ Sibling(t, x) = t.kid[Other(s)][g] /\ Sibling(t, x) \in S
         /\ Sibling(t, x) # x /\ Sibling(t, x) # g /\ x # g
         /\ h[Sibling(t, x)] = h[x] + 1 /\ h[x] \in Nat /\ h[g] = Black(t, g) + h[x] + 1
         /\ t.parent[Sibling(t, x)] = g /\ x # t.root
<1>1. /\ Shape(t, S, l, p, e) /\ Heights(t, S, h, g, s) /\ g \in S /\ s \in Sides
      /\ x \in S \union {Dummy} /\ x = t.kid[s][g] /\ t.parent[x] = g
  BY DEF Deficient, Sound
<1>2. PICK o \in Sides : o = Other(s) /\ o # s /\ Other(o) = s
  BY <1>1, SidesAre
<1>3. PICK w \in S \union {Dummy} : w = t.kid[o][g]
  BY <1>1, KidTypes
<1>4. S \in SUBSET Nodes /\ w \in ND /\ x \in ND /\ Dummy \notin S
  BY <1>1, NodeIs DEF Shape, ND
<1>5. h \in [ND -> Nat] /\ h[Dummy] = 0
      /\ \A r \in Sides : h[g] = Black(t, g) + h[t.kid[r][g]] + Gap(g, s, g, r)
  BY <1>1 DEF Heights
<1>6. h[x] \in Nat /\ h[w] \in Nat /\ Black(t, g) \in Nat
  BY <1>4, <1>5 DEF Black
<1>7. Gap(g, s, g, s) = 1 /\ Gap(g, s, g, o) = 0
  BY <1>2 DEF Gap
<1>8. h[g] = Black(t, g) + h[x] + 1
  BY <1>1, <1>5, <1>7
<1>9. h[g] = Black(t, g) + h[w] + 0
  BY <1>3, <1>5, <1>7
<1>10. h[w] = h[x] + 1
  BY <1>6, <1>8, <1>9
<1>11. w \in S /\ w # x
  BY <1>4, <1>5, <1>6, <1>10
<1>12. SideOf(t, x) = s
  BY <1>1, <1>2, <1>3, <1>11 DEF SideOf, Sides, Other
<1>13. Sibling(t, x) = w
  BY <1>1, <1>2, <1>3, <1>12 DEF Sibling
<1>14. w # g /\ t.parent[w] = g
  BY <1>1, <1>3, <1>11, KidIs
<1>15. x # g
  BY <1>1, <1>4, KidIs
<1>16. x # t.root
  <2>1. CASE x = Dummy
    BY <1>1, <1>4, <2>1 DEF Shape, Top
  <2>2. CASE x \in S
    BY <1>1, <2>2, KidIs
  <2> QED  BY <1>1, <2>1, <2>2
<1> QED  BY <1>2, <1>3, <1>6, <1>8, <1>10, <1>11, <1>12, <1>13, <1>14, <1>15, <1>16

\* Case 1: afterwards the sibling is black.
LEMMA BlackSiblingIs ==
  ASSUME NEW t, NEW S, NEW l, NEW p, NEW e, NEW h, NEW x, NEW g, NEW s,
         Deficient(t, S, l, p, e, h, x, g, s)
  PROVE  LET u == BlackSibling(t, x)
         IN  /\ \E f, k : Deficient(u, S, l, p, f, k, x, g, s)
             /\ u.color[Sibling(u, x)] = "black" /\ Outside(S, t, u)
<1> DEFINE u == BlackSibling(t, x)
<1>1. /\ Sound(t, S, l, p, e, h, g, s) /\ Shape(t, S, l, p, e) /\ g \in S /\ s \in Sides
      /\ x \in S \union {Dummy} /\ x = t.kid[s][g] /\ t.parent[x] = g
      /\ t.color[x] = "black" /\ t.color[t.root] = "black" /\ t.color[Dummy] = "black"
      /\ \A n \in S : ~RedPair(t, n)
  BY DEF Deficient, Sound
<1>2. PICK o \in Sides : o = Other(s) /\ o # s /\ Other(o) = s
  BY <1>1, SidesAre
<1>3. PICK w \in S : w = Sibling(t, x) /\ w = t.kid[o][g] /\ w # x /\ w # g /\ x # g /\ t.parent[w] = g
  BY <1>2, SiblingIs
<1>4. SideOf(t, x) = s
  BY SiblingIs
<1>5. /\ t \in Trees /\ S \in SUBSET Nodes /\ Dummy \in ND /\ Dummy \notin S
      /\ \A n \in S : n \in ND
  BY <1>1, NodeIs DEF Shape, ND
<1>6. CASE t.color[w] = "black"
  <2>1. u = t
    BY <1>3, <1>6 DEF BlackSibling
  <2>2. Outside(S, t, t)
    BY DEF Outside
  <2> QED  BY <1>3, <1>6, <2>1, <2>2
<1>7. CASE t.color[w] # "black"
  <2>1. t.color[w] = "red"
    BY <1>5, <1>7 DEF Trees, Colors
  <2>2. t.color[g] = "black"
    <3>1. t.color[g] # "red"
      BY <1>1, <1>3, <2>1 DEF RedPair
    <3> QED  BY <1>1, <1>5, <3>1 DEF Trees, Colors
  <2> DEFINE v == Paint(Paint(t, w, "black"), g, "red")
  <2>3. Repainted(t, v) /\ \A k \in ND : v.color[k] = IF k = g THEN "red" ELSE IF k = w THEN "black" ELSE t.color[k]
    BY <1>1, <1>5, PaintTwice DEF Colors
  <2>4. u = Rotate(v, s, g)
    BY <1>1, <1>3, <1>4, <1>7 DEF BlackSibling
  <2> HIDE DEF v, u
  <2>5. \A k \in ND : v.color[k] = IF k = w THEN t.color[g] ELSE IF k = g THEN "red" ELSE t.color[k]
    BY <1>3, <2>2, <2>3
  <2>6. PICK b : b = t.kid[s][w]
    OBVIOUS
  <2>7. w = t.kid[Other(s)][g]
    BY <1>2, <1>3
  <2>8. RotatesTo(v, s, g, w, b, u) /\ \E f, k : Sound(u, S, l, p, f, k, g, s)
    BY <1>1, <1>3, <2>1, <2>3, <2>4, <2>5, <2>6, <2>7, RaiseRed
  <2>9. PICK q \in S \union {Dummy} : q = t.parent[g] /\ q # g
    BY <1>1, <1>3, <2>6, <2>7, RotationNodes
  <2>10. b \in S \union {Dummy} /\ b # g /\ b # w /\ (b # Dummy => t.parent[b] = w)
    BY <1>1, <1>3, <2>6, <2>7, RotationNodes
  <2>11. u.kid[s][g] = x
    <3>1. v.kid = t.kid /\ v.parent = t.parent
      BY <2>3 DEF Repainted
    <3> QED  BY <1>1, <1>2, <1>3, <1>5, <2>8, <2>9, <3>1 DEF RotatesTo
  <2>12. u.parent[x] = g
    <3>1. v.parent = t.parent /\ x \in ND
      BY <1>1, <1>5, <2>3 DEF Repainted
    <3> QED  BY <1>1, <1>3, <1>5, <2>8, <2>10, <3>1 DEF RotatesTo
  <2>13. \A k \in ND : u.color[k] = IF k = w THEN "black" ELSE IF k = g THEN "red" ELSE t.color[k]
    BY <2>2, <2>5, <2>8 DEF RotatesTo
  <2>14. u.color[x] = "black"
    BY <1>1, <1>3, <1>5, <2>13
  <2>15. u.color[u.root] = "black"
    <3>1. u.root = IF q = Dummy THEN w ELSE t.root
      BY <2>3, <2>8, <2>9 DEF RotatesTo, Repainted
    <3>2. q # Dummy => t.root # g
      BY <1>1, <2>9, ParentIs
    <3>3. t.root \in ND
      BY <1>5 DEF Trees
    <3> QED  BY <1>1, <1>5, <2>13, <3>1, <3>2, <3>3
  <2>16. ASSUME NEW n \in S, RedPair(u, n) PROVE FALSE
    <3>1. \/ n = g /\ t.color[g] = "red"
          \/ n = w /\ RedPair(t, g)
          \/ n = t.kid[s][g] /\ t.color[n] = "red"
          \/ RedPair(t, n) /\ n # g /\ n # w
      BY <1>1, <1>3, <2>1, <2>3, <2>5, <2>6, <2>7, <2>8, <2>16, RaiseReds
    <3> QED  BY <1>1, <2>2, <3>1
  <2>17. PICK f, k : Sound(u, S, l, p, f, k, g, s)
    BY <2>8
  <2>18. Deficient(u, S, l, p, f, k, x, g, s)
    BY <1>1, <2>11, <2>12, <2>14, <2>15, <2>16, <2>17 DEF Deficient
  <2>19. Sibling(u, x) = b
    <3>1. Sibling(u, x) = u.kid[o][g]
      BY <1>2, <2>18, SiblingIs
    <3> QED  BY <1>2, <1>3, <1>5, <1>1, <2>8, <3>1 DEF RotatesTo
  <2>20. b \in S
    BY <2>18, <2>19, SiblingIs
  <2>21. t.color[b] = "black"
    <3>1. t.color[b] # "red"
      BY <1>1, <1>5, <2>1, <2>10, <2>20 DEF RedPair
    <3> QED  BY <1>5, <2>20, <3>1 DEF Trees, Colors
  <2>22. u.color[b] = "black"
    BY <1>5, <2>10, <2>13, <2>20, <2>21
  <2>23. Outside(S, t, u)
    BY <1>1, <1>3, <2>3, <2>6, <2>7, <2>8, RotateOutside
  <2> QED  BY <2>18, <2>19, <2>22, <2>23 DEF u
<1> QED  BY <1>6, <1>7

\* Case 3: afterwards the far nephew is red.
LEMMA RedFarNephewIs ==
  ASSUME NEW t, NEW S, NEW l, NEW p, NEW e, NEW h, NEW x, NEW g, NEW s,
         Deficient(t, S, l, p, e, h, x, g, s), t.color[Sibling(t, x)] = "black",
         "red" \in {t.color[NearNephew(t, x)], t.color[FarNephew(t, x)]}
  PROVE  LET u == RedFarNephew(t, x)
         IN  /\ \E f, k : Deficient(u, S, l, p, f, k, x, g, s)
             /\ u.color[Sibling(u, x)] = "black" /\ u.color[FarNephew(u, x)] = "red" /\ Outside(S, t, u)
<1> DEFINE u == RedFarNephew(t, x)
<1>1. /\ Sound(t, S, l, p, e, h, g, s) /\ Shape(t, S, l, p, e) /\ g \in S /\ s \in Sides
      /\ x \in S \union {Dummy} /\ x = t.kid[s][g] /\ t.parent[x] = g
      /\ t.color[x] = "black" /\ t.color[t.root] = "black" /\ t.color[Dummy] = "black"
      /\ \A n \in S : ~RedPair(t, n)
  BY DEF Deficient, Sound
<1>2. PICK o \in Sides : o = Other(s) /\ o # s /\ Other(o) = s
  BY <1>1, SidesAre
<1>3. PICK w \in S : w = Sibling(t, x) /\ w = t.kid[o][g] /\ w # x /\ w # g /\ x # g /\ t.parent[w] = g
  BY <1>2, SiblingIs
<1>4. SideOf(t, x) = s
  BY SiblingIs
<1>5. /\ t \in Trees /\ S \in SUBSET Nodes /\ Dummy \in ND /\ Dummy \notin S
      /\ \A n \in S : n \in ND
  BY <1>1, NodeIs DEF Shape, ND
<1>6. CASE t.color[FarNephew(t, x)] = "red"
  <2>1. u = t
    BY <1>6 DEF RedFarNephew
  <2>2. Outside(S, t, t)
    BY DEF Outside
  <2> QED  BY <1>6, <2>1, <2>2
<1>7. CASE t.color[FarNephew(t, x)] # "red"
  <2>1. PICK y \in S \union {Dummy} : y = NearNephew(t, x) /\ y = t.kid[s][w] /\ t.color[y] = "red"
                                   /\ (y # Dummy => t.parent[y] = w)
    <3>1. NearNephew(t, x) = t.kid[s][w]
      BY <1>3, <1>4 DEF NearNephew
    <3> QED  BY <1>1, <1>7, <3>1, KidTypes
  <2>2. y \in S
    BY <1>1, <2>1
  <2>3. t.color[t.kid[o][w]] # "red"
    BY <1>2, <1>3, <1>4, <1>7 DEF FarNephew
  <2> DEFINE v == Paint(Paint(t, y, "black"), w, "red")
  <2>4. Repainted(t, v) /\ \A k \in ND : v.color[k] = IF k = w THEN "red" ELSE IF k = y THEN "black" ELSE t.color[k]
    BY <1>5, <2>2, PaintTwice DEF Colors
  <2>5. u = Rotate(v, o, w)
    BY <1>2, <1>3, <1>4, <1>7, <2>1 DEF RedFarNephew
  <2> HIDE DEF v, u
  <2>6. y # w /\ y = t.kid[Other(o)][w]
    BY <1>1, <1>2, <2>1, <2>2, KidIs
  <2>7. \A k \in ND : v.color[k] = IF k = y THEN t.color[w] ELSE IF k = w THEN "red" ELSE t.color[k]
    BY <1>3, <2>4, <2>6
  <2>8. PICK b : b = t.kid[o][y]
    OBVIOUS
  <2>9. g # y
    BY <1>1, <1>3, <2>2, <2>6, <2>8, RotationNodes
  <2>10. RotatesTo(v, o, w, y, b, u) /\ \E f, k : Sound(u, S, l, p, f, k, g, s)
    BY <1>1, <1>3, <2>1, <2>2, <2>4, <2>5, <2>6, <2>7, <2>8, <2>9, RaiseRed
  <2>11. b \in S \union {Dummy} /\ b # w /\ b # y /\ (b # Dummy => t.parent[b] = y)
    BY <1>1, <2>2, <2>6, <2>8, RotationNodes
  <2>12. SideOf(t, w) = o
    BY <1>1, <1>3, KidIs
  <2>13. v.kid = t.kid /\ v.parent = t.parent /\ SideOf(v, w) = o
    BY <2>4, <2>12 DEF Repainted, SideOf
  <2>14. u.kid[s][g] = x
    BY <1>1, <1>2, <1>3, <1>5, <2>9, <2>10, <2>13 DEF RotatesTo
  <2>15. x # y
    BY <1>1, <1>3, <2>1, <2>2
  <2>16. u.parent[x] = g
    <3>1. x \in ND
      BY <1>1, <1>5
    <3>2. ~(x = b /\ x # Dummy)
      BY <1>1, <2>9, <2>11
    <3> QED  BY <1>1, <1>3, <2>10, <2>13, <2>15, <3>1, <3>2 DEF RotatesTo
  <2>17. \A k \in ND : u.color[k] = IF k = y THEN "black" ELSE IF k = w THEN "red" ELSE t.color[k]
    BY <1>3, <2>7, <2>10 DEF RotatesTo
  <2>18. u.color[x] = "black"
    BY <1>1, <1>3, <1>5, <2>15, <2>17
  <2>19. u.color[u.root] = "black"
    <3>1. u.root = t.root
      BY <1>3, <1>1, <1>5, <2>4, <2>10, <2>13 DEF RotatesTo, Repainted
    <3>2. t.root # w
      BY <1>1, <1>3, KidIs
    <3>3. t.root \in ND
      BY <1>5 DEF Trees
    <3> QED  BY <1>1, <2>17, <3>1, <3>2, <3>3
  <2>20. ASSUME NEW n \in S, RedPair(u, n) PROVE FALSE
    <3>1. \/ n = w /\ t.color[w] = "red"
          \/ n = y /\ RedPair(t, w)
          \/ n = t.kid[o][w] /\ t.color[n] = "red"
          \/ RedPair(t, n) /\ n # w /\ n # y
      BY <1>1, <2>1, <2>2, <2>4, <2>6, <2>7, <2>8, <2>10, <2>20, RaiseReds
    <3> QED  BY <1>1, <1>3, <2>3, <3>1
  <2>21. PICK f, k : Sound(u, S, l, p, f, k, g, s)
    BY <2>10
  <2>22. Deficient(u, S, l, p, f, k, x, g, s)
    BY <1>1, <2>14, <2>16, <2>18, <2>19, <2>20, <2>21 DEF Deficient
  <2>23. Sibling(u, x) = y
    <3>1. Sibling(u, x) = u.kid[o][g]
      BY <1>2, <2>22, SiblingIs
    <3>2. u.kid[o][g] = y
      BY <1>1, <1>3, <1>5, <2>9, <2>10, <2>13 DEF RotatesTo
    <3> QED  BY <3>1, <3>2
  <2>24. FarNephew(u, x) = w
    <3>1. FarNephew(u, x) = u.kid[o][y]
      BY <1>2, <2>22, <2>23, SiblingIs DEF FarNephew
    <3> QED  BY <1>5, <2>2, <2>10, <3>1 DEF RotatesTo
  <2>25. u.color[y] = "black" /\ u.color[w] = "red"
    BY <1>5, <2>2, <2>6, <2>17
  <2>26. Outside(S, t, u)
    BY <1>1, <2>2, <2>4, <2>6, <2>8, <2>10, RotateOutside
  <2> QED  BY <2>22, <2>23, <2>24, <2>25, <2>26 DEF u
<1> QED  BY <1>6, <1>7

\* Case 2: the black is missing further up.
LEMMA RedSiblingIs ==
  ASSUME NEW t, NEW S, NEW l, NEW p, NEW e, NEW h, NEW x, NEW g, NEW s,
         Deficient(t, S, l, p, e, h, x, g, s), t.color[Sibling(t, x)] = "black",
         t.color[NearNephew(t, x)] = "black", t.color[FarNephew(t, x)] = "black"
  PROVE  LET u == Paint(t, Sibling(t, x), "red")
         IN  /\ Repainted(t, u) /\ \E k : Sound(u, S, l, p, e, k, t.parent[g], SideOf(t, g))
             /\ \A n \in S : RedPair(u, n) => u.parent[n] = g
             /\ u.color[u.root] = "black" /\ Outside(S, t, u)
<1> DEFINE u == Paint(t, Sibling(t, x), "red")
<1>1. /\ Sound(t, S, l, p, e, h, g, s) /\ Shape(t, S, l, p, e) /\ g \in S /\ s \in Sides
      /\ Heights(t, S, h, g, s)
      /\ x \in S \union {Dummy} /\ x = t.kid[s][g] /\ t.parent[x] = g
      /\ t.color[x] = "black" /\ t.color[t.root] = "black" /\ t.color[Dummy] = "black"
      /\ \A n \in S : ~RedPair(t, n)
  BY DEF Deficient, Sound
<1>2. PICK o \in Sides : o = Other(s) /\ o # s /\ Other(o) = s
  BY <1>1, SidesAre
<1>3. PICK w \in S : w = Sibling(t, x) /\ w = t.kid[o][g] /\ w # x /\ w # g /\ x # g /\ t.parent[w] = g
  BY <1>2, SiblingIs
<1>4. SideOf(t, x) = s /\ h[w] = h[x] + 1 /\ h[x] \in Nat /\ h[g] = Black(t, g) + h[x] + 1
  <2>1. /\ SideOf(t, x) = s /\ h[Sibling(t, x)] = h[x] + 1 /\ h[x] \in Nat
        /\ h[g] = Black(t, g) + h[x] + 1
    BY SiblingIs
  <2> QED  BY <1>3, <2>1
<1>5. /\ t \in Trees /\ S \in SUBSET Nodes /\ Dummy \in ND /\ Dummy \notin S
      /\ \A n \in S : n \in ND
  BY <1>1, NodeIs DEF Shape, ND
<1>6. /\ u \in Trees /\ u.root = t.root /\ u.kid = t.kid /\ u.parent = t.parent
      /\ \A k \in ND : u.color[k] = IF k = w THEN "red" ELSE t.color[k]
  <2>1. "red" \in Colors /\ w \in ND
    BY <1>5 DEF Colors
  <2> QED  BY <1>3, <1>5, <2>1, PaintIs
<1> HIDE DEF u
<1>7. Repainted(t, u)
  BY <1>6 DEF Repainted
<1>8. Shape(u, S, l, p, e)
  BY <1>1, <1>7, RepaintedShape
<1>9. h \in [ND -> Nat] /\ h[Dummy] = 0
      /\ \A n \in S, r \in Sides : h[n] = Black(t, n) + h[t.kid[r][n]] + Gap(g, s, n, r)
  BY <1>1 DEF Heights
<1>10. PICK q \in S \union {Dummy}, z \in Sides :
         /\ q = t.parent[g] /\ z = SideOf(t, g)
         /\ q # Dummy => t.kid[z][q] = g
  <2>1. t.parent[g] \in S \union {Dummy} /\ SideOf(t, g) \in Sides
    BY <1>1, ParentIs
  <2>2. t.parent[g] # Dummy => t.kid[SideOf(t, g)][t.parent[g]] = g
    BY <1>1, ParentIs
  <2> QED  BY <2>1, <2>2
<1>11. q # g
  BY <1>1, <1>2, <1>3, <1>10, RotationNodes
<1>12. PICK k \in [ND -> Nat] : \A n \in ND : k[n] = IF n = w \/ n = g THEN h[n] - 1 ELSE h[n]
  <2> DEFINE K == [n \in ND |-> IF n = w \/ n = g THEN h[n] - 1 ELSE h[n]]
  <2>1. Black(t, g) \in Nat
    BY DEF Black
  <2>2. h[w] - 1 \in Nat /\ h[g] - 1 \in Nat
    BY <1>4, <2>1
  <2>3. K \in [ND -> Nat]
    BY <1>9, <2>2
  <2> QED  BY <2>3
<1>13. \A n \in S : Black(u, n) = IF n = w THEN 0 ELSE Black(t, n)
  BY <1>5, <1>6 DEF Black
<1>14. Black(t, w) = 1 /\ \A n \in S : Black(t, n) \in Nat
  BY <1>3 DEF Black
<1>15. ASSUME NEW n \in S, NEW r \in Sides
       PROVE  k[n] = Black(u, n) + k[u.kid[r][n]] + Gap(q, z, n, r)
  <2>1. PICK c \in ND : c = t.kid[r][n] /\ c \in S \union {Dummy} /\ (c # Dummy => t.parent[c] = n)
    BY <1>1, KidTypes
  <2>2. h[n] = Black(t, n) + h[c] + Gap(g, s, n, r) /\ h[c] \in Nat /\ h[n] \in Nat
    BY <1>5, <1>9, <2>1
  <2>3. CASE n = g /\ r = s
    <3>1. c = x /\ Gap(q, z, n, r) = 0
      BY <1>1, <1>11, <2>1, <2>3 DEF Gap
    <3>2. k[n] = h[n] - 1 /\ k[c] = h[c]
      BY <1>3, <1>5, <1>12, <2>1, <2>3, <3>1
    <3> QED  BY <1>3, <1>4, <1>6, <1>13, <1>14, <2>1, <2>2, <2>3, <3>1, <3>2
  <2>4. CASE n = g /\ r = o
    <3>1. c = w /\ Gap(q, z, n, r) = 0 /\ Gap(g, s, n, r) = 0
      BY <1>2, <1>3, <1>11, <2>1, <2>4 DEF Gap
    <3>2. k[n] = h[n] - 1 /\ k[c] = h[c] - 1
      BY <1>5, <1>12, <2>1, <2>4, <3>1
    <3> QED  BY <1>3, <1>6, <1>13, <1>14, <2>1, <2>2, <2>4, <3>1, <3>2
  <2>5. CASE n = w
    <3>1. c # g /\ c # w
      <4>1. t.parent[g] # w
        BY <1>1, <1>2, <1>3, RotationNodes
      <4> QED  BY <1>1, <1>3, <1>5, <2>1, <2>5, <4>1
    <3>2. Gap(g, s, n, r) = 0
      BY <1>3, <2>5 DEF Gap
    <3>3. Gap(q, z, n, r) = 0
      <4>1. q # w
        BY <1>1, <1>2, <1>3, <1>10, RotationNodes
      <4> QED  BY <2>5, <4>1 DEF Gap
    <3>4. k[n] = h[n] - 1 /\ k[c] = h[c]
      BY <1>5, <1>12, <2>1, <2>5, <3>1
    <3> QED  BY <1>6, <1>13, <1>14, <2>1, <2>2, <2>5, <3>2, <3>3, <3>4
  <2>6. CASE n # g /\ n # w
    <3>1. Gap(g, s, n, r) = 0 /\ k[n] = h[n] /\ c # w
      BY <1>3, <1>5, <1>12, <2>1, <2>6 DEF Gap
    <3>2. CASE c = g
      <4>1. n = q
        BY <1>5, <1>1, <1>10, <2>1, <3>2
      <4>2. r = z
        <5>0. Shape(t, S, l, p, e) /\ g \in S /\ g = t.kid[r][n]
          BY <1>1, <2>1, <3>2
        <5>1. SideOf(t, g) = r
          BY <5>0, KidIs
        <5> QED  BY <1>10, <5>1
      <4>3. Gap(q, z, n, r) = 1
        BY <4>1, <4>2 DEF Gap
      <4>4. k[c] = h[c] - 1 /\ k[c] \in Nat
        BY <1>12, <2>1, <3>2
      <4> QED  BY <1>6, <1>13, <1>14, <2>1, <2>2, <2>6, <3>1, <4>3, <4>4
    <3>3. CASE c # g
      <4>1. Gap(q, z, n, r) = 0
        <5> SUFFICES ASSUME n = q, r = z PROVE FALSE
          BY DEF Gap
        <5>1. q # Dummy
          BY <1>5
        <5> QED  BY <1>10, <2>1, <3>3, <5>1
      <4>2. k[c] = h[c]
        BY <1>12, <2>1, <3>1, <3>3
      <4> QED  BY <1>6, <1>13, <2>1, <2>2, <2>6, <3>1, <4>1, <4>2
    <3> QED  BY <3>2, <3>3
  <2> QED  BY <1>2, <2>3, <2>4, <2>5, <2>6, SidesAre
<1>16. Heights(u, S, k, q, z)
  <2>1. k[Dummy] = 0
    BY <1>1, <1>3, <1>5, <1>9, <1>12
  <2> QED  BY <1>12, <1>15, <2>1 DEF Heights
<1>17. u.color[Dummy] = "black"
  BY <1>1, <1>3, <1>5, <1>6
<1>18. Sound(u, S, l, p, e, k, q, z)
  BY <1>8, <1>16, <1>17 DEF Sound
<1>19. ASSUME NEW n \in S, RedPair(u, n) PROVE u.parent[n] = g
  <2>1. CASE n = w
    BY <1>3, <1>6, <2>1
  <2>2. CASE n # w
    <3>1. t.parent[n] \in ND
      BY <1>1, <1>5, ParentIs
    <3>2. t.parent[n] = w
      BY <1>1, <1>5, <1>6, <1>19, <2>2, <3>1 DEF RedPair
    <3>3. n # t.root
      BY <1>1, <1>5, <3>2, ParentIs
    <3>4. SideOf(t, n) \in Sides /\ t.kid[SideOf(t, n)][w] = n
      BY <1>1, <3>2, <3>3, ParentIs
    <3>5. t.kid[s][w] = NearNephew(t, x) /\ t.kid[o][w] = FarNephew(t, x)
      BY <1>2, <1>3, <1>4 DEF NearNephew, FarNephew
    <3>6. t.color[n] = "black"
      BY <1>1, <1>2, <3>4, <3>5, SidesAre
    <3> QED  BY <1>5, <1>6, <1>19, <2>2, <3>6 DEF RedPair
  <2> QED  BY <2>1, <2>2
<1>20. u.color[u.root] = "black"
  <2>1. t.root \in ND /\ t.root # w
    BY <1>1, <1>3, <1>5, KidIs DEF Trees
  <2> QED  BY <1>1, <1>6, <2>1
<1>21. Outside(S, t, u)
  BY <1>6 DEF Outside
<1> QED  BY <1>7, <1>10, <1>18, <1>19, <1>20, <1>21 DEF u

\* Case 4: nothing is missing any more.
LEMMA RaiseSiblingIs ==
  ASSUME NEW t, NEW S, NEW l, NEW p, NEW e, NEW h, NEW x, NEW g, NEW s,
         Deficient(t, S, l, p, e, h, x, g, s), t.color[Sibling(t, x)] = "black",
         t.color[FarNephew(t, x)] = "red"
  PROVE  LET u == RaiseSibling(t, x)
         IN  /\ \E f, k : Sound(u, S, l, p, f, k, Dummy, "left")
             /\ \A n \in S : ~RedPair(u, n)
             /\ u.color[u.root] = "black" /\ u.root \in S /\ Outside(S, t, u)
<1> DEFINE u == RaiseSibling(t, x)
<1>1. /\ Sound(t, S, l, p, e, h, g, s) /\ Shape(t, S, l, p, e) /\ g \in S /\ s \in Sides
      /\ Heights(t, S, h, g, s)
      /\ x \in S \union {Dummy} /\ x = t.kid[s][g] /\ t.parent[x] = g
      /\ t.color[x] = "black" /\ t.color[t.root] = "black" /\ t.color[Dummy] = "black"
      /\ \A n \in S : ~RedPair(t, n)
  BY DEF Deficient, Sound
<1>2. PICK o \in Sides : o = Other(s) /\ o # s /\ Other(o) = s
  BY <1>1, SidesAre
<1>3. PICK w \in S : w = Sibling(t, x) /\ w = t.kid[o][g] /\ w # x /\ w # g /\ x # g /\ t.parent[w] = g
  BY <1>2, SiblingIs
<1>4. SideOf(t, x) = s /\ h[w] = h[x] + 1 /\ h[x] \in Nat /\ h[g] = Black(t, g) + h[x] + 1
  <2>1. /\ SideOf(t, x) = s /\ h[Sibling(t, x)] = h[x] + 1 /\ h[x] \in Nat
        /\ h[g] = Black(t, g) + h[x] + 1
    BY SiblingIs
  <2> QED  BY <1>3, <2>1
<1>5. /\ t \in Trees /\ S \in SUBSET Nodes /\ Dummy \in ND /\ Dummy \notin S
      /\ \A n \in S : n \in ND
  BY <1>1, NodeIs DEF Shape, ND
<1>6. PICK y \in S : y = FarNephew(t, x) /\ y = t.kid[o][w] /\ t.color[y] = "red" /\ t.parent[y] = w
  <2>1. FarNephew(t, x) = t.kid[o][w]
    BY <1>2, <1>3, <1>4 DEF FarNephew
  <2>2. t.kid[o][w] \in S \union {Dummy} /\ t.kid[o][w] # Dummy
    BY <1>1, <1>2, <2>1, KidTypes
  <2> QED  BY <1>1, <1>2, <2>1, <2>2, KidTypes
<1>7. PICK b \in S \union {Dummy} : b = t.kid[s][w] /\ b # g /\ b # w /\ (b # Dummy => t.parent[b] = w)
  BY <1>1, <1>2, <1>3, RotationNodes
<1>8. PICK q \in S \union {Dummy} : q = t.parent[g] /\ q # g /\ q # w
  BY <1>1, <1>2, <1>3, RotationNodes
<1>9. y # g /\ y # w /\ y # x /\ y # b
  BY <1>1, <1>2, <1>3, <1>6, <1>7, <1>8, KidIs
<1>10. q # y
  <2> SUFFICES ASSUME q = y PROVE FALSE
    OBVIOUS
  <2>1. Spans(p, e, g) /\ Spans(p, e, w) /\ Spans(p, e, y)
    BY <1>1 DEF Shape
  <2>2. g # t.root
    BY <1>1, <1>5, <1>8, ParentIs
  <2>3. PICK r \in Sides : t.kid[r][y] = g
    BY <1>1, <1>8, <2>2, ParentIs
  <2>4. e[r][g] = e[r][y] /\ e[Other(r)][g] = p[y] + Dir(r)
    BY <1>1, <2>3, KidIs
  <2>5. e[o][w] = e[o][g] /\ e[s][w] = p[g] + Dir(o) /\ e[o][y] = e[o][w] /\ e[s][y] = p[w] + Dir(o)
    BY <1>1, <1>2, <1>3, <1>6, KidIs
  <2>6. p[g] \in Int /\ p[w] \in Int /\ p[y] \in Int
    BY <1>1, <1>5, NumberTypes DEF Shape
  <2>7. \A i \in Sides : e[i][g] \in Int /\ e[i][w] \in Int /\ e[i][y] \in Int
    BY <1>1, <1>5, NumberTypes DEF Shape
  <2> QED  BY <1>2, <2>1, <2>4, <2>5, <2>6, <2>7 DEF Spans, Sides, Other, Dir
<1> DEFINE v == [t EXCEPT !.color[Sibling(t, x)] = t.color[t.parent[x]], !.color[t.parent[x]] = "black",
                          !.color[FarNephew(t, x)] = "black"]
<1>11. u = Rotate(v, s, g)
  BY <1>1, <1>4 DEF RaiseSibling
<1>12. Repainted(t, v) /\ \A k \in ND : v.color[k] = IF k = y \/ k = g THEN "black"
                                                     ELSE IF k = w THEN t.color[g] ELSE t.color[k]
  <2>1. v = Paint(Paint(Paint(t, w, t.color[g]), g, "black"), y, "black")
    BY <1>1, <1>3, <1>6 DEF Paint
  <2>2. PICK d \in Colors : d = t.color[g]
    BY <1>1, <1>5 DEF Trees
  <2> DEFINE K == Paint(Paint(t, w, d), g, "black")
  <2>3. Repainted(t, K) /\ \A k \in ND : K.color[k] = IF k = g THEN "black" ELSE IF k = w THEN d ELSE t.color[k]
    BY <1>1, <1>5, PaintTwice DEF Colors
  <2> HIDE DEF K
  <2>4. K \in Trees /\ y \in ND /\ "black" \in Colors
    BY <1>5, <2>3 DEF Repainted, Colors
  <2>5. /\ Paint(K, y, "black") \in Trees /\ Paint(K, y, "black").root = K.root
        /\ Paint(K, y, "black").kid = K.kid /\ Paint(K, y, "black").parent = K.parent
        /\ \A k \in ND : Paint(K, y, "black").color[k] = IF k = y THEN "black" ELSE K.color[k]
    BY <2>4, PaintIs
  <2>6. v = Paint(K, y, "black")
    BY <2>1, <2>2 DEF K
  <2> HIDE DEF v
  <2>7. Repainted(t, v)
    BY <2>3, <2>5, <2>6 DEF Repainted
  <2> QED  BY <2>2, <2>3, <2>5, <2>6, <2>7
<1> HIDE DEF v, u
<1>13. v.kid = t.kid /\ v.parent = t.parent /\ v.root = t.root
  BY <1>12 DEF Repainted
<1>14. Shape(v, S, l, p, e)
  BY <1>1, <1>12, RepaintedShape
<1>15. RotatesTo(v, s, g, w, b, u)
  BY <1>1, <1>2, <1>3, <1>7, <1>11, <1>13, <1>14, RotateOf
<1>16. PICK f : Shape(u, S, l, p, f)
  <2>1. Shape(u, S, l, p, Turned(e, p, s, g, w))
    BY <1>1, <1>2, <1>3, <1>7, <1>13, <1>14, <1>15, RotateShape
  <2> QED  BY <2>1
<1>17. \A r \in Sides, m \in S :
         u.kid[r][m] = IF m = w /\ r = s THEN g ELSE IF m = g /\ r = o THEN b
                       ELSE IF m = q /\ r = SideOf(v, g) THEN w ELSE t.kid[r][m]
  <2>1. \A r \in Sides, m \in S :
         u.kid[r][m] = IF m = w /\ r = s THEN g ELSE IF m = g /\ r = o THEN b
                       ELSE IF m = q /\ m # Dummy /\ r = SideOf(v, g) THEN w ELSE t.kid[r][m]
    BY <1>2, <1>5, <1>8, <1>13, <1>15 DEF RotatesTo
  <2> QED  BY <1>5, <2>1
<1>18. \A k \in ND : u.color[k] = IF k = y \/ k = g THEN "black" ELSE IF k = w THEN t.color[g] ELSE t.color[k]
  BY <1>12, <1>15 DEF RotatesTo
<1>19. SideOf(v, g) = SideOf(t, g)
  BY <1>13 DEF SideOf
<1>20. h \in [ND -> Nat] /\ h[Dummy] = 0
      /\ \A n \in S, r \in Sides : h[n] = Black(t, n) + h[t.kid[r][n]] + Gap(g, s, n, r)
  BY <1>1 DEF Heights
<1>21. PICK k \in [ND -> Nat] : \A n \in ND : k[n] = IF n = w THEN h[g] ELSE IF n = g THEN h[x] + 1
                                                   ELSE IF n = y THEN h[y] + 1 ELSE h[n]
  <2> DEFINE K == [n \in ND |-> IF n = w THEN h[g] ELSE IF n = g THEN h[x] + 1
                                ELSE IF n = y THEN h[y] + 1 ELSE h[n]]
  <2>2. \A n \in ND : h[n] \in Nat
    BY <1>20
  <2>4. g \in ND /\ y \in ND
    BY <1>1, <1>5
  <2>5. h[g] \in Nat /\ h[y] \in Nat
    BY <2>2, <2>4
  <2>1. h[g] \in Nat /\ h[x] + 1 \in Nat /\ h[y] + 1 \in Nat
    BY <1>4, <2>5
  <2>3. K \in [ND -> Nat]
    BY ONLY <2>1, <2>2
  <2> QED  BY <2>3
<1>22. /\ Black(u, w) = Black(t, g) /\ Black(u, g) = 1 /\ Black(u, y) = 1 /\ Black(t, y) = 0 /\ Black(t, w) = 1
       /\ \A n \in S : /\ Black(t, n) \in Nat
                       /\ n # w /\ n # g /\ n # y => Black(u, n) = Black(t, n)
  <2>1. w # g /\ y # w /\ y # g /\ w \in ND /\ g \in ND /\ y \in ND
    BY <1>1, <1>3, <1>5, <1>9
  <2>2. u.color[w] = t.color[g] /\ u.color[g] = "black" /\ u.color[y] = "black"
    BY <1>18, <2>1
  <2>3. t.color[y] = "red" /\ t.color[w] = "black"
    BY <1>3, <1>6
  <2>4. \A n \in S : n # w /\ n # g /\ n # y => u.color[n] = t.color[n]
    BY <1>5, <1>18
  <2> QED  BY <2>2, <2>3, <2>4 DEF Black
<1>23. h[y] = h[x] /\ h[b] = h[x]
  <2>1. h[w] = Black(t, w) + h[y] + Gap(g, s, w, o) /\ h[w] = Black(t, w) + h[b] + Gap(g, s, w, s)
    BY <1>1, <1>2, <1>6, <1>7, <1>20
  <2>2. Gap(g, s, w, o) = 0 /\ Gap(g, s, w, s) = 0
    BY <1>3 DEF Gap
  <2>3. h[y] \in Nat /\ h[b] \in Nat
    BY <1>5, <1>20
  <2> QED  BY <1>4, <1>22, <2>1, <2>2, <2>3
<1>24. ASSUME NEW n \in S, NEW r \in Sides
       PROVE  k[n] = Black(u, n) + k[u.kid[r][n]] + Gap(Dummy, "left", n, r)
  <2>1. Gap(Dummy, "left", n, r) = 0
    BY <1>5 DEF Gap
  <2>2. PICK c \in ND : c = t.kid[r][n] /\ c \in S \union {Dummy} /\ (c # Dummy => t.parent[c] = n)
    BY <1>1, KidTypes
  <2>3. h[n] = Black(t, n) + h[c] + Gap(g, s, n, r) /\ h[c] \in Nat /\ h[n] \in Nat
    BY <1>5, <1>20, <2>2
  <2>4. CASE n = w /\ r = s
    <3>1. u.kid[r][n] = g
      BY <1>17, <2>4
    <3>2. w # g /\ w \in ND /\ g \in ND
      BY <1>1, <1>3, <1>5
    <3>3. k[n] = h[g] /\ k[g] = h[x] + 1
      BY <1>21, <2>4, <3>2
    <3>4. Black(u, n) = Black(t, g) /\ Black(t, g) \in Nat
      BY <1>1, <1>22, <2>4
    <3> QED  BY <1>4, <2>1, <3>1, <3>3, <3>4
  <2>5. CASE n = w /\ r = o
    <3>1. u.kid[r][n] = y
      BY <1>2, <1>3, <1>6, <1>8, <1>17, <2>5
    <3>2. k[n] = h[g] /\ k[y] = h[y] + 1
      BY <1>5, <1>9, <1>21, <2>5
    <3>3. Black(u, n) = Black(t, g) /\ Black(t, g) \in Nat
      BY <1>1, <1>22, <2>5
    <3> QED  BY <1>4, <1>23, <2>1, <3>1, <3>2, <3>3
  <2>6. CASE n = g /\ r = s
    <3>1. u.kid[r][n] = x
      BY <1>1, <1>2, <1>3, <1>8, <1>17, <2>6
    <3>2. x \in ND /\ k[n] = h[x] + 1 /\ k[x] = h[x]
      BY <1>1, <1>3, <1>5, <1>9, <1>21, <2>6
    <3> QED  BY <1>4, <1>22, <2>1, <2>6, <3>1, <3>2
  <2>7. CASE n = g /\ r = o
    <3>1. u.kid[r][n] = b
      BY <1>2, <1>3, <1>17, <2>7
    <3>2. k[n] = h[x] + 1 /\ k[b] = h[b]
      BY <1>3, <1>5, <1>7, <1>9, <1>21, <2>7
    <3> QED  BY <1>4, <1>22, <1>23, <2>1, <2>7, <3>1, <3>2
  <2>8. CASE n # g /\ n # w
    <3>1. Gap(g, s, n, r) = 0 /\ c # w
      BY <1>3, <1>5, <2>2, <2>8 DEF Gap
    <3>2. CASE n = q /\ r = SideOf(v, g)
      <4>1. u.kid[r][n] = w /\ n # y
        BY <1>10, <1>17, <2>8, <3>2
      <4>2. c = g
        <5>1. q # Dummy
          BY <1>5, <3>2
        <5> QED  BY <1>1, <1>8, <1>19, <2>2, <3>2, <5>1, ParentIs
      <4>3. k[n] = h[n] /\ k[w] = h[g]
        BY <1>5, <1>21, <2>8, <4>1
      <4> QED  BY <1>22, <2>1, <2>3, <2>8, <3>1, <4>1, <4>2, <4>3
    <3>3. CASE ~(n = q /\ r = SideOf(v, g))
      <4>1. u.kid[r][n] = c
        BY <1>17, <2>2, <2>8, <3>3
      <4>2. c # g
        <5> SUFFICES ASSUME c = g PROVE FALSE
          OBVIOUS
        <5> QED  BY <1>1, <1>8, <1>19, <2>2, <3>3, KidIs
      <4>3. c # y
        BY <1>5, <1>6, <2>2, <2>8
      <4>4. k[c] = h[c]
        BY <1>21, <2>2, <3>1, <4>2, <4>3
      <4>5. CASE n = y
        <5>1. k[n] = h[n] + 1
          BY <1>5, <1>9, <1>21, <4>5
        <5> QED  BY <1>22, <2>1, <2>3, <3>1, <4>1, <4>4, <4>5, <5>1
      <4>6. CASE n # y
        <5>1. k[n] = h[n]
          BY <1>5, <1>21, <2>8, <4>6
        <5> QED  BY <1>22, <2>1, <2>3, <2>8, <3>1, <4>1, <4>4, <4>6, <5>1
      <4> QED  BY <4>5, <4>6
    <3> QED  BY <3>2, <3>3
  <2> QED  BY <1>2, <2>4, <2>5, <2>6, <2>7, <2>8, SidesAre
<1>25. Heights(u, S, k, Dummy, "left")
  <2>1. k[Dummy] = 0
    BY <1>1, <1>3, <1>5, <1>20, <1>21
  <2> QED  BY <1>21, <1>24, <2>1 DEF Heights
<1>26. u.color[Dummy] = "black"
  BY <1>1, <1>3, <1>5, <1>18
<1>27. Sound(u, S, l, p, f, k, Dummy, "left")
  BY <1>16, <1>25, <1>26 DEF Sound
<1>28. ASSUME NEW n \in S, RedPair(u, n) PROVE FALSE
  <2>1. u.parent[n] = IF n = g THEN w ELSE IF n = w THEN q ELSE IF n = b THEN g ELSE t.parent[n]
    BY <1>5, <1>8, <1>13, <1>15 DEF RotatesTo
  <2>2. n # g /\ n # y /\ u.color[n] = "red"
    BY <1>5, <1>18, <1>28 DEF RedPair
  <2>3. n # b
    <3> SUFFICES ASSUME n = b PROVE FALSE
      OBVIOUS
    <3>1. u.parent[n] = g
      BY <1>7, <2>1, <2>2
    <3>2. u.color[g] = "black"
      BY <1>1, <1>5, <1>18
    <3> QED  BY <1>28, <3>1, <3>2 DEF RedPair
  <2>4. CASE n = w
    <3>1. t.color[g] = "red" /\ q \in ND /\ u.color[q] = "red"
      BY <1>3, <1>5, <1>9, <1>18, <1>28, <2>1, <2>4 DEF RedPair
    <3>2. t.color[q] = "red"
      BY <1>8, <1>10, <1>18, <3>1
    <3> QED  BY <1>1, <1>8, <3>1, <3>2 DEF RedPair
  <2>5. CASE n # w
    <3>1. PICK c \in S \union {Dummy} : c = t.parent[n] /\ u.color[c] = "red" /\ t.color[n] = "red"
      <4>1. t.parent[n] \in S \union {Dummy}
        BY <1>1, ParentIs
      <4> QED  BY <1>5, <1>18, <1>28, <2>1, <2>2, <2>3, <2>5, <4>1 DEF RedPair
    <3>2. c # g /\ c # y
      BY <1>5, <1>18, <3>1
    <3>3. c # w
      <4> SUFFICES ASSUME c = w PROVE FALSE
        OBVIOUS
      <4>1. n # t.root
        BY <1>1, <1>5, <3>1, ParentIs
      <4>2. SideOf(t, n) \in Sides /\ t.kid[SideOf(t, n)][w] = n
        BY <1>1, <3>1, <4>1, ParentIs
      <4> QED  BY <1>2, <1>6, <1>7, <2>2, <2>3, <4>2, SidesAre
    <3>4. t.color[c] = "red"
      BY <1>5, <1>18, <3>1, <3>2, <3>3
    <3> QED  BY <1>1, <3>1, <3>4 DEF RedPair
  <2> QED  BY <2>4, <2>5
<1>29. u.color[u.root] = "black" /\ u.root \in S
  <2>1. u.root = IF q = Dummy THEN w ELSE t.root
    BY <1>8, <1>13, <1>15 DEF RotatesTo
  <2>2. q = Dummy <=> g = t.root
    BY <1>1, <1>8, ParentIs
  <2>3. t.root # w /\ t.root \in S
    <3>1. t.root # w
      BY <1>1, <1>2, <1>3, KidIs
    <3> QED  BY <1>1, <3>1 DEF Shape, Top
  <2> QED  BY <1>1, <1>3, <1>5, <1>9, <1>18, <2>1, <2>2, <2>3
<1>30. Outside(S, t, u)
  BY <1>1, <1>2, <1>3, <1>7, <1>12, <1>15, RotateOutside
<1> QED  BY <1>27, <1>28, <1>29, <1>30 DEF u

-----------------------------------------------------------------------------
(* A node comes and goes.                                                  *)

\* Every node has a number of its own.
Apart(S, l, p) == \A n \in S : p[n] \in 1 .. l /\ \A m \in S : p[m] = p[n] => m = n

\* Links and colours where z has been linked to side s of m.
LinksTo(t, z, s, m, u) ==
  /\ u \in Trees /\ u.root = t.root /\ u.color = t.color
  /\ \A r \in Sides, n \in ND : u.kid[r][n] = IF r = s /\ n = m THEN z ELSE t.kid[r][n]
  /\ \A n \in ND : u.parent[n] = IF n = z THEN m ELSE t.parent[n]

\* A leaf more: the numbers behind it move up by one.
LEMMA LinkShape ==
  ASSUME NEW t, NEW S, NEW l, NEW p, NEW e, Shape(t, S, l, p, e), Apart(S, l, p),
         NEW z \in Nodes, z \notin S, NEW m \in S, NEW s \in Sides,
         t.kid[s][m] = Dummy, \A r \in Sides : t.kid[r][z] = Dummy,
         NEW q \in Int, q = (IF s = "left" THEN p[m] - 1 ELSE p[m]),
         NEW u, LinksTo(t, z, s, m, u),
         NEW w \in Numbers, w[z] = q + 1, \A n \in S : w[n] = IF p[n] > q THEN p[n] + 1 ELSE p[n]
  PROVE  \E f : Shape(u, S \union {z}, l + 1, w, f)
<1>1. /\ S \in SUBSET Nodes /\ l \in Nat /\ p \in Numbers /\ e \in Ends /\ Dummy \notin S /\ m \in ND /\ z \in ND
      /\ z # Dummy /\ z # m /\ \A n \in S : n \in ND
  BY NodeIs, NodesAssumption DEF Shape, ND
<1>2. PICK x \in Int : x = p[m] /\ x >= 1 /\ x <= l
  BY <1>1 DEF Apart
<1>3. \A n \in S : p[n] \in Int /\ \A r \in Sides : e[r][n] \in Int
  BY <1>1, NumberTypes
<1>4. PICK f \in Ends :
        /\ \A n \in S : /\ f["left"][n] = IF e["left"][n] > x THEN e["left"][n] + 1 ELSE e["left"][n]
                        /\ f["right"][n] = IF e["right"][n] >= x THEN e["right"][n] + 1 ELSE e["right"][n]
        /\ \A r \in Sides : f[r][z] = q + 1
  <2> DEFINE F == [r \in Sides |-> [n \in ND |->
                     IF n = z THEN q + 1
                     ELSE IF e[r][n] > x \/ (r = "right" /\ e[r][n] = x) THEN e[r][n] + 1 ELSE e[r][n]]]
  <2>1. \A r \in Sides, n \in ND : e[r][n] \in Int
    BY <1>1 DEF Ends
  <2>2. F \in Ends
    BY <2>1 DEF Ends
  <2>3. \A n \in S : n \in ND /\ n # z
    BY <1>1
  <2>4. \A n \in S : /\ F["left"][n] = IF e["left"][n] > x THEN e["left"][n] + 1 ELSE e["left"][n]
                     /\ F["right"][n] = IF e["right"][n] >= x THEN e["right"][n] + 1 ELSE e["right"][n]
    BY <1>3, <2>3, SidesAre DEF Sides
  <2>5. \A r \in Sides : F[r][z] = q + 1
    BY <1>1
  <2> HIDE DEF F
  <2> QED  BY <2>2, <2>4, <2>5
<1>5. \A n \in S : e["left"][n] <= p[n] /\ p[n] <= e["right"][n]
  BY DEF Shape, Spans
<1>6. \A n \in S : n # m => p[n] # x
  BY <1>2 DEF Apart
<1>7. q = x \/ q = x - 1
  BY <1>2
<1>8. ASSUME NEW n \in S PROVE w[n] = IF p[n] > x \/ (p[n] = x /\ s = "left") THEN p[n] + 1 ELSE p[n]
  BY <1>2, <1>3, <1>6
<1>9. /\ u \in Trees /\ u.root = t.root
      /\ \A r \in Sides, n \in S : u.kid[r][n] = IF r = s /\ n = m THEN z ELSE t.kid[r][n]
      /\ \A r \in Sides : u.kid[r][z] = Dummy
      /\ \A n \in S : u.parent[n] = t.parent[n]
      /\ u.parent[z] = m
  BY <1>1 DEF LinksTo
<1>10. t.root \in S /\ e["left"][t.root] = 1 /\ e["right"][t.root] = l
  BY DEF Shape, Top
<1>11. Top(u, S \union {z}, l + 1, f)
  BY <1>1, <1>2, <1>4, <1>9, <1>10 DEF Top
<1>12. ASSUME NEW n \in S \union {z} PROVE Spans(w, f, n)
  <2>1. CASE n = z
    BY <1>4, <2>1, SidesAre DEF Spans
  <2>2. CASE n \in S
    BY <1>3, <1>4, <1>5, <1>6, <1>8, <2>2, SidesAre DEF Spans
  <2> QED  BY <2>1, <2>2
<1>13. ASSUME NEW n \in S \union {z} PROVE Hangs(u, S \union {z}, n)
  <2>1. CASE n = z
    <3>1. n # u.root
      BY <1>9, <1>10, <2>1
    <3> QED  BY <1>9, <2>1, <3>1 DEF Hangs
  <2>2. CASE n = t.root
    BY <1>1, <1>9, <1>10, <2>2, ParentIs DEF Hangs
  <2>3. CASE n \in S /\ n # t.root
    <3>1. PICK g \in S, r \in Sides : g = t.parent[n] /\ t.kid[r][g] = n
      BY <2>3, ParentIs
    <3>2. u.kid[r][g] = n
      BY <1>1, <1>9, <2>3, <3>1
    <3> QED  BY <1>9, <2>3, <3>1, <3>2 DEF Hangs
  <2> QED  BY <2>1, <2>2, <2>3
<1>14. ASSUME NEW n \in S \union {z}, NEW r \in Sides PROVE Link(u, S \union {z}, w, f, r, n)
  <2>1. CASE n = z
    BY <1>4, <1>9, <2>1 DEF Link
  <2>2. CASE n = m /\ r = s
    <3>1. u.kid[r][n] = z /\ u.parent[z] = n
      BY <1>9, <2>2
    <3>2. e[s][m] = x
      BY <1>2, KidTypes
    <3>3. f[s][m] = q + 1 /\ f[Other(s)][z] = w[m] + Dir(s) /\ f[s][z] = q + 1
      <4>1. Other(s) \in Sides
        BY SidesAre
      <4>2. w[m] = IF s = "left" THEN x + 1 ELSE x
        BY <1>2, <1>8
      <4>5. f[Other(s)][z] = q + 1 /\ f[s][z] = q + 1
        BY <1>4, <4>1
      <4>3. CASE s = "left"
        <5>1. q = x - 1 /\ w[m] = x + 1 /\ Dir(s) = -1
          BY <1>2, <4>2, <4>3 DEF Dir
        <5>2. e["left"][m] = x
          BY <3>2, <4>3
        <5>3. f["left"][m] = x
          BY <1>2, <1>4, <5>2
        <5> QED  BY <1>2, <4>3, <4>5, <5>1, <5>3
      <4>4. CASE s = "right"
        <5>1. q = x /\ w[m] = x /\ Dir(s) = 1
          BY <1>2, <4>2, <4>4 DEF Dir
        <5>2. e["right"][m] = x
          BY <3>2, <4>4
        <5>3. f["right"][m] = x + 1
          BY <1>2, <1>4, <5>2
        <5> QED  BY <1>2, <4>4, <4>5, <5>1, <5>3
      <4> QED  BY <4>3, <4>4 DEF Sides
    <3> QED  BY <2>2, <3>1, <3>3 DEF Link
  <2>3. CASE n \in S /\ ~(n = m /\ r = s)
    <3>1. PICK k : k = t.kid[r][n] /\ u.kid[r][n] = k
      BY <1>9, <2>3
    <3>2. p[n] = x => s = Other(r) /\ n = m
      BY <1>2, <1>6, <2>3, SidesAre
    <3>3. CASE k = Dummy
      <4>0. n \in S /\ t.kid[r][n] = Dummy
        BY <2>3, <3>1, <3>3
      <4>1. e[r][n] = p[n]
        BY <4>0, KidTypes
      <4>2. CASE r = "left"
        BY <1>3, <1>4, <1>8, <2>3, <3>1, <3>2, <3>3, <4>1, <4>2 DEF Link, Other
      <4>3. CASE r = "right"
        BY <1>3, <1>4, <1>8, <2>3, <3>1, <3>2, <3>3, <4>1, <4>3 DEF Link, Other
      <4> QED  BY <4>2, <4>3 DEF Sides
    <3>4. CASE k # Dummy
      <4>1. k \in S /\ t.parent[k] = n
        BY <2>3, <3>1, <3>4, KidTypes
      <4>2. e[r][k] = e[r][n] /\ e[Other(r)][k] = p[n] + Dir(r)
        BY <2>3, <3>1, <4>1, KidIs
      <4>3. u.parent[k] = n
        BY <1>9, <4>1
      <4>4. f[r][k] = f[r][n]
        BY <1>4, <2>3, <4>1, <4>2 DEF Sides
      <4>5. f[Other(r)][k] = w[n] + Dir(r)
        <5>1. CASE r = "left"
          BY <1>3, <1>4, <1>8, <2>3, <3>2, <4>1, <4>2, <5>1 DEF Dir, Other
        <5>2. CASE r = "right"
          BY <1>3, <1>4, <1>8, <2>3, <3>2, <4>1, <4>2, <5>2 DEF Dir, Other
        <5> QED  BY <5>1, <5>2 DEF Sides
      <4> QED  BY <3>1, <4>1, <4>3, <4>4, <4>5 DEF Link
    <3> QED  BY <3>3, <3>4
  <2> QED  BY <2>1, <2>2, <2>3
<1>15. S \union {z} \in SUBSET Nodes /\ l + 1 \in Nat
  BY <1>1
<1> QED  BY <1>4, <1>9, <1>11, <1>12, <1>13, <1>14, <1>15 DEF Shape

\* No red follows a red; only z may follow one; z has no kids.
Calm(t, S) == \A n \in S : ~RedPair(t, n)
OneRed(t, S, z) == \A n \in S : RedPair(t, n) => n = z
Leaf(t, z) == \A s \in Sides : t.kid[s][z] = Dummy

\* A red leaf adds no black.
LEMMA LinkSound ==
  ASSUME NEW t, NEW S, NEW l, NEW p, NEW e, NEW h, Sound(t, S, l, p, e, h, Dummy, "left"),
         NEW z \in Nodes, z \notin S, NEW m \in S, NEW s \in Sides,
         t.kid[s][m] = Dummy, Leaf(t, z), t.color[z] = "red",
         NEW u, LinksTo(t, z, s, m, u), NEW j, NEW w, NEW f, Shape(u, S \union {z}, j, w, f),
         Calm(t, S)
  PROVE  (\E k : Sound(u, S \union {z}, j, w, f, k, Dummy, "left")) /\ OneRed(u, S \union {z}, z)
<1>1. Shape(t, S, l, p, e) /\ Heights(t, S, h, Dummy, "left") /\ t.color[Dummy] = "black"
  BY DEF Sound
<1>2. /\ S \in SUBSET Nodes /\ Dummy \notin S /\ m \in ND /\ z \in ND
      /\ z # Dummy /\ z # m /\ \A n \in S : n \in ND
  BY <1>1, NodeIs, NodesAssumption DEF Shape, ND
<1>3. /\ u.color = t.color
      /\ \A r \in Sides, n \in S : u.kid[r][n] = IF r = s /\ n = m THEN z ELSE t.kid[r][n]
      /\ \A r \in Sides : u.kid[r][z] = Dummy
      /\ \A n \in S : u.parent[n] = t.parent[n]
  BY <1>2 DEF LinksTo, Leaf
<1>4. h \in [ND -> Nat] /\ h[Dummy] = 0
      /\ \A n \in S, r \in Sides : h[n] = Black(t, n) + h[t.kid[r][n]] + Gap(Dummy, "left", n, r)
  BY <1>1 DEF Heights
<1>5. PICK k \in [ND -> Nat] : \A n \in ND : k[n] = IF n = z THEN 0 ELSE h[n]
  <2> DEFINE K == [n \in ND |-> IF n = z THEN 0 ELSE h[n]]
  <2>1. K \in [ND -> Nat]
    BY <1>4
  <2> QED  BY <2>1
<1>6. ASSUME NEW n \in S \union {z}, NEW r \in Sides
      PROVE  k[n] = Black(u, n) + k[u.kid[r][n]] + Gap(Dummy, "left", n, r)
  <2>1. Gap(Dummy, "left", n, r) = 0
    BY <1>2 DEF Gap
  <2>2. k[Dummy] = 0 /\ k[z] = 0 /\ Dummy \in ND
    BY <1>2, <1>4, <1>5 DEF ND
  <2>3. CASE n = z
    <3>1. Black(u, n) = 0
      BY <1>3, <2>3 DEF Black
    <3> QED  BY <1>3, <2>1, <2>2, <2>3, <3>1
  <2>4. CASE n \in S
    <3>1. PICK c \in ND : c = t.kid[r][n] /\ c \in S \union {Dummy}
      BY <1>1, <2>4, KidTypes
    <3>2. Black(u, n) = Black(t, n) /\ k[n] = h[n] /\ k[c] = h[c]
      BY <1>2, <1>3, <1>5, <2>4, <3>1 DEF Black
    <3>3. h[n] = Black(t, n) + h[c] + Gap(Dummy, "left", n, r)
      BY <1>4, <2>4, <3>1
    <3>4. k[u.kid[r][n]] = k[c]
      BY <1>3, <2>2, <2>4, <3>1
    <3> QED  BY <3>2, <3>3, <3>4
  <2> QED  BY <2>3, <2>4
<1>7. Heights(u, S \union {z}, k, Dummy, "left")
  <2>1. k[Dummy] = 0
    BY <1>2, <1>4, <1>5 DEF ND
  <2> QED  BY <1>5, <1>6, <2>1 DEF Heights
<1>8. ASSUME NEW n \in S, RedPair(u, n) PROVE FALSE
  BY <1>3, <1>8 DEF RedPair, Calm
<1> QED  BY <1>1, <1>3, <1>7, <1>8 DEF Sound, OneRed

\* The first node becomes the root.
LEMMA FirstSound ==
  ASSUME NEW t, NEW p, NEW e, NEW h, Sound(t, {}, 0, p, e, h, Dummy, "left"),
         NEW z \in Nodes, \A r \in Sides : t.kid[r][z] = Dummy,
         NEW u \in Trees, u.root = z, u.kid = t.kid, u.color = t.color, u.parent[z] = Dummy,
         t.color[z] = "red", NEW w \in Numbers, w[z] = 1
  PROVE  \E f, k : Sound(u, {z}, 1, w, f, k, Dummy, "left")
<1>1. h \in [ND -> Nat] /\ h[Dummy] = 0 /\ t.color[Dummy] = "black" /\ z \in ND /\ z # Dummy /\ Dummy \in ND
  BY NodesAssumption DEF Sound, Heights, ND
<1> DEFINE f == [r \in Sides |-> [n \in ND |-> 1]]
           k == [n \in ND |-> 0]
<1>2. f \in Ends /\ \A r \in Sides : f[r][z] = 1
  BY <1>1 DEF Ends
<1>3. k \in [ND -> Nat] /\ k[Dummy] = 0 /\ k[z] = 0
  BY <1>1
<1> HIDE DEF f, k
<1>4. Top(u, {z}, 1, f)
  BY <1>2, SidesAre DEF Top
<1>5. Spans(w, f, z)
  BY <1>2, SidesAre DEF Spans
<1>6. Hangs(u, {z}, z)
  BY DEF Hangs
<1>7. \A r \in Sides : Link(u, {z}, w, f, r, z)
  BY <1>2 DEF Link
<1>8. Shape(u, {z}, 1, w, f)
  BY <1>2, <1>4, <1>5, <1>6, <1>7 DEF Shape
<1>9. \A r \in Sides : k[z] = Black(u, z) + k[u.kid[r][z]] + Gap(Dummy, "left", z, r)
  <2>1. Black(u, z) = 0
    BY DEF Black
  <2>2. \A r \in Sides : Gap(Dummy, "left", z, r) = 0
    BY <1>1 DEF Gap
  <2> QED  BY <1>3, <2>1, <2>2
<1>10. Heights(u, {z}, k, Dummy, "left")
  BY <1>3, <1>9 DEF Heights
<1> QED  BY <1>1, <1>8, <1>10 DEF Sound

\* Links where c, the only kid of z, has taken its place.
SplicesTo(t, z, c, u) ==
  /\ u \in Trees /\ u.color = t.color
  /\ u.root = IF t.parent[z] = Dummy THEN c ELSE t.root
  /\ \A r \in Sides, m \in ND :
       u.kid[r][m] = IF m = t.parent[z] /\ m # Dummy /\ r = SideOf(t, z) THEN c ELSE t.kid[r][m]
  /\ \A m \in ND : u.parent[m] = IF m = c THEN t.parent[z] ELSE t.parent[m]

\* A node less: the numbers behind it move down by one.
LEMMA SpliceShape ==
  ASSUME NEW t, NEW S, NEW l, NEW p, NEW e, Shape(t, S, l, p, e), Apart(S, l, p),
         NEW z \in S, NEW d \in Sides, t.kid[d][z] = Dummy, NEW c, c = t.kid[Other(d)][z],
         NEW u, SplicesTo(t, z, c, u),
         NEW w \in Numbers, \A n \in S \ {z} : w[n] = IF p[n] > p[z] THEN p[n] - 1 ELSE p[n]
  PROVE  \E f : Shape(u, S \ {z}, l - 1, w, f)
<1>0. PICK o \in Sides : o = Other(d) /\ o # d /\ d = Other(o)
  BY SidesAre
<1>1. /\ S \in SUBSET Nodes /\ l \in Nat /\ p \in Numbers /\ e \in Ends /\ Dummy \notin S /\ z \in ND
      /\ \A n \in S : n \in ND
  BY NodeIs DEF Shape
<1>2. PICK x \in Int : x = p[z] /\ x >= 1 /\ x <= l
  BY <1>1 DEF Apart
<1>3. \A n \in S : p[n] \in Int /\ \A r \in Sides : e[r][n] \in Int
  BY <1>1, NumberTypes
<1>4. PICK f \in Ends :
        /\ \A n \in S : /\ f["left"][n] = IF e["left"][n] > x THEN e["left"][n] - 1 ELSE e["left"][n]
                        /\ f["right"][n] = IF e["right"][n] >= x THEN e["right"][n] - 1 ELSE e["right"][n]
  <2> DEFINE F == [r \in Sides |-> [n \in ND |->
                     IF e[r][n] > x \/ (r = "right" /\ e[r][n] = x) THEN e[r][n] - 1 ELSE e[r][n]]]
  <2>1. \A r \in Sides, n \in ND : e[r][n] \in Int
    BY <1>1 DEF Ends
  <2>2. F \in Ends
    BY <2>1 DEF Ends
  <2>3. \A n \in S : n \in ND
    BY <1>1
  <2>4. \A n \in S : /\ F["left"][n] = IF e["left"][n] > x THEN e["left"][n] - 1 ELSE e["left"][n]
                     /\ F["right"][n] = IF e["right"][n] >= x THEN e["right"][n] - 1 ELSE e["right"][n]
    BY <1>3, <2>3, SidesAre DEF Sides
  <2> HIDE DEF F
  <2> QED  BY <2>2, <2>4
<1>5. \A n \in S : e["left"][n] <= p[n] /\ p[n] <= e["right"][n]
  BY DEF Shape, Spans
<1>6. \A n \in S : n # z => p[n] # x
  BY <1>2 DEF Apart
<1>7. \A n \in S \ {z} : w[n] = IF p[n] > x THEN p[n] - 1 ELSE p[n]
  BY <1>2
<1>8. PICK q \in S \union {Dummy}, a \in Sides :
        /\ q = t.parent[z] /\ a = SideOf(t, z) /\ (q = Dummy <=> z = t.root)
        /\ q # Dummy => t.kid[a][q] = z
  <2>1. t.parent[z] \in S \union {Dummy} /\ SideOf(t, z) \in Sides /\ (t.parent[z] = Dummy <=> z = t.root)
    BY ParentIs
  <2>2. t.parent[z] # Dummy => t.kid[SideOf(t, z)][t.parent[z]] = z
    BY <2>1, ParentIs
  <2> QED  BY <2>1, <2>2
<1>9. c \in S \union {Dummy} /\ (c # Dummy => t.parent[c] = z /\ c # z /\ c # t.root)
  BY <1>0, KidTypes, KidIs
<1>10. q # z
  <2> SUFFICES ASSUME q = z PROVE FALSE
    OBVIOUS
  <2> QED  BY <1>1, <1>8, KidIs
<1>11. /\ u \in Trees /\ u.root = (IF q = Dummy THEN c ELSE t.root)
       /\ \A r \in Sides, n \in S : u.kid[r][n] = IF n = q /\ r = a THEN c ELSE t.kid[r][n]
       /\ \A n \in S : u.parent[n] = IF n = c THEN q ELSE t.parent[n]
  <2>1. \A r \in Sides, n \in S : u.kid[r][n] = IF n = q /\ n # Dummy /\ r = a THEN c ELSE t.kid[r][n]
    BY <1>1, <1>8 DEF SplicesTo
  <2>2. \A r \in Sides, n \in S : u.kid[r][n] = IF n = q /\ r = a THEN c ELSE t.kid[r][n]
    BY <1>1, <2>1
  <2> QED  BY <1>1, <1>8, <2>2 DEF SplicesTo
<1>12. \A n \in S, r \in Sides : n # z /\ t.parent[n] = z => n = c
  <2> SUFFICES ASSUME NEW n \in S, n # z, t.parent[n] = z PROVE n = c
    OBVIOUS
  <2>1. n # t.root
    BY <1>1, ParentIs
  <2>2. SideOf(t, n) \in Sides /\ t.kid[SideOf(t, n)][z] = n
    BY <2>1, ParentIs
  <2> QED  BY <1>0, <1>1, <2>2, SidesAre
<1>13. e[d][z] = x
  BY <1>2, KidTypes
<1>14. t.root \in S /\ e["left"][t.root] = 1 /\ e["right"][t.root] = l
  BY DEF Shape, Top
<1>15. /\ c # Dummy => e[o][c] = e[o][z] /\ e[d][c] = x + Dir(o)
       /\ c = Dummy => e[o][z] = x
  <2>1. c # Dummy => e[o][c] = e[o][z] /\ e[d][c] = p[z] + Dir(o)
    BY <1>0, <1>9, KidIs
  <2>2. c = Dummy => e[o][z] = p[z]
    BY <1>0, KidTypes
  <2> QED  BY <1>2, <2>1, <2>2
<1>16. Top(u, S \ {z}, l - 1, f)
  <2>1. CASE q # Dummy
    BY <1>2, <1>4, <1>8, <1>11, <1>14, <2>1 DEF Top
  <2>2. CASE q = Dummy /\ c = Dummy
    <3>1. e["left"][z] = x /\ e["right"][z] = x
      BY <1>0, <1>13, <1>15, <2>2 DEF Sides, Other
    <3>2. x = 1 /\ l = 1
      BY <1>8, <1>14, <2>2, <3>1
    <3>3. \A n \in S : n = z
      BY <1>2, <3>2 DEF Apart
    <3> QED  BY <1>11, <2>2, <3>3 DEF Top
  <2>3. CASE q = Dummy /\ c # Dummy
    <3>1. u.root = c /\ c \in S \ {z} /\ z = t.root
      BY <1>8, <1>9, <1>11, <2>3
    <3>2. CASE d = "left"
      <4>1. o = "right"
        BY <1>0, <3>2 DEF Sides
      <4>2. e["left"][c] = x + 1 /\ e["left"][z] = x /\ e["right"][c] = e["right"][z]
        BY <1>13, <1>15, <2>3, <3>2, <4>1 DEF Dir
      <4>3. x = 1 /\ e["right"][c] = l /\ l >= 1
        BY <1>2, <1>14, <3>1, <4>2
      <4>4. f["left"][c] = 1
        BY <1>4, <3>1, <4>2, <4>3
      <4>5. f["right"][c] = l - 1
        BY <1>4, <3>1, <4>3
      <4> QED  BY <3>1, <4>4, <4>5 DEF Top
    <3>3. CASE d = "right"
      <4>1. o = "left"
        BY <1>0, <3>3 DEF Sides
      <4> QED  BY <1>2, <1>4, <1>13, <1>14, <1>15, <2>3, <3>1, <3>3, <4>1 DEF Top, Dir
    <3> QED  BY <3>2, <3>3 DEF Sides
  <2> QED  BY <2>1, <2>2, <2>3
<1>17. ASSUME NEW n \in S \ {z} PROVE Spans(w, f, n)
  <2>1. /\ f["left"][n] = IF e["left"][n] > x THEN e["left"][n] - 1 ELSE e["left"][n]
        /\ f["right"][n] = IF e["right"][n] >= x THEN e["right"][n] - 1 ELSE e["right"][n]
        /\ w[n] = IF p[n] > x THEN p[n] - 1 ELSE p[n]
        /\ p[n] # x /\ e["left"][n] <= p[n] /\ p[n] <= e["right"][n]
    BY <1>4, <1>5, <1>6, <1>7
  <2>2. p[n] \in Int /\ e["left"][n] \in Int /\ e["right"][n] \in Int
    BY <1>3, SidesAre
  <2> QED  BY <2>1, <2>2 DEF Spans
<1>18. ASSUME NEW n \in S \ {z} PROVE Hangs(u, S \ {z}, n)
  <2>1. CASE n = c
    <3>1. u.parent[n] = q
      BY <1>11, <2>1
    <3>2. CASE q = Dummy
      BY <1>11, <2>1, <3>1, <3>2 DEF Hangs
    <3>3. CASE q # Dummy
      <4>1. u.root # n
        BY <1>1, <1>9, <1>11, <2>1, <3>3
      <4>2. u.kid[a][q] = n
        BY <1>11, <2>1, <3>3
      <4> QED  BY <1>10, <3>1, <3>3, <4>1, <4>2 DEF Hangs
    <3> QED  BY <3>2, <3>3
  <2>2. CASE n # c /\ n = t.root
    <3>1. q # Dummy
      BY <1>8, <2>2
    <3> QED  BY <1>11, <2>2, <3>1, ParentIs DEF Hangs
  <2>3. CASE n # c /\ n # t.root
    <3>1. PICK g \in S, r \in Sides : g = t.parent[n] /\ t.kid[r][g] = n
      BY <2>3, ParentIs
    <3>2. g # z
      BY <1>12, <2>3, <3>1
    <3>3. ~(g = q /\ r = a)
      BY <1>1, <1>8, <3>1
    <3>4. u.kid[r][g] = n /\ u.parent[n] = g
      BY <1>11, <2>3, <3>1, <3>3
    <3>5. n # u.root
      BY <1>11, <2>3
    <3> QED  BY <3>1, <3>2, <3>4, <3>5 DEF Hangs
  <2> QED  BY <2>1, <2>2, <2>3
<1>19. ASSUME NEW n \in S \ {z}, NEW r \in Sides PROVE Link(u, S \ {z}, w, f, r, n)
  <2>0. /\ f["left"][n] = IF e["left"][n] > x THEN e["left"][n] - 1 ELSE e["left"][n]
        /\ f["right"][n] = IF e["right"][n] >= x THEN e["right"][n] - 1 ELSE e["right"][n]
        /\ w[n] = IF p[n] > x THEN p[n] - 1 ELSE p[n]
        /\ p[n] # x /\ e["left"][n] <= p[n] /\ p[n] <= e["right"][n]
        /\ p[n] \in Int /\ e["left"][n] \in Int /\ e["right"][n] \in Int
    BY <1>3, <1>4, <1>5, <1>6, <1>7, SidesAre
  <2>1. CASE n = q /\ r = a
    <3>1. u.kid[r][n] = c /\ q \in S /\ t.kid[r][n] = z
      BY <1>1, <1>8, <1>11, <2>1
    <3>2. e[r][z] = e[r][n] /\ e[Other(r)][z] = p[n] + Dir(r)
      BY <3>1, KidIs
    <3>3. CASE c = Dummy
      <4>1. e["left"][z] = x /\ e["right"][z] = x
        BY <1>0, <1>13, <1>15, <3>3 DEF Sides, Other
      <4>2. f[r][n] = w[n]
        <5>1. CASE r = "left"
          BY <1>2, <2>0, <3>2, <4>1, <5>1 DEF Dir, Other
        <5>2. CASE r = "right"
          BY <1>2, <2>0, <3>2, <4>1, <5>2 DEF Dir, Other
        <5> QED  BY <5>1, <5>2 DEF Sides
      <4> QED  BY <3>1, <3>3, <4>2 DEF Link
    <3>4. CASE c # Dummy
      <4>1. /\ f["left"][c] = IF e["left"][c] > x THEN e["left"][c] - 1 ELSE e["left"][c]
            /\ f["right"][c] = IF e["right"][c] >= x THEN e["right"][c] - 1 ELSE e["right"][c]
            /\ e["left"][c] \in Int /\ e["right"][c] \in Int
            /\ e["left"][z] \in Int /\ e["right"][z] \in Int
            /\ e["left"][z] <= x /\ x <= e["right"][z]
        BY <1>2, <1>3, <1>4, <1>5, <1>9, <3>4, SidesAre
      <4>2. CASE d = "left"
        <5>1. o = "right"
          BY <1>0, <4>2 DEF Sides
        <5>2. e["right"][c] = e["right"][z] /\ e["left"][c] = x + 1 /\ e["left"][z] = x
          BY <1>13, <1>15, <3>4, <4>2, <5>1 DEF Dir
        <5>3. f["left"][c] = x /\ f["right"][c] = e["right"][z] - 1
          BY <1>2, <4>1, <5>2
        <5>4. f[r][c] = f[r][n] /\ f[Other(r)][c] = w[n] + Dir(r)
          <6>1. CASE r = "left"
            BY <1>2, <2>0, <3>2, <4>1, <5>2, <5>3, <6>1 DEF Dir, Other
          <6>2. CASE r = "right"
            BY <1>2, <2>0, <3>2, <4>1, <5>2, <5>3, <6>2 DEF Dir, Other
          <6> QED  BY <6>1, <6>2 DEF Sides
        <5> QED  BY <1>9, <1>11, <2>1, <3>1, <3>4, <5>4 DEF Link
      <4>3. CASE d = "right"
        <5>1. o = "left"
          BY <1>0, <4>3 DEF Sides
        <5>2. e["left"][c] = e["left"][z] /\ e["right"][c] = x - 1 /\ e["right"][z] = x
          BY <1>2, <1>13, <1>15, <3>4, <4>3, <5>1 DEF Dir
        <5>3. f["left"][c] = e["left"][z] /\ f["right"][c] = x - 1
          BY <1>2, <4>1, <5>2
        <5>4. f[r][c] = f[r][n] /\ f[Other(r)][c] = w[n] + Dir(r)
          <6>1. CASE r = "left"
            BY <1>2, <2>0, <3>2, <4>1, <5>2, <5>3, <6>1 DEF Dir, Other
          <6>2. CASE r = "right"
            BY <1>2, <2>0, <3>2, <4>1, <5>2, <5>3, <6>2 DEF Dir, Other
          <6> QED  BY <6>1, <6>2 DEF Sides
        <5> QED  BY <1>9, <1>11, <2>1, <3>1, <3>4, <5>4 DEF Link
      <4> QED  BY <4>2, <4>3 DEF Sides
    <3> QED  BY <3>3, <3>4
  <2>2. CASE ~(n = q /\ r = a)
    <3>1. PICK k : k = t.kid[r][n] /\ u.kid[r][n] = k
      BY <1>11, <2>2
    <3>2. CASE k = Dummy
      <4>0. t.kid[r][n] = Dummy
        BY <3>1, <3>2
      <4>1. e[r][n] = p[n]
        BY <4>0, KidTypes
      <4>2. CASE r = "left"
        BY <1>2, <2>0, <3>1, <3>2, <4>1, <4>2 DEF Link
      <4>3. CASE r = "right"
        BY <1>2, <2>0, <3>1, <3>2, <4>1, <4>3 DEF Link
      <4> QED  BY <4>2, <4>3 DEF Sides
    <3>3. CASE k # Dummy
      <4>1. k \in S /\ t.parent[k] = n
        BY <3>1, <3>3, KidTypes
      <4>2. e[r][k] = e[r][n] /\ e[Other(r)][k] = p[n] + Dir(r) /\ SideOf(t, k) = r
        BY <3>1, <4>1, KidIs
      <4>3. k # z
        BY <1>8, <2>2, <4>1, <4>2
      <4>4. k # c
        BY <1>9, <3>3, <4>1
      <4>5. u.parent[k] = n
        BY <1>11, <4>1, <4>4
      <4>6. /\ f["left"][k] = IF e["left"][k] > x THEN e["left"][k] - 1 ELSE e["left"][k]
            /\ f["right"][k] = IF e["right"][k] >= x THEN e["right"][k] - 1 ELSE e["right"][k]
        BY <1>4, <4>1
      <4>7. f[r][k] = f[r][n] /\ f[Other(r)][k] = w[n] + Dir(r)
        <5>1. CASE r = "left"
          BY <1>2, <2>0, <4>2, <4>6, <5>1 DEF Dir, Other
        <5>2. CASE r = "right"
          BY <1>2, <2>0, <4>2, <4>6, <5>2 DEF Dir, Other
        <5> QED  BY <5>1, <5>2 DEF Sides
      <4> QED  BY <3>1, <4>1, <4>3, <4>5, <4>7 DEF Link
    <3> QED  BY <3>2, <3>3
  <2> QED  BY <2>1, <2>2
<1>20. S \ {z} \in SUBSET Nodes /\ l - 1 \in Nat
  BY <1>1, <1>2
<1> QED  BY <1>4, <1>11, <1>16, <1>17, <1>18, <1>19, <1>20 DEF Shape

\* Where a black node has been spliced out one black is missing; a red one is
\* missed nowhere.
LEMMA SpliceSound ==
  ASSUME NEW t, NEW S, NEW l, NEW p, NEW e, NEW h, Sound(t, S, l, p, e, h, Dummy, "left"),
         NEW z \in S, NEW d \in Sides, t.kid[d][z] = Dummy, NEW c, c = t.kid[Other(d)][z],
         NEW u, SplicesTo(t, z, c, u), NEW w, NEW f, Shape(u, S \ {z}, l - 1, w, f),
         \A n \in S : ~RedPair(t, n),
         NEW g, g = (IF t.color[z] = "black" THEN t.parent[z] ELSE Dummy)
  PROVE  /\ Sound(u, S \ {z}, l - 1, w, f, h, g, SideOf(t, z))
         /\ \A n \in S \ {z} : RedPair(u, n) => n = c /\ t.color[z] = "black"
         /\ t.parent[z] # Dummy => u.kid[SideOf(t, z)][t.parent[z]] = c /\ t.parent[z] \in S \ {z}
         /\ t.parent[z] = Dummy => u.root = c
         /\ u.parent[c] = t.parent[z] /\ c \in (S \ {z}) \union {Dummy}
<1>0. PICK o \in Sides : o = Other(d) /\ o # d /\ d = Other(o)
  BY SidesAre
<1>1. Shape(t, S, l, p, e) /\ Heights(t, S, h, Dummy, "left") /\ t.color[Dummy] = "black"
  BY DEF Sound
<1>2. /\ S \in SUBSET Nodes /\ Dummy \notin S /\ z \in ND /\ t \in Trees /\ Dummy \in ND
      /\ \A n \in S : n \in ND
  BY <1>1, NodeIs DEF Shape, ND
<1>3. PICK q \in S \union {Dummy}, a \in Sides :
        /\ q = t.parent[z] /\ a = SideOf(t, z) /\ q \in ND
        /\ q # Dummy => t.kid[a][q] = z
  <2>1. t.parent[z] \in S \union {Dummy} /\ SideOf(t, z) \in Sides /\ (t.parent[z] = Dummy <=> z = t.root)
    BY <1>1, ParentIs
  <2>2. t.parent[z] # Dummy => t.kid[SideOf(t, z)][t.parent[z]] = z
    BY <1>1, <2>1, ParentIs
  <2> QED  BY <1>2, <2>1, <2>2
<1>4. c \in S \union {Dummy} /\ c \in ND /\ (c # Dummy => t.parent[c] = z /\ c # z /\ c # t.root)
  BY <1>0, <1>1, <1>2, KidTypes, KidIs
<1>5. q # z
  <2> SUFFICES ASSUME q = z PROVE FALSE
    OBVIOUS
  <2> QED  BY <1>1, <1>2, <1>3, KidIs
<1>6. /\ u \in Trees /\ u.color = t.color /\ u.root = (IF q = Dummy THEN c ELSE t.root)
      /\ \A r \in Sides, n \in S : u.kid[r][n] = IF n = q /\ r = a THEN c ELSE t.kid[r][n]
      /\ \A n \in ND : u.parent[n] = IF n = c THEN q ELSE t.parent[n]
  <2>1. \A r \in Sides, n \in S : u.kid[r][n] = IF n = q /\ n # Dummy /\ r = a THEN c ELSE t.kid[r][n]
    BY <1>2, <1>3 DEF SplicesTo
  <2>2. \A r \in Sides, n \in S : u.kid[r][n] = IF n = q /\ r = a THEN c ELSE t.kid[r][n]
    BY <1>2, <2>1
  <2> QED  BY <1>3, <2>2 DEF SplicesTo
<1>7. /\ h \in [ND -> Nat] /\ h[Dummy] = 0
      /\ \A n \in S, r \in Sides : h[n] = Black(t, n) + h[t.kid[r][n]] + Gap(Dummy, "left", n, r)
  BY <1>1 DEF Heights
<1>8. \A n \in S, r \in Sides : h[n] = Black(t, n) + h[t.kid[r][n]]
  <2> TAKE n \in S, r \in Sides
  <2>1. PICK k \in ND : k = t.kid[r][n]
    BY <1>1, KidTypes
  <2>2. Gap(Dummy, "left", n, r) = 0
    BY <1>2 DEF Gap
  <2>3. h[n] = Black(t, n) + h[k] + Gap(Dummy, "left", n, r)
    BY <1>7, <2>1
  <2>4. Black(t, n) \in Nat /\ h[k] \in Nat
    BY <1>7 DEF Black
  <2>5. h[n] = Black(t, n) + h[k]
    BY <2>2, <2>3, <2>4
  <2> QED  BY <2>1, <2>5
<1>9. h[c] = 0 /\ h[z] = Black(t, z)
  <2>1. h[z] = Black(t, z) + h[Dummy] /\ h[z] = Black(t, z) + h[c]
    <3>1. h[z] = Black(t, z) + h[t.kid[d][z]] /\ h[z] = Black(t, z) + h[t.kid[o][z]]
      BY <1>8
    <3> QED  BY <1>0, <3>1
  <2>2. h[c] \in Nat /\ Black(t, z) \in Nat
    BY <1>4, <1>7 DEF Black
  <2> QED  BY <1>7, <2>1, <2>2
<1>10. ASSUME NEW n \in S \ {z}, NEW r \in Sides
       PROVE  h[n] = Black(u, n) + h[u.kid[r][n]] + Gap(g, a, n, r)
  <2>1. h[n] = Black(t, n) + h[t.kid[r][n]] /\ Black(u, n) = Black(t, n) /\ n # Dummy
    BY <1>2, <1>6, <1>8 DEF Black
  <2>2. Black(t, n) \in Nat
    BY DEF Black
  <2>3. CASE n = q /\ r = a
    <3>1. t.kid[r][n] = z /\ u.kid[r][n] = c
      BY <1>2, <1>3, <1>6, <2>3
    <3>2. Gap(g, a, n, r) = Black(t, z)
      BY <1>3, <2>1, <2>3 DEF Gap, Black
    <3>3. h[n] = Black(t, n) + Black(t, z) /\ h[u.kid[r][n]] = 0
      BY <1>9, <2>1, <3>1
    <3>4. Black(t, z) \in Nat
      BY DEF Black
    <3> QED  BY <2>1, <2>2, <3>2, <3>3, <3>4
  <2>4. CASE ~(n = q /\ r = a)
    <3>1. PICK k \in ND : u.kid[r][n] = k /\ t.kid[r][n] = k
      BY <1>1, <1>6, <2>4, KidTypes
    <3>2. Gap(g, a, n, r) = 0
      BY <1>3, <2>1, <2>4 DEF Gap
    <3>3. h[n] = Black(u, n) + h[k] /\ h[k] \in Nat
      BY <1>7, <2>1, <3>1
    <3> QED  BY <2>1, <2>2, <3>1, <3>2, <3>3
  <2> QED  BY <2>3, <2>4
<1>11. Heights(u, S \ {z}, h, g, a)
  BY <1>7, <1>10 DEF Heights
<1>12. Sound(u, S \ {z}, l - 1, w, f, h, g, SideOf(t, z))
  BY <1>1, <1>3, <1>6, <1>11 DEF Sound
<1>13. ASSUME NEW n \in S \ {z}, RedPair(u, n) PROVE n = c /\ t.color[z] = "black"
  <2>1. n \in ND /\ t.color[n] = "red" /\ t.color[u.parent[n]] = "red"
    BY <1>2, <1>6, <1>13 DEF RedPair
  <2>2. n = c
    <3> SUFFICES ASSUME n # c PROVE FALSE
      OBVIOUS
    <3> QED  BY <1>6, <2>1 DEF RedPair
  <2>3. t.color[q] = "red"
    BY <1>6, <2>1, <2>2
  <2>4. t.color[z] # "red"
    BY <1>3, <2>3 DEF RedPair
  <2> QED  BY <1>2, <2>2, <2>4, TreeFields DEF Colors
<1> QED  BY <1>2, <1>3, <1>4, <1>5, <1>6, <1>12, <1>13

\* v, or y where v is z.
Instead(v, z, y) == IF v = z THEN y ELSE v

\* Links and colours where y, which was not in the tree, has the place of z.
StandsFor(t, S, z, y, u) ==
  /\ u \in Trees /\ u.root = Instead(t.root, z, y)
  /\ \A r \in Sides : u.kid[r][y] = t.kid[r][z] /\ \A n \in S \ {z} : u.kid[r][n] = Instead(t.kid[r][n], z, y)
  /\ u.parent[y] = t.parent[z] /\ u.color[y] = t.color[z]
  /\ \A n \in S \ {z} : u.parent[n] = Instead(t.parent[n], z, y)
  /\ \A n \in (S \union {Dummy}) \ {z} : u.color[n] = t.color[n]

\* It has its number and its interval.
LEMMA StandShape ==
  ASSUME NEW t, NEW S, NEW l, NEW p, NEW e, Shape(t, S, l, p, e), NEW z \in S, NEW y \in Nodes, y \notin S,
         NEW u, StandsFor(t, S, z, y, u),
         NEW w \in Numbers, w[y] = p[z], \A n \in S \ {z} : w[n] = p[n]
  PROVE  \E f : Shape(u, (S \ {z}) \union {y}, l, w, f)
<1> DEFINE R == (S \ {z}) \union {y}
<1>1. /\ S \in SUBSET Nodes /\ l \in Nat /\ p \in Numbers /\ e \in Ends /\ Dummy \notin S /\ y \in ND /\ y # Dummy
      /\ \A n \in S : n \in ND
  BY NodeIs, NodesAssumption DEF Shape, ND
<1>2. PICK f \in Ends : /\ \A s \in Sides : f[s][y] = e[s][z]
                        /\ \A s \in Sides, n \in S \ {z} : f[s][n] = e[s][n]
  <2> DEFINE F == [s \in Sides |-> [n \in ND |-> IF n = y THEN e[s][z] ELSE e[s][n]]]
  <2>1. F \in Ends
    BY <1>1 DEF Ends
  <2>2. \A s \in Sides : F[s][y] = e[s][z]
    BY <1>1
  <2>3. \A s \in Sides, n \in S \ {z} : F[s][n] = e[s][n]
    BY <1>1
  <2> QED  BY <2>1, <2>2, <2>3
<1>3. /\ u \in Trees /\ u.root = (IF t.root = z THEN y ELSE t.root)
      /\ \A r \in Sides : u.kid[r][y] = t.kid[r][z]
      /\ \A r \in Sides, n \in S \ {z} : u.kid[r][n] = IF t.kid[r][n] = z THEN y ELSE t.kid[r][n]
      /\ u.parent[y] = t.parent[z]
      /\ \A n \in S \ {z} : u.parent[n] = IF t.parent[n] = z THEN y ELSE t.parent[n]
  BY DEF StandsFor, Instead
<1>4. /\ t.root \in S /\ e["left"][t.root] = 1 /\ e["right"][t.root] = l
      /\ \A n \in S : Spans(p, e, n) /\ Hangs(t, S, n) /\ \A s \in Sides : Link(t, S, p, e, s, n)
  BY DEF Shape, Top
<1>5. \A r \in Sides : t.kid[r][z] # z
  <2> SUFFICES ASSUME NEW r \in Sides, t.kid[r][z] = z PROVE FALSE
    OBVIOUS
  <2> QED  BY KidIs
<1>6. t.parent[z] # z
  <2> SUFFICES ASSUME t.parent[z] = z PROVE FALSE
    OBVIOUS
  <2>1. \E r \in Sides : t.kid[r][z] = z
    BY <1>1, <1>4 DEF Hangs
  <2> QED  BY <1>5, <2>1
<1>7. Top(u, R, l, f)
  <2>1. CASE t.root = z
    BY <1>2, <1>3, <1>4, <2>1, SidesAre DEF Top
  <2>2. CASE t.root # z
    BY <1>2, <1>3, <1>4, <2>2, SidesAre DEF Top
  <2> QED  BY <2>1, <2>2
<1>8. \A n \in R : Spans(w, f, n)
  BY <1>2, <1>4, SidesAre DEF Spans
<1>9. ASSUME NEW n \in R PROVE Hangs(u, R, n)
  <2>1. PICK m \in S : m = (IF n = y THEN z ELSE n)
    OBVIOUS
  <2>2. u.parent[n] = IF t.parent[m] = z THEN y ELSE t.parent[m]
    BY <1>3, <1>6, <2>1
  <2>3. CASE m = t.root
    <3>1. t.parent[m] = Dummy
      BY <1>1, <1>4, <2>3, ParentIs
    <3>2. u.root = n
      BY <1>3, <2>1, <2>3
    <3> QED  BY <1>1, <2>2, <3>1, <3>2 DEF Hangs
  <2>4. CASE m # t.root
    <3>1. PICK g \in S, s \in Sides : g = t.parent[m] /\ t.kid[s][g] = m
      BY <1>4, <2>4 DEF Hangs
    <3>2. n # u.root
      BY <1>3, <1>4, <2>1, <2>4
    <3>3. CASE g = z
      <4>1. m # z
        BY <1>5, <3>1, <3>3
      <4>2. u.kid[s][y] = n /\ u.parent[n] = y
        BY <1>3, <2>1, <2>2, <3>1, <3>3, <4>1
      <4> QED  BY <3>2, <4>2 DEF Hangs
    <3>4. CASE g # z
      <4>1. u.kid[s][g] = n /\ u.parent[n] = g
        BY <1>3, <2>1, <2>2, <3>1, <3>4
      <4> QED  BY <3>1, <3>2, <3>4, <4>1 DEF Hangs
    <3> QED  BY <3>3, <3>4
  <2> QED  BY <2>3, <2>4
<1>10. ASSUME NEW n \in R, NEW s \in Sides PROVE Link(u, R, w, f, s, n)
  <2>1. PICK m \in S : m = (IF n = y THEN z ELSE n)
    OBVIOUS
  <2>2. w[n] = p[m] /\ \A r \in Sides : f[r][n] = e[r][m]
    BY <1>2, <2>1
  <2>3. u.kid[s][n] = IF t.kid[s][m] = z THEN y ELSE t.kid[s][m]
    BY <1>3, <1>5, <2>1
  <2>4. CASE t.kid[s][m] = Dummy
    <3>1. e[s][m] = p[m] /\ u.kid[s][n] = Dummy
      BY <1>1, <2>3, <2>4, KidTypes
    <3> QED  BY <2>2, <3>1 DEF Link
  <2>5. CASE t.kid[s][m] # Dummy
    <3>1. PICK k \in S : k = t.kid[s][m] /\ t.parent[k] = m
      BY <2>5, KidTypes
    <3>2. e[s][k] = e[s][m] /\ e[Other(s)][k] = p[m] + Dir(s) /\ Other(s) \in Sides
      BY <3>1, KidIs, SidesAre
    <3>3. PICK v \in R : v = (IF k = z THEN y ELSE k)
      OBVIOUS
    <3>4. u.kid[s][n] = v
      BY <2>3, <3>1, <3>3
    <3>5. \A r \in Sides : f[r][v] = e[r][k]
      BY <1>2, <3>3
    <3>6. u.parent[v] = n
      <4>1. n = IF m = z THEN y ELSE m
        BY <2>1
      <4>2. k = z => m # z
        BY <1>5, <3>1
      <4> QED  BY <1>3, <3>1, <3>3, <4>1, <4>2
    <3> QED  BY <2>2, <3>2, <3>4, <3>5, <3>6 DEF Link
  <2> QED  BY <2>4, <2>5
<1>11. R \in SUBSET Nodes
  BY <1>1
<1>12. Shape(u, R, l, w, f)
  BY <1>1, <1>2, <1>3, <1>7, <1>8, <1>9, <1>10, <1>11 DEF Shape
<1> QED  BY <1>12

\* It has its colour and its height.
LEMMA StandSound ==
  ASSUME NEW t, NEW S, NEW l, NEW p, NEW e, NEW h, NEW gp, NEW gs, Sound(t, S, l, p, e, h, gp, gs),
         NEW z \in S, NEW y \in Nodes, y \notin S, gp # y,
         NEW u, StandsFor(t, S, z, y, u),
         NEW w, NEW f, Shape(u, (S \ {z}) \union {y}, l, w, f)
  PROVE  /\ \E k : Sound(u, (S \ {z}) \union {y}, l, w, f, k, Instead(gp, z, y), gs)
         /\ \A n \in (S \ {z}) \union {y} : RedPair(u, n) => RedPair(t, Instead(n, y, z))
<1> DEFINE R == (S \ {z}) \union {y}
           G == Instead(gp, z, y)
<1>1. Shape(t, S, l, p, e) /\ Heights(t, S, h, gp, gs) /\ t.color[Dummy] = "black"
  BY DEF Sound
<1>2. /\ S \in SUBSET Nodes /\ Dummy \notin S /\ y \in ND /\ y # Dummy /\ Dummy \in ND /\ z # y
      /\ \A n \in S : n \in ND
  BY <1>1, NodeIs, NodesAssumption DEF Shape, ND
<1>3. /\ \A r \in Sides : u.kid[r][y] = t.kid[r][z]
      /\ \A r \in Sides, n \in S \ {z} : u.kid[r][n] = IF t.kid[r][n] = z THEN y ELSE t.kid[r][n]
      /\ u.parent[y] = t.parent[z] /\ u.color[y] = t.color[z]
      /\ \A n \in S \ {z} : u.parent[n] = IF t.parent[n] = z THEN y ELSE t.parent[n]
      /\ \A n \in (S \union {Dummy}) \ {z} : u.color[n] = t.color[n]
  BY DEF StandsFor, Instead
<1>4. /\ h \in [ND -> Nat] /\ h[Dummy] = 0
      /\ \A n \in S, r \in Sides : h[n] = Black(t, n) + h[t.kid[r][n]] + Gap(gp, gs, n, r)
  BY <1>1 DEF Heights
<1>5. PICK k \in [ND -> Nat] : \A n \in ND : k[n] = IF n = y THEN h[z] ELSE h[n]
  <2> DEFINE K == [n \in ND |-> IF n = y THEN h[z] ELSE h[n]]
  <2>1. K \in [ND -> Nat]
    BY <1>2, <1>4
  <2> QED  BY <2>1
<1>6. \A r \in Sides : t.kid[r][z] # z
  <2> SUFFICES ASSUME NEW r \in Sides, t.kid[r][z] = z PROVE FALSE
    OBVIOUS
  <2> QED  BY <1>1, KidIs
<1>7. ASSUME NEW n \in R, NEW r \in Sides
      PROVE  k[n] = Black(u, n) + k[u.kid[r][n]] + Gap(G, gs, n, r)
  <2>1. PICK m \in S : m = (IF n = y THEN z ELSE n)
    OBVIOUS
  <2>2. k[n] = h[m] /\ Black(u, n) = Black(t, m)
    <3>1. CASE n = y
      BY <1>2, <1>3, <1>5, <2>1, <3>1 DEF Black
    <3>2. CASE n # y
      BY <1>2, <1>3, <1>5, <2>1, <3>2 DEF Black
    <3> QED  BY <3>1, <3>2
  <2>3. Gap(G, gs, n, r) = Gap(gp, gs, m, r)
    BY <1>2, <2>1 DEF Gap, Instead
  <2>4. PICK c \in ND : c = t.kid[r][m] /\ c \in S \union {Dummy}
    BY <1>1, KidTypes
  <2>5. u.kid[r][n] = IF c = z THEN y ELSE c
    BY <1>3, <1>6, <2>1, <2>4
  <2>6. k[u.kid[r][n]] = h[c]
    BY <1>2, <1>5, <2>4, <2>5
  <2>7. h[m] = Black(t, m) + h[c] + Gap(gp, gs, m, r)
    BY <1>4, <2>4
  <2> QED  BY <2>2, <2>3, <2>6, <2>7
<1>8. Heights(u, R, k, G, gs)
  <2>1. k[Dummy] = 0
    BY <1>2, <1>4, <1>5
  <2> QED  BY <1>5, <1>7, <2>1 DEF Heights
<1>9. u.color[Dummy] = "black"
  BY <1>1, <1>2, <1>3
<1>10. ASSUME NEW n \in R, RedPair(u, n) PROVE RedPair(t, Instead(n, y, z))
  <2>1. PICK m \in S : m = (IF n = y THEN z ELSE n)
    OBVIOUS
  <2>2. t.color[m] = "red"
    BY <1>3, <1>10, <2>1 DEF RedPair
  <2>3. t.parent[m] \in S \union {Dummy}
    BY <1>1, ParentIs
  <2>4. u.parent[n] = IF t.parent[m] = z THEN y ELSE t.parent[m]
    <3>1. t.parent[z] # z
      <4> SUFFICES ASSUME t.parent[z] = z PROVE FALSE
        OBVIOUS
      <4>1. z # t.root /\ SideOf(t, z) \in Sides /\ t.kid[SideOf(t, z)][z] = z
        BY <1>1, <1>2, ParentIs
      <4> QED  BY <1>6, <4>1
    <3> QED  BY <1>3, <2>1, <3>1
  <2>5. u.color[u.parent[n]] = t.color[t.parent[m]]
    BY <1>2, <1>3, <2>3, <2>4
  <2>6. t.color[t.parent[m]] = "red"
    BY <1>10, <2>5 DEF RedPair
  <2> QED  BY <2>1, <2>2, <2>6 DEF RedPair, Instead
<1> QED  BY <1>8, <1>9, <1>10 DEF Sound

-----------------------------------------------------------------------------
(* Numbers.                                                                *)

\* A set of natural numbers that is not empty has a least element: what an
\* induction takes as its counterexample.
LEMMA LeastNatural ==
  ASSUME NEW S \in SUBSET Nat, S # {}
  PROVE  \E n \in S : \A k \in S : n <= k
<1> DEFINE R == OpToRel(<, Nat)
<1>1. \E x \in S : \A y \in S : ~(<<y, x>> \in R)
  <2>1. IsWellFoundedOn(R, Nat)
    BY NatLessThanWellFounded
  <2> HIDE DEF R
  <2> QED  BY <2>1, WFMin
<1>2. PICK n \in S : \A y \in S : ~(<<y, n>> \in R)
  BY <1>1
<1>3. \A y \in S : n <= y
  <2> SUFFICES ASSUME NEW y \in S PROVE n <= y
    OBVIOUS
  <2>1. y \in Nat /\ n \in Nat
    OBVIOUS
  <2>2. ~(y < n)
    BY <1>2, <2>1, Zenon DEF OpToRel
  <2> QED  BY <2>1, <2>2
<1> QED  BY <1>3

-----------------------------------------------------------------------------
(* What a recursive function computes: its values, one after the other.    *)

\* The values a value has gone through when F has changed it d times.
History(D, Y, b, F, f) ==
  f \in [0 .. D -> Y] /\ f[0] = b /\ \A d \in 1 .. D : f[d] = F[f[d - 1]]

\* A value repeatedly changed has a history.
LEMMA Iterates ==
  ASSUME NEW D \in Nat, NEW Y, NEW b \in Y, NEW F \in [Y -> Y]
  PROVE  \E f : History(D, Y, b, F, f)
<1> DEFINE Good(n) == \E f \in [0 .. n -> Y] : f[0] = b /\ \A d \in 1 .. n : f[d] = F[f[d - 1]]
           Bad == {n \in 0 .. D : ~Good(n)}
<1>1. ASSUME Bad # {} PROVE FALSE
  <2>1. PICK n \in Bad : \A k \in Bad : n <= k
    <3>1. Bad \in SUBSET Nat
      OBVIOUS
    <3> HIDE DEF Bad
    <3> QED  BY <1>1, <3>1, LeastNatural
  <2>2. Good(0)
    <3> DEFINE g == [i \in 0 .. 0 |-> b]
    <3>1. g \in [0 .. 0 -> Y] /\ g[0] = b /\ \A d \in 1 .. 0 : g[d] = F[g[d - 1]]
      OBVIOUS
    <3> QED  BY <3>1
  <2>3. n \in 1 .. D /\ n - 1 \in 0 .. D /\ n - 1 \notin Bad
    <3>1. n # 0
      BY <2>2
    <3>2. n \in 0 .. D
      OBVIOUS
    <3>3. ~(n <= n - 1)
      BY <3>2
    <3> HIDE DEF Bad
    <3> QED  BY <2>1, <3>1, <3>2, <3>3
  <2>4. Good(n - 1)
    BY <2>3
  <2>5. PICK f \in [0 .. n - 1 -> Y] : f[0] = b /\ \A d \in 1 .. n - 1 : f[d] = F[f[d - 1]]
    BY <2>4
  <2> DEFINE g == [i \in 0 .. n |-> IF i = n THEN F[f[n - 1]] ELSE f[i]]
  <2>6. n - 1 \in 0 .. n - 1 /\ F[f[n - 1]] \in Y
    BY <2>3, <2>5
  <2>7. g \in [0 .. n -> Y]
    BY <2>3, <2>5, <2>6
  <2>8. g[0] = b
    BY <2>3, <2>5
  <2>9. ASSUME NEW d \in 1 .. n PROVE g[d] = F[g[d - 1]]
    <3>1. CASE d = n
      <4>1. g[n] = F[f[n - 1]] /\ g[n - 1] = f[n - 1]
        BY <2>3
      <4> QED  BY <3>1, <4>1
    <3>2. CASE d # n
      <4>1. d \in 1 .. n - 1 /\ d - 1 \in 0 .. n /\ d - 1 # n /\ d \in 0 .. n
        BY <2>3, <3>2
      <4>2. g[d] = f[d] /\ g[d - 1] = f[d - 1]
        BY <3>2, <4>1
      <4> QED  BY <2>5, <4>1, <4>2
    <3> QED  BY <3>1, <3>2
  <2>10. Good(n)
    <3> HIDE DEF g
    <3> QED  BY <2>7, <2>8, <2>9
  <2> QED  BY <2>10
<1>2. Good(D)
  BY <1>1
<1> QED  BY <1>2 DEF History

-----------------------------------------------------------------------------
(* Where the intervals end, and the ways that lead there.                  *)

\* The end of an interval is the number of a node below, without a kid there.
LEMMA EndIs ==
  ASSUME NEW t, NEW S, NEW l, NEW p, NEW e, Shape(t, S, l, p, e), NEW n \in S, NEW s \in Sides
  PROVE  \E m \in S : p[m] = e[s][n] /\ t.kid[s][m] = Dummy
<1>1. S \in SUBSET Nodes /\ p \in Numbers /\ e \in Ends
  BY DEF Shape
<1>2. \A m \in S : p[m] \in Int /\ e[s][m] \in Int /\ e["left"][m] \in Int /\ e["right"][m] \in Int
  BY <1>1, NodeIs, NumberTypes, SidesAre
<1>3. \A m \in S : e["left"][m] <= p[m] /\ p[m] <= e["right"][m]
  BY DEF Shape, Spans
<1> DEFINE Far(m) == IF s = "left" THEN p[m] - e["left"][m] ELSE e["right"][m] - p[m]
           Bad == {m \in S : ~\E k \in S : p[k] = e[s][m] /\ t.kid[s][k] = Dummy}
           T == {Far(m) : m \in Bad}
<1>4. ASSUME Bad # {} PROVE FALSE
  <2>1. \A m \in S : Far(m) \in Nat
    BY <1>2, <1>3
  <2>2. T \in SUBSET Nat /\ T # {}
    BY <1>4, <2>1
  <2>3. PICK v \in T : \A k \in T : v <= k
    <3> HIDE DEF T
    <3> QED  BY <2>2, LeastNatural
  <2>4. PICK m \in Bad : v = Far(m)
    OBVIOUS
  <2>5. t.kid[s][m] # Dummy
    <3> SUFFICES ASSUME t.kid[s][m] = Dummy PROVE FALSE
      OBVIOUS
    <3>1. e[s][m] = p[m] /\ m \in S
      BY KidTypes
    <3> QED  BY <3>1
  <2>6. PICK k \in S : k = t.kid[s][m]
    BY <2>5, KidTypes
  <2>7. m \in S
    OBVIOUS
  <2>8. e[s][k] = e[s][m] /\ e[Other(s)][k] = p[m] + Dir(s)
    BY <2>6, <2>7, KidIs
  <2>9. k \in Bad
    BY <2>6, <2>8
  <2>10. Far(k) < Far(m)
    <3>1. CASE s = "left"
      <4>1. e["left"][k] = e["left"][m] /\ e["right"][k] = p[m] - 1
        BY <2>7, <1>2, <2>8, <3>1 DEF Other, Dir
      <4> QED  BY <1>2, <1>3, <2>6, <2>7, <3>1, <4>1
    <3>2. CASE s = "right"
      <4>1. e["right"][k] = e["right"][m] /\ e["left"][k] = p[m] + 1
        BY <2>7, <1>2, <2>8, <3>2 DEF Other, Dir
      <4> QED  BY <1>2, <1>3, <2>6, <2>7, <3>2, <4>1
    <3> QED  BY <3>1, <3>2 DEF Sides
  <2>11. Far(k) \in T /\ Far(k) \in Nat /\ Far(m) \in Nat
    BY <2>1, <2>6, <2>7, <2>9
  <2> QED  BY <2>3, <2>4, <2>10, <2>11
<1> QED  BY <1>4

\* The nodes S are those of the sequence o, numbered in its order.
Lists(o, S, p) ==
  /\ o \in Seq(Nodes) /\ p \in Numbers
  /\ S = {o[i] : i \in 1 .. Len(o)} /\ \A i \in 1 .. Len(o) : p[o[i]] = i

\* A node has one place in the sequence.
LEMMA ListIs ==
  ASSUME NEW o, NEW S, NEW p, Lists(o, S, p)
  PROVE  /\ S \in SUBSET Nodes /\ Len(o) \in Nat /\ Apart(S, Len(o), p)
         /\ \A i \in 1 .. Len(o) : o[i] \in S /\ p[o[i]] = i
         /\ \A n \in S : p[n] \in 1 .. Len(o) /\ o[p[n]] = n
<1>1. o \in Seq(Nodes) /\ Len(o) \in Nat /\ \A i \in 1 .. Len(o) : o[i] \in Nodes
  BY ElementOfSeq, LenProperties DEF Lists
<1>2. S = {o[i] : i \in 1 .. Len(o)} /\ \A i \in 1 .. Len(o) : p[o[i]] = i
  BY DEF Lists
<1>3. \A n \in S : p[n] \in 1 .. Len(o) /\ o[p[n]] = n
  BY <1>2
<1>4. Apart(S, Len(o), p)
  BY <1>3 DEF Apart
<1> QED  BY <1>1, <1>2, <1>3, <1>4

\* The intervals are within that of the root.
LEMMA WithinIs ==
  ASSUME NEW t, NEW S, NEW l, NEW p, NEW e, Shape(t, S, l, p, e), Apart(S, l, p), NEW n \in S
  PROVE  /\ e["left"][n] \in 1 .. l /\ e["right"][n] \in 1 .. l /\ p[n] \in 1 .. l
         /\ e["left"][n] <= p[n] /\ p[n] <= e["right"][n]
<1>1. \A m \in S : p[m] \in 1 .. l
  BY DEF Apart
<1>2. \A s \in Sides : e[s][n] \in 1 .. l
  <2> TAKE s \in Sides
  <2>1. PICK m \in S : p[m] = e[s][n]
    BY EndIs
  <2> QED  BY <1>1, <2>1
<1>3. e["left"][n] <= p[n] /\ p[n] <= e["right"][n]
  BY DEF Shape, Spans
<1> QED  BY <1>1, <1>2, <1>3, SidesAre

\* Nodes that are not in the tree have no links.
Loose(t, S) == \A n \in Nodes \ S : t.parent[n] = Dummy /\ \A s \in Sides : t.kid[s][n] = Dummy

\* The way down to the left.
DownOf(t, f) == [m \in ND |-> IF m = Dummy \/ t.kid["left"][m] = Dummy THEN m ELSE f[t.kid["left"][m]]]

\* It ends at the node that begins the interval.
LEMMA LeftmostIs ==
  ASSUME NEW t, NEW S, NEW p, NEW e, NEW o, Lists(o, S, p), Shape(t, S, Len(o), p, e), Loose(t, S)
  PROVE  /\ Leftmost(t, Dummy) = Dummy
         /\ \A n \in S : /\ Leftmost(t, n) \in S /\ Leftmost(t, n) = o[e["left"][n]]
                         /\ p[Leftmost(t, n)] = e["left"][n] /\ t.kid["left"][Leftmost(t, n)] = Dummy
<1>1. /\ S \in SUBSET Nodes /\ Apart(S, Len(o), p) /\ Dummy \notin S /\ Dummy \in ND
      /\ \A n \in S : n \in ND
  BY ListIs, NodeIs, NodesAssumption DEF ND
<1>2. /\ \A i \in 1 .. Len(o) : o[i] \in S /\ p[o[i]] = i
      /\ \A n \in S : p[n] \in 1 .. Len(o) /\ o[p[n]] = n
  BY ListIs
<1>3. \A n \in S : e["left"][n] \in 1 .. Len(o) /\ e["left"][n] <= p[n]
  BY <1>1, WithinIs
<1> DEFINE Is(f) == f = DownOf(t, f)
           w == [m \in ND |-> IF m \in S THEN o[e["left"][m]] ELSE m]
<1>4. \A m \in ND : DownOf(t, w)[m] = w[m]
  <2> TAKE m \in ND
  <2>1. CASE m \notin S
    <3>1. m = Dummy \/ t.kid["left"][m] = Dummy
      BY <2>1, SidesAre DEF Loose, ND
    <3> QED  BY <2>1, <3>1 DEF DownOf
  <2>2. CASE m \in S /\ t.kid["left"][m] = Dummy
    <3>1. e["left"][m] = p[m]
      BY <2>2, KidTypes, SidesAre
    <3>2. w[m] = m
      BY <1>2, <2>2, <3>1
    <3> HIDE DEF w
    <3> QED  BY <2>2, <3>2 DEF DownOf
  <2>3. CASE m \in S /\ t.kid["left"][m] # Dummy
    <3>1. PICK k \in S : k = t.kid["left"][m]
      BY <2>3, KidTypes, SidesAre
    <3>2. e["left"][k] = e["left"][m]
      BY <2>3, <3>1, KidIs, SidesAre
    <3>3. w[k] = w[m]
      BY <1>1, <2>3, <3>2
    <3> HIDE DEF w
    <3>4. DownOf(t, w)[m] = w[t.kid["left"][m]]
      BY <1>1, <2>3 DEF DownOf
    <3> QED  BY <3>1, <3>3, <3>4
  <2> QED  BY <2>1, <2>2, <2>3
<1>5. Is(w)
  <2>1. DownOf(t, w) = [m \in ND |-> DownOf(t, w)[m]]
    BY DEF DownOf
  <2>2. w = [m \in ND |-> w[m]]
    OBVIOUS
  <2> HIDE DEF w
  <2> QED  BY <1>4, <2>1, <2>2
<1> DEFINE G == CHOOSE f : Is(f)
<1>6. Is(G)
  <2> HIDE DEF w, Is
  <2> QED  BY <1>5, Zenon
<1>7. \A n : Leftmost(t, n) = G[n]
  BY DEF Leftmost, DownOf, ND
<1> HIDE DEF G
<1>8. \A m \in ND : G[m] = IF m = Dummy \/ t.kid["left"][m] = Dummy THEN m ELSE G[t.kid["left"][m]]
  BY <1>6 DEF DownOf
<1> DEFINE Ok(m) == G[m] \in S /\ p[G[m]] = e["left"][m] /\ t.kid["left"][G[m]] = Dummy
           Bad == {m \in S : ~Ok(m)}
           T == {p[m] - e["left"][m] : m \in Bad}
<1>9. ASSUME Bad # {} PROVE FALSE
  <2>1. \A m \in S : p[m] - e["left"][m] \in Nat
    BY <1>2, <1>3
  <2>2. T \in SUBSET Nat /\ T # {}
    BY <1>9, <2>1
  <2>3. PICK v \in T : \A k \in T : v <= k
    <3> HIDE DEF T
    <3> QED  BY <2>2, LeastNatural
  <2>4. PICK m \in Bad : v = p[m] - e["left"][m]
    OBVIOUS
  <2>5. m \in S /\ ~Ok(m)
    OBVIOUS
  <2>6. t.kid["left"][m] # Dummy
    <3> SUFFICES ASSUME t.kid["left"][m] = Dummy PROVE FALSE
      OBVIOUS
    <3>1. e["left"][m] = p[m] /\ G[m] = m
      BY <1>1, <1>8, <2>5, KidTypes, SidesAre
    <3> QED  BY <2>5, <3>1
  <2>7. PICK k \in S : k = t.kid["left"][m]
    BY <2>5, <2>6, KidTypes, SidesAre
  <2>8. e["left"][k] = e["left"][m] /\ e["right"][k] = p[m] - 1
    <3>1. e["left"][k] = e["left"][m] /\ e[Other("left")][k] = p[m] + Dir("left")
      BY <2>5, <2>7, KidIs, SidesAre
    <3>2. p[m] \in Int
      BY <1>2, <2>5
    <3> QED  BY <3>1, <3>2 DEF Other, Dir
  <2>9. p[k] <= e["right"][k] /\ p[k] \in Int /\ p[m] \in Int /\ e["left"][m] \in Int
    BY <1>1, <1>2, <1>3, <2>5, WithinIs
  <2>10. G[m] = G[k]
    BY <1>1, <1>8, <2>5, <2>6, <2>7
  <2>11. k \in Bad
    BY <2>5, <2>8, <2>10
  <2>12. p[k] - e["left"][k] \in T
    BY <2>11
  <2>13. p[k] - e["left"][k] < p[m] - e["left"][m]
    BY <2>8, <2>9
  <2>14. v <= p[k] - e["left"][k]
    BY <2>3, <2>12
  <2> QED  BY <2>4, <2>8, <2>9, <2>13, <2>14
<1>10. G[Dummy] = Dummy
  BY <1>1, <1>8
<1>11. ASSUME NEW n \in S PROVE Ok(n) /\ G[n] = o[e["left"][n]]
  <2>1. Ok(n)
    BY <1>9
  <2> QED  BY <1>2, <2>1
<1> QED  BY <1>7, <1>10, <1>11

\* The way up from the right.
UpOf(t, f) == [m \in Nodes |-> LET q == t.parent[m]
                               IN  IF q = Dummy \/ t.kid["left"][q] = m THEN q ELSE f[q]]

\* What comes behind an interval.
Behind(o, i) == IF i = Len(o) THEN Dummy ELSE o[i + 1]

\* The way up ends at the node behind the interval.
LEMMA UpIs ==
  ASSUME NEW t, NEW S, NEW p, NEW e, NEW o, Lists(o, S, p), Shape(t, S, Len(o), p, e), Loose(t, S)
  PROVE  /\ \E f : f = UpOf(t, f)
         /\ \A f : f = UpOf(t, f) => \A n \in S : f[n] = Behind(o, e["right"][n])
<1>1. /\ S \in SUBSET Nodes /\ Apart(S, Len(o), p) /\ Dummy \notin S /\ Len(o) \in Nat
      /\ \A n \in S : n \in Nodes
  BY ListIs, NodeIs
<1>2. /\ \A i \in 1 .. Len(o) : o[i] \in S /\ p[o[i]] = i
      /\ \A n \in S : p[n] \in 1 .. Len(o) /\ o[p[n]] = n
  BY ListIs
<1>3. \A n \in S : /\ e["right"][n] \in 1 .. Len(o) /\ e["left"][n] \in 1 .. Len(o)
                   /\ e["left"][n] <= p[n] /\ p[n] <= e["right"][n]
  BY <1>1, WithinIs
<1> DEFINE B(m) == Behind(o, e["right"][m])
\* One step up.
<1>4. ASSUME NEW m \in S
      PROVE  \/ t.parent[m] = Dummy /\ B(m) = Dummy
             \/ t.parent[m] \in S /\ t.kid["left"][t.parent[m]] = m /\ B(m) = t.parent[m]
             \/ /\ t.parent[m] \in S /\ t.kid["left"][t.parent[m]] # m /\ B(m) = B(t.parent[m])
                /\ e["right"][t.parent[m]] = e["right"][m] /\ e["left"][t.parent[m]] < e["left"][m]
  <2>1. CASE m = t.root
    <3>1. t.parent[m] = Dummy
      BY <2>1, ParentIs
    <3>2. e["right"][m] = Len(o)
      BY <2>1 DEF Shape, Top
    <3> QED  BY <3>1, <3>2 DEF Behind
  <2>2. CASE m # t.root
    <3>1. PICK g \in S, s \in Sides : g = t.parent[m] /\ m = t.kid[s][g]
      BY <2>2, ParentIs
    <3>2. e[s][m] = e[s][g] /\ e[Other(s)][m] = p[g] + Dir(s) /\ t.kid[Other(s)][g] # m
      <4>1. PICK l : l = Len(o)
        OBVIOUS
      <4>2. Shape(t, S, l, p, e)
        BY <4>1
      <4>3. g \in S /\ s \in Sides /\ m \in S /\ m = t.kid[s][g]
        BY ONLY <3>1, m \in S
      <4> QED  BY ONLY <4>2, <4>3, KidIs
    <3>3. p[g] \in 1 .. Len(o) /\ o[p[g]] = g
      BY <1>2
    <3>4. CASE s = "left"
      <4>1. e["right"][m] = p[g] - 1
        BY <3>2, <3>3, <3>4 DEF Other, Dir
      <4>2. B(m) = g
        <5>1. p[g] - 1 # Len(o) /\ (p[g] - 1) + 1 = p[g]
          BY <1>1, <3>3
        <5> QED  BY ONLY <3>3, <4>1, <5>1 DEF Behind
      <4> QED  BY <3>1, <3>4, <4>2
    <3>5. CASE s = "right"
      <4>1. e["right"][m] = e["right"][g] /\ e["left"][m] = p[g] + 1 /\ t.kid["left"][g] # m
        BY <3>2, <3>3, <3>5 DEF Other, Dir
      <4>2. e["left"][g] < e["left"][m]
        BY <1>3, <3>3, <4>1
      <4> QED  BY <3>1, <3>5, <4>1, <4>2, Zenon
    <3> QED  BY <3>4, <3>5 DEF Sides
  <2> QED  BY <2>1, <2>2
<1>5. \E f : f = UpOf(t, f)
  <2> DEFINE w == [m \in Nodes |-> IF m \in S THEN B(m) ELSE Dummy]
  <2>1. \A m \in S : w[m] = B(m)
    BY <1>1
  <2>2. \A m \in Nodes : m \notin S => w[m] = Dummy
    OBVIOUS
  <2>3. w = [m \in Nodes |-> w[m]]
    OBVIOUS
  <2> HIDE DEF w, B
  <2>4. \A m \in Nodes : UpOf(t, w)[m] = w[m]
    <3> TAKE m \in Nodes
    <3>1. CASE m \notin S
      <4>1. t.parent[m] = Dummy
        BY <3>1 DEF Loose
      <4> QED  BY <2>2, <3>1, <4>1 DEF UpOf
    <3>2. CASE m \in S
      <4>1. CASE t.parent[m] = Dummy /\ B(m) = Dummy
        BY <2>1, <3>2, <4>1 DEF UpOf
      <4>2. CASE t.parent[m] \in S /\ t.kid["left"][t.parent[m]] = m /\ B(m) = t.parent[m]
        BY <2>1, <3>2, <4>2 DEF UpOf
      <4>3. CASE t.parent[m] \in S /\ t.kid["left"][t.parent[m]] # m /\ B(m) = B(t.parent[m])
        <5>1. w[m] = w[t.parent[m]] /\ t.parent[m] # Dummy
          BY <1>1, <2>1, <3>2, <4>3
        <5> QED  BY <4>3, <5>1 DEF UpOf
      <4> QED  BY <1>4, <3>2, <4>1, <4>2, <4>3
    <3> QED  BY <3>1, <3>2
  <2>5. UpOf(t, w) = [m \in Nodes |-> UpOf(t, w)[m]]
    BY DEF UpOf
  <2>6. w = UpOf(t, w)
    BY <2>3, <2>4, <2>5
  <2> QED  BY <2>6
<1>6. ASSUME NEW f, f = UpOf(t, f), NEW n \in S PROVE f[n] = B(n)
  <2>0. \A m \in S : f[m] = IF t.parent[m] = Dummy \/ t.kid["left"][t.parent[m]] = m
                            THEN t.parent[m] ELSE f[t.parent[m]]
    <3>1. \A m \in S : UpOf(t, f)[m] = IF t.parent[m] = Dummy \/ t.kid["left"][t.parent[m]] = m
                                       THEN t.parent[m] ELSE f[t.parent[m]]
      BY <1>1 DEF UpOf
    <3> QED  BY <1>6, <3>1
  <2> DEFINE Bad == {m \in S : f[m] # B(m)}
             T == {e["left"][m] : m \in Bad}
  <2>1. ASSUME Bad # {} PROVE FALSE
    <3>1. T \in SUBSET Nat /\ T # {}
      BY <1>3, <2>1
    <3>2. PICK v \in T : \A k \in T : v <= k
      <4> HIDE DEF T
      <4> QED  BY <3>1, LeastNatural
    <3>3. PICK m \in Bad : v = e["left"][m]
      OBVIOUS
    <3>4. m \in S /\ f[m] # B(m)
      OBVIOUS
    <3> DEFINE g == t.parent[m]
    <3> HIDE DEF B
    <3>5. g \in S /\ t.kid["left"][g] # m /\ B(m) = B(g) /\ e["left"][g] < e["left"][m]
      BY <1>4, <2>0, <3>4
    <3>6. f[m] = f[g]
      BY <1>1, <2>0, <3>4, <3>5
    <3>7. e["left"][g] \in T
      BY <3>4, <3>5, <3>6
    <3>8. v <= e["left"][g] /\ e["left"][g] \in Int /\ e["left"][m] \in Int
      BY <1>3, <3>2, <3>4, <3>5, <3>7
    <3> QED  BY <3>3, <3>5, <3>8
  <2> QED  BY <2>1
<1> QED  BY <1>5, <1>6

\* The iterators go from front to end.
LEMMA NextIs ==
  ASSUME NEW S, NEW p, NEW e, NEW o, Lists(o, S, p), Shape(tree, S, Len(o), p, e), Loose(tree, S)
  PROVE  /\ Front = (IF Len(o) = 0 THEN Dummy ELSE o[1])
         /\ \A i \in 1 .. Len(o) : NextOf(o[i]) = Behind(o, i)
<1>1. /\ S \in SUBSET Nodes /\ Apart(S, Len(o), p) /\ Dummy \notin S /\ Len(o) \in Nat
      /\ \A i \in 1 .. Len(o) : o[i] \in S /\ p[o[i]] = i
  BY ListIs, NodeIs
<1>2. Front = (IF Len(o) = 0 THEN Dummy ELSE o[1])
  <2>1. CASE S = {} /\ tree.root = Dummy
    <3>1. Len(o) = 0
      BY <1>1, <2>1
    <3> QED  BY <2>1, <3>1, LeftmostIs DEF Front
  <2>2. CASE tree.root \in S /\ e["left"][tree.root] = 1
    <3>1. Len(o) # 0
      BY <1>1, <2>2 DEF Apart
    <3> QED  BY <2>2, <3>1, LeftmostIs DEF Front
  <2> QED  BY <2>1, <2>2 DEF Shape, Top
<1>3. ASSUME NEW i \in 1 .. Len(o) PROVE NextOf(o[i]) = Behind(o, i)
  <2>1. PICK n \in S : n = o[i] /\ p[n] = i
    BY <1>1
  <2> DEFINE c == CHOOSE f : f = UpOf(tree, f)
  <2>2. c = UpOf(tree, c)
    BY UpIs, Zenon
  <2>3. NextOf(n) = IF tree.kid["right"][n] # Dummy THEN Leftmost(tree, tree.kid["right"][n]) ELSE c[n]
    BY DEF NextOf, UpOf
  <2> HIDE DEF c
  <2>4. CASE tree.kid["right"][n] # Dummy
    <3>1. PICK k \in S : k = tree.kid["right"][n]
      BY <2>4, KidTypes, SidesAre
    <3>2. e[Other("right")][k] = p[n] + Dir("right")
      BY <3>1, KidIs, SidesAre
    <3>3. e["left"][k] = i + 1
      BY <2>1, <3>2 DEF Other, Dir
    <3>4. e["left"][k] \in 1 .. Len(o)
      BY <1>1, WithinIs
    <3>5. Leftmost(tree, k) = o[i + 1]
      BY <3>3, LeftmostIs
    <3> QED  BY <1>1, <2>1, <2>3, <2>4, <3>1, <3>3, <3>4, <3>5 DEF Behind
  <2>5. CASE tree.kid["right"][n] = Dummy
    <3>1. e["right"][n] = i
      BY <2>1, <2>5, KidTypes, SidesAre
    <3>2. c[n] = Behind(o, i)
      BY <2>2, <3>1, UpIs
    <3> QED  BY <2>1, <2>3, <2>5, <3>2
  <2> QED  BY <2>4, <2>5
<1> QED  BY <1>2, <1>3

-----------------------------------------------------------------------------
(* The nodes in their order, as the links give them.                       *)

Linking(t) == \A n \in Nodes, s \in Sides : t.kid[s][n] \in ND

\* What lies between the numbers i and j.
Part(o, i, j) == IF i <= j THEN SubSeq(o, i, j) ELSE <<>>

\* Two neighbouring parts and the node between them.
LEMMA PartsJoin ==
  ASSUME NEW o \in Seq(Nodes), NEW i \in 1 .. Len(o), NEW k \in 1 .. Len(o), NEW j \in 1 .. Len(o),
         i <= k, k <= j
  PROVE  Part(o, i, k - 1) \o <<o[k]>> \o Part(o, k + 1, j) = Part(o, i, j)
<1>1. Len(o) \in Nat /\ o[k] \in Nodes /\ o[i] \in Nodes
  BY ElementOfSeq, LenProperties
<1>2. Part(o, i, k - 1) \o <<o[k]>> = SubSeq(o, i, k)
  <2>1. CASE i = k
    <3>0. SubSeq(o, k, k - 1) = <<>>
      BY <1>1, SubSeqEmpty
    <3>1. SubSeq(o, k, k) = SubSeq(o, k, k - 1) \o <<o[k]>>
      BY <1>1, SubSeqRecursiveSecond
    <3>2. Part(o, i, k - 1) = <<>>
      BY <2>1 DEF Part
    <3> QED  BY <2>1, <3>0, <3>1, <3>2
  <2>2. CASE i < k
    <3>1. Part(o, i, k - 1) = SubSeq(o, i, k - 1)
      BY <2>2 DEF Part
    <3>2. SubSeq(o, i, k) = SubSeq(o, i, k - 1) \o <<o[k]>>
      BY <1>1, <2>2, SubSeqRecursiveSecond
    <3> QED  BY <3>1, <3>2
  <2> QED  BY <2>1, <2>2
<1>3. SubSeq(o, i, k) \o Part(o, k + 1, j) = SubSeq(o, i, j)
  <2>1. CASE k = j
    <3>1. SubSeq(o, i, k) \in Seq(Nodes)
      BY <1>1, SubSeqProperties
    <3>2. Part(o, k + 1, j) = <<>>
      BY <2>1 DEF Part
    <3> QED  BY <2>1, <3>1, <3>2, ConcatEmptySeq
  <2>2. CASE k < j
    <3>1. Part(o, k + 1, j) = SubSeq(o, k + 1, j)
      BY <2>2 DEF Part
    <3>2. SubSeq(o, i, k) \o SubSeq(o, k + 1, j) = SubSeq(o, i, j)
      BY <1>1, <2>2, ConcatAdjacentSubSeq
    <3> QED  BY <3>1, <3>2
  <2> QED  BY <2>1, <2>2
<1> QED  BY <1>2, <1>3 DEF Part

\* What a walk of depth d collects, given what one of depth d - 1 does.
WalkOf(t, f) ==
  [d \in 0 .. Depth |-> [n \in ND |->
     IF d = 0 \/ n = Dummy THEN <<>>
     ELSE f[d - 1][t.kid["left"][n]] \o <<n>> \o f[d - 1][t.kid["right"][n]]]]

\* There is such a walk.
LEMMA WalkExists ==
  ASSUME NEW t, Linking(t)
  PROVE  \E f : f = WalkOf(t, f)
<1> DEFINE Y == [ND -> Seq(Nodes)]
           b == [n \in ND |-> <<>>]
           Step(g) == [n \in ND |-> IF n = Dummy THEN <<>>
                                    ELSE g[t.kid["left"][n]] \o <<n>> \o g[t.kid["right"][n]]]
           F == [g \in Y |-> Step(g)]
<1>1. Depth \in Nat
  BY FS_CardinalityType, NodesAssumption DEF Depth
<1>2. b \in Y
  OBVIOUS
<1>3. ASSUME NEW g \in Y PROVE Step(g) \in Y
  <2>1. ASSUME NEW n \in ND, n # Dummy
        PROVE  g[t.kid["left"][n]] \o <<n>> \o g[t.kid["right"][n]] \in Seq(Nodes)
    <3>1. n \in Nodes
      BY <2>1 DEF ND
    <3>2. t.kid["left"][n] \in ND /\ t.kid["right"][n] \in ND
      BY <3>1, SidesAre DEF Linking
    <3>3. g[t.kid["left"][n]] \in Seq(Nodes) /\ g[t.kid["right"][n]] \in Seq(Nodes) /\ <<n>> \in Seq(Nodes)
      BY <3>1, <3>2
    <3> QED  BY <3>3, ConcatProperties
  <2> QED  BY <2>1
<1>4. F \in [Y -> Y]
  BY <1>3
<1>5. \A g \in Y : F[g] = Step(g)
  OBVIOUS
<1>6. PICK h : History(Depth, Y, b, F, h)
  <2> HIDE DEF F, Y, b
  <2> QED  BY <1>1, <1>2, <1>4, Iterates
<1>7. h \in [0 .. Depth -> Y] /\ h[0] = b /\ \A d \in 1 .. Depth : h[d] = F[h[d - 1]]
  <2> HIDE DEF F, Y, b
  <2> QED  BY <1>6, Zenon DEF History
<1> HIDE DEF F
<1>8. ASSUME NEW d \in 0 .. Depth
      PROVE  h[d] = [n \in ND |->
                       IF d = 0 \/ n = Dummy THEN <<>>
                       ELSE h[d - 1][t.kid["left"][n]] \o <<n>> \o h[d - 1][t.kid["right"][n]]]
  <2>1. CASE d = 0
    <3>1. h[d] = b
      BY ONLY <1>7, <2>1
    <3> QED  BY ONLY <2>1, <3>1
  <2>2. CASE d # 0
    <3>1. d \in 1 .. Depth /\ d - 1 \in 0 .. Depth
      BY <1>1, <2>2
    <3>2. h[d] = Step(h[d - 1])
      <4>1. h[d - 1] \in Y /\ h[d] = F[h[d - 1]]
        BY <1>7, <3>1
      <4> HIDE DEF Y, Step
      <4> QED  BY <1>5, <4>1
    <3> QED  BY <2>2, <3>2
  <2> QED  BY <2>1, <2>2
<1>9. h = [d \in 0 .. Depth |-> h[d]]
  <2> HIDE DEF Y, b
  <2>1. h \in [0 .. Depth -> Y]
    BY <1>7
  <2> QED  BY ONLY <2>1
<1>10. h = WalkOf(t, h)
  <2> HIDE DEF Y
  <2> QED  BY <1>8, <1>9, Zenon DEF WalkOf
<1> QED  BY <1>10

\* The nodes are as many as the places, and not more than there can be.
LEMMA ListFits ==
  ASSUME NEW o, NEW S, NEW p, Lists(o, S, p)
  PROVE  IsFiniteSet(S) /\ Cardinality(S) = Len(o) /\ Len(o) <= Depth /\ Depth \in Nat /\ Len(o) \in Nat
<1>1. /\ S \in SUBSET Nodes /\ Len(o) \in Nat
      /\ \A i \in 1 .. Len(o) : o[i] \in S /\ p[o[i]] = i
      /\ \A n \in S : p[n] \in 1 .. Len(o) /\ o[p[n]] = n
  BY ListIs
<1>2. IsFiniteSet(S) /\ Cardinality(S) <= Depth /\ Depth \in Nat
  BY <1>1, NodesAssumption, FS_Subset, FS_CardinalityType DEF Depth
<1>3. Cardinality(1 .. Len(o)) = Len(o) /\ IsFiniteSet(1 .. Len(o))
  <2>1. Len(o) \in Int /\ 1 \in Int
    BY <1>1
  <2>2. Cardinality(1 .. Len(o)) = (IF 1 > Len(o) THEN 0 ELSE Len(o) - 1 + 1) /\ IsFiniteSet(1 .. Len(o))
    BY <2>1, FS_Interval
  <2> QED  BY <1>1, <2>2
<1> DEFINE f == [i \in 1 .. Len(o) |-> o[i]]
<1>4. f \in Bijection(1 .. Len(o), S)
  <2>1. f \in [1 .. Len(o) -> S] /\ \A i \in 1 .. Len(o) : f[i] = o[i]
    BY <1>1
  <2> HIDE DEF f
  <2>2. \A i, j \in 1 .. Len(o) : f[i] = f[j] => i = j
    BY <1>1, <2>1
  <2>3. \A n \in S : \E i \in 1 .. Len(o) : f[i] = n
    BY <1>1, <2>1
  <2>4. IsInjective(f)
    <3>1. DOMAIN f = 1 .. Len(o)
      BY <2>1
    <3> QED  BY <2>2, <3>1 DEF IsInjective
  <2>5. f \in Injection(1 .. Len(o), S)
    BY <2>1, <2>4, Zenon DEF Injection
  <2>6. f \in Surjection(1 .. Len(o), S)
    BY <2>1, <2>3, Zenon DEF Surjection
  <2> QED  BY <2>5, <2>6, Zenon DEF Bijection
<1>5. ExistsBijection(1 .. Len(o), S)
  <2> HIDE DEF f
  <2> QED  BY <1>4, Zenon DEF ExistsBijection
<1>6. Cardinality(S) = Cardinality(1 .. Len(o))
  BY <1>3, <1>5, FS_Bijection, Zenon
<1> QED  BY <1>1, <1>2, <1>3, <1>6

\* The walk of the whole tree.
LEMMA WalkIs ==
  ASSUME NEW S, NEW p, NEW e, NEW o, Lists(o, S, p), Shape(tree, S, Len(o), p, e), Linking(tree)
  PROVE  InOrder = o
<1>1. /\ S \in SUBSET Nodes /\ Apart(S, Len(o), p) /\ Dummy \notin S /\ Dummy \in ND /\ Len(o) \in Nat
      /\ Len(o) <= Depth /\ Depth \in Nat /\ \A n \in S : n \in ND
      /\ \A n \in S : p[n] \in 1 .. Len(o) /\ o[p[n]] = n
  BY ListIs, ListFits, NodeIs DEF ND
<1>2. \A n \in S : /\ e["right"][n] \in 1 .. Len(o) /\ e["left"][n] \in 1 .. Len(o)
                   /\ e["left"][n] <= p[n] /\ p[n] <= e["right"][n]
  BY <1>1, WithinIs
<1> DEFINE w == CHOOSE f : f = WalkOf(tree, f)
<1>3. w = WalkOf(tree, w)
  BY WalkExists, Zenon
<1>4. InOrder = w[Depth][tree.root]
  BY ONLY Zenon DEF InOrder, WalkOf, ND
<1> HIDE DEF w
<1>5. \A d \in 0 .. Depth, n \in ND :
        w[d][n] = IF d = 0 \/ n = Dummy THEN <<>>
                  ELSE w[d - 1][tree.kid["left"][n]] \o <<n>> \o w[d - 1][tree.kid["right"][n]]
  <2> TAKE d \in 0 .. Depth
  <2>1. WalkOf(tree, w)[d] =
          [n \in ND |-> IF d = 0 \/ n = Dummy THEN <<>>
                        ELSE w[d - 1][tree.kid["left"][n]] \o <<n>> \o w[d - 1][tree.kid["right"][n]]]
    BY DEF WalkOf
  <2>2. w[d] = WalkOf(tree, w)[d]
    BY <1>3
  <2> QED  BY <2>1, <2>2
<1> DEFINE P(n) == Part(o, e["left"][n], e["right"][n])
           Good(d) == \A n \in S : e["right"][n] - e["left"][n] < d => w[d][n] = P(n)
           Bad == {d \in 0 .. Depth : ~Good(d)}
<1>6. \A d \in 0 .. Depth : w[d][Dummy] = <<>>
  BY <1>1, <1>5
<1>7. ASSUME Bad # {} PROVE FALSE
  <2>1. PICK d \in Bad : \A k \in Bad : d <= k
    <3>1. Bad \in SUBSET Nat
      OBVIOUS
    <3> HIDE DEF Bad
    <3> QED  BY <1>7, <3>1, LeastNatural
  <2>2. d \in 0 .. Depth /\ ~Good(d)
    OBVIOUS
  <2>3. PICK n \in S : e["right"][n] - e["left"][n] < d /\ w[d][n] # P(n)
    BY <2>2
  <2>4. d # 0 /\ d - 1 \in 0 .. Depth
    BY <1>1, <1>2, <2>2, <2>3
  <2>5. Good(d - 1)
    <3>1. d - 1 \notin Bad
      <4>1. ~(d <= d - 1)
        BY <2>2
      <4> HIDE DEF Bad
      <4> QED  BY <2>1, <4>1
    <3> QED  BY <2>4, <3>1
  <2> HIDE DEF Bad
  <2>6. w[d][n] = w[d - 1][tree.kid["left"][n]] \o <<n>> \o w[d - 1][tree.kid["right"][n]]
    BY <1>1, <1>5, <2>2, <2>4
  <2>7. w[d - 1][tree.kid["left"][n]] = Part(o, e["left"][n], p[n] - 1)
    <3>1. CASE tree.kid["left"][n] = Dummy
      <4>1. e["left"][n] = p[n]
        BY <3>1, KidTypes, SidesAre
      <4>2. Part(o, e["left"][n], p[n] - 1) = <<>>
        BY <1>1, <4>1 DEF Part
      <4> QED  BY <1>6, <2>4, <3>1, <4>2
    <3>2. CASE tree.kid["left"][n] # Dummy
      <4>1. PICK k \in S : k = tree.kid["left"][n]
        BY <3>2, KidTypes, SidesAre
      <4>2. e["left"][k] = e["left"][n] /\ e[Other("left")][k] = p[n] + Dir("left")
        BY <4>1, KidIs, SidesAre
      <4>3. e["right"][k] = p[n] - 1
        BY <1>1, <4>2 DEF Other, Dir
      <4>4. e["right"][k] - e["left"][k] < d - 1
        BY <1>1, <1>2, <2>2, <2>3, <4>2, <4>3
      <4>5. w[d - 1][k] = P(k)
        BY <2>5, <4>4
      <4> QED  BY <4>1, <4>2, <4>3, <4>5
    <3> QED  BY <3>1, <3>2
  <2>8. w[d - 1][tree.kid["right"][n]] = Part(o, p[n] + 1, e["right"][n])
    <3>1. CASE tree.kid["right"][n] = Dummy
      <4>1. e["right"][n] = p[n]
        BY <3>1, KidTypes, SidesAre
      <4>2. Part(o, p[n] + 1, e["right"][n]) = <<>>
        BY <1>1, <4>1 DEF Part
      <4> QED  BY <1>6, <2>4, <3>1, <4>2
    <3>2. CASE tree.kid["right"][n] # Dummy
      <4>1. PICK k \in S : k = tree.kid["right"][n]
        BY <3>2, KidTypes, SidesAre
      <4>2. e["right"][k] = e["right"][n] /\ e[Other("right")][k] = p[n] + Dir("right")
        BY <4>1, KidIs, SidesAre
      <4>3. e["left"][k] = p[n] + 1
        BY <1>1, <4>2 DEF Other, Dir
      <4>4. e["right"][k] - e["left"][k] < d - 1
        BY ONLY <1>1, <1>2, <2>2, <2>3, <4>2, <4>3, k \in S
      <4>5. w[d - 1][k] = P(k)
        BY <2>5, <4>4
      <4> QED  BY <4>1, <4>2, <4>3, <4>5
    <3> QED  BY <3>1, <3>2
  <2>9. o \in Seq(Nodes) /\ n = o[p[n]] /\ p[n] \in 1 .. Len(o)
    BY <1>1 DEF Lists
  <2>10. Part(o, e["left"][n], p[n] - 1) \o <<n>> \o Part(o, p[n] + 1, e["right"][n]) = P(n)
    <3>1. PICK i \in 1 .. Len(o), k \in 1 .. Len(o), j \in 1 .. Len(o) :
            i = e["left"][n] /\ k = p[n] /\ j = e["right"][n] /\ i <= k /\ k <= j
      BY <1>2, <2>9
    <3>2. Part(o, i, k - 1) \o <<o[k]>> \o Part(o, k + 1, j) = Part(o, i, j)
      BY <2>9, <3>1, PartsJoin
    <3> QED  BY <2>9, <3>1, <3>2
  <2> QED  BY <2>3, <2>6, <2>7, <2>8, <2>10
<1>8. CASE S = {} /\ tree.root = Dummy
  <2>1. Len(o) = 0
    <3> SUFFICES ASSUME Len(o) # 0 PROVE FALSE
      OBVIOUS
    <3>1. o[1] \in S
      BY <1>1 DEF Lists
    <3> QED  BY <1>8, <3>1
  <2>2. o = <<>>
    BY <2>1, EmptySeq DEF Lists
  <2> QED  BY <1>1, <1>4, <1>6, <1>8, <2>2
<1>9. CASE tree.root \in S /\ e["left"][tree.root] = 1 /\ e["right"][tree.root] = Len(o)
  <2>1. Good(Depth)
    <3>1. Depth \in 0 .. Depth
      BY <1>1
    <3> QED  BY <1>7, <3>1
  <2>2. w[Depth][tree.root] = P(tree.root)
    BY <1>1, <1>9, <2>1
  <2>3. 1 <= Len(o)
    BY <1>2, <1>9
  <2>4. P(tree.root) = SubSeq(o, 1, Len(o))
    BY <1>9, <2>3 DEF Part
  <2>5. SubSeq(o, 1, Len(o)) = o
    BY SubSeqFull DEF Lists
  <2> QED  BY <1>4, <2>2, <2>4, <2>5
<1> QED  BY <1>8, <1>9 DEF Shape, Top

-----------------------------------------------------------------------------
(* The black nodes on the ways down.                                       *)

\* What n adds to what is below it.
Below(g, n) == UNION {{Black(tree, n) + Missing(n, s) + b : b \in g[tree.kid[s][n]]} : s \in Sides}

CountOf(f) == [d \in 0 .. Depth |-> [n \in ND |-> IF d = 0 \/ n = Dummy THEN {0} ELSE Below(f[d - 1], n)]]

\* There is such a count.
LEMMA CountExists ==
  ASSUME Linking(tree)
  PROVE  \E f : f = CountOf(f)
<1> DEFINE Y == [ND -> SUBSET Nat]
           b == [n \in ND |-> {0}]
           Step(g) == [n \in ND |-> IF n = Dummy THEN {0} ELSE Below(g, n)]
           F == [g \in Y |-> Step(g)]
<1>1. Depth \in Nat
  BY FS_CardinalityType, NodesAssumption DEF Depth
<1>2. b \in Y
  OBVIOUS
<1>3. ASSUME NEW g \in Y PROVE Step(g) \in Y
  <2>1. ASSUME NEW n \in ND, n # Dummy PROVE Below(g, n) \in SUBSET Nat
    <3>1. n \in Nodes
      BY <2>1 DEF ND
    <3>2. \A s \in Sides : g[tree.kid[s][n]] \in SUBSET Nat
      BY <3>1 DEF Linking
    <3>3. Black(tree, n) \in Nat /\ \A s \in Sides : Missing(n, s) \in Nat
      BY DEF Black, Missing
    <3> QED  BY <3>2, <3>3 DEF Below
  <2> QED  BY <2>1
<1>4. F \in [Y -> Y]
  BY <1>3
<1>5. \A g \in Y : F[g] = Step(g)
  OBVIOUS
<1>6. PICK h : History(Depth, Y, b, F, h)
  <2> HIDE DEF F, Y, b
  <2> QED  BY <1>1, <1>2, <1>4, Iterates
<1>7. h \in [0 .. Depth -> Y] /\ h[0] = b /\ \A d \in 1 .. Depth : h[d] = F[h[d - 1]]
  <2> HIDE DEF F, Y, b
  <2> QED  BY <1>6 DEF History
<1> HIDE DEF F
<1>8. ASSUME NEW d \in 0 .. Depth
      PROVE  h[d] = [n \in ND |-> IF d = 0 \/ n = Dummy THEN {0} ELSE Below(h[d - 1], n)]
  <2>1. CASE d = 0
    BY <1>7, <2>1
  <2>2. CASE d # 0
    <3>1. d \in 1 .. Depth /\ d - 1 \in 0 .. Depth
      BY <1>1, <2>2
    <3>2. h[d] = Step(h[d - 1])
      <4>1. h[d - 1] \in Y /\ h[d] = F[h[d - 1]]
        BY <1>7, <3>1
      <4> HIDE DEF Y, Step
      <4> QED  BY <1>5, <4>1
    <3> QED  BY <2>2, <3>2
  <2> QED  BY <2>1, <2>2
<1>9. h = [d \in 0 .. Depth |-> h[d]]
  <2> HIDE DEF Y
  <2> QED  BY <1>7
<1>10. h = CountOf(h)
  <2> HIDE DEF Y
  <2> QED  BY <1>8, <1>9 DEF CountOf
<1> QED  BY <1>10

\* On every way there are as many.
LEMMA CountIs ==
  ASSUME NEW S, NEW p, NEW e, NEW h, NEW o, NEW gp, NEW gs, Lists(o, S, p), Shape(tree, S, Len(o), p, e),
         Linking(tree), Heights(tree, S, h, gp, gs),
         \A n \in S, s \in Sides : Missing(n, s) = Gap(gp, gs, n, s)
  PROVE  Cardinality(Blacks) = 1
<1>1. /\ S \in SUBSET Nodes /\ Apart(S, Len(o), p) /\ Dummy \notin S /\ Dummy \in ND /\ Len(o) \in Nat
      /\ Len(o) <= Depth /\ Depth \in Nat /\ \A n \in S : n \in ND
      /\ \A n \in S : p[n] \in 1 .. Len(o)
  BY ListIs, ListFits, NodeIs DEF ND
<1>2. \A n \in S : /\ e["right"][n] \in 1 .. Len(o) /\ e["left"][n] \in 1 .. Len(o)
                   /\ e["left"][n] <= p[n] /\ p[n] <= e["right"][n]
  BY <1>1, WithinIs
<1> DEFINE w == CHOOSE f : f = CountOf(f)
<1>3. w = CountOf(w)
  BY CountExists, Zenon
<1>4. Blacks = w[Depth][tree.root]
  BY DEF Blacks, CountOf, Below, ND
<1> HIDE DEF w
<1>5. \A d \in 0 .. Depth, n \in ND :
        w[d][n] = IF d = 0 \/ n = Dummy THEN {0} ELSE Below(w[d - 1], n)
  <2> TAKE d \in 0 .. Depth
  <2>1. CountOf(w)[d] = [n \in ND |-> IF d = 0 \/ n = Dummy THEN {0} ELSE Below(w[d - 1], n)]
    BY DEF CountOf
  <2>2. w[d] = CountOf(w)[d]
    BY <1>3
  <2> QED  BY <2>1, <2>2
<1> DEFINE Good(d) == \A n \in S : e["right"][n] - e["left"][n] < d => w[d][n] = {h[n]}
           Bad == {d \in 0 .. Depth : ~Good(d)}
<1>6. \A d \in 0 .. Depth : w[d][Dummy] = {0}
  BY <1>1, <1>5
<1>7. h \in [ND -> Nat] /\ h[Dummy] = 0
      /\ \A n \in S, s \in Sides : h[n] = Black(tree, n) + h[tree.kid[s][n]] + Gap(gp, gs, n, s)
  BY DEF Heights
<1>8. ASSUME Bad # {} PROVE FALSE
  <2>1. PICK d \in Bad : \A k \in Bad : d <= k
    <3>1. Bad \in SUBSET Nat
      OBVIOUS
    <3> HIDE DEF Bad
    <3> QED  BY <1>8, <3>1, LeastNatural
  <2>2. d \in 0 .. Depth /\ ~Good(d)
    OBVIOUS
  <2>3. PICK n \in S : e["right"][n] - e["left"][n] < d /\ w[d][n] # {h[n]}
    BY <2>2
  <2>4. d # 0 /\ d - 1 \in 0 .. Depth
    BY ONLY <1>1, <1>2, <2>2, <2>3
  <2>5. Good(d - 1)
    <3>1. d - 1 \notin Bad
      <4>1. ~(d <= d - 1)
        BY <2>2
      <4> HIDE DEF Bad
      <4> QED  BY <2>1, <4>1
    <3> QED  BY <2>4, <3>1
  <2> HIDE DEF Bad
  <2>6. w[d][n] = Below(w[d - 1], n)
    BY <1>1, <1>5, <2>2, <2>4
  <2>7. ASSUME NEW s \in Sides PROVE w[d - 1][tree.kid[s][n]] = {h[tree.kid[s][n]]}
    <3>1. CASE tree.kid[s][n] = Dummy
      BY <1>6, <1>7, <2>4, <3>1
    <3>2. CASE tree.kid[s][n] # Dummy
      <4>1. PICK k \in S : k = tree.kid[s][n]
        BY <3>2, KidTypes
      <4>2. e[s][k] = e[s][n] /\ e[Other(s)][k] = p[n] + Dir(s)
        BY <4>1, KidIs
      <4>3. e["right"][k] - e["left"][k] < d - 1
        <5>1. CASE s = "left"
          <6>1. e["left"][k] = e["left"][n] /\ e["right"][k] = p[n] - 1
            BY <1>1, <4>2, <5>1 DEF Other, Dir
          <6>2. /\ e["left"][n] <= p[n] /\ p[n] <= e["right"][n] /\ p[n] \in Int /\ d \in Int
                /\ e["left"][n] \in Int /\ e["right"][n] \in Int
            BY <1>1, <1>2, <2>2
          <6> QED  BY ONLY <2>3, <6>1, <6>2
        <5>2. CASE s = "right"
          <6>1. e["right"][k] = e["right"][n] /\ e["left"][k] = p[n] + 1
            BY <1>1, <4>2, <5>2 DEF Other, Dir
          <6>2. /\ e["left"][n] <= p[n] /\ p[n] <= e["right"][n] /\ p[n] \in Int /\ d \in Int
                /\ e["left"][n] \in Int /\ e["right"][n] \in Int
            BY <1>1, <1>2, <2>2
          <6> QED  BY ONLY <2>3, <6>1, <6>2
        <5> QED  BY <5>1, <5>2 DEF Sides
      <4> QED  BY <2>5, <4>1, <4>3
    <3> QED  BY <3>1, <3>2
  <2>8. ASSUME NEW s \in Sides
        PROVE  {Black(tree, n) + Missing(n, s) + b : b \in w[d - 1][tree.kid[s][n]]} = {h[n]}
    <3>1. PICK k \in ND : k = tree.kid[s][n]
      BY KidTypes
    <3>2. h[n] = Black(tree, n) + h[k] + Missing(n, s)
      BY <1>7, <3>1
    <3>3. Black(tree, n) \in Nat /\ Missing(n, s) \in Nat /\ h[k] \in Nat
      BY <1>7 DEF Black, Missing
    <3>4. h[n] = Black(tree, n) + Missing(n, s) + h[k]
      BY <3>2, <3>3
    <3>5. w[d - 1][tree.kid[s][n]] = {h[k]}
      BY <2>7, <3>1
    <3> QED  BY <3>4, <3>5
  <2>9. Below(w[d - 1], n) = {h[n]}
    <3>1. \A x : x \in Below(w[d - 1], n) <=>
            \E s \in Sides : x \in {Black(tree, n) + Missing(n, s) + b : b \in w[d - 1][tree.kid[s][n]]}
      BY DEF Below
    <3>2. \A x : x \in Below(w[d - 1], n) <=> \E s \in Sides : x \in {h[n]}
      BY <2>8, <3>1
    <3> QED  BY <3>2, SidesAre
  <2> QED  BY <2>3, <2>6, <2>9
<1>9. \E x : Blacks = {x}
  <2>1. CASE S = {} /\ tree.root = Dummy
    <3>1. Depth \in 0 .. Depth
      BY <1>1
    <3>2. Blacks = {0}
      BY <1>4, <1>6, <2>1, <3>1
    <3> QED  BY <3>2
  <2>2. CASE tree.root \in S
    <3>1. Good(Depth)
      <4>1. Depth \in 0 .. Depth
        BY <1>1
      <4> QED  BY <1>8, <4>1
    <3>2. e["right"][tree.root] - e["left"][tree.root] < Depth
      BY <1>1, <1>2, <2>2
    <3> QED  BY <1>4, <2>2, <3>1, <3>2
  <2> QED  BY <2>1, <2>2 DEF Shape, Top
<1> QED  BY <1>9, FS_Singleton

-----------------------------------------------------------------------------
(* Taking a node out.                                                      *)

\* A black is missing where x hangs.
GapAt(u, R, x, gp, gs) ==
  \/ gp = Dummy /\ x = u.root
  \/ gp \in R /\ gs \in Sides /\ u.parent[x] = gp /\ u.kid[gs][gp] = x

\* The tree is sound except that, when a black has been lost, it is missing at x.
Unlinks(u, R, l, w, x, lost) ==
  /\ x \in R \union {Dummy}
  /\ \E f, k, gp, gs :
       /\ Sound(u, R, l, w, f, k, gp, gs)
       /\ lost = "red" => gp = Dummy /\ u.color[u.root] = "black" /\ \A n \in R : ~RedPair(u, n)
       /\ lost = "black" => /\ GapAt(u, R, x, gp, gs) /\ \A n \in R : RedPair(u, n) => n = x
                            /\ u.color[u.root] = "red" => x = u.root

\* So it is when a node with one kid is spliced out.
LEMMA SpliceUnlinks ==
  ASSUME NEW t, NEW S, NEW l, NEW p, NEW e, NEW h, Sound(t, S, l, p, e, h, Dummy, "left"), Apart(S, l, p),
         NEW z \in S, NEW d \in Sides, t.kid[d][z] = Dummy, NEW c, c = t.kid[Other(d)][z],
         NEW u, SplicesTo(t, z, c, u), t.color[t.root] = "black",
         NEW w \in Numbers, \A n \in S \ {z} : w[n] = IF p[n] > p[z] THEN p[n] - 1 ELSE p[n],
         \A n \in S : ~RedPair(t, n)
  PROVE  Unlinks(u, S \ {z}, l - 1, w, c, t.color[z])
<1>1. Shape(t, S, l, p, e) /\ SideOf(t, z) \in Sides /\ z \in ND
  BY ParentIs, NodeIs DEF Sound, Shape
<1>2. PICK f : Shape(u, S \ {z}, l - 1, w, f)
  BY <1>1, SpliceShape
<1>3. PICK g : g = (IF t.color[z] = "black" THEN t.parent[z] ELSE Dummy)
  OBVIOUS
<1>4. /\ Sound(u, S \ {z}, l - 1, w, f, h, g, SideOf(t, z))
      /\ \A n \in S \ {z} : RedPair(u, n) => n = c /\ t.color[z] = "black"
      /\ t.parent[z] # Dummy => u.kid[SideOf(t, z)][t.parent[z]] = c /\ t.parent[z] \in S \ {z}
      /\ t.parent[z] = Dummy => u.root = c
      /\ u.parent[c] = t.parent[z] /\ c \in (S \ {z}) \union {Dummy}
  BY <1>2, <1>3, SpliceSound
<1>5. u.color = t.color /\ (t.parent[z] # Dummy => u.root = t.root) /\ (t.color[z] = "red" => t.parent[z] # Dummy)
  BY <1>1, ParentIs DEF SplicesTo
<1>6. t.color[z] = "red" => g = Dummy /\ u.color[u.root] = "black" /\ \A n \in S \ {z} : ~RedPair(u, n)
  BY <1>3, <1>4, <1>5
<1>7. t.color[z] = "black" => /\ GapAt(u, S \ {z}, c, g, SideOf(t, z))
                              /\ \A n \in S \ {z} : RedPair(u, n) => n = c
                              /\ u.color[u.root] = "red" => c = u.root
  BY <1>1, <1>3, <1>4, <1>5 DEF GapAt
<1>8. c \in (S \ {z}) \union {Dummy}
  BY <1>4
<1>9. Sound(u, S \ {z}, l - 1, w, f, h, g, SideOf(t, z))
  BY <1>4
<1> QED  BY <1>6, <1>7, <1>8, <1>9, Zenon DEF Unlinks

\* So it is when its place is given to another node.
LEMMA StandUnlinks ==
  ASSUME NEW t, NEW S, NEW l, NEW p, NEW x, NEW lost \in Colors, Unlinks(t, S, l, p, x, lost),
         NEW z \in S, NEW y \in Nodes, y \notin S, x # z, NEW u, StandsFor(t, S, z, y, u),
         u.parent[x] = Instead(t.parent[x], z, y),
         NEW w \in Numbers, w[y] = p[z], \A n \in S \ {z} : w[n] = p[n]
  PROVE  Unlinks(u, (S \ {z}) \union {y}, l, w, x, lost)
<1> DEFINE R == (S \ {z}) \union {y}
<1>1. PICK e, h, gp, gs :
       /\ Sound(t, S, l, p, e, h, gp, gs)
       /\ lost = "red" => gp = Dummy /\ t.color[t.root] = "black" /\ \A n \in S : ~RedPair(t, n)
       /\ lost = "black" => /\ GapAt(t, S, x, gp, gs) /\ \A n \in S : RedPair(t, n) => n = x
                            /\ t.color[t.root] = "red" => x = t.root
  BY DEF Unlinks
<1>2. Shape(t, S, l, p, e)
  BY <1>1 DEF Sound
<1>3. S \in SUBSET Nodes /\ Dummy \notin S /\ y # Dummy /\ z # Dummy /\ x \in S \union {Dummy}
  BY <1>2, NodeIs, NodesAssumption DEF Shape, Unlinks
<1>4. PICK f : Shape(u, R, l, w, f)
  BY <1>2, StandShape
<1>5. gp # y
  BY <1>1, <1>3 DEF GapAt, Colors
<1>6. /\ \E k : Sound(u, R, l, w, f, k, Instead(gp, z, y), gs)
      /\ \A n \in R : RedPair(u, n) => RedPair(t, Instead(n, y, z))
  <2>1. Sound(t, S, l, p, e, h, gp, gs)
    BY <1>1
  <2>2. Shape(u, (S \ {z}) \union {y}, l, w, f)
    BY <1>4
  <2>3. \E k : Sound(u, (S \ {z}) \union {y}, l, w, f, k, Instead(gp, z, y), gs)
    BY ONLY <2>2, <1>5, <2>1, StandSound, z \in S, y \in Nodes, y \notin S, StandsFor(t, S, z, y, u)
  <2>4. \A n \in (S \ {z}) \union {y} : RedPair(u, n) => RedPair(t, Instead(n, y, z))
    BY ONLY <2>2, <1>5, <2>1, StandSound, z \in S, y \in Nodes, y \notin S, StandsFor(t, S, z, y, u)
  <2> QED  BY <2>3, <2>4
<1>7. PICK k : Sound(u, R, l, w, f, k, Instead(gp, z, y), gs)
  BY <1>6
<1>8. u.color[u.root] = t.color[t.root] /\ t.root \in S \union {Dummy} /\ u.root = Instead(t.root, z, y)
  <2>1. t.root \in S \union {Dummy}
    BY <1>2 DEF Shape, Top
  <2> QED  BY <2>1 DEF StandsFor, Instead
<1>9. ASSUME lost = "red"
      PROVE  Instead(gp, z, y) = Dummy /\ u.color[u.root] = "black" /\ \A n \in R : ~RedPair(u, n)
  <2>1. \A n \in R : Instead(n, y, z) \in S
    BY DEF Instead
  <2>2. Instead(gp, z, y) = Dummy
    BY <1>1, <1>3, <1>9 DEF Instead
  <2> QED  BY <1>1, <1>6, <1>8, <1>9, <2>1, <2>2
<1>10. ASSUME lost = "black"
      PROVE  /\ GapAt(u, R, x, Instead(gp, z, y), gs) /\ \A n \in R : RedPair(u, n) => n = x
             /\ u.color[u.root] = "red" => x = u.root
  <2>1. GapAt(u, R, x, Instead(gp, z, y), gs)
    <3>1. CASE gp = Dummy /\ x = t.root
      BY <1>3, <1>8, <3>1 DEF GapAt, Instead
    <3>2. CASE gp \in S /\ gs \in Sides /\ t.parent[x] = gp /\ t.kid[gs][gp] = x
      <4>1. u.parent[x] = Instead(gp, z, y) /\ Instead(gp, z, y) \in R
        BY <3>2 DEF Instead
      <4>2. u.kid[gs][Instead(gp, z, y)] = x
        BY <3>2 DEF StandsFor, Instead
      <4> QED  BY <3>2, <4>1, <4>2 DEF GapAt
    <3> QED  BY <1>1, <1>10, <3>1, <3>2 DEF GapAt
  <2>2. \A n \in R : RedPair(u, n) => n = x
    <3>1. \A n \in R : Instead(n, y, z) \in S /\ (Instead(n, y, z) = x => n = x)
      BY DEF Instead
    <3> QED  BY <1>1, <1>6, <1>10, <3>1
  <2>3. u.color[u.root] = "red" => x = u.root
    BY <1>1, <1>8, <1>10 DEF Instead
  <2> QED  BY <2>1, <2>2, <2>3
<1>11. x \in R \union {Dummy}
  BY <1>3
<1> QED  BY <1>7, <1>9, <1>10, <1>11, Zenon DEF Unlinks

\* Who is who when z has two kids: y, the next node, has no left kid.
TwoKids(t, S, z, l, r, y, x) ==
  /\ z \in S /\ l \in S /\ r \in S /\ y \in S /\ x \in S \union {Dummy}
  /\ l = t.kid["left"][z] /\ r = t.kid["right"][z] /\ y = Leftmost(t, r)
  /\ t.kid["left"][y] = Dummy /\ x = t.kid["right"][y]
  /\ t.parent[y] \in S /\ t.parent[z] \in S \union {Dummy} /\ t.parent[l] = z /\ t.parent[r] = z
  /\ (t.parent[z] = Dummy <=> z = t.root)
  /\ (x # Dummy => t.parent[x] = y)
  /\ t.kid[SideOf(t, y)][t.parent[y]] = y /\ SideOf(t, y) \in Sides
  /\ l # r /\ l # z /\ r # z /\ y # z /\ y # l /\ x # z /\ x # y /\ x # l /\ x # r
  /\ t.parent[z] # y /\ t.parent[z] # z
  /\ (t.parent[y] = z <=> y = r) /\ (t.parent[y] = z => SideOf(t, y) = "right")
  /\ \A n \in S : t.parent[n] = z => n = l \/ n = r
  /\ \A n \in S, s \in Sides : t.kid[s][n] = z <=> n = t.parent[z] /\ s = SideOf(t, z)

\* They are apart.
LEMMA TwoKidsAre ==
  ASSUME NEW t, NEW S, NEW p, NEW e, NEW o, Lists(o, S, p), Shape(t, S, Len(o), p, e), Loose(t, S),
         NEW z \in S, NEW l, NEW r, NEW y, NEW x, l = t.kid["left"][z], r = t.kid["right"][z],
         l # Dummy, r # Dummy, y = Leftmost(t, r), x = t.kid["right"][y]
  PROVE  TwoKids(t, S, z, l, r, y, x) /\ p[y] = p[z] + 1
<1>1. /\ S \in SUBSET Nodes /\ Apart(S, Len(o), p) /\ Dummy \notin S /\ Len(o) \in Nat
      /\ \A n \in S : p[n] \in 1 .. Len(o)
  BY ListIs, NodeIs
<1>2. \A n \in S : /\ e["right"][n] \in 1 .. Len(o) /\ e["left"][n] \in 1 .. Len(o)
                   /\ e["left"][n] <= p[n] /\ p[n] <= e["right"][n]
  BY <1>1, WithinIs
<1>3. l \in S /\ r \in S
  BY KidTypes, SidesAre
<1>4. /\ t.parent[l] = z /\ l # z /\ l # r /\ SideOf(t, l) = "left"
      /\ e["left"][l] = e["left"][z] /\ e["right"][l] = p[z] - 1
  <2>1. /\ t.parent[l] = z /\ l # z /\ t.kid[Other("left")][z] # l /\ SideOf(t, l) = "left"
        /\ e["left"][l] = e["left"][z] /\ e[Other("left")][l] = p[z] + Dir("left")
    BY <1>3, KidIs, SidesAre
  <2>2. p[z] \in Int
    BY <1>1
  <2> QED  BY <2>1, <2>2 DEF Other, Dir
<1>5. /\ t.parent[r] = z /\ r # z /\ SideOf(t, r) = "right"
      /\ e["right"][r] = e["right"][z] /\ e["left"][r] = p[z] + 1
  <2>1. /\ t.parent[r] = z /\ r # z /\ SideOf(t, r) = "right"
        /\ e["right"][r] = e["right"][z] /\ e[Other("right")][r] = p[z] + Dir("right")
    BY <1>3, KidIs, SidesAre
  <2>2. p[z] \in Int
    BY <1>1
  <2> QED  BY <2>1, <2>2 DEF Other, Dir
<1>6. y \in S /\ p[y] = p[z] + 1 /\ t.kid["left"][y] = Dummy
  BY <1>3, <1>5, LeftmostIs
<1>7. y # z /\ y # l
  BY <1>1, <1>2, <1>3, <1>4, <1>6
<1>8. e["left"][y] = p[y]
  BY <1>6, KidTypes, SidesAre
<1>9. y # t.root
  <2> SUFFICES ASSUME y = t.root PROVE FALSE
    OBVIOUS
  <2>1. e["left"][y] = 1
    BY <1>6 DEF Shape, Top
  <2> QED  BY <1>1, <1>6, <1>8, <2>1
<1>10. t.parent[y] \in S /\ SideOf(t, y) \in Sides /\ t.kid[SideOf(t, y)][t.parent[y]] = y
  BY <1>6, <1>9, ParentIs
<1>11. \A n \in S : t.parent[n] = z => n = l \/ n = r
  <2> SUFFICES ASSUME NEW n \in S, t.parent[n] = z PROVE n = l \/ n = r
    OBVIOUS
  <2>1. n # t.root
    BY <1>1, ParentIs
  <2>2. SideOf(t, n) \in Sides /\ t.kid[SideOf(t, n)][z] = n
    BY <2>1, ParentIs
  <2> QED  BY <2>2 DEF Sides
<1>12. (t.parent[y] = z <=> y = r) /\ (t.parent[y] = z => SideOf(t, y) = "right")
  BY <1>5, <1>6, <1>7, <1>11
<1>13. x \in S \union {Dummy} /\ x # z /\ x # y /\ (x # Dummy => t.parent[x] = y)
  <2>1. CASE x = Dummy
    BY <1>1, <1>6, <2>1
  <2>2. CASE x # Dummy
    <3>1. x \in S
      BY <1>6, <2>2, KidTypes, SidesAre
    <3>2. t.parent[x] = y /\ x # y /\ e[Other("right")][x] = p[y] + Dir("right")
      BY <1>6, <3>1, KidIs, SidesAre
    <3>3. e["left"][x] = p[y] + 1
      BY <1>1, <1>6, <3>2 DEF Other, Dir
    <3>4. x # z
      BY <1>1, <1>2, <1>6, <3>1, <3>3
    <3> QED  BY <3>1, <3>2, <3>4
  <2> QED  BY <2>1, <2>2
<1>14. x # l /\ x # r
  BY <1>1, <1>3, <1>4, <1>5, <1>7, <1>13
<1>15. t.parent[z] \in S \union {Dummy} /\ (t.parent[z] = Dummy <=> z = t.root)
  BY ParentIs
<1>16. \A n \in S, s \in Sides : t.kid[s][n] = z <=> n = t.parent[z] /\ s = SideOf(t, z)
  <2> TAKE n \in S, s \in Sides
  <2>1. ASSUME t.kid[s][n] = z PROVE n = t.parent[z] /\ s = SideOf(t, z)
    BY <2>1, KidIs
  <2>2. ASSUME n = t.parent[z], s = SideOf(t, z) PROVE t.kid[s][n] = z
    BY <1>1, <2>2, ParentIs
  <2> QED  BY <2>1, <2>2
<1>17. t.parent[z] # z
  <2> SUFFICES ASSUME t.parent[z] = z PROVE FALSE
    OBVIOUS
  <2> QED  BY <1>4, <1>5, <1>11
<1>18. t.parent[z] # y
  <2> SUFFICES ASSUME t.parent[z] = y PROVE FALSE
    OBVIOUS
  <2>1. SideOf(t, z) \in Sides
    BY ParentIs
  <2>2. t.kid[SideOf(t, z)][y] = z
    BY <1>6, <1>16, <2>1
  <2> QED  BY <1>1, <1>6, <1>13, <2>1, <2>2 DEF Sides
<1> QED  BY <1>3, <1>4, <1>5, <1>6, <1>7, <1>10, <1>11, <1>12, <1>13, <1>14, <1>15, <1>16, <1>17, <1>18 DEF TwoKids

\* The last assignments of the extraction: y gets the place of z, its left kid and colour.
PutOf(B, z, y, l, c) ==
  [Transplant(B, z, y) EXCEPT !.kid["left"][y] = l, !.parent[l] = y, !.color[y] = c]

\* Its links then, in u, when g was the parent of z.
PutLinks(B, z, y, l, c, g, u) ==
  /\ u \in Trees /\ u.root = (IF g = Dummy THEN y ELSE B.root)
  /\ \A s \in Sides, m \in ND :
       u.kid[s][m] = IF m = y /\ s = "left" THEN l
                     ELSE IF m = g /\ m # Dummy /\ s = SideOf(B, z) THEN y ELSE B.kid[s][m]
  /\ \A m \in ND : u.parent[m] = IF m = l THEN y ELSE IF m = y THEN g ELSE B.parent[m]
  /\ \A m \in ND : u.color[m] = IF m = y THEN c ELSE B.color[m]

\* The assignments give it these links.
LEMMA PutIs ==
  ASSUME NEW B \in Trees, NEW z \in Nodes, NEW y \in Nodes, NEW l \in Nodes, NEW c \in Colors,
         NEW g \in ND, g = B.parent[z], NEW u, u = PutOf(B, z, y, l, c)
  PROVE  PutLinks(B, z, y, l, c, g, u)
<1> DEFINE C == Transplant(B, z, y)
           D == WithKid(C, "left", y, l)
           E == WithParent(D, l, y)
<1>1. u = Paint(E, y, c)
  BY Zenon DEF WithKid, WithParent, Paint, PutOf
<1>2. y \in ND /\ l \in ND /\ "left" \in Sides /\ y \in Links /\ B.parent[z] \in ND
  BY SidesAre DEF ND, Links
<1>3. /\ C \in Trees /\ C.root = (IF B.parent[z] = Dummy THEN y ELSE B.root)
      /\ \A s \in Sides, m \in ND :
            C.kid[s][m] = IF m = B.parent[z] /\ m # Dummy /\ s = SideOf(B, z) THEN y ELSE B.kid[s][m]
      /\ \A m \in ND : C.parent[m] = IF m = y THEN B.parent[z] ELSE B.parent[m]
      /\ C.color = B.color
  BY ONLY <1>2, TransplantIs, B \in Trees, z \in Nodes
<1> HIDE DEF C
<1>4. /\ D \in Trees /\ D.root = C.root /\ D.parent = C.parent /\ D.color = C.color
      /\ \A s \in Sides, m \in ND : D.kid[s][m] = IF s = "left" /\ m = y THEN l ELSE C.kid[s][m]
  BY ONLY <1>2, <1>3, SetKid
<1> HIDE DEF D
<1>5. /\ E \in Trees /\ E.root = D.root /\ E.kid = D.kid /\ E.color = D.color
      /\ \A m \in ND : E.parent[m] = IF m = l THEN y ELSE D.parent[m]
  <2>1. D \in Trees
    BY <1>4
  <2> QED  BY ONLY <1>2, <2>1, SetParent
<1> HIDE DEF E
<1>6. /\ u \in Trees /\ u.root = E.root /\ u.kid = E.kid /\ u.parent = E.parent
      /\ \A m \in ND : u.color[m] = IF m = y THEN c ELSE E.color[m]
  <2>1. E \in Trees
    BY <1>5
  <2>2. /\ Paint(E, y, c) \in Trees
        /\ Paint(E, y, c).root = E.root /\ Paint(E, y, c).kid = E.kid
        /\ Paint(E, y, c).parent = E.parent
        /\ \A m \in ND : Paint(E, y, c).color[m] = IF m = y THEN c ELSE E.color[m]
    BY ONLY <1>2, <2>1, PaintIs, c \in Colors
  <2> QED  BY <1>1, <2>2
<1> QED  BY <1>3, <1>4, <1>5, <1>6 DEF PutLinks

\* B is like T, where y has been spliced out, and y already has the right kid of z.
Ready(t, T, S, z, l, y, x, B) ==
  /\ B \in Trees /\ B.root = t.root /\ B.color = t.color /\ B.parent[z] = t.parent[z]
  /\ t.parent[z] # Dummy => SideOf(B, z) = SideOf(t, z)
  /\ \A s \in Sides, m \in ND : m # y /\ m # z => B.kid[s][m] = T.kid[s][m]
  /\ B.kid["right"][y] = T.kid["right"][z] /\ T.kid["left"][z] = l
  /\ \A s \in Sides : B.kid[s][z] = t.kid[s][z]
  /\ \A m \in S \union {x} : m # l /\ m # y /\ m # z => B.parent[m] = Instead(T.parent[m], z, y)
  /\ \A m \in Nodes \ S : B.parent[m] = t.parent[m] /\ \A s \in Sides : B.kid[s][m] = t.kid[s][m]

\* What unlinking leaves alone: the links of nodes that are not in the tree.
Spares(t, S, z, u) ==
  /\ \A m \in Nodes \ S, s \in Sides : u.kid[s][m] = t.kid[s][m] /\ u.parent[m] = t.parent[m]
  /\ \A s \in Sides : u.kid[s][z] = t.kid[s][z]

\* u is T with y where z was, and spares the nodes outside.
Placed(t, T, S, z, y, x, u) ==
  StandsFor(T, S \ {y}, z, y, u) /\ u.parent[x] = Instead(T.parent[x], z, y) /\ Spares(t, S, z, u)

\* After it y has the place of z, and before that it was spliced out.
LEMMA UnlinkedTwo ==
  ASSUME NEW t \in Trees, NEW S \in SUBSET Nodes, NEW z, NEW l, NEW r, NEW y, NEW x,
         TwoKids(t, S, z, l, r, y, x)
  PROVE  /\ SplicesTo(t, y, x, Transplant(t, y, x))
         /\ StandsFor(Transplant(t, y, x), S \ {y}, z, y, Unlinked(t, z))
         /\ Unlinked(t, z).parent[x] = Instead(Transplant(t, y, x).parent[x], z, y)
         /\ Spares(t, S, z, Unlinked(t, z))
<1>1. /\ z \in S /\ l \in S /\ r \in S /\ y \in S /\ x \in S \union {Dummy}
      /\ l = t.kid["left"][z] /\ r = t.kid["right"][z] /\ y = Leftmost(t, r)
      /\ t.kid["left"][y] = Dummy /\ x = t.kid["right"][y]
      /\ t.parent[y] \in S /\ t.parent[z] \in S \union {Dummy} /\ t.parent[l] = z /\ t.parent[r] = z
      /\ l # r /\ l # z /\ r # z /\ y # z /\ y # l /\ x # z /\ x # y /\ x # l /\ x # r
      /\ t.parent[z] # y /\ t.parent[z] # z
  BY DEF TwoKids
<1>2. /\ (x # Dummy => t.parent[x] = y)
      /\ t.kid[SideOf(t, y)][t.parent[y]] = y /\ SideOf(t, y) \in Sides
      /\ (t.parent[y] = z <=> y = r) /\ (t.parent[y] = z => SideOf(t, y) = "right")
      /\ \A n \in S : t.parent[n] = z => n = l \/ n = r
  BY DEF TwoKids
<1>3. \A n \in S, s \in Sides : t.kid[s][n] = z <=> n = t.parent[z] /\ s = SideOf(t, z)
  BY DEF TwoKids
<1>4. Dummy \notin S /\ Dummy \in ND /\ \A n \in S : n \in Nodes /\ n \in ND /\ n \in Links /\ n # Dummy
  BY NodeIs DEF ND
<1>5. PICK q \in S, a \in Sides, pz \in S \union {Dummy} : q = t.parent[y] /\ a = SideOf(t, y) /\ pz = t.parent[z]
  BY <1>1, <1>2
<1>6. q \in ND /\ pz \in ND /\ x \in ND /\ q \in Links /\ pz \in Links /\ z \in Nodes /\ y \in Nodes
  BY <1>1, <1>4, <1>5 DEF Links
<1>7. PICK T : T = Transplant(t, y, x)
  OBVIOUS
<1>8. /\ T \in Trees /\ T.root = t.root /\ T.color = t.color
      /\ \A s \in Sides, m \in ND : T.kid[s][m] = IF m = q /\ s = a THEN x ELSE t.kid[s][m]
      /\ \A m \in ND : T.parent[m] = IF m = x THEN q ELSE t.parent[m]
  <2>1. /\ T \in Trees /\ T.root = (IF t.parent[y] = Dummy THEN x ELSE t.root)
        /\ \A s \in Sides, m \in ND :
              T.kid[s][m] = IF m = t.parent[y] /\ m # Dummy /\ s = SideOf(t, y) THEN x ELSE t.kid[s][m]
        /\ \A m \in ND : T.parent[m] = IF m = x THEN t.parent[y] ELSE t.parent[m]
        /\ T.color = t.color
    BY ONLY <1>5, <1>6, <1>7, TransplantIs, t \in Trees
  <2> QED  BY <1>4, <1>5, <2>1
<1>9. SplicesTo(t, y, x, T)
  BY <1>4, <1>5, <1>8 DEF SplicesTo
<1>10. t.color[z] \in Colors
  <2>1. z \in ND
    BY <1>1, <1>4
  <2> QED  BY ONLY <2>1, TreeFields, t \in Trees
<1>11. l # Dummy /\ r # Dummy /\ SideOf(t, z) \in Sides /\ (pz = Dummy <=> z = t.root)
  BY <1>1, <1>4, <1>5, Zenon DEF SideOf, Sides, TwoKids
<1>12. ASSUME NEW B, Ready(t, T, S, z, l, y, x, B), NEW u, u = PutOf(B, z, y, l, t.color[z])
       PROVE  Placed(t, T, S, z, y, x, u)
  <2>0. /\ B \in Trees /\ B.root = t.root /\ B.color = t.color /\ B.parent[z] = pz
        /\ pz # Dummy => SideOf(B, z) = SideOf(t, z)
        /\ \A s \in Sides, m \in ND : m # y /\ m # z => B.kid[s][m] = T.kid[s][m]
        /\ B.kid["right"][y] = T.kid["right"][z] /\ T.kid["left"][z] = l
        /\ \A s \in Sides : B.kid[s][z] = t.kid[s][z]
        /\ \A m \in S \union {x} : m # l /\ m # y /\ m # z => B.parent[m] = Instead(T.parent[m], z, y)
        /\ \A m \in Nodes \ S : B.parent[m] = t.parent[m] /\ \A s \in Sides : B.kid[s][m] = t.kid[s][m]
    BY <1>5, <1>12 DEF Ready
  <2>1. /\ u \in Trees /\ u.root = (IF pz = Dummy THEN y ELSE t.root)
        /\ \A s \in Sides, m \in ND :
             u.kid[s][m] = IF m = y /\ s = "left" THEN l
                           ELSE IF m = pz /\ m # Dummy /\ s = SideOf(t, z) THEN y ELSE B.kid[s][m]
        /\ \A m \in ND : u.parent[m] = IF m = l THEN y ELSE IF m = y THEN pz ELSE B.parent[m]
        /\ \A m \in ND : u.color[m] = IF m = y THEN t.color[z] ELSE t.color[m]
    <3>1. B \in Trees /\ l \in Nodes /\ y \in Nodes /\ z \in Nodes /\ pz = B.parent[z]
      BY <1>1, <1>4, <2>0
    <3>2. PICK c \in Colors : c = t.color[z]
      BY <1>10
    <3>3. u = PutOf(B, z, y, l, c)
      BY <1>12, <3>2
    <3>4. /\ u \in Trees /\ u.root = (IF pz = Dummy THEN y ELSE B.root)
          /\ \A s \in Sides, m \in ND :
               u.kid[s][m] = IF m = y /\ s = "left" THEN l
                             ELSE IF m = pz /\ m # Dummy /\ s = SideOf(B, z) THEN y ELSE B.kid[s][m]
          /\ \A m \in ND : u.parent[m] = IF m = l THEN y ELSE IF m = y THEN pz ELSE B.parent[m]
          /\ \A m \in ND : u.color[m] = IF m = y THEN c ELSE B.color[m]
      <4>1. B \in Trees /\ z \in Nodes /\ y \in Nodes /\ l \in Nodes /\ c \in Colors
        BY <3>1, <3>2
      <4>2. pz \in ND /\ pz = B.parent[z]
        BY <1>6, <3>1
      <4>3. PutLinks(B, z, y, l, c, pz, u)
        BY ONLY <3>3, <4>1, <4>2, PutIs
      <4> QED  BY ONLY <4>3 DEF PutLinks
    <3> QED  BY <2>0, <3>2, <3>4
  <2>2. u.root = Instead(T.root, z, y)
    BY <1>8, <1>11, <2>1 DEF Instead
  <2>3. u.kid["left"][y] = T.kid["left"][z] /\ u.kid["right"][y] = T.kid["right"][z]
    <3>1. y \in ND /\ y # pz
      BY <1>1, <1>4, <1>5
    <3>2. u.kid["left"][y] = l /\ u.kid["right"][y] = B.kid["right"][y]
      BY <2>1, <3>1, SidesAre
    <3> QED  BY <2>0, <3>2
  <2>4. ASSUME NEW s \in Sides, NEW n \in S, n # y, n # z PROVE u.kid[s][n] = Instead(T.kid[s][n], z, y)
    <3>1. u.kid[s][n] = IF n = pz /\ s = SideOf(t, z) THEN y ELSE T.kid[s][n]
      BY <1>4, <2>0, <2>1, <2>4
    <3>2. T.kid[s][n] = IF n = q /\ s = a THEN x ELSE t.kid[s][n]
      BY <1>4, <1>8
    <3>3. n = q /\ s = a => ~(n = pz /\ s = SideOf(t, z))
      BY <1>1, <1>2, <1>3, <1>5
    <3>4. t.kid[s][n] = z <=> n = pz /\ s = SideOf(t, z)
      BY <1>3, <1>5
    <3> QED  BY <1>1, <3>1, <3>2, <3>3, <3>4 DEF Instead
  <2>5. u.parent[y] = T.parent[z] /\ u.color[y] = T.color[z]
    BY <1>1, <1>4, <1>5, <1>8, <2>1
  <2>6. \A n \in (S \union {Dummy}) \ {y} : u.color[n] = T.color[n]
    BY <1>4, <1>8, <2>1
  <2>7. ASSUME NEW n \in S \union {x}, n # y, n # z PROVE u.parent[n] = Instead(T.parent[n], z, y)
    <3>1. n \in ND
      BY <1>1, <1>4, <1>6
    <3>2. CASE n = l
      <4>1. T.parent[n] = z /\ u.parent[n] = y
        BY <1>1, <1>8, <2>1, <3>1, <3>2
      <4> QED  BY <4>1 DEF Instead
    <3>3. CASE n # l
      BY <2>0, <2>1, <2>7, <3>1, <3>3
    <3> QED  BY <3>2, <3>3
  <2>8. StandsFor(T, S \ {y}, z, y, u)
    <3>1. \A s \in Sides : u.kid[s][y] = T.kid[s][z]
      BY <2>3 DEF Sides
    <3>2. u \in Trees
      BY <2>1
    <3>3. \A s \in Sides : \A n \in (S \ {y}) \ {z} : u.kid[s][n] = Instead(T.kid[s][n], z, y)
      BY <2>4
    <3>4. \A n \in (S \ {y}) \ {z} : u.parent[n] = Instead(T.parent[n], z, y)
      BY <2>7
    <3>5. \A n \in ((S \ {y}) \union {Dummy}) \ {z} : u.color[n] = T.color[n]
      BY <1>1, <1>4, <2>6
    <3> QED  BY <2>2, <2>5, <3>1, <3>2, <3>3, <3>4, <3>5 DEF StandsFor
  <2>9. ASSUME NEW m \in Nodes \ S, NEW s \in Sides
        PROVE  u.kid[s][m] = t.kid[s][m] /\ u.parent[m] = t.parent[m]
    <3>1. m \in ND /\ m # y /\ m # l /\ ~(m = pz /\ m # Dummy)
      BY <1>1 DEF ND
    <3>2. u.kid[s][m] = B.kid[s][m] /\ u.parent[m] = B.parent[m]
      BY <2>1, <3>1
    <3> QED  BY <2>0, <3>2
  <2>10. \A s \in Sides : u.kid[s][z] = t.kid[s][z]
    <3>1. z \in ND /\ z # y /\ z # pz
      BY <1>1, <1>4, <1>5
    <3> QED  BY <2>0, <2>1, <3>1
  <2>11. u.parent[x] = Instead(T.parent[x], z, y)
    BY <1>1, <2>7
  <2>12. Spares(t, S, z, u)
    BY ONLY <2>9, <2>10 DEF Spares
  <2> QED  BY ONLY <2>8, <2>11, <2>12 DEF Placed
<1>13. PICK u : u = Unlinked(t, z)
  OBVIOUS
<1>14. CASE q = z
  <2> DEFINE B == WithParent(t, x, y)
  <2>1. u = PutOf(B, z, y, l, t.color[z])
    BY <1>1, <1>5, <1>11, <1>13, <1>14 DEF Unlinked, WithParent, PutOf
  <2>2. /\ B \in Trees /\ B.root = t.root /\ B.kid = t.kid /\ B.color = t.color
        /\ \A m \in ND : B.parent[m] = IF m = x THEN y ELSE t.parent[m]
    <3>1. x \in ND /\ y \in Links
      BY <1>1, <1>4, <1>6
    <3> QED  BY ONLY <3>1, SetParent, t \in Trees
  <2> HIDE DEF B
  <2>3. a = "right" /\ y = r
    BY <1>2, <1>5, <1>14
  <2>4. B.parent[z] = pz /\ SideOf(B, z) = SideOf(t, z)
    BY <1>1, <1>4, <1>5, <2>2 DEF SideOf
  <2>5. \A s \in Sides, m \in ND : m # y /\ m # z => B.kid[s][m] = T.kid[s][m]
    BY <1>8, <1>14, <2>2
  <2>6. B.kid["right"][y] = T.kid["right"][z] /\ T.kid["left"][z] = l
    BY <1>1, <1>4, <1>8, <1>14, <2>2, <2>3, SidesAre
  <2>7. \A m \in S \union {x} : m # l /\ m # y /\ m # z => B.parent[m] = Instead(T.parent[m], z, y)
    <3> TAKE m \in S \union {x}
    <3>1. m \in ND
      BY <1>4, <1>6
    <3>2. CASE m = x
      BY <1>8, <1>14, <2>2, <3>1, <3>2 DEF Instead
    <3>3. CASE m # x
      BY <1>2, <1>8, <2>2, <2>3, <3>1, <3>3 DEF Instead
    <3> QED  BY <3>2, <3>3
  <2>8. \A m \in Nodes \ S : B.parent[m] = t.parent[m] /\ \A s \in Sides : B.kid[s][m] = t.kid[s][m]
    <3>1. \A m \in Nodes \ S : m \in ND /\ m # x
      BY <1>1, NodesAssumption DEF ND
    <3> QED  BY <2>2, <3>1
  <2>9. \A s \in Sides : B.kid[s][z] = t.kid[s][z]
    BY <2>2
  <2>10. Ready(t, T, S, z, l, y, x, B)
    BY <1>5, <2>2, <2>4, <2>5, <2>6, <2>7, <2>8, <2>9 DEF Ready
  <2>11. Placed(t, T, S, z, y, x, u)
    BY ONLY <1>12, <2>1, <2>10
  <2>12. StandsFor(T, S \ {y}, z, y, u) /\ u.parent[x] = Instead(T.parent[x], z, y) /\ Spares(t, S, z, u)
    BY ONLY <2>11 DEF Placed
  <2> QED  BY ONLY <1>7, <1>9, <1>13, <2>12
<1>15. CASE q # z
  <2> DEFINE A == WithKid(T, "right", y, r)
             B == WithParent(A, r, y)
  <2>1. u = PutOf(B, z, y, l, t.color[z])
    <3>1. B = [Transplant(t, y, x) EXCEPT !.kid["right"][y] = r, !.parent[r] = y]
      BY <1>7 DEF WithKid, WithParent
    <3> HIDE DEF B
    <3> QED  BY <1>1, <1>5, <1>11, <1>13, <1>15, <3>1, Zenon DEF Unlinked, PutOf
  <2>2. /\ A \in Trees /\ A.root = T.root /\ A.parent = T.parent /\ A.color = T.color
        /\ \A s \in Sides, m \in ND : A.kid[s][m] = IF s = "right" /\ m = y THEN r ELSE T.kid[s][m]
    <3>1. y \in ND /\ r \in ND /\ "right" \in Sides
      BY <1>1, <1>4, SidesAre
    <3> QED  BY ONLY <1>8, <3>1, SetKid
  <2> HIDE DEF A
  <2>3. /\ B \in Trees /\ B.root = A.root /\ B.kid = A.kid /\ B.color = A.color
        /\ \A m \in ND : B.parent[m] = IF m = r THEN y ELSE A.parent[m]
    <3>1. y \in Links /\ r \in ND
      BY <1>1, <1>4
    <3> QED  BY ONLY <2>2, <3>1, SetParent
  <2> HIDE DEF B
  <2>4. B.parent[z] = pz
    BY <1>1, <1>4, <1>5, <1>8, <2>2, <2>3
  <2>5. \A s \in Sides, m \in ND : m # y => B.kid[s][m] = T.kid[s][m]
    BY <2>2, <2>3
  <2>6. B.kid["right"][y] = T.kid["right"][z] /\ T.kid["left"][z] = l /\ \A s \in Sides : B.kid[s][z] = t.kid[s][z]
    BY <1>1, <1>4, <1>8, <1>15, <2>2, <2>3, SidesAre
  <2>7. ASSUME pz # Dummy PROVE SideOf(B, z) = SideOf(t, z)
    <3>1. B.kid["left"][pz] = T.kid["left"][pz]
      BY <1>1, <1>5, <1>6, <2>5, SidesAre
    <3>2. T.kid["left"][pz] = IF pz = q /\ a = "left" THEN x ELSE t.kid["left"][pz]
      BY <1>6, <1>8, SidesAre
    <3>3. pz = q /\ a = "left" => t.kid["left"][pz] = y
      BY <1>2, <1>5
    <3>4. B.kid["left"][pz] = z <=> t.kid["left"][pz] = z
      BY <1>1, <3>1, <3>2, <3>3
    <3> QED  BY <1>5, <2>4, <3>4 DEF SideOf
  <2>8. \A m \in S \union {x} : m # l /\ m # y /\ m # z => B.parent[m] = Instead(T.parent[m], z, y)
    <3> TAKE m \in S \union {x}
    <3>1. m \in ND
      BY <1>4, <1>6
    <3>2. CASE m = x
      BY <1>1, <1>8, <1>15, <2>2, <2>3, <3>1, <3>2 DEF Instead
    <3>3. CASE m = r
      BY <1>1, <1>8, <2>2, <2>3, <3>1, <3>3 DEF Instead
    <3>4. CASE m # x /\ m # r
      BY <1>2, <1>8, <2>2, <2>3, <3>1, <3>4 DEF Instead
    <3> QED  BY <3>2, <3>3, <3>4
  <2>9. \A m \in Nodes \ S : B.parent[m] = t.parent[m] /\ \A s \in Sides : B.kid[s][m] = t.kid[s][m]
    <3>1. \A m \in Nodes \ S : m \in ND /\ m # x /\ m # r /\ m # y /\ m # q
      BY <1>1, NodesAssumption DEF ND
    <3> QED  BY <1>8, <2>2, <2>3, <2>5, <3>1
  <2>10. B.root = t.root /\ B.color = t.color
    BY <1>8, <2>2, <2>3
  <2>11. Ready(t, T, S, z, l, y, x, B)
    BY <1>5, <2>3, <2>4, <2>5, <2>6, <2>7, <2>8, <2>9, <2>10 DEF Ready
  <2>12. Placed(t, T, S, z, y, x, u)
    BY ONLY <1>12, <2>1, <2>11
  <2> QED  BY ONLY <1>7, <1>9, <1>13, <2>12 DEF Placed
<1> QED  BY <1>14, <1>15

\* A node with one kid gives its place to it.
LEMMA UnlinkedOne ==
  ASSUME NEW t, NEW S, NEW p, NEW e, NEW h, NEW o, Lists(o, S, p),
         Sound(t, S, Len(o), p, e, h, Dummy, "left"),
         t.color[t.root] = "black", \A n \in S : ~RedPair(t, n),
         NEW z \in S, NEW w \in Numbers, \A n \in S \ {z} : w[n] = IF p[n] > p[z] THEN p[n] - 1 ELSE p[n],
         NEW d \in Sides, t.kid[d][z] = Dummy, NEW c, c = t.kid[Other(d)][z]
  PROVE  /\ Unlinks(Transplant(t, z, c), S \ {z}, Len(o) - 1, w, c, t.color[z])
         /\ Spares(t, S, z, Transplant(t, z, c))
<1>1. /\ Shape(t, S, Len(o), p, e) /\ t \in Trees /\ S \in SUBSET Nodes /\ Apart(S, Len(o), p)
  BY ListIs DEF Sound, Shape
<1>2. z \in Nodes /\ z \in ND /\ z # Dummy /\ Other(d) \in Sides
  BY <1>1, NodeIs, SidesAre
<1>3. c \in S \union {Dummy} /\ c \in ND /\ (c # Dummy => t.parent[c] = z /\ c # z)
  BY <1>1, <1>2, KidTypes, KidIs
<1>4. t.parent[z] \in S \union {Dummy} /\ t.parent[z] # z
  <2>1. /\ t.parent[z] \in S \union {Dummy} /\ SideOf(t, z) \in Sides
        /\ z # t.root => t.kid[SideOf(t, z)][t.parent[z]] = z
        /\ t.parent[z] = Dummy <=> z = t.root
    BY <1>1, ParentIs
  <2>2. ASSUME t.parent[z] = z PROVE FALSE
    <3>1. t.kid[SideOf(t, z)][z] = z
      BY <1>2, <2>1, <2>2
    <3> QED  BY <1>1, <2>1, <3>1, KidIs
  <2> QED  BY <2>1, <2>2
<1>5. t.parent[z] \in ND
  BY <1>1, <1>4 DEF ND
<1>6. PICK u : u = Transplant(t, z, c)
  OBVIOUS
<1>7. SplicesTo(t, z, c, u)
  <2>1. /\ u \in Trees /\ u.root = (IF t.parent[z] = Dummy THEN c ELSE t.root)
        /\ \A r \in Sides, m \in ND :
              u.kid[r][m] = IF m = t.parent[z] /\ m # Dummy /\ r = SideOf(t, z) THEN c ELSE t.kid[r][m]
        /\ \A m \in ND : u.parent[m] = IF m = c THEN t.parent[z] ELSE t.parent[m]
        /\ u.color = t.color
    <3>1. z \in Nodes /\ c \in ND /\ t \in Trees
      BY <1>1, <1>2, <1>3
    <3> QED  BY ONLY <3>1, <1>5, <1>6, TransplantIs
  <2> QED  BY <2>1 DEF SplicesTo
<1>8. Unlinks(u, S \ {z}, Len(o) - 1, w, c, t.color[z])
  BY <1>1, <1>7, SpliceUnlinks
<1>9. Spares(t, S, z, u)
  <2>1. ASSUME NEW m \in Nodes \ S, NEW s \in Sides PROVE u.kid[s][m] = t.kid[s][m] /\ u.parent[m] = t.parent[m]
    <3>1. m \in ND /\ m # Dummy /\ m # c /\ m # t.parent[z]
      BY <1>3, <1>4, NodesAssumption DEF ND
    <3> QED  BY <1>7, <3>1 DEF SplicesTo
  <2>2. ASSUME NEW s \in Sides PROVE u.kid[s][z] = t.kid[s][z]
    BY <1>2, <1>4, <1>7 DEF SplicesTo
  <2> QED  BY <2>1, <2>2 DEF Spares
<1> QED  BY <1>6, <1>8, <1>9

\* Numbers without z, behind which they move down.
Closing(S, p, z, w) ==
  w \in Numbers /\ \A n \in S \ {z} : w[n] = IF p[n] > p[z] THEN p[n] - 1 ELSE p[n]

\* A node with two kids gives its place to the next node, which gives its own to its right kid.
LEMMA UnlinkedBetween ==
  ASSUME NEW t, NEW S, NEW p, NEW e, NEW h, NEW o, Lists(o, S, p),
         Sound(t, S, Len(o), p, e, h, Dummy, "left"), Loose(t, S),
         t.color[t.root] = "black", \A n \in S : ~RedPair(t, n),
         NEW z \in S, NEW w, Closing(S, p, z, w),
         NEW l, NEW r, NEW y, NEW x, l = t.kid["left"][z], r = t.kid["right"][z],
         l # Dummy, r # Dummy, y = Leftmost(t, r), x = t.kid["right"][y]
  PROVE  /\ Unlinks(Unlinked(t, z), S \ {z}, Len(o) - 1, w, x, t.color[y])
         /\ Spares(t, S, z, Unlinked(t, z)) /\ t.color[y] \in Colors
<1>1. /\ Shape(t, S, Len(o), p, e) /\ t \in Trees /\ S \in SUBSET Nodes /\ Apart(S, Len(o), p)
      /\ p \in Numbers
  BY ListIs DEF Sound, Shape
<1>2. TwoKids(t, S, z, l, r, y, x) /\ p[y] = p[z] + 1
  BY <1>1, TwoKidsAre
<1>3. PICK u : u = Unlinked(t, z)
  OBVIOUS
<1>4. PICK T : T = Transplant(t, y, x)
  OBVIOUS
<1>5. /\ SplicesTo(t, y, x, T) /\ StandsFor(T, S \ {y}, z, y, u)
      /\ u.parent[x] = Instead(T.parent[x], z, y)
      /\ Spares(t, S, z, u)
  <2>1. t \in Trees /\ S \in SUBSET Nodes /\ TwoKids(t, S, z, l, r, y, x)
    BY <1>1, <1>2
  <2>2. /\ SplicesTo(t, y, x, Transplant(t, y, x))
        /\ StandsFor(Transplant(t, y, x), S \ {y}, z, y, Unlinked(t, z))
        /\ Unlinked(t, z).parent[x] = Instead(Transplant(t, y, x).parent[x], z, y)
        /\ Spares(t, S, z, Unlinked(t, z))
    BY ONLY <2>1, UnlinkedTwo
  <2> QED  BY <1>3, <1>4, <2>2
<1>6. /\ y \in S /\ y # z /\ x # z /\ t.kid["left"][y] = Dummy
  BY <1>2 DEF TwoKids
<1>7. y \in Nodes /\ y \in ND /\ z \in ND /\ \A n \in S : n \in ND /\ p[n] \in Int
  BY <1>1, <1>6, NodeIs DEF Numbers
<1>8. PICK p1 \in Numbers : \A n \in ND : p1[n] = IF p[n] > p[y] THEN p[n] - 1 ELSE p[n]
  <2>1. [n \in ND |-> IF p[n] > p[y] THEN p[n] - 1 ELSE p[n]] \in Numbers
    BY <1>1, <1>7 DEF Numbers
  <2> QED  BY <2>1
<1>9. Unlinks(T, S \ {y}, Len(o) - 1, p1, x, t.color[y])
  <2>1. x = t.kid[Other("left")][y] /\ "left" \in Sides
    BY SidesAre DEF Other
  <2>2. \A n \in S \ {y} : p1[n] = IF p[n] > p[y] THEN p[n] - 1 ELSE p[n]
    BY <1>7, <1>8
  <2>3. Sound(t, S, Len(o), p, e, h, Dummy, "left") /\ Apart(S, Len(o), p) /\ y \in S /\ "left" \in Sides
    BY <1>1, <1>6, <2>1
  <2>4. t.kid["left"][y] = Dummy /\ x = t.kid[Other("left")][y] /\ SplicesTo(t, y, x, T) /\ t.color[t.root] = "black"
    BY <1>5, <1>6, <2>1
  <2>5. p1 \in Numbers /\ \A n \in S : ~RedPair(t, n)
    OBVIOUS
  <2> QED  BY ONLY <2>2, <2>3, <2>4, <2>5, SpliceUnlinks, Zenon
<1>20. w \in Numbers /\ \A n \in S \ {z} : w[n] = IF p[n] > p[z] THEN p[n] - 1 ELSE p[n]
  BY DEF Closing
<1>10. w[y] = p1[z]
  <2>1. w[y] = p[y] - 1
    BY <1>2, <1>6, <1>7, <1>20
  <2>2. p1[z] = p[z]
    BY <1>2, <1>7, <1>8
  <2> QED  BY <1>2, <1>7, <2>1, <2>2
<1>11. \A n \in (S \ {y}) \ {z} : w[n] = p1[n]
  <2> TAKE n \in (S \ {y}) \ {z}
  <2>1. p[n] # p[y] /\ p[n] # p[z] /\ p[n] \in Int /\ p[z] \in Int /\ p[y] \in Int
    BY <1>1, <1>6, <1>7 DEF Apart
  <2>2. p1[n] = (IF p[n] > p[y] THEN p[n] - 1 ELSE p[n]) /\ w[n] = IF p[n] > p[z] THEN p[n] - 1 ELSE p[n]
    BY <1>7, <1>8, <1>20
  <2> QED  BY <1>2, <2>1, <2>2
<1>12. t.color[y] \in Colors
  BY <1>1, <1>7, TreeFields
<1>13. Unlinks(u, ((S \ {y}) \ {z}) \union {y}, Len(o) - 1, w, x, t.color[y])
  <2>1. z \in S \ {y} /\ y \notin S \ {y}
    BY <1>6
  <2>2. y \in Nodes /\ x # z /\ StandsFor(T, S \ {y}, z, y, u) /\ u.parent[x] = Instead(T.parent[x], z, y)
    BY <1>5, <1>6, <1>7
  <2>3. w \in Numbers
    BY <1>20
  <2> QED  BY ONLY <1>9, <1>10, <1>11, <1>12, <2>1, <2>2, <2>3, StandUnlinks, Zenon
<1>14. ((S \ {y}) \ {z}) \union {y} = S \ {z}
  BY <1>6
<1>15. Spares(t, S, z, u)
  BY <1>5
<1> QED  BY <1>3, <1>12, <1>13, <1>14, <1>15

\* What unlinking z comes to.
LEMMA UnlinkedIs ==
  ASSUME NEW t, NEW S, NEW p, NEW e, NEW h, NEW o, Lists(o, S, p),
         Sound(t, S, Len(o), p, e, h, Dummy, "left"), Loose(t, S),
         t.color[t.root] = "black", \A n \in S : ~RedPair(t, n),
         NEW z \in S, NEW w, Closing(S, p, z, w)
  PROVE  /\ Unlinks(Unlinked(t, z), S \ {z}, Len(o) - 1, w, Replacement(t, z), ColorLost(t, z))
         /\ Spares(t, S, z, Unlinked(t, z)) /\ ColorLost(t, z) \in Colors
<1>1. /\ Shape(t, S, Len(o), p, e) /\ t \in Trees /\ S \in SUBSET Nodes /\ z \in ND
      /\ t.color[z] \in Colors
  BY ListIs, NodeIs, TreeFields DEF Sound, Shape
<1>2. PICK l : l = t.kid["left"][z]
  OBVIOUS
<1>3. PICK r : r = t.kid["right"][z]
  OBVIOUS
<1>7. w \in Numbers /\ \A n \in S \ {z} : w[n] = IF p[n] > p[z] THEN p[n] - 1 ELSE p[n]
  BY DEF Closing
<1>4. CASE l = Dummy
  <2>1. Unlinked(t, z) = Transplant(t, z, r) /\ Replacement(t, z) = r /\ ColorLost(t, z) = t.color[z]
    BY <1>2, <1>3, <1>4 DEF Unlinked, Replacement, ColorLost
  <2>2. t.kid["left"][z] = Dummy /\ r = t.kid[Other("left")][z] /\ "left" \in Sides
    BY <1>2, <1>3, <1>4, SidesAre DEF Other
  <2>3. Unlinks(Transplant(t, z, r), S \ {z}, Len(o) - 1, w, r, t.color[z]) /\ Spares(t, S, z, Transplant(t, z, r))
    BY <1>7, <2>2, UnlinkedOne
  <2> QED  BY <1>1, <2>1, <2>3
<1>5. CASE l # Dummy /\ r = Dummy
  <2>1. Unlinked(t, z) = Transplant(t, z, l) /\ Replacement(t, z) = l /\ ColorLost(t, z) = t.color[z]
    BY <1>2, <1>3, <1>5 DEF Unlinked, Replacement, ColorLost
  <2>2. t.kid["right"][z] = Dummy /\ l = t.kid[Other("right")][z] /\ "right" \in Sides
    BY <1>2, <1>3, <1>5, SidesAre DEF Other
  <2>3. Unlinks(Transplant(t, z, l), S \ {z}, Len(o) - 1, w, l, t.color[z]) /\ Spares(t, S, z, Transplant(t, z, l))
    BY <1>7, <2>2, UnlinkedOne
  <2> QED  BY <1>1, <2>1, <2>3
<1>6. CASE l # Dummy /\ r # Dummy
  <2>1. PICK y : y = Leftmost(t, r)
    OBVIOUS
  <2>2. PICK x : x = t.kid["right"][y]
    OBVIOUS
  <2>3. Replacement(t, z) = x /\ ColorLost(t, z) = t.color[y]
    BY <1>2, <1>3, <1>6, <2>1, <2>2 DEF Replacement, ColorLost
  <2>4. /\ Unlinks(Unlinked(t, z), S \ {z}, Len(o) - 1, w, x, t.color[y])
        /\ Spares(t, S, z, Unlinked(t, z)) /\ t.color[y] \in Colors
    BY <1>2, <1>3, <1>6, <2>1, <2>2, UnlinkedBetween
  <2> QED  BY <2>3, <2>4
<1> QED  BY <1>4, <1>5, <1>6
===============================================================================
