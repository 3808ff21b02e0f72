--------------------------- MODULE ContainersProofs ---------------------------
(***************************************************************************)
(* Theorems about RbTree, for any finite set of nodes with any keys; about *)
(* Registry, for any size of the array and any history of additions and    *)
(* removals; about IndicationStore, for batches of any two sizes and any   *)
(* number of indications; and about MCContainers, which puts the three     *)
(* beside each other.                                                      *)
(***************************************************************************)
EXTENDS MCContainers, RbTreeProofs

-----------------------------------------------------------------------------
(* Sequences without one of their elements, and with one more.             *)

\* A sequence without its element at j.
Without(s, j) == SubSeq(s, 1, j - 1) \o SubSeq(s, j + 1, Len(s))

\* The first n elements of a sequence.
LEMMA StartOf ==
  ASSUME NEW S, NEW s \in Seq(S), NEW n \in Nat, n <= Len(s)
  PROVE  /\ SubSeq(s, 1, n) \in Seq(S) /\ Len(SubSeq(s, 1, n)) = n
         /\ \A i \in 1 .. n : SubSeq(s, 1, n)[i] = s[i]
OBVIOUS

\* Those behind the first n.
LEMMA RestOf ==
  ASSUME NEW S, NEW s \in Seq(S), NEW n \in Nat, n <= Len(s)
  PROVE  /\ SubSeq(s, n + 1, Len(s)) \in Seq(S) /\ Len(SubSeq(s, n + 1, Len(s))) = Len(s) - n
         /\ \A i \in 1 .. Len(s) - n : SubSeq(s, n + 1, Len(s))[i] = s[n + i]
OBVIOUS

\* Those before it stay where they are, those behind it move up.
LEMMA WithoutIs ==
  ASSUME NEW S, NEW s \in Seq(S), NEW j \in 1 .. Len(s)
  PROVE  /\ Without(s, j) \in Seq(S) /\ Len(s) \in Nat /\ Len(Without(s, j)) = Len(s) - 1
         /\ \A i \in 1 .. Len(s) - 1 : Without(s, j)[i] = s[IF i < j THEN i ELSE i + 1]
<1>1. Len(s) \in Nat /\ j \in Nat \ {0}
  BY LenProperties
<1>2. \A i \in 1 .. Len(s) : s[i] \in S
  BY ElementOfSeq
<1>3. PICK u \in Seq(S) : u = SubSeq(s, 1, j - 1) /\ Len(u) = j - 1
                          /\ \A i \in 1 .. j - 1 : u[i] = s[i]
  <2>1. j - 1 \in Nat /\ j - 1 <= Len(s)
    BY <1>1
  <2>2. /\ SubSeq(s, 1, j - 1) \in Seq(S) /\ Len(SubSeq(s, 1, j - 1)) = j - 1
        /\ \A i \in 1 .. j - 1 : SubSeq(s, 1, j - 1)[i] = s[i]
    BY <2>1, StartOf
  <2> QED  BY <2>2, Zenon
<1>4. PICK v \in Seq(S) : v = SubSeq(s, j + 1, Len(s)) /\ Len(v) = Len(s) - j
                          /\ \A i \in 1 .. Len(s) - j : v[i] = s[j + i]
  <2>1. j \in Nat /\ j <= Len(s)
    BY <1>1
  <2>2. /\ SubSeq(s, j + 1, Len(s)) \in Seq(S) /\ Len(SubSeq(s, j + 1, Len(s))) = Len(s) - j
        /\ \A i \in 1 .. Len(s) - j : SubSeq(s, j + 1, Len(s))[i] = s[j + i]
    BY <2>1, RestOf
  <2> QED  BY <2>2, Zenon
<1>5. PICK t \in Seq(S) : t = Without(s, j) /\ Len(t) = Len(u) + Len(v)
                          /\ \A i \in 1 .. Len(u) + Len(v) : t[i] = IF i <= Len(u) THEN u[i] ELSE v[i - Len(u)]
  <2>1. Without(s, j) = u \o v
    BY <1>3, <1>4 DEF Without
  <2>2. /\ u \o v \in Seq(S) /\ Len(u \o v) = Len(u) + Len(v)
        /\ \A i \in 1 .. Len(u) + Len(v) : (u \o v)[i] = IF i <= Len(u) THEN u[i] ELSE v[i - Len(u)]
    BY ConcatProperties
  <2> QED  BY <2>1, <2>2, Zenon
<1>6. Len(t) = Len(s) - 1
  BY <1>1, <1>3, <1>4, <1>5
<1>7. ASSUME NEW i \in 1 .. Len(s) - 1 PROVE t[i] = s[IF i < j THEN i ELSE i + 1]
  <2>1. i \in 1 .. Len(u) + Len(v) /\ t[i] = IF i <= Len(u) THEN u[i] ELSE v[i - Len(u)]
    BY <1>1, <1>5, <1>6
  <2>2. CASE i < j
    <3>1. i <= Len(u) /\ i \in 1 .. j - 1
      BY <1>1, <1>3, <2>2
    <3> QED  BY <1>3, <2>1, <2>2, <3>1
  <2>3. CASE ~(i < j)
    <3>1. ~(i <= Len(u)) /\ i - Len(u) \in 1 .. Len(s) - j /\ j + (i - Len(u)) = i + 1
      <4>1. Len(u) = j - 1
        BY <1>3
      <4> QED  BY <1>1, <2>3, <4>1
    <3> QED  BY <1>4, <2>1, <2>3, <3>1
  <2> QED  BY <2>2, <2>3
<1> QED  BY <1>1, <1>5, <1>6, <1>7

\* A sequence with z behind its first q elements.
With(s, q, z) == SubSeq(s, 1, q) \o <<z>> \o SubSeq(s, q + 1, Len(s))

\* Those behind it move down.
LEMMA WithIs ==
  ASSUME NEW S, NEW s \in Seq(S), NEW z \in S, NEW q \in 0 .. Len(s)
  PROVE  /\ With(s, q, z) \in Seq(S) /\ Len(s) \in Nat /\ Len(With(s, q, z)) = Len(s) + 1
         /\ \A i \in 1 .. Len(s) + 1 :
              With(s, q, z)[i] = IF i <= q THEN s[i] ELSE IF i = q + 1 THEN z ELSE s[i - 1]
<1>1. Len(s) \in Nat /\ q \in Nat /\ q <= Len(s)
  BY LenProperties
<1>2. \A i \in 1 .. Len(s) : s[i] \in S
  BY ElementOfSeq
<1>3. PICK u \in Seq(S) : u = SubSeq(s, 1, q) /\ Len(u) = q /\ \A i \in 1 .. q : u[i] = s[i]
  <2>1. /\ SubSeq(s, 1, q) \in Seq(S) /\ Len(SubSeq(s, 1, q)) = q
        /\ \A i \in 1 .. q : SubSeq(s, 1, q)[i] = s[i]
    BY <1>1, StartOf
  <2> QED  BY <2>1, Zenon
<1>4. PICK v \in Seq(S) : v = SubSeq(s, q + 1, Len(s)) /\ Len(v) = Len(s) - q
                          /\ \A i \in 1 .. Len(s) - q : v[i] = s[q + i]
  <2>1. /\ SubSeq(s, q + 1, Len(s)) \in Seq(S) /\ Len(SubSeq(s, q + 1, Len(s))) = Len(s) - q
        /\ \A i \in 1 .. Len(s) - q : SubSeq(s, q + 1, Len(s))[i] = s[q + i]
    BY <1>1, RestOf
  <2> QED  BY <2>1, Zenon
<1>5. PICK m \in Seq(S) : m = <<z>> /\ Len(m) = 1 /\ m[1] = z
  <2>1. <<z>> \in Seq(S) /\ Len(<<z>>) = 1 /\ <<z>>[1] = z
    OBVIOUS
  <2> QED  BY <2>1, Zenon
<1>6. PICK a \in Seq(S) : a = u \o m /\ Len(a) = Len(u) + Len(m)
                          /\ \A i \in 1 .. Len(u) + Len(m) : a[i] = IF i <= Len(u) THEN u[i] ELSE m[i - Len(u)]
  <2>1. /\ u \o m \in Seq(S) /\ Len(u \o m) = Len(u) + Len(m)
        /\ \A i \in 1 .. Len(u) + Len(m) : (u \o m)[i] = IF i <= Len(u) THEN u[i] ELSE m[i - Len(u)]
    BY ConcatProperties
  <2> QED  BY <2>1, Zenon
<1>7. PICK t \in Seq(S) : t = a \o v /\ Len(t) = Len(a) + Len(v)
                          /\ \A i \in 1 .. Len(a) + Len(v) : t[i] = IF i <= Len(a) THEN a[i] ELSE v[i - Len(a)]
  <2>1. /\ a \o v \in Seq(S) /\ Len(a \o v) = Len(a) + Len(v)
        /\ \A i \in 1 .. Len(a) + Len(v) : (a \o v)[i] = IF i <= Len(a) THEN a[i] ELSE v[i - Len(a)]
    BY ConcatProperties
  <2> QED  BY <2>1, Zenon
<1>8. t = With(s, q, z)
  BY <1>3, <1>4, <1>5, <1>6, <1>7 DEF With
<1>9. Len(a) = q + 1 /\ Len(t) = Len(s) + 1
  <2>1. Len(u) = q /\ Len(m) = 1 /\ Len(a) = Len(u) + Len(m)
    BY ONLY <1>3, <1>5, <1>6
  <2>2. Len(v) = Len(s) - q /\ Len(t) = Len(a) + Len(v)
    BY ONLY <1>4, <1>7
  <2> QED  BY ONLY <1>1, <2>1, <2>2
<1>10. ASSUME NEW i \in 1 .. Len(s) + 1
       PROVE  t[i] = IF i <= q THEN s[i] ELSE IF i = q + 1 THEN z ELSE s[i - 1]
  <2>1. i \in 1 .. Len(a) + Len(v) /\ t[i] = IF i <= Len(a) THEN a[i] ELSE v[i - Len(a)]
    BY <1>1, <1>4, <1>7, <1>9
  <2>2. CASE i <= q
    <3>1. i <= Len(a) /\ i <= Len(u) /\ i \in 1 .. q /\ i \in 1 .. Len(u) + Len(m)
      BY <1>1, <1>3, <1>5, <1>9, <2>2
    <3>2. t[i] = a[i] /\ a[i] = u[i] /\ u[i] = s[i]
      BY <1>3, <1>6, <2>1, <3>1
    <3> QED  BY <2>2, <3>2
  <2>3. CASE i = q + 1
    <3>1. i <= Len(a) /\ ~(i <= Len(u)) /\ i \in 1 .. Len(u) + Len(m) /\ i - Len(u) = 1 /\ ~(i <= q)
      BY <1>1, <1>3, <1>5, <1>9, <2>3
    <3>2. t[i] = a[i] /\ a[i] = m[i - Len(u)]
      BY <1>6, <2>1, <3>1
    <3> QED  BY <1>5, <2>3, <3>1, <3>2
  <2>4. CASE ~(i <= q) /\ i # q + 1
    <3>1. ~(i <= Len(a)) /\ i - Len(a) \in 1 .. Len(s) - q /\ q + (i - Len(a)) = i - 1
      BY <1>1, <1>9, <2>4
    <3>2. t[i] = v[i - Len(a)] /\ v[i - Len(a)] = s[q + (i - Len(a))]
      BY <1>4, <2>1, <3>1
    <3> QED  BY <2>4, <3>1, <3>2
  <2> QED  BY <2>2, <2>3, <2>4
<1> QED  BY <1>1, <1>7, <1>8, <1>9, <1>10

\* The keys do not fall from front to end.
Rising(S, p) == \A m \in S, n \in S : p[m] < p[n] => TreeKey(m) <= TreeKey(n)

\* Numbers with z behind the first q.
Opening(S, p, z, q, w) ==
  w \in Numbers /\ w[z] = q + 1 /\ \A n \in S : w[n] = IF p[n] > q THEN p[n] + 1 ELSE p[n]

\* A node comes into the sequence.
LEMMA ListWith ==
  ASSUME NEW o, NEW S, NEW p, Lists(o, S, p), Rising(S, p), TreeKeys \subseteq Int,
         NEW z \in Nodes, z \notin S, NEW q \in 0 .. Len(o),
         \A n \in S : TreeKey(n) <= TreeKey(z) <=> p[n] <= q
  PROVE  \E w : /\ Opening(S, p, z, q, w) /\ Lists(With(o, q, z), S \union {z}, w) /\ Rising(S \union {z}, w)
                /\ Len(With(o, q, z)) = Len(o) + 1
<1>1. /\ S \in SUBSET Nodes /\ Len(o) \in Nat /\ o \in Seq(Nodes) /\ p \in Numbers
      /\ \A i \in 1 .. Len(o) : o[i] \in S /\ p[o[i]] = i
      /\ \A n \in S : p[n] \in 1 .. Len(o) /\ o[p[n]] = n
  BY ListIs DEF Lists
<1>2. q \in Nat /\ q <= Len(o) /\ z \in ND /\ \A n \in S : n \in ND /\ p[n] \in Int
  BY <1>1, NodeIs DEF ND, Numbers
<1>3. PICK w \in Numbers : \A n \in ND : w[n] = IF n = z THEN q + 1 ELSE IF p[n] > q THEN p[n] + 1 ELSE p[n]
  <2>1. [n \in ND |-> IF n = z THEN q + 1 ELSE IF p[n] > q THEN p[n] + 1 ELSE p[n]] \in Numbers
    BY <1>1, <1>2 DEF Numbers
  <2> QED  BY <2>1
<1>4. w[z] = q + 1 /\ \A n \in S : w[n] = IF p[n] > q THEN p[n] + 1 ELSE p[n]
  BY <1>2, <1>3
<1>5. PICK t \in Seq(Nodes) :
        /\ t = With(o, q, z) /\ Len(t) = Len(o) + 1
        /\ \A i \in 1 .. Len(o) + 1 : t[i] = IF i <= q THEN o[i] ELSE IF i = q + 1 THEN z ELSE o[i - 1]
  <2>1. /\ With(o, q, z) \in Seq(Nodes) /\ Len(With(o, q, z)) = Len(o) + 1
        /\ \A i \in 1 .. Len(o) + 1 :
              With(o, q, z)[i] = IF i <= q THEN o[i] ELSE IF i = q + 1 THEN z ELSE o[i - 1]
    BY <1>1, WithIs
  <2> QED  BY <2>1, Zenon
<1>6. ASSUME NEW i \in 1 .. Len(t) PROVE t[i] \in S \union {z} /\ w[t[i]] = i
  <2>1. CASE i <= q
    <3>1. i \in 1 .. Len(o) /\ i \in 1 .. Len(o) + 1
      BY <1>1, <1>2, <2>1
    <3>2. t[i] = o[i] /\ o[i] \in S /\ p[o[i]] = i
      BY <1>1, <1>5, <2>1, <3>1
    <3> QED  BY <1>2, <1>4, <2>1, <3>1, <3>2
  <2>2. CASE i = q + 1
    <3>1. ~(i <= q) /\ i \in 1 .. Len(o) + 1
      BY <1>1, <1>2, <2>2
    <3>2. t[i] = z
      BY <1>5, <2>2, <3>1
    <3> QED  BY <1>4, <2>2, <3>2
  <2>3. CASE ~(i <= q) /\ i # q + 1
    <3>1. i - 1 \in 1 .. Len(o) /\ i \in 1 .. Len(o) + 1 /\ i - 1 > q /\ (i - 1) + 1 = i
      BY <1>1, <1>2, <1>5, <2>3
    <3>2. t[i] = o[i - 1] /\ o[i - 1] \in S /\ p[o[i - 1]] = i - 1
      BY <1>1, <1>5, <2>3, <3>1
    <3> QED  BY <1>4, <3>1, <3>2
  <2> QED  BY <2>1, <2>2, <2>3
<1>7. ASSUME NEW n \in S \union {z} PROVE w[n] \in 1 .. Len(t) /\ t[w[n]] = n
  <2>1. CASE n = z
    BY <1>1, <1>2, <1>4, <1>5, <2>1
  <2>2. CASE n \in S /\ p[n] > q
    <3>1. w[n] = p[n] + 1 /\ p[n] \in 1 .. Len(o) /\ o[p[n]] = n
      BY <1>1, <1>4, <2>2
    <3>2. w[n] \in 1 .. Len(o) + 1 /\ ~(w[n] <= q) /\ w[n] # q + 1 /\ w[n] - 1 = p[n]
      BY <1>1, <1>2, <2>2, <3>1
    <3> QED  BY <1>5, <3>1, <3>2
  <2>3. CASE n \in S /\ ~(p[n] > q)
    <3>1. w[n] = p[n] /\ p[n] \in 1 .. Len(o) /\ o[p[n]] = n /\ p[n] \in 1 .. Len(o) + 1 /\ p[n] <= q
      BY <1>1, <1>2, <1>4, <2>3
    <3> QED  BY <1>5, <3>1
  <2> QED  BY <2>1, <2>2, <2>3
<1>8. S \union {z} = {t[i] : i \in 1 .. Len(t)}
  BY <1>6, <1>7
<1>9. Lists(t, S \union {z}, w)
  BY <1>6, <1>8 DEF Lists
<1>10. \A n \in S : TreeKey(n) \in Int
  BY <1>1 DEF TreeKeys
<1>11. TreeKey(z) \in Int
  BY DEF TreeKeys
<1>12. Rising(S \union {z}, w)
  <2> SUFFICES ASSUME NEW m \in S \union {z}, NEW n \in S \union {z}, w[m] < w[n]
               PROVE  TreeKey(m) <= TreeKey(n)
    BY DEF Rising
  <2>1. CASE m \in S /\ n \in S
    <3>1. p[m] < p[n]
      BY <1>2, <1>4, <2>1
    <3> QED  BY <2>1, <3>1 DEF Rising
  <2>2. CASE m = z /\ n \in S
    <3>1. ~(p[n] <= q)
      BY <1>2, <1>4, <2>2
    <3> QED  BY <1>10, <1>11, <2>2, <3>1
  <2>3. CASE m \in S /\ n = z
    <3>1. p[m] <= q
      BY <1>2, <1>4, <2>3
    <3> QED  BY <2>3, <3>1
  <2>4. CASE m = z /\ n = z
    BY <1>2, <1>4, <2>4
  <2> QED  BY <2>1, <2>2, <2>3, <2>4
<1>13. Opening(S, p, z, q, w)
  BY <1>4 DEF Opening
<1> QED  BY <1>5, <1>9, <1>12, <1>13

\* The sequence without z, which is at i.
Leaves(o, S, p, z, i) ==
  /\ i \in 1 .. Len(o) /\ o[i] = z
  /\ \E w : /\ Closing(S, p, z, w) /\ Lists(Without(o, i), S \ {z}, w) /\ Rising(S \ {z}, w)
            /\ Len(Without(o, i)) = Len(o) - 1

\* A node leaves the sequence.
LEMMA ListWithout ==
  ASSUME NEW o, NEW S, NEW p, Lists(o, S, p), Rising(S, p), NEW z \in S,
         NEW q, q = p[z]
  PROVE  Leaves(o, S, p, z, q)
<1>1. /\ S \in SUBSET Nodes /\ Len(o) \in Nat /\ o \in Seq(Nodes) /\ p \in Numbers
      /\ \A i \in 1 .. Len(o) : o[i] \in S /\ p[o[i]] = i
      /\ \A n \in S : p[n] \in 1 .. Len(o) /\ o[p[n]] = n
  BY ListIs DEF Lists
<1>2. q \in 1 .. Len(o) /\ o[q] = z
  BY <1>1
<1>3. \A n \in S : n \in ND /\ p[n] \in Int /\ (p[n] = q => n = z)
  BY <1>1, <1>2, NodeIs DEF Numbers
<1>4. PICK w \in Numbers : \A n \in ND : w[n] = IF p[n] > q THEN p[n] - 1 ELSE p[n]
  <2>1. [n \in ND |-> IF p[n] > q THEN p[n] - 1 ELSE p[n]] \in Numbers
    BY <1>1, <1>2 DEF Numbers
  <2> QED  BY <2>1
<1>5. \A n \in S \ {z} : w[n] = (IF p[n] > q THEN p[n] - 1 ELSE p[n]) /\ p[n] # q
  BY <1>3, <1>4
<1>6. PICK t \in Seq(Nodes) :
        /\ t = Without(o, q) /\ Len(t) = Len(o) - 1
        /\ \A i \in 1 .. Len(o) - 1 : t[i] = o[IF i < q THEN i ELSE i + 1]
  <2>1. /\ Without(o, q) \in Seq(Nodes) /\ Len(Without(o, q)) = Len(o) - 1
        /\ \A i \in 1 .. Len(o) - 1 : Without(o, q)[i] = o[IF i < q THEN i ELSE i + 1]
    BY <1>1, WithoutIs
  <2> QED  BY <2>1, Zenon
<1>7. ASSUME NEW i \in 1 .. Len(t) PROVE t[i] \in S \ {z} /\ w[t[i]] = i
  <2>1. i \in 1 .. Len(o) - 1
    BY <1>6
  <2>2. CASE i < q
    <3>1. i \in 1 .. Len(o) /\ t[i] = o[i]
      BY <1>1, <1>6, <2>1, <2>2
    <3>2. o[i] \in S /\ p[o[i]] = i /\ ~(i > q) /\ i # q
      BY <1>1, <2>2, <3>1
    <3> QED  BY <1>2, <1>5, <3>1, <3>2
  <2>3. CASE ~(i < q)
    <3>1. i + 1 \in 1 .. Len(o) /\ t[i] = o[i + 1]
      BY <1>1, <1>6, <2>1, <2>3
    <3>2. o[i + 1] \in S /\ p[o[i + 1]] = i + 1 /\ i + 1 > q /\ i + 1 # q /\ (i + 1) - 1 = i
      BY <1>1, <1>2, <2>1, <2>3, <3>1
    <3> QED  BY <1>2, <1>5, <3>1, <3>2
  <2> QED  BY <2>2, <2>3
<1>8. ASSUME NEW n \in S \ {z} PROVE w[n] \in 1 .. Len(t) /\ t[w[n]] = n
  <2>1. p[n] \in 1 .. Len(o) /\ o[p[n]] = n /\ p[n] # q
    BY <1>1, <1>5
  <2>2. CASE p[n] > q
    <3>1. w[n] = p[n] - 1 /\ p[n] - 1 \in 1 .. Len(o) - 1 /\ ~(p[n] - 1 < q) /\ (p[n] - 1) + 1 = p[n]
      BY <1>1, <1>2, <1>5, <2>1, <2>2
    <3> QED  BY <1>6, <2>1, <3>1
  <2>3. CASE ~(p[n] > q)
    <3>1. w[n] = p[n] /\ p[n] \in 1 .. Len(o) - 1 /\ p[n] < q
      BY <1>1, <1>2, <1>5, <2>1, <2>3
    <3> QED  BY <1>6, <2>1, <3>1
  <2> QED  BY <2>2, <2>3
<1>9. S \ {z} = {t[i] : i \in 1 .. Len(t)}
  BY <1>7, <1>8
<1>10. Lists(t, S \ {z}, w)
  BY <1>7, <1>9 DEF Lists
<1>11. Rising(S \ {z}, w)
  <2> SUFFICES ASSUME NEW m \in S \ {z}, NEW n \in S \ {z}, w[m] < w[n] PROVE TreeKey(m) <= TreeKey(n)
    BY DEF Rising
  <2>1. p[m] < p[n]
    BY <1>2, <1>3, <1>5
  <2> QED  BY <2>1 DEF Rising
<1>12. Closing(S, p, z, w)
  BY <1>2, <1>5 DEF Closing
<1> QED  BY <1>2, <1>6, <1>10, <1>11, <1>12 DEF Leaves

\* There is a place behind the keys that are not larger than k.
LEMMA PlaceExists ==
  ASSUME NEW o, NEW S, NEW p, Lists(o, S, p), Rising(S, p), TreeKeys \subseteq Int, NEW k \in Int
  PROVE  \E q \in 0 .. Len(o) : \A n \in S : TreeKey(n) <= k <=> p[n] <= q
<1>1. /\ S \in SUBSET Nodes /\ Len(o) \in Nat
      /\ \A i \in 1 .. Len(o) : o[i] \in S /\ p[o[i]] = i
      /\ \A n \in S : p[n] \in 1 .. Len(o) /\ o[p[n]] = n
  BY ListIs
<1>2. \A n \in S : TreeKey(n) \in Int
  BY <1>1 DEF TreeKeys
<1>3. PICK B \in SUBSET Nat : \A q \in Nat : q \in B <=> \A n \in S : TreeKey(n) <= k => p[n] <= q
  <2>1. {q \in Nat : \A n \in S : TreeKey(n) <= k => p[n] <= q} \in SUBSET Nat
    OBVIOUS
  <2> QED  BY <2>1
<1>4. Len(o) \in B
  BY <1>1, <1>3
<1>5. PICK q \in B : \A j \in B : q <= j
  BY <1>4, LeastNatural
<1>6. q \in 0 .. Len(o)
  BY <1>1, <1>4, <1>5
<1>7. ASSUME NEW n \in S, p[n] <= q PROVE TreeKey(n) <= k
  <2>1. q - 1 \in Nat /\ q - 1 \notin B
    BY <1>1, <1>5, <1>6, <1>7
  <2>2. PICK m \in S : TreeKey(m) <= k /\ ~(p[m] <= q - 1)
    BY <1>3, <2>1
  <2>3. p[m] <= q /\ p[m] \in Nat /\ p[n] \in Nat /\ q \in Nat
    <3>1. p[m] <= q
      BY ONLY <1>3, <2>2
    <3> QED  BY ONLY <1>1, <3>1
  <2>4. p[m] = q
    BY <2>2, <2>3
  <2>5. CASE p[n] = q
    BY <1>1, <2>2, <2>4, <2>5
  <2>6. CASE p[n] < q
    <3>1. TreeKey(n) <= TreeKey(m)
      BY <2>4, <2>6 DEF Rising
    <3> QED  BY <1>2, <2>2, <3>1
  <2> QED  BY <1>7, <2>3, <2>5, <2>6
<1> QED  BY <1>3, <1>5, <1>6, <1>7

\* The places up to q hold the keys up to k.
Divides(S, p, k, q) == \A n \in S : TreeKey(n) <= k <=> p[n] <= q

\* The places of o whose key is k or smaller.
NotAbove(o, k) == {i \in 1 .. Len(o) : TreeKey(o[i]) <= k}

\* As many keys are not larger than k.
LEMMA PlaceCounts ==
  ASSUME NEW o, NEW S, NEW p, Lists(o, S, p), NEW k, NEW q \in 0 .. Len(o), Divides(S, p, k, q)
  PROVE  Cardinality(NotAbove(o, k)) = q
<1>1. /\ Len(o) \in Nat /\ q \in Nat /\ q <= Len(o)
      /\ \A i \in 1 .. Len(o) : o[i] \in S /\ p[o[i]] = i
  BY ListIs
<1>2. NotAbove(o, k) = 1 .. q
  BY <1>1 DEF Divides, NotAbove
<1>3. Cardinality(1 .. q) = q
  BY <1>1, FS_Interval
<1> QED  BY <1>2, <1>3

-----------------------------------------------------------------------------
(* RbTree: descents.                                                       *)

\* The side on which the code goes on from n for the key k.
SideFor(k, n) == IF Comp(k, TreeKey(n)) = 1 THEN "left" ELSE "right"

\* It is the side of the keys that are smaller, or that of the others.
LEMMA SideForIs ==
  ASSUME NEW k \in Int, NEW n, TreeKey(n) \in Int
  PROVE  /\ SideFor(k, n) \in Sides
         /\ SideFor(k, n) = "left" <=> k < TreeKey(n)
         /\ SideFor(k, n) = "right" <=> TreeKey(n) <= k
BY DEF SideFor, Comp, Sides

\* One step down: the place q stays within the interval, and where the way ends it is
\* next to the last node.
LEMMA DescentGoesOn ==
  ASSUME NEW t, NEW S, NEW l, NEW p, NEW e, Shape(t, S, l, p, e), NEW k \in Int,
         NEW a \in S, TreeKey(a) \in Int, NEW q \in Int, e["left"][a] - 1 <= q, q <= e["right"][a],
         TreeKey(a) <= k <=> p[a] <= q, NEW s, s = SideFor(k, a), NEW c, c = t.kid[s][a]
  PROVE  /\ c \in S \union {Dummy}
         /\ c # Dummy => e["left"][c] - 1 <= q /\ q <= e["right"][c]
         /\ c = Dummy => q = IF s = "left" THEN p[a] - 1 ELSE p[a]
<1>1. s \in Sides /\ (s = "left" <=> k < TreeKey(a)) /\ (s = "right" <=> TreeKey(a) <= k)
  BY SideForIs
<1>2. p[a] \in Int /\ e["left"][a] \in Int /\ e["right"][a] \in Int /\ S \in SUBSET Nodes
  BY NodeIs, NumberTypes, SidesAre DEF Shape
<1>3. c \in S \union {Dummy} /\ (c = Dummy => e[s][a] = p[a])
  BY <1>1, KidTypes
<1>4. ASSUME c # Dummy PROVE e["left"][c] - 1 <= q /\ q <= e["right"][c]
  <2>1. c \in S
    BY <1>3, <1>4
  <2>2. e[s][c] = e[s][a] /\ e[Other(s)][c] = p[a] + Dir(s)
    BY <1>1, <2>1, KidIs
  <2>3. CASE s = "left"
    <3>1. e["left"][c] = e["left"][a] /\ e["right"][c] = p[a] - 1
      BY <1>2, <2>2, <2>3 DEF Other, Dir
    <3>2. ~(p[a] <= q)
      BY <1>1, <2>3
    <3> QED  BY <1>2, <3>1, <3>2
  <2>4. CASE s = "right"
    <3>1. e["right"][c] = e["right"][a] /\ e["left"][c] = p[a] + 1
      BY <1>2, <2>2, <2>4 DEF Other, Dir
    <3>2. p[a] <= q
      BY <1>1, <2>4
    <3> QED  BY <1>2, <3>1, <3>2
  <2> QED  BY <1>1, <2>3, <2>4 DEF Sides
<1>5. ASSUME c = Dummy PROVE q = IF s = "left" THEN p[a] - 1 ELSE p[a]
  <2>1. CASE s = "left"
    <3>1. e["left"][a] = p[a] /\ ~(p[a] <= q)
      BY <1>1, <1>3, <1>5, <2>1
    <3> QED  BY <1>2, <2>1, <3>1
  <2>2. CASE s = "right"
    <3>1. e["right"][a] = p[a] /\ p[a] <= q
      BY <1>1, <1>3, <1>5, <2>2
    <3> QED  BY <1>2, <2>2, <3>1
  <2> QED  BY <1>1, <2>1, <2>2 DEF Sides
<1> QED  BY <1>3, <1>4, <1>5

\* One step down: a node with the key stays within the interval, and the way does not end
\* before it.
LEMMA SearchGoesOn ==
  ASSUME NEW t, NEW S, NEW l, NEW p, NEW e, Shape(t, S, l, p, e), Apart(S, l, p), Rising(S, p), NEW k \in Int,
         NEW a \in S, TreeKey(a) \in Int, TreeKey(a) # k, NEW s, s = SideFor(k, a), NEW c, c = t.kid[s][a],
         NEW n \in S, TreeKey(n) = k, e["left"][a] <= p[n], p[n] <= e["right"][a]
  PROVE  c \in S /\ e["left"][c] <= p[n] /\ p[n] <= e["right"][c]
<1>1. s \in Sides /\ (s = "left" <=> k < TreeKey(a)) /\ (s = "right" <=> TreeKey(a) <= k)
  BY SideForIs
<1>2. /\ p[a] \in Int /\ p[n] \in Int /\ e["left"][a] \in Int /\ e["right"][a] \in Int
      /\ S \in SUBSET Nodes
  BY NodeIs, NumberTypes, SidesAre DEF Shape
<1>3. c \in S \union {Dummy} /\ (c = Dummy => e[s][a] = p[a]) /\ (c # Dummy => c \in S)
  BY <1>1, KidTypes
<1>4. p[n] # p[a]
  BY DEF Apart
<1>5. CASE s = "left"
  <2>1. p[n] < p[a]
    <3>1. ~(TreeKey(a) <= TreeKey(n))
      BY <1>1, <1>5
    <3>2. ~(p[a] < p[n])
      BY <3>1 DEF Rising
    <3> QED  BY <1>2, <1>4, <3>2
  <2>2. c \in S
    BY <1>2, <1>3, <1>5, <2>1
  <2>3. e["left"][c] = e["left"][a] /\ e["right"][c] = p[a] - 1
    <3>1. e[s][c] = e[s][a] /\ e[Other(s)][c] = p[a] + Dir(s)
      BY <1>1, <2>2, KidIs
    <3> QED  BY <1>2, <1>5, <3>1 DEF Other, Dir
  <2> QED  BY <1>2, <2>1, <2>2, <2>3
<1>6. CASE s = "right"
  <2>1. p[a] < p[n]
    <3>1. ~(TreeKey(n) <= TreeKey(a))
      BY <1>1, <1>6
    <3>2. ~(p[n] < p[a])
      BY <3>1 DEF Rising
    <3> QED  BY <1>2, <1>4, <3>2
  <2>2. c \in S
    BY <1>2, <1>3, <1>6, <2>1
  <2>3. e["right"][c] = e["right"][a] /\ e["left"][c] = p[a] + 1
    <3>1. e[s][c] = e[s][a] /\ e[Other(s)][c] = p[a] + Dir(s)
      BY <1>1, <2>2, KidIs
    <3> QED  BY <1>2, <1>6, <3>1 DEF Other, Dir
  <2> QED  BY <1>2, <2>1, <2>2, <2>3
<1> QED  BY <1>1, <1>5, <1>6 DEF Sides

-----------------------------------------------------------------------------
(* RbTree: nodes outside the tree, and the last painting.                  *)

\* A node with the fields of a new one, and of one that is freed.
Cleared(t, z) == [t EXCEPT !.parent[z] = Dummy, !.kid["left"][z] = Dummy,
                           !.kid["right"][z] = Dummy, !.color[z] = "red"]

\* Only its fields change.
ClearedFields(t, z, u) ==
  /\ u \in Trees /\ u.root = t.root
  /\ \A s \in Sides, m \in ND : u.kid[s][m] = IF m = z THEN Dummy ELSE t.kid[s][m]
  /\ \A m \in ND : u.parent[m] = IF m = z THEN Dummy ELSE t.parent[m]
  /\ \A m \in ND : u.color[m] = IF m = z THEN "red" ELSE t.color[m]

\* They are these.
LEMMA ClearedIs ==
  ASSUME NEW t \in Trees, NEW z \in Nodes
  PROVE  ClearedFields(t, z, Cleared(t, z))
<1> DEFINE A == WithParent(t, z, Dummy)
           B == WithKid(A, "left", z, Dummy)
           C == WithKid(B, "right", z, Dummy)
<1>1. Cleared(t, z) = Paint(C, z, "red")
  BY Zenon DEF Cleared, WithParent, WithKid, Paint
<1>2. /\ z \in ND /\ Dummy \in ND /\ Dummy \in Links /\ "left" \in Sides /\ "right" \in Sides
      /\ "red" \in Colors
  BY SidesAre DEF ND, Links, Colors
<1>3. /\ A \in Trees /\ A.root = t.root /\ A.kid = t.kid /\ A.color = t.color
      /\ \A m \in ND : A.parent[m] = IF m = z THEN Dummy ELSE t.parent[m]
  BY ONLY <1>2, SetParent, t \in Trees
<1> HIDE DEF A
<1>4. /\ B \in Trees /\ B.root = A.root /\ B.parent = A.parent /\ B.color = A.color
      /\ \A s \in Sides, m \in ND : B.kid[s][m] = IF s = "left" /\ m = z THEN Dummy ELSE A.kid[s][m]
  <2>1. A \in Trees /\ z \in ND /\ Dummy \in ND /\ "left" \in Sides
    BY <1>2, <1>3
  <2> QED  BY ONLY <2>1, SetKid
<1> HIDE DEF B
<1>5. /\ C \in Trees /\ C.root = B.root /\ C.parent = B.parent /\ C.color = B.color
      /\ \A s \in Sides, m \in ND : C.kid[s][m] = IF s = "right" /\ m = z THEN Dummy ELSE B.kid[s][m]
  BY ONLY <1>2, <1>4, SetKid
<1> HIDE DEF C
<1>6. PICK u : u = Paint(C, z, "red")
  OBVIOUS
<1>7. /\ u \in Trees /\ u.root = C.root /\ u.kid = C.kid /\ u.parent = C.parent
      /\ \A m \in ND : u.color[m] = IF m = z THEN "red" ELSE C.color[m]
  BY ONLY <1>2, <1>5, <1>6, PaintIs
<1>8. ASSUME NEW s \in Sides, NEW m \in ND PROVE u.kid[s][m] = IF m = z THEN Dummy ELSE t.kid[s][m]
  BY <1>3, <1>4, <1>5, <1>7 DEF Sides
<1>9. ClearedFields(t, z, u)
  BY <1>3, <1>4, <1>5, <1>7, <1>8 DEF ClearedFields
<1> QED  BY <1>1, <1>6, <1>9

\* Clearing a node that is not in the tree does the tree no harm.
LEMMA ClearedSound ==
  ASSUME NEW t, NEW S, NEW l, NEW p, NEW e, NEW h, NEW gp, NEW gs, Sound(t, S, l, p, e, h, gp, gs),
         NEW z \in Nodes, z \notin S, NEW u, ClearedFields(t, z, u)
  PROVE  /\ Sound(u, S, l, p, e, h, gp, gs)
         /\ \A n \in S : RedPair(u, n) => RedPair(t, n)
         /\ u.color[u.root] = t.color[t.root]
<1>1. Shape(t, S, l, p, e) /\ S \in SUBSET Nodes /\ t \in Trees /\ u \in Trees /\ u.root = t.root
  BY DEF Sound, Shape, ClearedFields
<1>2. Dummy \in ND /\ Dummy # z /\ \A n \in S : n \in ND /\ n # z
  BY <1>1, NodeIs, NodesAssumption DEF ND
<1>3. /\ \A n \in S \union {Dummy} : u.parent[n] = t.parent[n] /\ u.color[n] = t.color[n]
      /\ \A n \in S \union {Dummy}, s \in Sides : u.kid[s][n] = t.kid[s][n]
  BY <1>2 DEF ClearedFields
<1>4. Shape(u, S, l, p, e)
  <2>1. Top(u, S, l, e)
    BY <1>1 DEF Shape, Top
  <2>2. ASSUME NEW n \in S PROVE Hangs(u, S, n)
    <3>1. Hangs(t, S, n)
      BY <1>1 DEF Shape
    <3> QED  BY <1>1, <1>3, <3>1 DEF Hangs
  <2>3. ASSUME NEW n \in S, NEW s \in Sides PROVE Link(u, S, p, e, s, n)
    <3>1. Link(t, S, p, e, s, n)
      BY <1>1 DEF Shape
    <3> QED  BY <1>3, <3>1 DEF Link
  <2> QED  BY <1>1, <2>1, <2>2, <2>3 DEF Shape
<1>5. Heights(u, S, h, gp, gs)
  <2>1. Heights(t, S, h, gp, gs)
    BY DEF Sound
  <2> QED  BY <1>3, <2>1 DEF Heights, Black
<1>6. \A n \in S : RedPair(u, n) => RedPair(t, n)
  <2>1. \A n \in S : t.parent[n] \in S \union {Dummy}
    BY <1>1, ParentIs
  <2> QED  BY <1>3, <2>1 DEF RedPair
<1>7. u.color[u.root] = t.color[t.root]
  <2>1. t.root \in S \union {Dummy}
    BY <1>1 DEF Shape, Top
  <2> QED  BY <1>1, <1>3, <2>1
<1>8. u.color[Dummy] = "black"
  BY <1>3 DEF Sound
<1> QED  BY <1>4, <1>5, <1>6, <1>7, <1>8 DEF Sound

\* Where nothing is missing, it does not matter on which side.
LEMMA NoGap ==
  ASSUME NEW t, NEW S, NEW l, NEW p, NEW e, NEW h, NEW gs, Sound(t, S, l, p, e, h, Dummy, gs)
  PROVE  Sound(t, S, l, p, e, h, Dummy, "left")
<1>1. S \in SUBSET Nodes /\ Heights(t, S, h, Dummy, gs)
  BY DEF Sound, Shape
<1>2. \A n \in S, s \in Sides : Gap(Dummy, gs, n, s) = 0 /\ Gap(Dummy, "left", n, s) = 0
  BY <1>1, NodesAssumption DEF Gap
<1>3. Heights(t, S, h, Dummy, "left")
  BY <1>1, <1>2 DEF Heights
<1> QED  BY <1>3 DEF Sound

\* The node at the gap, which is red or the root, is painted black: nothing is missing
\* any more.
LEMMA FillGap ==
  ASSUME NEW t, NEW S, NEW l, NEW p, NEW e, NEW h, NEW gp, NEW gs, Sound(t, S, l, p, e, h, gp, gs),
         NEW x \in S \union {Dummy}, GapAt(t, S, x, gp, gs), x = t.root \/ t.color[x] = "red"
  PROVE  /\ \E k : Sound(Paint(t, x, "black"), S, l, p, e, k, Dummy, "left")
         /\ Repainted(t, Paint(t, x, "black"))
         /\ \A m \in ND : Paint(t, x, "black").color[m] = IF m = x THEN "black" ELSE t.color[m]
<1>1. /\ Shape(t, S, l, p, e) /\ S \in SUBSET Nodes /\ t \in Trees /\ h \in [ND -> Nat] /\ h[Dummy] = 0
      /\ t.color[Dummy] = "black"
      /\ \A n \in S, s \in Sides : h[n] = Black(t, n) + h[t.kid[s][n]] + Gap(gp, gs, n, s)
  BY DEF Sound, Shape, Heights
<1>2. x \in ND /\ "black" \in Colors /\ Dummy \in ND /\ Dummy \notin S /\ \A n \in S : n \in ND
  BY <1>1, NodeIs DEF ND, Colors
<1>3. PICK u : u = Paint(t, x, "black")
  OBVIOUS
<1>4. /\ u \in Trees /\ u.root = t.root /\ u.kid = t.kid /\ u.parent = t.parent
      /\ \A m \in ND : u.color[m] = IF m = x THEN "black" ELSE t.color[m]
  BY ONLY <1>1, <1>2, <1>3, PaintIs
<1>5. Repainted(t, u)
  BY <1>4 DEF Repainted
<1>6. Shape(u, S, l, p, e)
  BY <1>1, <1>5, RepaintedShape
<1>7. \A n \in S, s \in Sides : t.kid[s][n] \in S \union {Dummy} /\ t.kid[s][n] # n
  <2> TAKE n \in S, s \in Sides
  <2>1. t.kid[s][n] \in S \union {Dummy}
    BY <1>1, KidTypes
  <2>2. t.kid[s][n] \in S => t.kid[s][n] # n
    BY <1>1, KidIs
  <2> QED  BY <1>2, <2>1, <2>2
<1>8. \A n \in S, s \in Sides : t.kid[s][n] = x /\ x # Dummy => gp = n /\ gs = s
  <2> SUFFICES ASSUME NEW n \in S, NEW s \in Sides, t.kid[s][n] = x, x # Dummy PROVE gp = n /\ gs = s
    OBVIOUS
  <2>1. x \in S
    OBVIOUS
  <2>2. t.parent[x] = n /\ SideOf(t, x) = s /\ x # t.root
    BY <1>1, <2>1, KidIs
  <2>3. gp \in S /\ gs \in Sides /\ t.parent[x] = gp /\ t.kid[gs][gp] = x
    BY <2>2 DEF GapAt
  <2>4. SideOf(t, x) = gs
    BY <1>1, <2>1, <2>3, KidIs
  <2> QED  BY <2>2, <2>3, <2>4
<1>9. CASE x = Dummy \/ (t.color[x] # "red" /\ x = t.root)
  <2>1. x = t.root
    BY <1>1, <1>9
  <2>2. \A m \in S \union {Dummy} : u.color[m] = t.color[m]
    <3>1. t.color[x] = "black"
      BY <1>1, <1>2, <1>9, TreeFields DEF Colors
    <3> QED  BY <1>2, <1>4, <3>1
  <2>3. \A n \in S, s \in Sides : Gap(gp, gs, n, s) = 0 /\ Gap(Dummy, "left", n, s) = 0
    <3>1. CASE gp = Dummy
      BY <1>2, <3>1 DEF Gap
    <3>2. CASE gp # Dummy
      <4>1. gp \in S /\ gs \in Sides /\ t.parent[x] = gp /\ t.kid[gs][gp] = x
        BY <3>2 DEF GapAt
      <4>2. x = Dummy
        <5>1. x \in S => x # t.root
          BY <1>1, <4>1, KidIs
        <5> QED  BY <2>1, <5>1
      <4>3. S = {}
        BY <1>1, <1>2, <2>1, <4>2 DEF Shape, Top
      <4> QED  BY <4>1, <4>3
    <3> QED  BY <3>1, <3>2
  <2>4. Heights(u, S, h, Dummy, "left")
    BY <1>1, <1>4, <2>2, <2>3 DEF Heights, Black
  <2>5. u.color[Dummy] = "black"
    BY <1>1, <2>2
  <2> QED  BY <1>3, <1>4, <1>5, <1>6, <2>4, <2>5 DEF Sound
<1>10. CASE x # Dummy /\ t.color[x] = "red"
  <2>1. x \in S
    BY <1>10
  <2>2. PICK k \in [ND -> Nat] : \A n \in ND : k[n] = IF n = x THEN h[n] + 1 ELSE h[n]
    <3>1. [n \in ND |-> IF n = x THEN h[n] + 1 ELSE h[n]] \in [ND -> Nat]
      BY <1>1
    <3> QED  BY <3>1
  <2>3. ASSUME NEW n \in S, NEW s \in Sides
        PROVE  k[n] = Black(u, n) + k[t.kid[s][n]] + Gap(Dummy, "left", n, s)
    <3>1. Gap(Dummy, "left", n, s) = 0
      BY <1>2 DEF Gap
    <3>2. t.kid[s][n] \in ND /\ n \in ND /\ t.kid[s][n] # n
      BY <1>2, <1>7
    <3>3. h[n] = Black(t, n) + h[t.kid[s][n]] + Gap(gp, gs, n, s)
      BY <1>1
    <3>4. h[n] \in Nat /\ h[t.kid[s][n]] \in Nat
      BY <1>1, <3>2
    <3>5. CASE n = x
      <4>1. Black(t, n) = 0 /\ Black(u, n) = 1 /\ k[n] = h[n] + 1
        BY <1>4, <1>10, <2>2, <3>2, <3>5 DEF Black
      <4>2. k[t.kid[s][n]] = h[t.kid[s][n]]
        BY <2>2, <3>2, <3>5
      <4>3. Gap(gp, gs, n, s) = 0
        <5>1. gp # x
          <6>1. gp \in S => t.kid[gs][gp] = x /\ gs \in Sides
            BY <1>2 DEF GapAt
          <6> QED  BY <1>7, <2>1, <6>1
        <5> QED  BY <3>5, <5>1 DEF Gap
      <4> QED  BY <3>1, <3>3, <3>4, <4>1, <4>2, <4>3
    <3>6. CASE n # x /\ t.kid[s][n] = x
      <4>1. gp = n /\ gs = s
        BY <1>8, <1>10, <3>6
      <4>2. Gap(gp, gs, n, s) = 1
        BY <4>1 DEF Gap
      <4>3. Black(u, n) = Black(t, n) /\ k[n] = h[n] /\ k[t.kid[s][n]] = h[t.kid[s][n]] + 1
        BY <1>4, <2>2, <3>2, <3>6 DEF Black
      <4>4. Black(t, n) \in Int
        BY DEF Black
      <4> QED  BY <3>1, <3>3, <3>4, <4>2, <4>3, <4>4
    <3>7. CASE n # x /\ t.kid[s][n] # x
      <4>1. Gap(gp, gs, n, s) = 0
        <5>1. ASSUME gp = n, gs = s PROVE FALSE
          BY <1>2, <3>7, <5>1 DEF GapAt
        <5> QED  BY <5>1 DEF Gap
      <4>2. Black(u, n) = Black(t, n) /\ k[n] = h[n] /\ k[t.kid[s][n]] = h[t.kid[s][n]]
        BY <1>4, <2>2, <3>2, <3>7 DEF Black
      <4> QED  BY <3>1, <3>3, <4>1, <4>2
    <3> QED  BY <3>5, <3>6, <3>7
  <2>4. k[Dummy] = 0 /\ u.color[Dummy] = "black"
    BY <1>1, <1>2, <1>4, <1>10, <2>2
  <2>5. Heights(u, S, k, Dummy, "left")
    BY <1>4, <2>3, <2>4 DEF Heights
  <2>6. Sound(u, S, l, p, e, k, Dummy, "left")
    BY <1>6, <2>4, <2>5 DEF Sound
  <2> QED  BY <1>3, <1>4, <1>5, <2>6
<1> QED  BY <1>9, <1>10

-----------------------------------------------------------------------------
(* RbTree: the inductive invariant.                                        *)

\* The nodes that are linked: not the one about to be linked, nor the one to be freed.
InTree == IF pc \in {"insert", "deleteFixup"} THEN used \ {arg} ELSE used

\* An insertion belongs behind the first q nodes, and is on the way there.
Descent(S, l, p, e, q) ==
  /\ \A n \in S : TreeKey(n) <= TreeKey(arg) <=> p[n] <= q
  /\ at \in S \union {Dummy}
  /\ at # Dummy => e["left"][at] - 1 <= q /\ q <= e["right"][at]
  /\ last = Dummy => at = tree.root
  /\ last # Dummy => /\ last \in S /\ at = tree.kid[SideFor(TreeKey(arg), last)][last]
                     /\ at = Dummy => q = IF SideFor(TreeKey(arg), last) = "left"
                                          THEN p[last] - 1 ELSE p[last]

\* The nodes with the key an extraction looks for are in the interval of the node it is at.
Search(S, p, e) ==
  /\ TreeKey(arg) \in Int /\ at \in S \union {Dummy}
  /\ \A n \in S : TreeKey(n) = TreeKey(arg) =>
       at # Dummy /\ e["left"][at] <= p[n] /\ p[n] <= e["right"][at]

\* Where the operation stands.
Position(S, l, p, e) ==
  /\ pc \in {"idle", "insert", "insertFixup", "extract", "deleteFixup"}
  /\ pc = "insert" =>
       /\ arg \in used /\ tree.color[arg] = "red" /\ \A s \in Sides : tree.kid[s][arg] = Dummy
       /\ \E q \in 0 .. l : Descent(S, l, p, e, q)
  /\ pc = "extract" => Search(S, p, e)
  /\ pc = "insertFixup" => at \in S /\ tree.color[at] = "red"
  /\ pc = "deleteFixup" => /\ arg \in used /\ at \in S \union {Dummy}
                           /\ \A s \in Sides : tree.kid[s][arg] \in ND

\* A black is missing only for the fixup of a deletion, where it is at.
Hole(S, gp, gs) == IF pc = "deleteFixup" THEN GapAt(tree, S, at, gp, gs) ELSE gp = Dummy /\ gs = "left"

\* Reds follow each other, and the root is red, only where a fixup is at work.
Reds(S) ==
  /\ \A n \in S : RedPair(tree, n) => InRepair(tree.parent[n], n)
  /\ tree.color[tree.root] = "red" => pc \in {"insertFixup", "deleteFixup"} /\ at = tree.root

\* size follows the number of nodes.
Counted(l) == /\ pc = "insertFixup" => size = l - 1
              /\ pc = "deleteFixup" => size = l + 1
              /\ pc \notin {"insertFixup", "deleteFixup"} => size = l

\* The only assertion that fails is that of an extraction that ends at a leaf.
Faults == fault = "none" \/ (fault = "extract_missing" /\ pc = "extract" /\ at = Dummy)

\* The linked nodes S, in order o, numbered p, with intervals e and heights h.
Fits(o, S, p, e, h, gp, gs) ==
  /\ used \in SUBSET Nodes /\ S = InTree
  /\ Lists(o, S, p) /\ Rising(S, p)
  /\ Sound(tree, S, Len(o), p, e, h, gp, gs)
  /\ Loose(tree, used) /\ Position(S, Len(o), p, e) /\ Hole(S, gp, gs) /\ Reds(S)
  /\ Counted(Len(o)) /\ Faults

\* The tree holds the nodes of o, in this order.
Stands(o) == \E S, p, e, h, gp, gs : Fits(o, S, p, e, h, gp, gs)

TreeInv == \E o : Stands(o)

-----------------------------------------------------------------------------
(* RbTree: what the invariant says.                                        *)

\* The links of nodes lead to nodes and to the dummy.
LEMMA FitsLinking ==
  ASSUME NEW o, NEW S, NEW p, NEW e, NEW h, NEW gp, NEW gs, Fits(o, S, p, e, h, gp, gs)
  PROVE  Linking(tree)
<1>1. S = InTree /\ Shape(tree, S, Len(o), p, e) /\ Loose(tree, used) /\ Position(S, Len(o), p, e)
  BY DEF Fits, Sound
<1>2. SUFFICES ASSUME NEW n \in Nodes, NEW s \in Sides PROVE tree.kid[s][n] \in ND
  BY DEF Linking
<1>3. CASE n \in S
  BY <1>1, <1>3, KidTypes
<1>4. CASE n \notin used
  BY <1>1, <1>4 DEF Loose, ND
<1>5. CASE n \in used \ S
  <2>1. pc \in {"insert", "deleteFixup"} /\ n = arg
    BY <1>1, <1>5 DEF InTree
  <2> QED  BY <1>1, <2>1 DEF Position, ND
<1> QED  BY <1>3, <1>4, <1>5

\* The nodes are linked in this order.
LEMMA FitsOrder ==
  ASSUME NEW o, NEW S, NEW p, NEW e, NEW h, NEW gp, NEW gs, Fits(o, S, p, e, h, gp, gs)
  PROVE  InOrder = o
<1>1. Lists(o, S, p) /\ Shape(tree, S, Len(o), p, e) /\ Linking(tree)
  BY FitsLinking DEF Fits, Sound
<1> QED  BY <1>1, WalkIs

\* The black that is missing is the one the fixup makes up for.
LEMMA FitsGap ==
  ASSUME NEW o, NEW S, NEW p, NEW e, NEW h, NEW gp, NEW gs, Fits(o, S, p, e, h, gp, gs),
         NEW n \in S, NEW s \in Sides
  PROVE  Missing(n, s) = Gap(gp, gs, n, s)
<1>1. /\ Shape(tree, S, Len(o), p, e) /\ S \in SUBSET Nodes /\ Hole(S, gp, gs) /\ h[Dummy] = 0
      /\ Heights(tree, S, h, gp, gs) /\ Position(S, Len(o), p, e)
  BY DEF Fits, Sound, Shape, Heights
<1>2. n # Dummy /\ Dummy \notin S
  BY <1>1, NodeIs
<1>3. CASE pc # "deleteFixup"
  BY <1>1, <1>2, <1>3 DEF Hole, Missing, Gap
<1>4. CASE pc = "deleteFixup"
  <2>1. GapAt(tree, S, at, gp, gs) /\ at \in S \union {Dummy}
    BY <1>1, <1>4 DEF Hole, Position
  <2>2. CASE gp = Dummy
    <3>1. at = tree.root
      BY <1>2, <2>1, <2>2 DEF GapAt
    <3>2. ~(tree.kid[s][n] = at /\ tree.parent[at] = n)
      <4>1. CASE at \in S
        BY <1>1, <3>1, <4>1, KidIs
      <4>2. CASE at = Dummy
        BY <1>1, <1>2, <3>1, <4>2 DEF Shape, Top
      <4> QED  BY <2>1, <4>1, <4>2
    <3> QED  BY <1>2, <2>2, <3>2 DEF Missing, Gap
  <2>3. CASE gp # Dummy
    <3>1. gp \in S /\ gs \in Sides /\ tree.parent[at] = gp /\ tree.kid[gs][gp] = at
      BY <2>1, <2>3 DEF GapAt
    <3>2. ASSUME tree.kid[s][n] = at, tree.parent[at] = n PROVE n = gp /\ s = gs
      <4>1. n = gp
        BY <3>1, <3>2
      <4>2. CASE at \in S
        <5>1. SideOf(tree, at) = gs
          BY <1>1, <3>1, <4>2, KidIs
        <5>2. SideOf(tree, at) = s
          BY <1>1, <3>2, <4>2, KidIs
        <5> QED  BY <4>1, <5>1, <5>2
      <4>3. CASE at = Dummy
        <5>1. h[n] = Black(tree, n) + h[tree.kid[s][n]] + Gap(gp, gs, n, s)
          BY <1>1 DEF Heights
        <5>2. h[n] = Black(tree, n) + h[tree.kid[gs][n]] + Gap(gp, gs, n, gs)
          BY <1>1, <3>1 DEF Heights
        <5>3. Black(tree, n) \in Int
          BY DEF Black
        <5>4. Gap(gp, gs, n, gs) = 1
          BY <4>1 DEF Gap
        <5>5. s # gs => Gap(gp, gs, n, s) = 0
          BY DEF Gap
        <5>6. tree.kid[s][n] = Dummy /\ tree.kid[gs][n] = Dummy
          BY <3>1, <3>2, <4>1, <4>3
        <5> QED  BY <1>1, <4>1, <5>1, <5>2, <5>3, <5>4, <5>5, <5>6
      <4> QED  BY <2>1, <4>2, <4>3
    <3> QED  BY <1>4, <3>1, <3>2 DEF Missing, Gap
  <2> QED  BY <2>2, <2>3
<1> QED  BY <1>3, <1>4

\* The rules hold.
LEMMA FitsRedBlack ==
  ASSUME NEW o, NEW S, NEW p, NEW e, NEW h, NEW gp, NEW gs, Fits(o, S, p, e, h, gp, gs)
  PROVE  RedBlack
<1>1. /\ S = InTree /\ Lists(o, S, p) /\ Shape(tree, S, Len(o), p, e) /\ Reds(S) /\ Counted(Len(o))
      /\ Heights(tree, S, h, gp, gs) /\ tree.color[Dummy] = "black" /\ InOrder = o /\ Linking(tree)
  BY FitsOrder, FitsLinking DEF Fits, Sound
<1>2. /\ S = {o[i] : i \in 1 .. Len(o)} /\ DOMAIN o = 1 .. Len(o)
      /\ Cardinality(S) = Len(o) /\ S \in SUBSET Nodes
  <2>1. o \in Seq(Nodes) /\ S = {o[i] : i \in 1 .. Len(o)}
    BY <1>1 DEF Lists
  <2> QED  BY <1>1, <2>1, ListFits, ListIs, LenProperties
<1>3. Linked = S
  BY <1>1, <1>2 DEF Linked
<1>4. tree.root # Dummy => tree.parent[tree.root] = Dummy
  <2>1. tree.root # Dummy => tree.root \in S
    BY <1>1 DEF Shape, Top
  <2> QED  BY <1>1, <2>1, ParentIs
<1>5. \A n \in S, s \in Sides : tree.kid[s][n] # Dummy => tree.parent[tree.kid[s][n]] = n
  BY <1>1, KidTypes
<1>6. LinksAgree
  BY <1>1, <1>2, <1>3, <1>4, <1>5 DEF LinksAgree, InTree
<1>7. Cardinality(Blacks) = 1
  <2>1. \A n \in S, s \in Sides : Missing(n, s) = Gap(gp, gs, n, s)
    BY FitsGap
  <2> QED  BY <1>1, <2>1, CountIs
<1>8. \A n \in Linked : tree.color[n] = "red" /\ tree.color[tree.parent[n]] = "red"
                          => InRepair(tree.parent[n], n)
  BY <1>1, <1>3 DEF Reds, RedPair
<1>9. pc = "idle" => size = Cardinality(used)
  BY <1>1, <1>2 DEF Counted, InTree
<1>10. tree.color[tree.root] = "red" => pc \in {"insertFixup", "deleteFixup"} /\ at = tree.root
  BY <1>1 DEF Reds
<1> QED  BY <1>1, <1>6, <1>7, <1>8, <1>9, <1>10 DEF RedBlack

\* Lookups and iterators find what is there.
LEMMA FitsFinds ==
  ASSUME NEW o, NEW S, NEW p, NEW e, NEW h, NEW gp, NEW gs, Fits(o, S, p, e, h, gp, gs)
  PROVE  TreeFinds
<1>1. /\ S = InTree /\ Lists(o, S, p) /\ Shape(tree, S, Len(o), p, e) /\ Faults
      /\ Loose(tree, used) /\ Position(S, Len(o), p, e) /\ InOrder = o
  BY FitsOrder DEF Fits, Sound
<1>2. fault # "none" => fault = "extract_missing" /\ \A n \in used : TreeKey(n) # TreeKey(arg)
  <2> SUFFICES ASSUME fault # "none"
               PROVE  fault = "extract_missing" /\ \A n \in used : TreeKey(n) # TreeKey(arg)
    OBVIOUS
  <2>1. fault = "extract_missing" /\ pc = "extract" /\ at = Dummy
    BY <1>1 DEF Faults
  <2>2. S = used /\ Search(S, p, e)
    BY <1>1, <2>1 DEF InTree, Position
  <2> QED  BY <2>1, <2>2 DEF Search
<1>3. ASSUME pc = "idle"
      PROVE  LET visited == InOrder \o <<Dummy>>
             IN  Front = visited[1] /\ \A i \in DOMAIN InOrder : NextOf(visited[i]) = visited[i + 1]
  <2>1. Loose(tree, S)
    BY <1>1, <1>3 DEF InTree
  <2>2. /\ Front = (IF Len(o) = 0 THEN Dummy ELSE o[1])
        /\ \A i \in 1 .. Len(o) : NextOf(o[i]) = Behind(o, i)
    BY <1>1, <2>1, NextIs
  <2>3. o \in Seq(Nodes) /\ Len(o) \in Nat /\ DOMAIN o = 1 .. Len(o)
    <3>1. o \in Seq(Nodes)
      BY <1>1 DEF Lists
    <3> QED  BY <3>1, LenProperties
  <2>4. PICK v \in Seq(ND) : /\ v = o \o <<Dummy>> /\ Len(v) = Len(o) + 1 /\ v[Len(o) + 1] = Dummy
                             /\ \A i \in 1 .. Len(o) : v[i] = o[i]
    <3>1. o \in Seq(ND)
      <4>1. \A i \in 1 .. Len(o) : o[i] \in ND
        BY <2>3, ElementOfSeq DEF ND
      <4> QED  BY <2>3, <4>1
    <3>2. <<Dummy>> \in Seq(ND) /\ Len(<<Dummy>>) = 1 /\ <<Dummy>>[1] = Dummy
      BY DEF ND
    <3>3. PICK d \in Seq(ND) : d = <<Dummy>> /\ Len(d) = 1 /\ d[1] = Dummy
      BY <3>2, Zenon
    <3>4. /\ o \o d \in Seq(ND) /\ Len(o \o d) = Len(o) + Len(d)
          /\ \A i \in 1 .. Len(o) + Len(d) : (o \o d)[i] = IF i <= Len(o) THEN o[i] ELSE d[i - Len(o)]
      BY <3>1, ConcatProperties
    <3>5. Len(o \o d) = Len(o) + 1 /\ (o \o d)[Len(o) + 1] = Dummy /\ \A i \in 1 .. Len(o) : (o \o d)[i] = o[i]
      BY <2>3, <3>3, <3>4
    <3> QED  BY <3>3, <3>4, <3>5
  <2>5. Front = v[1]
    BY <2>2, <2>3, <2>4
  <2>6. \A i \in 1 .. Len(o) : NextOf(v[i]) = v[i + 1]
    <3> SUFFICES ASSUME NEW i \in 1 .. Len(o) PROVE NextOf(v[i]) = v[i + 1]
      OBVIOUS
    <3>1. NextOf(o[i]) = Behind(o, i) /\ v[i] = o[i]
      BY <2>2, <2>4
    <3>2. CASE i = Len(o)
      BY <2>4, <3>1, <3>2 DEF Behind
    <3>3. CASE i # Len(o)
      <4>0. Len(o) \in Nat
        BY <2>3
      <4>1. i + 1 \in 1 .. Len(o)
        BY <3>3, <4>0
      <4> QED  BY <2>4, <3>1, <3>3, <4>1 DEF Behind
    <3> QED  BY <3>2, <3>3
  <2> QED  BY <1>1, <2>3, <2>4, <2>5, <2>6
<1> QED  BY <1>2, <1>3 DEF TreeFinds

-----------------------------------------------------------------------------
(* RbTree: insertion.                                                      *)

\* Keys are integers.
LEMMA KeyTypes ==
  ASSUME NEW n \in Nodes
  PROVE  TreeKey(n) \in Int
BY NodesAssumption DEF TreeKeys

\* Where no fixup is at work the tree is in order.
LEMMA FitsQuiet ==
  ASSUME NEW o, NEW S, NEW p, NEW e, NEW h, NEW gp, NEW gs, Fits(o, S, p, e, h, gp, gs),
         pc \notin {"insertFixup", "deleteFixup"}
  PROVE  /\ Sound(tree, S, Len(o), p, e, h, Dummy, "left") /\ gp = Dummy /\ gs = "left"
         /\ \A n \in S : ~RedPair(tree, n)
         /\ tree.color[tree.root] = "black" /\ size = Len(o)
<1>1. /\ Sound(tree, S, Len(o), p, e, h, gp, gs) /\ Hole(S, gp, gs) /\ Reds(S) /\ Counted(Len(o))
  BY DEF Fits
<1>2. tree \in Trees /\ tree.root \in ND
  BY <1>1, TreeFields DEF Sound, Shape
<1>3. tree.color[tree.root] \in Colors
  BY <1>2, TreeFields
<1> QED  BY <1>1, <1>3 DEF Hole, Reds, InRepair, Counted, Colors

\* insert_node_rb_tree begins: its place is in the interval of the root.
LEMMA InsertKeeps ==
  ASSUME NEW o, NEW S, NEW p, NEW e, NEW h, NEW gp, NEW gs, Fits(o, S, p, e, h, gp, gs),
         NEW n \in Nodes, Insert(n), fault = "none"
  PROVE  Fits(o, S, p, e, h, gp, gs)'
<1>1. /\ used \in SUBSET Nodes /\ S = InTree /\ Lists(o, S, p) /\ Rising(S, p) /\ Loose(tree, used)
      /\ Sound(tree, S, Len(o), p, e, h, gp, gs)
  BY DEF Fits
<1>2. /\ pc = "idle" /\ n \notin used /\ used' = used \union {n} /\ tree' = Cleared(tree, n)
      /\ pc' = "insert" /\ arg' = n /\ at' = tree.root /\ last' = Dummy /\ size' = size /\ fault' = "none"
  BY DEF Insert, Cleared
<1>3. S = used /\ n \notin S
  BY <1>1, <1>2 DEF InTree
<1>4. /\ gp = Dummy /\ gs = "left" /\ \A m \in S : ~RedPair(tree, m)
      /\ tree.color[tree.root] = "black" /\ size = Len(o)
  BY <1>2, FitsQuiet
<1>5. tree \in Trees /\ Shape(tree, S, Len(o), p, e) /\ Len(o) \in Nat
  BY <1>1, ListIs DEF Sound, Shape
<1>6. PICK u : u = tree' /\ ClearedFields(tree, n, u)
  BY <1>2, <1>5, ClearedIs
<1>7. /\ Sound(u, S, Len(o), p, e, h, gp, gs) /\ u.color[u.root] = "black" /\ u.root = tree.root
      /\ \A m \in S : ~RedPair(u, m)
  <2>1. /\ Sound(u, S, Len(o), p, e, h, gp, gs)
        /\ \A m \in S : RedPair(u, m) => RedPair(tree, m)
        /\ u.color[u.root] = tree.color[tree.root]
    BY <1>1, <1>3, <1>6, ClearedSound
  <2> QED  BY <1>4, <1>6, <2>1 DEF ClearedFields
<1>8. n \in ND /\ TreeKey(n) \in Int
  BY KeyTypes DEF ND
<1>9. PICK q \in 0 .. Len(o) : \A m \in S : TreeKey(m) <= TreeKey(n) <=> p[m] <= q
  <2>1. PICK k \in Int : k = TreeKey(n)
    BY <1>8
  <2>2. TreeKeys \subseteq Int
    BY NodesAssumption
  <2>3. \E q \in 0 .. Len(o) : \A m \in S : TreeKey(m) <= k <=> p[m] <= q
    BY <1>1, <2>2, PlaceExists
  <2> QED  BY <2>1, <2>3
<1>10. tree.root \in S \union {Dummy}
       /\ (tree.root # Dummy => e["left"][tree.root] - 1 <= q /\ q <= e["right"][tree.root])
  BY <1>5, <1>9 DEF Shape, Top
<1>11. Position(S, Len(o), p, e)'
  <2>1. Descent(S, Len(o), p, e, q)'
    BY <1>2, <1>6, <1>7, <1>9, <1>10 DEF Descent
  <2>2. u.color[n] = "red" /\ \A s \in Sides : u.kid[s][n] = Dummy
    BY <1>6, <1>8 DEF ClearedFields
  <2> QED  BY <1>2, <1>6, <1>9, <2>1, <2>2 DEF Position
<1>12. Loose(u, used \union {n})
  <2>1. \A m \in Nodes \ (used \union {n}) : m \in ND /\ m # n /\ m \in Nodes \ used
    BY DEF ND
  <2> QED  BY <1>1, <1>6, <2>1 DEF Loose, ClearedFields
<1>13. used' \in SUBSET Nodes /\ S = InTree'
  BY <1>1, <1>2, <1>3 DEF InTree
<1>14. Hole(S, gp, gs)'
  BY <1>2, <1>4 DEF Hole
<1>15. Reds(S)'
  BY <1>6, <1>7 DEF Reds
<1>16. Counted(Len(o))' /\ Faults'
  BY <1>2, <1>4 DEF Counted, Faults
<1> QED  BY <1>1, <1>2, <1>6, <1>7, <1>11, <1>12, <1>13, <1>14, <1>15, <1>16 DEF Fits

\* The descent of an insertion goes on.
LEMMA InsertDescendKeeps ==
  ASSUME NEW o, NEW S, NEW p, NEW e, NEW h, NEW gp, NEW gs, Fits(o, S, p, e, h, gp, gs),
         InsertDescend, fault = "none"
  PROVE  Fits(o, S, p, e, h, gp, gs)'
<1>1. /\ used \in SUBSET Nodes /\ S = InTree /\ Lists(o, S, p) /\ Rising(S, p) /\ Loose(tree, used)
      /\ Sound(tree, S, Len(o), p, e, h, gp, gs) /\ Position(S, Len(o), p, e) /\ Hole(S, gp, gs)
      /\ Reds(S) /\ Counted(Len(o))
  BY DEF Fits
<1>2. /\ pc = "insert" /\ at # Dummy /\ last' = at /\ at' = tree.kid[SideFor(TreeKey(arg), at)][at]
      /\ tree' = tree /\ used' = used /\ size' = size /\ pc' = pc /\ arg' = arg /\ fault' = fault
  BY DEF InsertDescend, SideFor
<1>3. /\ arg \in used /\ tree.color[arg] = "red" /\ \A s \in Sides : tree.kid[s][arg] = Dummy
  BY <1>1, <1>2 DEF Position
<1>4. PICK q \in 0 .. Len(o) : Descent(S, Len(o), p, e, q)
  BY <1>1, <1>2 DEF Position
<1>5. /\ at \in S /\ e["left"][at] - 1 <= q /\ q <= e["right"][at] /\ (TreeKey(at) <= TreeKey(arg) <=> p[at] <= q)
      /\ \A n \in S : TreeKey(n) <= TreeKey(arg) <=> p[n] <= q
  BY <1>2, <1>4 DEF Descent
<1>6. /\ Shape(tree, S, Len(o), p, e) /\ S \in SUBSET Nodes /\ q \in Int /\ at # Dummy
      /\ TreeKey(at) \in Int /\ TreeKey(arg) \in Int
  <2>1. Shape(tree, S, Len(o), p, e) /\ S \in SUBSET Nodes
    BY <1>1 DEF Sound, Shape
  <2>2. at \in Nodes /\ arg \in Nodes
    BY <1>1, <1>3, <1>5, <2>1
  <2> QED  BY <1>2, <2>1, <2>2, KeyTypes
<1>7. PICK s : s = SideFor(TreeKey(arg), at)
  OBVIOUS
<1>8. PICK c : c = tree.kid[s][at]
  OBVIOUS
<1>9. PICK k \in Int : k = TreeKey(arg)
  BY <1>6
<1>10. PICK a \in S : a = at
  BY <1>5
<1>11. /\ c \in S \union {Dummy}
       /\ c # Dummy => e["left"][c] - 1 <= q /\ q <= e["right"][c]
       /\ c = Dummy => q = IF s = "left" THEN p[a] - 1 ELSE p[a]
  <2>1. /\ Shape(tree, S, Len(o), p, e) /\ TreeKey(a) \in Int /\ e["left"][a] - 1 <= q /\ q <= e["right"][a]
        /\ (TreeKey(a) <= k <=> p[a] <= q) /\ s = SideFor(k, a) /\ c = tree.kid[s][a]
    BY <1>5, <1>6, <1>7, <1>8, <1>9, <1>10
  <2> QED  BY ONLY <1>6, <2>1, DescentGoesOn
<1>12. Descent(S, Len(o), p, e, q)'
  BY <1>2, <1>5, <1>6, <1>7, <1>8, <1>10, <1>11 DEF Descent
<1>13. Position(S, Len(o), p, e)'
  BY <1>2, <1>3, <1>12 DEF Position
<1>14. S = InTree' /\ Hole(S, gp, gs)'
  BY <1>1, <1>2 DEF InTree, Hole
<1>15. Reds(S)'
  BY <1>1, <1>2 DEF Reds, InRepair
<1>16. Counted(Len(o))' /\ Faults'
  BY <1>1, <1>2 DEF Counted, Faults
<1> QED  BY <1>1, <1>2, <1>13, <1>14, <1>15, <1>16 DEF Fits

\* Nodes that are not in R keep their links.
Untouched(t, R, u) == \A n \in Nodes \ R : /\ u.parent[n] = t.parent[n]
                                           /\ \A s \in Sides : u.kid[s][n] = t.kid[s][n]

\* A leaf more.
LEMMA LinkedIs ==
  ASSUME NEW t, NEW S, NEW l, NEW p, NEW e, NEW h, Sound(t, S, l, p, e, h, Dummy, "left"),
         Apart(S, l, p), Calm(t, S), NEW z \in Nodes, z \notin S, Leaf(t, z), t.color[z] = "red",
         NEW m \in S, NEW s \in Sides, t.kid[s][m] = Dummy,
         NEW q \in Int, q = (IF s = "left" THEN p[m] - 1 ELSE p[m]),
         NEW u, LinksTo(t, z, s, m, u), NEW w, Opening(S, p, z, q, w)
  PROVE  \E f, k : Sound(u, S \union {z}, l + 1, w, f, k, Dummy, "left") /\ OneRed(u, S \union {z}, z)
<1>1. /\ Shape(t, S, l, p, e) /\ w \in Numbers /\ w[z] = q + 1
      /\ \A n \in S : w[n] = IF p[n] > q THEN p[n] + 1 ELSE p[n]
  BY DEF Sound, Opening
<1>2. (\A r \in Sides : t.kid[r][z] = Dummy) /\ \A n \in S : ~RedPair(t, n)
  BY DEF Leaf, Calm
<1>3. PICK f : Shape(u, S \union {z}, l + 1, w, f)
  BY <1>1, <1>2, LinkShape
<1>4. (\E k : Sound(u, S \union {z}, l + 1, w, f, k, Dummy, "left")) /\ OneRed(u, S \union {z}, z)
  <2>1. PICK j : j = l + 1
    OBVIOUS
  <2>2. Shape(u, S \union {z}, j, w, f)
    BY <1>3, <2>1
  <2>3. (\E k : Sound(u, S \union {z}, j, w, f, k, Dummy, "left")) /\ OneRed(u, S \union {z}, z)
    BY <2>2, LinkSound
  <2> QED  BY <2>1, <2>3
<1> QED  BY <1>4

\* The node is linked where its descent has ended: behind the keys that are not larger.
LEMMA InsertLinkKeeps ==
  ASSUME NEW o, NEW S, NEW p, NEW e, NEW h, NEW gp, NEW gs, Fits(o, S, p, e, h, gp, gs),
         InsertLink, fault = "none"
  PROVE  \E z \in Nodes, q \in 0 .. Len(o) :
           /\ z \notin S /\ \A n \in S : TreeKey(n) <= TreeKey(z) <=> p[n] <= q
           /\ Stands(With(o, q, z))'
<1>1. /\ used \in SUBSET Nodes /\ S = InTree /\ Lists(o, S, p) /\ Rising(S, p) /\ Loose(tree, used)
      /\ Sound(tree, S, Len(o), p, e, h, gp, gs) /\ Position(S, Len(o), p, e)
  BY DEF Fits
<1>2. /\ pc = "insert" /\ at = Dummy /\ used' = used /\ size' = size /\ pc' = "insertFixup"
      /\ arg' = arg /\ at' = arg /\ fault' = fault
      /\ last = Dummy => tree' = WithRoot(WithParent(tree, arg, last), arg)
      /\ last # Dummy => tree' = WithKid(WithParent(tree, arg, last), SideFor(TreeKey(arg), last), last, arg)
  BY DEF InsertLink, SideFor, WithRoot, WithParent, WithKid
<1>3. /\ gp = Dummy /\ gs = "left" /\ \A m \in S : ~RedPair(tree, m)
      /\ tree.color[tree.root] = "black" /\ size = Len(o)
  BY <1>2, FitsQuiet
<1>4. /\ arg \in used /\ tree.color[arg] = "red" /\ \A s \in Sides : tree.kid[s][arg] = Dummy
      /\ S = used \ {arg}
  BY <1>1, <1>2 DEF Position, InTree
<1>5. PICK z \in Nodes : z = arg
  BY <1>1, <1>4
<1>6. PICK q \in 0 .. Len(o) : Descent(S, Len(o), p, e, q)
  BY <1>1, <1>2 DEF Position
<1>7. /\ z \notin S /\ S \union {z} = used /\ \A n \in S : TreeKey(n) <= TreeKey(z) <=> p[n] <= q
  BY <1>4, <1>5, <1>6 DEF Descent
<1>8. TreeKeys \subseteq Int /\ z \in ND /\ Dummy \in Links /\ Dummy \in ND /\ z # Dummy
  BY NodesAssumption DEF ND, Links
<1>9. PICK w : /\ Opening(S, p, z, q, w) /\ Lists(With(o, q, z), S \union {z}, w) /\ Rising(S \union {z}, w)
               /\ Len(With(o, q, z)) = Len(o) + 1
  BY <1>1, <1>7, <1>8, ListWith
<1>10. w \in Numbers /\ w[z] = q + 1 /\ \A n \in S : w[n] = IF p[n] > q THEN p[n] + 1 ELSE p[n]
  BY <1>9 DEF Opening
<1>11. /\ tree \in Trees /\ Shape(tree, S, Len(o), p, e) /\ Len(o) \in Nat /\ S \in SUBSET Nodes
       /\ Apart(S, Len(o), p) /\ Sound(tree, S, Len(o), p, e, h, Dummy, "left")
       /\ tree.color[Dummy] = "black"
  BY <1>1, <1>3, ListIs DEF Sound, Shape
<1>12. PICK u : u = tree'
  OBVIOUS
<1>20. PICK L \in Nat : L = Len(o) + 1
  BY <1>11
<1>13. ASSUME NEW f, NEW k, Sound(u, S \union {z}, L, w, f, k, Dummy, "left"),
              OneRed(u, S \union {z}, z), Untouched(tree, used, u),
              u.color[u.root] = "red" => u.root = z, u.color[z] = "red"
       PROVE  Stands(With(o, q, z))'
  <2>1. PICK l : l = With(o, q, z)
    OBVIOUS
  <2>2. Fits(l, S \union {z}, w, f, k, Dummy, "left")'
    <3>1. used' \in SUBSET Nodes /\ S \union {z} = InTree'
      BY <1>1, <1>2, <1>7 DEF InTree
    <3>2. Loose(u, used)
      BY <1>1, <1>13 DEF Loose, Untouched
    <3>3. Position(S \union {z}, Len(l), w, f)'
      BY <1>2, <1>5, <1>12, <1>13 DEF Position
    <3>4. Hole(S \union {z}, Dummy, "left")'
      BY <1>2 DEF Hole
    <3>5. Reds(S \union {z})'
      BY <1>2, <1>5, <1>12, <1>13 DEF Reds, InRepair, OneRed
    <3>6. Counted(Len(l))' /\ Faults'
      BY <1>2, <1>3, <1>9, <1>11, <2>1 DEF Counted, Faults
    <3> QED  BY <1>2, <1>9, <1>12, <1>13, <1>20, <2>1, <3>1, <3>2, <3>3, <3>4, <3>5, <3>6 DEF Fits
  <2> QED  BY <2>1, <2>2 DEF Stands
<1>14. CASE last = Dummy
  <2>1. tree.root = Dummy
    BY <1>2, <1>6, <1>14 DEF Descent
  <2>2. S = {} /\ Len(o) = 0
    <3>1. S = {}
      BY <1>8, <1>11, <2>1, NodeIs DEF Shape, Top
    <3>2. \A i \in 1 .. Len(o) : o[i] \in S
      BY <1>1, ListIs
    <3>3. 1 \notin 1 .. Len(o)
      BY <3>1, <3>2
    <3> QED  BY <1>11, <3>1, <3>3
  <2>3. PICK v : v = WithParent(tree, z, Dummy)
    OBVIOUS
  <2>4. /\ v \in Trees /\ v.root = tree.root /\ v.kid = tree.kid /\ v.color = tree.color
        /\ \A m \in ND : v.parent[m] = IF m = z THEN Dummy ELSE tree.parent[m]
    BY ONLY <1>8, <1>11, <2>3, SetParent
  <2>5. u \in Trees /\ u.root = z /\ u.kid = v.kid /\ u.parent = v.parent /\ u.color = v.color
    <3>1. u = WithRoot(v, z)
      BY <1>2, <1>5, <1>12, <1>14, <2>3
    <3> QED  BY ONLY <1>8, <2>4, <3>1, SetRoot
  <2>6. u.parent[z] = Dummy /\ u.kid = tree.kid /\ u.color = tree.color
    BY <1>8, <2>4, <2>5
  <2>7. w[z] = 1
    BY <1>6, <1>10, <2>2
  <2>8. PICK f, k : Sound(u, {z}, 1, w, f, k, Dummy, "left")
    <3>1. Sound(tree, {}, 0, p, e, h, Dummy, "left")
      BY <1>11, <2>2
    <3>2. (\A r \in Sides : tree.kid[r][z] = Dummy) /\ tree.color[z] = "red" /\ w \in Numbers
      BY <1>4, <1>5, <1>10
    <3> QED  BY <2>5, <2>6, <2>7, <3>1, <3>2, FirstSound
  <2>9. Sound(u, S \union {z}, L, w, f, k, Dummy, "left")
    <3>1. S \union {z} = {z} /\ L = 1
      BY <1>20, <2>2
    <3> QED  BY <2>8, <3>1
  <2>10. Untouched(tree, used, u)
    BY <1>4, <1>5, <2>4, <2>5, <2>6 DEF ND, Untouched
  <2>12. OneRed(u, S \union {z}, z)
    BY <2>2 DEF OneRed
  <2>11. u.color[z] = "red"
    BY <1>4, <1>5, <2>6
  <2>13. u.color[u.root] = "red" => u.root = z
    BY <2>5
  <2>14. Stands(With(o, q, z))'
    BY ONLY <1>13, <2>9, <2>10, <2>11, <2>12, <2>13, Zenon
  <2> QED  BY <1>7, <2>14
<1>15. CASE last # Dummy
  <2>1. /\ last \in S /\ at = tree.kid[SideFor(TreeKey(arg), last)][last]
        /\ q = IF SideFor(TreeKey(arg), last) = "left" THEN p[last] - 1 ELSE p[last]
    BY <1>2, <1>6, <1>15 DEF Descent
  <2>2. PICK m \in S, s \in Sides : m = last /\ s = SideFor(TreeKey(arg), last)
    <3>1. TreeKey(arg) \in Int /\ TreeKey(last) \in Int
      BY <1>5, <1>11, <2>1, KeyTypes
    <3> QED  BY <2>1, <3>1, SideForIs
  <2>3. tree.kid[s][m] = Dummy /\ q = (IF s = "left" THEN p[m] - 1 ELSE p[m]) /\ q \in Int
    BY <1>2, <2>1, <2>2
  <2>4. m \in ND /\ m \in Links /\ m # Dummy
    BY <1>11, NodeIs
  <2>5. PICK v : v = WithParent(tree, z, m)
    OBVIOUS
  <2>6. /\ v \in Trees /\ v.root = tree.root /\ v.kid = tree.kid /\ v.color = tree.color
        /\ \A n \in ND : v.parent[n] = IF n = z THEN m ELSE tree.parent[n]
    <3>1. tree \in Trees /\ z \in ND /\ m \in Links
      BY <1>8, <1>11, <2>4
    <3> QED  BY ONLY <2>5, <3>1, SetParent
  <2>7. /\ u \in Trees /\ u.root = v.root /\ u.parent = v.parent /\ u.color = v.color
        /\ \A r \in Sides, n \in ND : u.kid[r][n] = IF r = s /\ n = m THEN z ELSE v.kid[r][n]
    <3>1. u = WithKid(v, s, m, z)
      BY <1>2, <1>5, <1>12, <1>15, <2>2, <2>5
    <3>2. v \in Trees /\ m \in ND /\ z \in ND
      BY <1>8, <2>4, <2>6
    <3>3. /\ WithKid(v, s, m, z) \in Trees /\ WithKid(v, s, m, z).root = v.root
          /\ \A r \in Sides, n \in ND : WithKid(v, s, m, z).kid[r][n] = IF r = s /\ n = m THEN z ELSE v.kid[r][n]
          /\ WithKid(v, s, m, z).parent = v.parent /\ WithKid(v, s, m, z).color = v.color
      BY ONLY <3>2, SetKid, s \in Sides
    <3> QED  BY <3>1, <3>3
  <2>8. LinksTo(tree, z, s, m, u)
    BY <2>6, <2>7 DEF LinksTo
  <2>9. (\A r \in Sides : tree.kid[r][z] = Dummy) /\ tree.color[z] = "red"
    BY <1>4, <1>5
  <2>10. Leaf(tree, z) /\ Calm(tree, S) /\ tree.color[z] = "red"
    BY <1>3, <2>9 DEF Leaf, Calm
  <2>11. \E f, k : Sound(u, S \union {z}, Len(o) + 1, w, f, k, Dummy, "left") /\ OneRed(u, S \union {z}, z)
    BY <1>7, <1>9, <1>11, <2>3, <2>8, <2>10, LinkedIs
  <2>12. PICK f, k : Sound(u, S \union {z}, L, w, f, k, Dummy, "left") /\ OneRed(u, S \union {z}, z)
    BY <1>20, <2>11
  <2>13. u.color[z] = "red" /\ u.color[u.root] = "black"
    BY <1>3, <2>6, <2>7, <2>9
  <2>14. Untouched(tree, used, u)
    <3>1. \A n \in Nodes \ used : n \in ND /\ n # z /\ n # m
      BY <1>7 DEF ND
    <3> QED  BY <2>6, <2>7, <3>1 DEF Untouched
  <2>15. u.color[u.root] # "red"
    BY <2>13
  <2>16. u.color[u.root] = "red" => u.root = z
    BY <2>15
  <2>17. Stands(With(o, q, z))'
    BY ONLY <1>13, <2>12, <2>13, <2>14, <2>16, Zenon
  <2> QED  BY <1>7, <2>17
<1> QED  BY <1>7, <1>14, <1>15

\* A round of a fixup changes links and colours of the tree, and nothing else.
LEMMA FixupStep ==
  ASSUME NEW o, NEW S, NEW p, NEW e, NEW h, NEW gp, NEW gs, Fits(o, S, p, e, h, gp, gs),
         pc \in {"insertFixup", "deleteFixup"}, UNCHANGED <<used, size, pc, arg, fault>>, fault = "none",
         Outside(S, tree, tree'), NEW f, NEW k, NEW g, NEW s,
         Sound(tree', S, Len(o), p, f, k, g, s), Hole(S, g, s)', Reds(S)', at' \in S \union {Dummy},
         pc = "insertFixup" => at' \in S /\ tree'.color[at'] = "red"
  PROVE  Fits(o, S, p, f, k, g, s)'
<1>1. /\ used \in SUBSET Nodes /\ S = InTree /\ Lists(o, S, p) /\ Rising(S, p) /\ Loose(tree, used)
      /\ Position(S, Len(o), p, e) /\ Counted(Len(o))
  BY DEF Fits
<1>2. S \in SUBSET Nodes /\ Dummy \notin S /\ S \subseteq used
  BY <1>1, NodesAssumption DEF InTree
<1>3. Loose(tree', used)
  <2>1. \A m \in Nodes \ used : m \in ND \ S
    BY <1>2 DEF ND
  <2> QED  BY <1>1, <2>1 DEF Loose, Outside
<1>4. Position(S, Len(o), p, f)'
  <2>1. ASSUME pc = "deleteFixup" PROVE arg \in used /\ \A r \in Sides : tree'.kid[r][arg] \in ND
    <3>1. arg \in used /\ \A r \in Sides : tree.kid[r][arg] \in ND
      BY <1>1, <2>1 DEF Position
    <3>2. arg \in ND \ S
      BY <1>1, <2>1, <3>1 DEF InTree, ND
    <3> QED  BY <3>1, <3>2 DEF Outside
  <2> QED  BY <2>1 DEF Position
<1>5. used' \in SUBSET Nodes /\ S = InTree' /\ Loose(tree', used')
  BY <1>1, <1>3 DEF InTree
<1>6. Counted(Len(o))' /\ Faults'
  BY <1>1 DEF Counted, Faults
<1> QED  BY <1>1, <1>4, <1>5, <1>6 DEF Fits

\* Untouched by one step and by the next.
LEMMA OutsideTwice ==
  ASSUME NEW S, NEW t, NEW v, NEW u, Outside(S, t, v), Outside(S, v, u)
  PROVE  Outside(S, t, u)
BY DEF Outside

\* In the fixup of an insertion only the node it is at follows a red one, and only it can be
\* a red root.
LEMMA InsertReds ==
  ASSUME NEW S, Reds(S), pc = "insertFixup"
  PROVE  OneRed(tree, S, at) /\ (tree.color[tree.root] = "red" => at = tree.root)
BY DEF Reds, InRepair, OneRed

\* And so it stays red.
LEMMA InsertRedsNext ==
  ASSUME NEW S, pc' = "insertFixup", OneRed(tree', S, at'), tree'.color[tree'.root] = "red" => at' = tree'.root
  PROVE  Reds(S)'
BY DEF Reds, InRepair, OneRed

\* Who is who when a red node hangs from a red node.
LEMMA RedParentIs ==
  ASSUME NEW t, NEW S, NEW l, NEW p, NEW e, Shape(t, S, l, p, e), t.color[Dummy] = "black",
         NEW x \in S, t.color[x] = "red", OneRed(t, S, x), t.color[t.root] = "red" => x = t.root,
         NEW m, m = t.parent[x], t.color[m] = "red"
  PROVE  /\ m \in S /\ t.parent[m] \in S /\ SideOf(t, m) \in Sides /\ t.kid[SideOf(t, m)][t.parent[m]] = m
         /\ t.color[t.root] = "black" /\ t.color[t.parent[m]] = "black" /\ m # x
         /\ SideOf(t, x) \in Sides /\ t.kid[SideOf(t, x)][m] = x
<1>1. S \in SUBSET Nodes /\ t \in Trees /\ \A n \in S \union {Dummy} : n \in ND /\ t.color[n] \in Colors
  BY NodeIs, TreeFields DEF Shape, ND
<1>2. m \in S /\ x # t.root /\ SideOf(t, x) \in Sides /\ t.kid[SideOf(t, x)][m] = x
  BY ParentIs
<1>3. t.color[t.root] # "red" /\ m # x
  BY <1>2, KidIs
<1>4. m # t.root
  BY <1>3
<1>5. t.parent[m] \in S /\ SideOf(t, m) \in Sides /\ t.kid[SideOf(t, m)][t.parent[m]] = m
  BY <1>2, <1>4, ParentIs
<1>6. t.color[t.parent[m]] # "red"
  <2>1. ~RedPair(t, m)
    BY <1>2, <1>3 DEF OneRed
  <2> QED  BY <2>1 DEF RedPair
<1>7. t.root \in S \union {Dummy}
  BY DEF Shape, Top
<1> QED  BY <1>1, <1>2, <1>3, <1>5, <1>6, <1>7 DEF Colors

\* A round of insert_fixup.
LEMMA InsertFixupKeeps ==
  ASSUME NEW o, NEW S, NEW p, NEW e, NEW h, NEW gp, NEW gs, Fits(o, S, p, e, h, gp, gs),
         InsertFixup, fault = "none"
  PROVE  Stands(o)'
<1>1. pc = "insertFixup" /\ tree.color[tree.parent[at]] = "red"
  BY DEF InsertFixup
<1>2. /\ S \in SUBSET Nodes /\ Lists(o, S, p) /\ Hole(S, gp, gs) /\ Reds(S) /\ Position(S, Len(o), p, e)
      /\ Sound(tree, S, Len(o), p, e, h, gp, gs)
  BY DEF Fits, Sound, Shape
<1>3. at \in S /\ tree.color[at] = "red" /\ gp = Dummy /\ gs = "left"
  BY <1>1, <1>2 DEF Position, Hole
<1>4. PICK x \in S : x = at
  BY <1>3
<1>5. PICK t \in Trees : t = tree
  BY <1>2 DEF Sound, Shape
<1>6. Sound(t, S, Len(o), p, e, h, Dummy, "left") /\ Shape(t, S, Len(o), p, e) /\ t.color[Dummy] = "black"
  BY <1>2, <1>3, <1>5 DEF Sound
<1>7. t.color[x] = "red" /\ OneRed(t, S, x) /\ (t.color[t.root] = "red" => x = t.root)
  BY <1>1, <1>2, <1>3, <1>4, <1>5, InsertReds
<1>8. PICK m : m = t.parent[x]
  OBVIOUS
<1>9. t.color[m] = "red"
  BY <1>1, <1>4, <1>5, <1>8
<1>10. PICK s : s = SideOf(t, m)
  OBVIOUS
<1>11. PICK g : g = t.parent[m]
  OBVIOUS
<1>12. /\ m \in S /\ g \in S /\ s \in Sides /\ t.kid[s][g] = m /\ t.color[t.root] = "black"
       /\ t.color[g] = "black" /\ m # x /\ SideOf(t, x) \in Sides /\ t.kid[SideOf(t, x)][m] = x
  BY <1>6, <1>7, <1>8, <1>9, <1>10, <1>11, RedParentIs
<1>13. PICK y : y = t.kid[Other(s)][g]
  OBVIOUS
<1>14. y \in S \union {Dummy} /\ y \in ND /\ t.color[y] \in Colors /\ g # Dummy
  <2>1. Other(s) \in Sides /\ g # Dummy
    BY <1>2, <1>12, NodeIs, SidesAre
  <2>2. y \in S \union {Dummy} /\ y \in ND
    BY <1>6, <1>12, <1>13, <2>1, KidTypes
  <2> QED  BY <2>1, <2>2, TreeFields
<1>15. UNCHANGED <<used, size, pc, arg, last, fault>>
  BY <1>4, <1>5, <1>8, <1>11, <1>14 DEF InsertFixup
<1>16. PICK up : up = IF x = t.kid[Other(s)][m] THEN x ELSE m
  BY Zenon
<1>17. \/ t.color[y] = "red" /\ tree' = Recoloured(t, m, y, g) /\ at' = g
       \/ /\ t.color[y] = "black"
          /\ tree' = RaiseParent(OuterChild(t, s, m, x), s, up, g) /\ at' = IF up = x THEN m ELSE x
  BY <1>4, <1>5, <1>8, <1>10, <1>11, <1>13, <1>14, <1>16 DEF InsertFixup, Recoloured
<1>18. ASSUME NEW f, NEW k, Sound(tree', S, Len(o), p, f, k, Dummy, "left"), OneRed(tree', S, at'),
              tree'.color[tree'.root] = "red" => at' = tree'.root, at' \in S, tree'.color[at'] = "red",
              Outside(S, t, tree')
       PROVE  Stands(o)'
  <2>1. Hole(S, Dummy, "left")'
    BY <1>1, <1>15 DEF Hole
  <2>2. Reds(S)'
    BY <1>1, <1>15, <1>18, InsertRedsNext
  <2>3. Fits(o, S, p, f, k, Dummy, "left")'
    BY <1>1, <1>5, <1>15, <1>18, <2>1, <2>2, FixupStep
  <2> QED  BY <2>3 DEF Stands
<1>19. CASE t.color[y] = "red"
  <2>1. tree' = Recoloured(t, m, y, g) /\ at' = g
    BY <1>17, <1>19
  <2>2. y \in S
    BY <1>6, <1>14, <1>19
  <2>3. PICK u : u = Recoloured(t, m, y, g)
    OBVIOUS
  <2>4. /\ \E k : Sound(u, S, Len(o), p, e, k, Dummy, "left")
        /\ \A n \in S : RedPair(u, n) => n = g
        /\ u.color[g] = "red" /\ (u.color[u.root] = "red" => t.color[t.root] = "red" \/ g = u.root)
        /\ Outside(S, t, u)
    <3>1. \A n \in S : RedPair(t, n) => n = x
      BY <1>7 DEF OneRed
    <3> QED  BY <1>6, <1>8, <1>9, <1>12, <1>13, <1>19, <2>2, <2>3, <3>1, RecolouredIs
  <2>5. PICK k : Sound(u, S, Len(o), p, e, k, Dummy, "left")
    BY <2>4
  <2>6. OneRed(u, S, g)
    BY <2>4 DEF OneRed
  <2>7. u.color[u.root] = "red" => g = u.root
    BY <1>12, <2>4
  <2> QED  BY <1>12, <1>18, <2>1, <2>3, <2>4, <2>5, <2>6, <2>7
<1>20. CASE t.color[y] # "red"
  <2>1. t.color[y] = "black" /\ tree' = RaiseParent(OuterChild(t, s, m, x), s, up, g) /\ at' = IF up = x THEN m ELSE x
    BY <1>17, <1>20
  <2>2. \A n \in S : RedPair(t, n) => n = x
    BY <1>7 DEF OneRed
  <2>3. ASSUME NEW v, NEW f, NEW k, NEW a \in S, OuterRed(v, S, Len(o), p, f, k, s, a, up, g),
               tree' = RaiseParent(v, s, up, g), at' = a, Outside(S, t, v)
        PROVE  Stands(o)'
    <3>1. PICK u : u = RaiseParent(v, s, up, g)
      OBVIOUS
    <3>2. /\ \E i, j : Sound(u, S, Len(o), p, i, j, Dummy, "left")
          /\ \A n \in S : ~RedPair(u, n)
          /\ u.color[u.root] = "black" /\ u.color[a] = "red" /\ Outside(S, v, u)
      BY <2>3, <3>1, RaiseParentIs
    <3>3. PICK i, j : Sound(u, S, Len(o), p, i, j, Dummy, "left")
      BY <3>2
    <3>4. OneRed(u, S, a)
      BY <3>2 DEF OneRed
    <3>5. Outside(S, t, u)
      BY <2>3, <3>2, OutsideTwice
    <3>6. u.color[u.root] = "red" => a = u.root
      BY <3>2
    <3> QED  BY <1>18, <2>3, <3>1, <3>2, <3>3, <3>4, <3>5, <3>6
  <2>4. CASE x = t.kid[Other(s)][m]
    <3>1. OuterChild(t, s, m, x) = Rotate(t, s, m) /\ up = x /\ at' = m
      BY <1>16, <2>1, <2>4 DEF OuterChild
    <3>2. /\ \E f, k : OuterRed(Rotate(t, s, m), S, Len(o), p, f, k, s, m, x, g)
          /\ Outside(S, t, Rotate(t, s, m))
      BY <1>6, <1>7, <1>9, <1>12, <1>13, <2>1, <2>2, <2>4, OuterChildIs
    <3>3. PICK v : v = Rotate(t, s, m)
      OBVIOUS
    <3>4. PICK f, k : OuterRed(v, S, Len(o), p, f, k, s, m, x, g)
      BY <3>2, <3>3
    <3> QED  BY <1>12, <2>1, <2>3, <3>1, <3>2, <3>3, <3>4
  <2>5. CASE x # t.kid[Other(s)][m]
    <3>1. OuterChild(t, s, m, x) = t /\ up = m /\ at' = x
      BY <1>12, <1>16, <2>1, <2>5 DEF OuterChild
    <3>2. x = t.kid[s][m]
      BY <1>12, <2>5, SidesAre
    <3>3. OuterRed(t, S, Len(o), p, e, h, s, x, m, g)
      BY <1>6, <1>7, <1>9, <1>12, <1>13, <2>1, <2>2, <3>2 DEF OuterRed
    <3>4. Outside(S, t, t)
      BY DEF Outside
    <3> QED  BY <2>1, <2>3, <3>1, <3>3, <3>4
  <2> QED  BY <2>4, <2>5
<1> QED  BY <1>19, <1>20

\* Black paint makes no red pair.
LEMMA BlackPaint ==
  ASSUME NEW t, NEW S, NEW l, NEW p, NEW e, Shape(t, S, l, p, e), NEW x \in ND, NEW u, Repainted(t, u),
         \A m \in ND : u.color[m] = IF m = x THEN "black" ELSE t.color[m],
         NEW n \in S, RedPair(u, n)
  PROVE  RedPair(t, n) /\ n # x /\ t.parent[n] # x
<1>1. n \in ND /\ t.parent[n] \in ND /\ u.parent = t.parent
  <2>1. S \in SUBSET Nodes /\ t.parent[n] \in S \union {Dummy}
    BY ParentIs DEF Shape
  <2> QED  BY <2>1 DEF ND, Repainted
<1>2. u.color[n] = "red" /\ u.color[t.parent[n]] = "red"
  BY <1>1 DEF RedPair
<1>3. n # x /\ t.parent[n] # x
  BY <1>1, <1>2
<1> QED  BY <1>1, <1>2, <1>3 DEF RedPair

\* insert_fixup ends: the root is painted black.
LEMMA InsertDoneKeeps ==
  ASSUME NEW o, NEW S, NEW p, NEW e, NEW h, NEW gp, NEW gs, Fits(o, S, p, e, h, gp, gs),
         InsertDone, fault = "none"
  PROVE  Stands(o)'
<1>1. /\ used \in SUBSET Nodes /\ S = InTree /\ Lists(o, S, p) /\ Rising(S, p) /\ Loose(tree, used)
      /\ Sound(tree, S, Len(o), p, e, h, gp, gs) /\ Hole(S, gp, gs) /\ Reds(S) /\ Counted(Len(o))
  BY DEF Fits
<1>2. /\ pc = "insertFixup" /\ tree.color[tree.parent[at]] # "red" /\ tree' = Paint(tree, tree.root, "black")
      /\ size' = size + 1 /\ used' = used /\ fault' = fault /\ pc' = "idle"
  BY DEF InsertDone, TreeRest
<1>3. gp = Dummy /\ gs = "left" /\ Shape(tree, S, Len(o), p, e) /\ Len(o) \in Nat /\ OneRed(tree, S, at)
  BY <1>1, <1>2, InsertReds, ListIs DEF Hole, Sound
<1>4. tree.root \in S \union {Dummy} /\ tree.root \in ND /\ GapAt(tree, S, tree.root, Dummy, "left")
  BY <1>3, TreeFields DEF Shape, Top, GapAt
<1>5. PICK t \in Trees : t = tree
  BY <1>3 DEF Shape
<1>6. PICK u : u = Paint(t, t.root, "black")
  OBVIOUS
<1>7. /\ \E k : Sound(u, S, Len(o), p, e, k, Dummy, "left")
      /\ Repainted(t, u) /\ \A m \in ND : u.color[m] = IF m = t.root THEN "black" ELSE t.color[m]
  <2>1. Sound(t, S, Len(o), p, e, h, Dummy, "left") /\ t.root \in S \union {Dummy}
        /\ GapAt(t, S, t.root, Dummy, "left")
    BY <1>1, <1>3, <1>4, <1>5
  <2>2. PICK x \in S \union {Dummy} : x = t.root
    BY <2>1
  <2> QED  BY <1>6, <2>1, <2>2, FillGap
<1>8. PICK k : Sound(u, S, Len(o), p, e, k, Dummy, "left")
  BY <1>7
<1>9. \A n \in S : ~RedPair(t, n)
  BY <1>2, <1>3, <1>5 DEF OneRed, RedPair
<1>10. \A n \in S : ~RedPair(u, n)
  BY <1>3, <1>4, <1>5, <1>7, <1>9, BlackPaint
<1>11. u.color[u.root] = "black"
  BY <1>4, <1>5, <1>7 DEF Repainted
<1>12. tree' = u
  BY <1>2, <1>5, <1>6
<1>13. used' \in SUBSET Nodes /\ S = InTree'
  BY <1>1, <1>2 DEF InTree
<1>14. Loose(u, used)
  BY <1>1, <1>5, <1>7 DEF Loose, Repainted
<1>15. Position(S, Len(o), p, e)' /\ Hole(S, Dummy, "left")'
  BY <1>2 DEF Position, Hole
<1>16. Reds(S)'
  BY <1>10, <1>11, <1>12 DEF Reds
<1>17. Counted(Len(o))' /\ Faults'
  BY <1>1, <1>2, <1>3 DEF Counted, Faults
<1>18. Fits(o, S, p, e, k, Dummy, "left")'
  BY <1>1, <1>2, <1>8, <1>12, <1>13, <1>14, <1>15, <1>16, <1>17 DEF Fits
<1> QED  BY <1>18 DEF Stands

-----------------------------------------------------------------------------
(* RbTree: extraction.                                                     *)

\* assoc_rb_tree_extract begins: what it looks for is in the interval of the root.
LEMMA ExtractKeeps ==
  ASSUME NEW o, NEW S, NEW p, NEW e, NEW h, NEW gp, NEW gs, Fits(o, S, p, e, h, gp, gs),
         NEW k \in TreeKeys, Extract(k), fault = "none"
  PROVE  Fits(o, S, p, e, h, gp, gs)'
<1>1. /\ used \in SUBSET Nodes /\ S = InTree /\ Lists(o, S, p) /\ Rising(S, p) /\ Loose(tree, used)
      /\ Sound(tree, S, Len(o), p, e, h, gp, gs)
  BY DEF Fits
<1>2. /\ pc = "idle" /\ pc' = "extract" /\ arg' = <<k>> /\ at' = tree.root
      /\ tree' = tree /\ used' = used /\ size' = size /\ fault' = fault
  BY DEF Extract
<1>3. /\ gp = Dummy /\ gs = "left" /\ \A n \in S : ~RedPair(tree, n)
      /\ tree.color[tree.root] = "black" /\ size = Len(o)
  BY <1>2, FitsQuiet
<1>4. Shape(tree, S, Len(o), p, e) /\ Apart(S, Len(o), p) /\ S \in SUBSET Nodes /\ Dummy \notin S
  BY <1>1, ListIs, NodesAssumption DEF Sound, Shape
<1>5. tree.root \in S \union {Dummy} /\ (S # {} => e["left"][tree.root] = 1 /\ e["right"][tree.root] = Len(o))
      /\ (S # {} => tree.root # Dummy)
  BY <1>4 DEF Shape, Top
<1>6. TreeKey(arg') = k /\ k \in Int
  BY <1>2, NodesAssumption DEF TreeKey
<1>7. Search(S, p, e)'
  <2>1. \A n \in S : p[n] \in 1 .. Len(o)
    BY <1>4 DEF Apart
  <2>2. \A n \in S : tree.root # Dummy /\ e["left"][tree.root] <= p[n] /\ p[n] <= e["right"][tree.root]
    BY <1>5, <2>1
  <2>3. TreeKey(arg)' \in Int
    BY <1>6
  <2> QED  BY <1>2, <1>5, <2>2, <2>3 DEF Search
<1>8. Position(S, Len(o), p, e)' /\ Hole(S, gp, gs)'
  BY <1>2, <1>3, <1>7 DEF Position, Hole
<1>9. S = InTree' /\ Reds(S)'
  BY <1>1, <1>2, <1>3 DEF InTree, Reds
<1>10. Counted(Len(o))' /\ Faults'
  BY <1>2, <1>3 DEF Counted, Faults
<1> QED  BY <1>1, <1>2, <1>8, <1>9, <1>10 DEF Fits

-----------------------------------------------------------------------------
(* RbTree: lookups.                                                        *)

\* find_rb_tree goes down on the side where the key must be.
LEMMA FindDescendKeeps ==
  ASSUME NEW o, NEW S, NEW p, NEW e, NEW h, NEW gp, NEW gs, Fits(o, S, p, e, h, gp, gs),
         FindDescend, fault = "none"
  PROVE  Fits(o, S, p, e, h, gp, gs)'
<1>1. /\ used \in SUBSET Nodes /\ S = InTree /\ Lists(o, S, p) /\ Rising(S, p) /\ Loose(tree, used)
      /\ Sound(tree, S, Len(o), p, e, h, gp, gs) /\ Position(S, Len(o), p, e) /\ Hole(S, gp, gs)
      /\ Reds(S) /\ Counted(Len(o))
  BY DEF Fits
<1>2. /\ pc = "extract" /\ at # Dummy /\ Comp(TreeKey(arg), TreeKey(at)) # 0
      /\ at' = tree.kid[SideFor(TreeKey(arg), at)][at]
      /\ tree' = tree /\ used' = used /\ size' = size /\ pc' = pc /\ arg' = arg /\ fault' = fault
  BY DEF FindDescend, SideFor, Arrived
<1>3. TreeKey(arg) \in Int /\ at \in S
  BY <1>1, <1>2 DEF Position, Search
<1>4. /\ Shape(tree, S, Len(o), p, e) /\ Apart(S, Len(o), p) /\ S \in SUBSET Nodes /\ at \in Nodes
  BY <1>1, <1>3, ListIs DEF Sound, Shape
<1>5. PICK k \in Int : k = TreeKey(arg)
  BY <1>3
<1>6. PICK a \in S : a = at
  BY <1>3
<1>7. TreeKey(a) \in Int /\ TreeKey(a) # k
  BY <1>2, <1>4, <1>5, <1>6, KeyTypes DEF Comp
<1>8. PICK s : s = SideFor(k, a)
  OBVIOUS
<1>9. PICK c : c = tree.kid[s][a]
  OBVIOUS
<1>10. c \in S \union {Dummy}
  <2>1. s \in Sides
    BY <1>7, <1>8, SideForIs
  <2> QED  BY <1>4, <1>9, <2>1, KidTypes
<1>11. ASSUME NEW n \in S, TreeKey(n) = k PROVE c # Dummy /\ e["left"][c] <= p[n] /\ p[n] <= e["right"][c]
  <2>1. e["left"][a] <= p[n] /\ p[n] <= e["right"][a]
    BY <1>1, <1>2, <1>5, <1>6, <1>11 DEF Position, Search
  <2>2. c \in S /\ e["left"][c] <= p[n] /\ p[n] <= e["right"][c]
    BY ONLY <1>1, <1>4, <1>7, <1>8, <1>9, <1>11, <2>1, SearchGoesOn
  <2> QED  BY <1>4, <2>2, NodesAssumption
<1>12. Search(S, p, e)'
  BY <1>2, <1>3, <1>5, <1>6, <1>8, <1>9, <1>10, <1>11 DEF Search
<1>13. Position(S, Len(o), p, e)' /\ Hole(S, gp, gs)'
  BY <1>1, <1>2, <1>12 DEF Position, Hole
<1>14. S = InTree' /\ Reds(S)'
  BY <1>1, <1>2 DEF InTree, Reds, InRepair
<1>15. Counted(Len(o))' /\ Faults'
  BY <1>1, <1>2 DEF Counted, Faults
<1> QED  BY <1>1, <1>2, <1>13, <1>14, <1>15 DEF Fits

-----------------------------------------------------------------------------
(* RbTree: deletion.                                                       *)

\* assoc_rb_tree_extract_node: the node is taken out of its place, or is not found.
LEMMA UnlinkKeeps ==
  ASSUME NEW o, NEW S, NEW p, NEW e, NEW h, NEW gp, NEW gs, Fits(o, S, p, e, h, gp, gs),
         Unlink, fault = "none"
  PROVE  Stands(o)' \/ \E i \in 1 .. Len(o) : Stands(Without(o, i))'
<1>1. /\ used \in SUBSET Nodes /\ S = InTree /\ Lists(o, S, p) /\ Rising(S, p) /\ Loose(tree, used)
      /\ Sound(tree, S, Len(o), p, e, h, gp, gs) /\ Position(S, Len(o), p, e) /\ Hole(S, gp, gs)
      /\ Reds(S) /\ Counted(Len(o))
  BY DEF Fits
<1>2. pc = "extract" /\ S = used
  BY <1>1 DEF Unlink, InTree
<1>3. /\ Sound(tree, S, Len(o), p, e, h, Dummy, "left") /\ \A n \in S : ~RedPair(tree, n)
      /\ tree.color[tree.root] = "black" /\ size = Len(o)
  BY <1>2, FitsQuiet
<1>4. CASE at = Dummy
  <2>1. TreeAbort("extract_missing")
    BY <1>4 DEF Unlink
  <2>2. /\ tree' = tree /\ used' = used /\ size' = size /\ pc' = pc /\ arg' = arg /\ at' = at
        /\ fault' = "extract_missing"
    BY <2>1 DEF TreeAbort
  <2>3. S = InTree' /\ Position(S, Len(o), p, e)' /\ Hole(S, gp, gs)'
    BY <1>1, <1>2, <2>2 DEF InTree, Position, Search, Hole
  <2>4. Reds(S)' /\ Counted(Len(o))' /\ Faults'
    BY <1>1, <1>2, <1>4, <2>2 DEF Reds, InRepair, Counted, Faults
  <2>5. Fits(o, S, p, e, h, gp, gs)'
    BY <1>1, <2>2, <2>3, <2>4 DEF Fits
  <2> QED  BY <2>5 DEF Stands
<1>5. CASE at # Dummy
  <2>1. PICK z \in S : z = at
    BY <1>1, <1>2, <1>5 DEF Position, Search
  <2>2. PICK i : i = p[z]
    OBVIOUS
  <2>20. Leaves(o, S, p, z, i)
    <3>1. Lists(o, S, p) /\ Rising(S, p) /\ z \in S
      BY <1>1
    <3> QED  BY ONLY <2>2, <3>1, ListWithout
  <2>0. i \in 1 .. Len(o) /\ o[i] = z
    BY <2>20 DEF Leaves
  <2>3. PICK w : /\ Closing(S, p, z, w) /\ Lists(Without(o, i), S \ {z}, w) /\ Rising(S \ {z}, w)
                 /\ Len(Without(o, i)) = Len(o) - 1
    BY <2>20 DEF Leaves
  <2>4. PICK l : l = Without(o, i)
    OBVIOUS
  <2>5. PICK t : t = tree
    OBVIOUS
  <2>6. PICK u : u = Unlinked(t, z)
    OBVIOUS
  <2>7. PICK x : x = Replacement(t, z)
    OBVIOUS
  <2>8. PICK c : c = ColorLost(t, z)
    OBVIOUS
  <2>9. Unlinks(u, S \ {z}, Len(o) - 1, w, x, c) /\ Spares(t, S, z, u) /\ c \in Colors
    <3>1. Sound(t, S, Len(o), p, e, h, Dummy, "left") /\ Loose(t, S) /\ t.color[t.root] = "black"
          /\ \A n \in S : ~RedPair(t, n)
      BY <1>1, <1>2, <1>3, <2>5
    <3> QED  BY ONLY <1>1, <2>3, <2>6, <2>7, <2>8, <3>1, UnlinkedIs
  <2>10. Unlinks(u, S \ {z}, Len(l), w, x, c)
    BY <2>3, <2>4, <2>9
  <2>11. PICK f, k, g, s :
           /\ x \in (S \ {z}) \union {Dummy} /\ Sound(u, S \ {z}, Len(l), w, f, k, g, s)
           /\ c = "red" => g = Dummy /\ u.color[u.root] = "black" /\ \A n \in S \ {z} : ~RedPair(u, n)
           /\ c = "black" => /\ GapAt(u, S \ {z}, x, g, s) /\ \A n \in S \ {z} : RedPair(u, n) => n = x
                             /\ u.color[u.root] = "red" => x = u.root
    BY <2>10 DEF Unlinks
  <2>12. /\ z \in Nodes /\ z # Dummy /\ Shape(tree, S, Len(o), p, e) /\ Len(o) \in Nat /\ Len(l) = Len(o) - 1
         /\ S \in SUBSET Nodes
    BY <1>1, <2>3, <2>4, NodeIs, ListIs DEF Sound, Shape
  <2>15. \A m \in Nodes \ S, r \in Sides : u.kid[r][m] = t.kid[r][m] /\ u.parent[m] = t.parent[m]
    BY <2>9 DEF Spares
  <2>13. CASE c = "black"
    <3>1. /\ tree' = u /\ pc' = "deleteFixup" /\ arg' = z /\ at' = x
          /\ used' = used /\ size' = size /\ fault' = fault
      BY <1>5, <2>1, <2>5, <2>6, <2>7, <2>8, <2>13 DEF Unlink, Free
    <3>2. S \ {z} = InTree'
      BY <1>2, <3>1 DEF InTree
    <3>3. Loose(u, used)
      <4>1. ASSUME NEW m \in Nodes \ used
            PROVE  u.parent[m] = Dummy /\ \A r \in Sides : u.kid[r][m] = Dummy
        <5>1. t.parent[m] = Dummy /\ \A r \in Sides : t.kid[r][m] = Dummy
          BY <1>1, <2>5 DEF Loose
        <5>2. u.parent[m] = t.parent[m] /\ \A r \in Sides : u.kid[r][m] = t.kid[r][m]
          BY <1>2, <2>15, SidesAre
        <5> QED  BY <5>1, <5>2
      <4> QED  BY <4>1 DEF Loose
    <3>4. \A r \in Sides : u.kid[r][z] \in ND
      <4>1. \A r \in Sides : t.kid[r][z] \in ND
        BY <2>5, <2>12, KidTypes
      <4> QED  BY <2>9, <4>1 DEF Spares
    <3>5. Position(S \ {z}, Len(l), w, f)'
      BY <1>2, <2>11, <3>1, <3>4 DEF Position
    <3>6. Hole(S \ {z}, g, s)'
      BY <2>11, <2>13, <3>1 DEF Hole
    <3>7. Reds(S \ {z})'
      BY <2>11, <2>13, <3>1 DEF Reds, InRepair
    <3>8. Counted(Len(l))' /\ Faults'
      BY <1>3, <2>12, <3>1 DEF Counted, Faults
    <3>9. Fits(l, S \ {z}, w, f, k, g, s)'
      BY <1>1, <2>3, <2>4, <2>11, <3>1, <3>2, <3>3, <3>5, <3>6, <3>7, <3>8 DEF Fits
    <3>10. Stands(l)'
      BY <3>9 DEF Stands
    <3> QED  BY <2>0, <2>4, <3>10
  <2>14. CASE c = "red"
    <3>1. /\ tree' = Cleared(u, z) /\ pc' = "idle"
          /\ used' = used \ {z} /\ size' = size - 1 /\ fault' = fault
      BY <1>5, <2>1, <2>5, <2>6, <2>7, <2>8, <2>14 DEF Unlink, Free, TreeRest, Cleared
    <3>2. PICK v : v = Cleared(u, z) /\ ClearedFields(u, z, v)
      <4>1. u \in Trees
        BY <2>11 DEF Sound, Shape
      <4> QED  BY <2>12, <4>1, ClearedIs
    <3>3. Sound(u, S \ {z}, Len(l), w, f, k, Dummy, s)
      BY <2>11, <2>14
    <3>4. Sound(u, S \ {z}, Len(l), w, f, k, Dummy, "left")
      BY <3>3, NoGap
    <3>5. /\ Sound(v, S \ {z}, Len(l), w, f, k, Dummy, "left")
          /\ \A n \in S \ {z} : RedPair(v, n) => RedPair(u, n)
          /\ v.color[v.root] = u.color[u.root]
      <4>1. z \notin S \ {z}
        OBVIOUS
      <4> QED  BY <2>12, <3>2, <3>4, <4>1, ClearedSound
    <3>6. S \ {z} = InTree' /\ used' \in SUBSET Nodes
      BY <1>1, <1>2, <3>1 DEF InTree
    <3>7. Loose(v, used \ {z})
      <4>1. ASSUME NEW m \in Nodes \ (used \ {z})
            PROVE  v.parent[m] = Dummy /\ \A r \in Sides : v.kid[r][m] = Dummy
        <5>1. m \in ND
          BY DEF ND
        <5>2. m # z => m \in Nodes \ S
          BY <1>2
        <5>3. m # z => t.parent[m] = Dummy /\ \A r \in Sides : t.kid[r][m] = Dummy
          BY <1>1, <1>2, <2>5, <5>2 DEF Loose
        <5>4. m # z => u.parent[m] = Dummy /\ \A r \in Sides : u.kid[r][m] = Dummy
          BY <2>15, <5>2, <5>3, SidesAre
        <5> QED  BY <3>2, <5>1, <5>4 DEF ClearedFields
      <4> QED  BY <4>1 DEF Loose
    <3>8. Position(S \ {z}, Len(l), w, f)' /\ Hole(S \ {z}, Dummy, "left")'
      BY <3>1 DEF Position, Hole
    <3>9. Reds(S \ {z})'
      BY <2>11, <2>14, <3>1, <3>2, <3>5 DEF Reds
    <3>10. Counted(Len(l))' /\ Faults'
      BY <1>3, <2>12, <3>1 DEF Counted, Faults
    <3>11. Fits(l, S \ {z}, w, f, k, Dummy, "left")'
      BY <2>3, <2>4, <3>1, <3>2, <3>5, <3>6, <3>7, <3>8, <3>9, <3>10 DEF Fits
    <3>12. Stands(l)'
      BY <3>11 DEF Stands
    <3> QED  BY <2>0, <2>4, <3>12
  <2> QED  BY <2>9, <2>13, <2>14 DEF Colors
<1> QED  BY <1>4, <1>5

\* While the fixup of a deletion goes on, one black is missing below the parent of the node it is at.
LEMMA FitsDeficient ==
  ASSUME NEW o, NEW S, NEW p, NEW e, NEW h, NEW gp, NEW gs, Fits(o, S, p, e, h, gp, gs),
         pc = "deleteFixup", FixupGoesOn
  PROVE  Deficient(tree, S, Len(o), p, e, h, at, gp, gs)
<1>1. /\ Sound(tree, S, Len(o), p, e, h, gp, gs) /\ Hole(S, gp, gs) /\ Reds(S) /\ Position(S, Len(o), p, e)
  BY DEF Fits
<1>2. at # tree.root /\ tree.color[at] = "black"
  BY DEF FixupGoesOn
<1>3. gp \in S /\ gs \in Sides /\ tree.parent[at] = gp /\ tree.kid[gs][gp] = at /\ at \in S \union {Dummy}
  BY <1>1, <1>2 DEF Hole, GapAt, Position
<1>4. \A n \in S : ~RedPair(tree, n)
  BY <1>1, <1>2 DEF Reds, InRepair, RedPair
<1>5. tree.color[tree.root] = "black"
  <2>1. tree \in Trees
    BY <1>1 DEF Sound, Shape
  <2>2. tree.root \in ND
    BY <2>1, TreeFields
  <2>3. tree.color[tree.root] \in Colors
    BY <2>1, <2>2, TreeFields
  <2> QED  BY <1>1, <1>2, <2>3 DEF Reds, Colors
<1> QED  BY <1>1, <1>2, <1>3, <1>4, <1>5 DEF Deficient

\* A round of delete_fixup.
LEMMA DeleteFixupKeeps ==
  ASSUME NEW o, NEW S, NEW p, NEW e, NEW h, NEW gp, NEW gs, Fits(o, S, p, e, h, gp, gs),
         DeleteFixup, fault = "none"
  PROVE  Stands(o)'
<1>1. pc = "deleteFixup" /\ FixupGoesOn
  BY DEF DeleteFixup
<1>2. PICK t : t = tree
  OBVIOUS
<1>3. PICK x : x = at
  OBVIOUS
<1>4. Deficient(t, S, Len(o), p, e, h, x, gp, gs)
  BY <1>1, <1>2, <1>3, FitsDeficient
<1>5. PICK b : b = BlackSibling(t, x)
  OBVIOUS
<1>6. /\ \E f, k : Deficient(b, S, Len(o), p, f, k, x, gp, gs)
      /\ b.color[Sibling(b, x)] = "black" /\ Outside(S, t, b)
  BY ONLY <1>4, <1>5, BlackSiblingIs
<1>7. PICK f, k : Deficient(b, S, Len(o), p, f, k, x, gp, gs)
  BY <1>6
<1>8. S \in SUBSET Nodes /\ Dummy \notin S
  BY <1>4, NodesAssumption DEF Deficient, Sound, Shape
<1>9. Sibling(t, x) # Dummy
  BY <1>4, <1>8, SiblingIs
<1>10. Sibling(b, x) # Dummy
  BY <1>7, <1>8, SiblingIs
<1>11. \/ /\ b.color[NearNephew(b, x)] = "black" /\ b.color[FarNephew(b, x)] = "black"
          /\ tree' = Paint(b, Sibling(b, x), "red") /\ at' = b.parent[x]
          /\ UNCHANGED <<used, size, pc, arg, fault>>
       \/ /\ "red" \in {b.color[NearNephew(b, x)], b.color[FarNephew(b, x)]}
          /\ RedFarNephew(b, x).color[Sibling(RedFarNephew(b, x), x)] = "black" =>
               /\ tree' = RaiseSibling(RedFarNephew(b, x), x) /\ at' = tree'.root
               /\ UNCHANGED <<used, size, pc, arg, fault>>
  BY <1>1, <1>2, <1>3, <1>5, <1>6, <1>9, <1>10 DEF DeleteFixup
<1>12. CASE /\ b.color[NearNephew(b, x)] = "black" /\ b.color[FarNephew(b, x)] = "black"
            /\ tree' = Paint(b, Sibling(b, x), "red") /\ at' = b.parent[x]
            /\ UNCHANGED <<used, size, pc, arg, fault>>
  <2>1. PICK u : u = Paint(b, Sibling(b, x), "red")
    OBVIOUS
  <2>2. PICK g : g = b.parent[gp]
    OBVIOUS
  <2>3. PICK s : s = SideOf(b, gp)
    OBVIOUS
  <2>4. /\ Repainted(b, u) /\ \E j : Sound(u, S, Len(o), p, f, j, g, s)
        /\ \A n \in S : RedPair(u, n) => u.parent[n] = gp
        /\ u.color[u.root] = "black" /\ Outside(S, b, u)
    BY <1>6, <1>7, <1>12, <2>1, <2>2, <2>3, RedSiblingIs
  <2>5. PICK j : Sound(u, S, Len(o), p, f, j, g, s)
    BY <2>4
  <2>6. gp \in S /\ b.parent[x] = gp /\ Shape(b, S, Len(o), p, f)
    BY <1>7 DEF Deficient, Sound
  <2>7. GapAt(u, S, gp, g, s)
    <3>1. /\ s \in Sides /\ g \in S \union {Dummy} /\ (g = Dummy <=> gp = b.root)
          /\ gp # b.root => g \in S /\ b.kid[s][g] = gp
      BY <2>2, <2>3, <2>6, ParentIs
    <3>2. u.root = b.root /\ u.kid = b.kid /\ u.parent = b.parent
      BY <2>4 DEF Repainted
    <3> QED  BY <2>2, <3>1, <3>2 DEF GapAt
  <2>8. Outside(S, t, u)
    BY <1>6, <2>4, OutsideTwice
  <2>9. tree' = u /\ at' = gp
    BY <1>12, <2>1, <2>6
  <2>10. Hole(S, g, s)'
    BY <1>1, <1>12, <2>7, <2>9 DEF Hole
  <2>11. Reds(S)'
    BY <1>1, <1>12, <2>4, <2>9 DEF Reds, InRepair
  <2>12. Fits(o, S, p, f, j, g, s)'
    <3>1. Outside(S, tree, tree') /\ Sound(tree', S, Len(o), p, f, j, g, s) /\ at' \in S \union {Dummy}
          /\ pc \in {"insertFixup", "deleteFixup"} /\ (pc = "insertFixup" => at' \in S /\ tree'.color[at'] = "red")
      BY <1>1, <1>2, <2>5, <2>6, <2>8, <2>9
    <3> QED  BY <1>12, <2>10, <2>11, <3>1, FixupStep
  <2> QED  BY <2>12 DEF Stands
<1>13. CASE /\ "red" \in {b.color[NearNephew(b, x)], b.color[FarNephew(b, x)]}
            /\ RedFarNephew(b, x).color[Sibling(RedFarNephew(b, x), x)] = "black" =>
                 /\ tree' = RaiseSibling(RedFarNephew(b, x), x) /\ at' = tree'.root
                 /\ UNCHANGED <<used, size, pc, arg, fault>>
  <2>1. PICK v : v = RedFarNephew(b, x)
    OBVIOUS
  <2>2. /\ \E i, j : Deficient(v, S, Len(o), p, i, j, x, gp, gs)
        /\ v.color[Sibling(v, x)] = "black" /\ v.color[FarNephew(v, x)] = "red" /\ Outside(S, b, v)
    BY <1>6, <1>7, <1>13, <2>1, RedFarNephewIs
  <2>3. PICK i, j : Deficient(v, S, Len(o), p, i, j, x, gp, gs)
    BY <2>2
  <2>4. PICK u : u = RaiseSibling(v, x)
    OBVIOUS
  <2>5. /\ \E c, d : Sound(u, S, Len(o), p, c, d, Dummy, "left")
        /\ \A n \in S : ~RedPair(u, n)
        /\ u.color[u.root] = "black" /\ u.root \in S /\ Outside(S, v, u)
    BY <2>2, <2>3, <2>4, RaiseSiblingIs
  <2>6. PICK c, d : Sound(u, S, Len(o), p, c, d, Dummy, "left")
    BY <2>5
  <2>7. tree' = u /\ at' = u.root /\ UNCHANGED <<used, size, pc, arg, fault>>
    BY <1>13, <2>1, <2>2, <2>4
  <2>8. Outside(S, t, u)
    <3>1. Outside(S, t, v)
      BY <1>6, <2>2, OutsideTwice
    <3> QED  BY <2>5, <3>1, OutsideTwice
  <2>9. Hole(S, Dummy, "left")'
    BY <1>1, <2>7 DEF Hole, GapAt
  <2>10. Reds(S)'
    BY <1>1, <2>5, <2>7 DEF Reds
  <2>11. Fits(o, S, p, c, d, Dummy, "left")'
    <3>1. Outside(S, tree, tree') /\ Sound(tree', S, Len(o), p, c, d, Dummy, "left") /\ at' \in S \union {Dummy}
          /\ pc \in {"insertFixup", "deleteFixup"} /\ (pc = "insertFixup" => at' \in S /\ tree'.color[at'] = "red")
      BY <1>1, <1>2, <2>5, <2>6, <2>7, <2>8
    <3> QED  BY <2>7, <2>9, <2>10, <3>1, FixupStep
  <2> QED  BY <2>11 DEF Stands
<1> QED  BY <1>11, <1>12, <1>13

\* delete_fixup ends: the node it is at is painted black, and the node taken out is freed.
LEMMA DeleteDoneKeeps ==
  ASSUME NEW o, NEW S, NEW p, NEW e, NEW h, NEW gp, NEW gs, Fits(o, S, p, e, h, gp, gs),
         DeleteDone, fault = "none"
  PROVE  Stands(o)'
<1>1. /\ used \in SUBSET Nodes /\ S = InTree /\ Lists(o, S, p) /\ Rising(S, p) /\ Loose(tree, used)
      /\ Sound(tree, S, Len(o), p, e, h, gp, gs) /\ Hole(S, gp, gs) /\ Reds(S) /\ Counted(Len(o))
      /\ Position(S, Len(o), p, e)
  BY DEF Fits
<1>2. pc = "deleteFixup" /\ ~FixupGoesOn
  BY DEF DeleteDone
<1>3. PICK t : t = tree
  OBVIOUS
<1>4. PICK x \in S \union {Dummy} : x = at
  BY <1>1, <1>2 DEF Position
<1>5. PICK z \in used : z = arg
  BY <1>1, <1>2 DEF Position
<1>6. z \in Nodes /\ z \notin S /\ S = used \ {z} /\ S \in SUBSET Nodes /\ Len(o) \in Nat
  BY <1>1, <1>2, <1>5, ListIs DEF InTree
<1>7. /\ Sound(t, S, Len(o), p, e, h, gp, gs) /\ GapAt(t, S, x, gp, gs) /\ Shape(t, S, Len(o), p, e)
      /\ \A n \in S : RedPair(t, n) => x = n \/ x = t.parent[n]
      /\ t.color[t.root] = "red" => x = t.root
  BY <1>1, <1>2, <1>3, <1>4 DEF Hole, Reds, InRepair, Sound
<1>8. x \in ND /\ t \in Trees /\ t.color[x] \in Colors /\ t.root \in ND /\ t.color[t.root] \in Colors
  <2>1. x \in ND /\ t \in Trees
    BY <1>4, <1>6, <1>7 DEF ND, Shape
  <2>2. t.root \in ND
    BY <2>1, TreeFields
  <2> QED  BY <2>1, <2>2, TreeFields
<1>9. x = t.root \/ t.color[x] = "red"
  BY <1>2, <1>3, <1>4, <1>8 DEF FixupGoesOn, Colors
<1>10. PICK u : u = Paint(t, x, "black")
  OBVIOUS
<1>11. /\ \E k : Sound(u, S, Len(o), p, e, k, Dummy, "left")
       /\ Repainted(t, u) /\ \A m \in ND : u.color[m] = IF m = x THEN "black" ELSE t.color[m]
  BY ONLY <1>4, <1>7, <1>9, <1>10, FillGap
<1>12. PICK k : Sound(u, S, Len(o), p, e, k, Dummy, "left")
  BY <1>11
<1>13. \A n \in S : ~RedPair(u, n)
  BY <1>7, <1>8, <1>11, BlackPaint
<1>14. u.color[u.root] = "black" /\ u \in Trees
  BY <1>7, <1>8, <1>11 DEF Repainted, Colors
<1>15. PICK v : v = Cleared(u, z) /\ ClearedFields(u, z, v)
  BY <1>6, <1>14, ClearedIs
<1>16. /\ Sound(v, S, Len(o), p, e, k, Dummy, "left")
       /\ \A n \in S : RedPair(v, n) => RedPair(u, n)
       /\ v.color[v.root] = u.color[u.root]
  BY <1>6, <1>12, <1>15, ClearedSound
<1>17. tree' = v /\ used' = used \ {z} /\ size' = size - 1 /\ pc' = "idle" /\ fault' = fault
  BY <1>3, <1>4, <1>5, <1>10, <1>15 DEF DeleteDone, Free, TreeRest, Cleared
<1>18. used' \in SUBSET Nodes /\ S = InTree'
  BY <1>1, <1>6, <1>17 DEF InTree
<1>19. Loose(v, used \ {z})
  <2>1. ASSUME NEW m \in Nodes \ (used \ {z})
        PROVE  v.parent[m] = Dummy /\ \A r \in Sides : v.kid[r][m] = Dummy
    <3>1. m \in ND
      BY DEF ND
    <3>2. m # z => t.parent[m] = Dummy /\ \A r \in Sides : t.kid[r][m] = Dummy
      BY <1>1, <1>3 DEF Loose
    <3>3. u.parent = t.parent /\ u.kid = t.kid
      BY <1>11 DEF Repainted
    <3> QED  BY <1>15, <3>1, <3>2, <3>3 DEF ClearedFields
  <2> QED  BY <2>1 DEF Loose
<1>20. Position(S, Len(o), p, e)' /\ Hole(S, Dummy, "left")'
  BY <1>17 DEF Position, Hole
<1>21. Reds(S)'
  BY <1>13, <1>14, <1>16, <1>17 DEF Reds
<1>22. Counted(Len(o))' /\ Faults'
  BY <1>1, <1>2, <1>6, <1>17 DEF Counted, Faults
<1>23. Fits(o, S, p, e, k, Dummy, "left")'
  BY <1>1, <1>16, <1>17, <1>18, <1>19, <1>20, <1>21, <1>22 DEF Fits
<1> QED  BY <1>23 DEF Stands

-----------------------------------------------------------------------------
(* RbTree: the theorems.                                                   *)

\* The empty tree holds nothing.
LEMMA TreeStart ==
  ASSUME TreeInit
  PROVE  Stands(<<>>)
<1>1. PICK p \in Numbers : p = [n \in ND |-> 0]
  <2>1. [n \in ND |-> 0] \in Numbers
    BY DEF Numbers
  <2> QED  BY <2>1
<1>2. PICK e \in Ends : e = [s \in Sides |-> [n \in ND |-> 0]]
  <2>1. [s \in Sides |-> [n \in ND |-> 0]] \in Ends
    BY DEF Ends
  <2> QED  BY <2>1
<1>3. PICK h \in [ND -> Nat] : h = [n \in ND |-> 0]
  OBVIOUS
<1>4. PICK l \in Seq(Nodes) : l = <<>> /\ Len(l) = 0
  <2>1. <<>> \in Seq(Nodes) /\ Len(<<>>) = 0
    OBVIOUS
  <2> QED  BY <2>1
<1>5. tree \in Trees /\ tree.root = Dummy /\ tree.color[Dummy] = "black"
  BY DEF TreeInit, Trees, ND, Links, Colors
<1>6. /\ used = {} /\ size = 0 /\ pc = "idle" /\ fault = "none"
      /\ \A n \in Nodes : tree.parent[n] = Dummy /\ \A s \in Sides : tree.kid[s][n] = Dummy
  <2>1. \A n \in Nodes : n # Dummy
    BY NodesAssumption
  <2> QED  BY <2>1 DEF TreeInit
<1>7. Lists(l, {}, p)
  BY <1>1, <1>4 DEF Lists
<1>8. Shape(tree, {}, Len(l), p, e)
  BY <1>1, <1>2, <1>4, <1>5 DEF Shape, Top
<1>9. Sound(tree, {}, Len(l), p, e, h, Dummy, "left")
  <2>1. h[Dummy] = 0
    BY <1>3 DEF ND
  <2> QED  BY <1>3, <1>5, <1>8, <2>1 DEF Sound, Heights
<1>10. Loose(tree, used) /\ Position({}, Len(l), p, e) /\ Hole({}, Dummy, "left")
  BY <1>6 DEF Loose, Position, Hole
<1>11. Reds({}) /\ Counted(Len(l)) /\ Faults /\ Rising({}, p) /\ {} = InTree /\ used \in SUBSET Nodes
  BY <1>4, <1>5, <1>6 DEF Reds, Counted, Faults, Rising, InTree
<1>12. Fits(l, {}, p, e, h, Dummy, "left")
  BY <1>7, <1>9, <1>10, <1>11 DEF Fits
<1> QED  BY <1>4, <1>12 DEF Stands

\* The nodes of o are read off the links.
LEMMA StandsOrder ==
  ASSUME NEW o, Stands(o)
  PROVE  InOrder = o
BY FitsOrder DEF Stands

\* Nothing changes.
LEMMA StandsStill ==
  ASSUME NEW o, Stands(o), UNCHANGED treeVars
  PROVE  Stands(o)'
<1>1. PICK S, p, e, h, gp, gs : Fits(o, S, p, e, h, gp, gs)
  BY DEF Stands
<1>2. /\ tree' = tree /\ used' = used /\ size' = size /\ pc' = pc /\ arg' = arg /\ at' = at
      /\ last' = last /\ fault' = fault
  BY DEF treeVars
<1>3. /\ used \in SUBSET Nodes /\ S = InTree /\ Lists(o, S, p) /\ Rising(S, p)
      /\ Sound(tree, S, Len(o), p, e, h, gp, gs) /\ Loose(tree, used) /\ Position(S, Len(o), p, e)
      /\ Hole(S, gp, gs) /\ Reds(S) /\ Counted(Len(o)) /\ Faults
  BY <1>1 DEF Fits
<1>4. S = InTree' /\ Hole(S, gp, gs)' /\ Reds(S)' /\ Counted(Len(o))' /\ Faults'
  BY <1>2, <1>3 DEF InTree, Hole, Reds, InRepair, Counted, Faults
<1>5. Position(S, Len(o), p, e)'
  <2>1. Search(S, p, e) = Search(S, p, e)'
    BY <1>2 DEF Search
  <2>2. \A q : Descent(S, Len(o), p, e, q) = Descent(S, Len(o), p, e, q)'
    BY <1>2 DEF Descent
  <2> QED  BY <1>2, <1>3, <2>1, <2>2 DEF Position
<1>6. Fits(o, S, p, e, h, gp, gs)'
  BY <1>2, <1>3, <1>4, <1>5 DEF Fits
<1> QED  BY <1>6 DEF Stands

\* Behind as many entries as have no larger keys.
Behindmost(o, q, z) ==
  /\ \A i \in 1 .. Len(o) : o[i] # z
  /\ Cardinality({i \in 1 .. Len(o) : TreeKey(o[i]) <= TreeKey(z)}) = q

\* A step leaves the nodes as they are, adds one at its place, or takes one out.
LEMMA TreeGoesOn ==
  ASSUME NEW o, Stands(o), TreeNext
  PROVE  \/ Stands(o)'
         \/ \E z \in Nodes, q \in 0 .. Len(o) : Behindmost(o, q, z) /\ Stands(With(o, q, z))'
         \/ \E i \in 1 .. Len(o) : Stands(Without(o, i))'
<1>1. PICK S, p, e, h, gp, gs : Fits(o, S, p, e, h, gp, gs)
  BY DEF Stands
<1>2. fault = "none"
  BY DEF TreeNext
<1>3. ASSUME NEW n \in Nodes, Insert(n) PROVE Stands(o)'
  <2>1. Fits(o, S, p, e, h, gp, gs)'
    BY <1>1, <1>2, <1>3, InsertKeeps
  <2> QED  BY <2>1 DEF Stands
<1>4. ASSUME NEW k \in TreeKeys, Extract(k) PROVE Stands(o)'
  <2>1. Fits(o, S, p, e, h, gp, gs)'
    BY <1>1, <1>2, <1>4, ExtractKeeps
  <2> QED  BY <2>1 DEF Stands
<1>5. CASE InsertDescend
  <2>1. Fits(o, S, p, e, h, gp, gs)'
    BY <1>1, <1>2, <1>5, InsertDescendKeeps
  <2> QED  BY <2>1 DEF Stands
<1>6. CASE InsertLink
  <2>1. PICK z \in Nodes, q \in 0 .. Len(o) :
          /\ z \notin S /\ \A n \in S : TreeKey(n) <= TreeKey(z) <=> p[n] <= q
          /\ Stands(With(o, q, z))'
    BY <1>1, <1>2, <1>6, InsertLinkKeeps
  <2>2. Lists(o, S, p)
    BY <1>1 DEF Fits
  <2>3. \A i \in 1 .. Len(o) : o[i] # z
    BY <2>1, <2>2, ListIs
  <2>4. Cardinality({i \in 1 .. Len(o) : TreeKey(o[i]) <= TreeKey(z)}) = q
    <3>1. Divides(S, p, TreeKey(z), q)
      BY ONLY <2>1 DEF Divides
    <3>2. PICK k : k = TreeKey(z)
      OBVIOUS
    <3>3. Divides(S, p, k, q)
      BY ONLY <3>1, <3>2
    <3>4. Cardinality(NotAbove(o, k)) = q
      BY ONLY <2>1, <2>2, <3>3, PlaceCounts
    <3> QED  BY ONLY <3>2, <3>4 DEF NotAbove
  <2> QED  BY <2>1, <2>3, <2>4 DEF Behindmost
<1>7. CASE InsertFixup
  BY <1>1, <1>2, <1>7, InsertFixupKeeps
<1>8. CASE InsertDone
  BY <1>1, <1>2, <1>8, InsertDoneKeeps
<1>9. CASE FindDescend
  <2>1. Fits(o, S, p, e, h, gp, gs)'
    BY <1>1, <1>2, <1>9, FindDescendKeeps
  <2> QED  BY <2>1 DEF Stands
<1>10. CASE Unlink
  BY <1>1, <1>2, <1>10, UnlinkKeeps
<1>11. CASE DeleteFixup
  BY <1>1, <1>2, <1>11, DeleteFixupKeeps
<1>12. CASE DeleteDone
  BY <1>1, <1>2, <1>12, DeleteDoneKeeps
<1> QED  BY <1>3, <1>4, <1>5, <1>6, <1>7, <1>8, <1>9, <1>10, <1>11, <1>12 DEF TreeNext, TreeStep

\* The invariant is kept.
LEMMA TreeInvNext == TreeInv /\ [TreeNext]_treeVars => TreeInv'
BY TreeGoesOn, StandsStill DEF TreeInv

\* The bag's Cardinality is that of FiniteSets.
LEMMA TreeCardinality == \A S : TreeBag!Cardinality(S) = Cardinality(S)
BY DEF TreeBag!Cardinality, Cardinality

\* A node put where it belongs is put into the bag.
LEMMA WithPuts ==
  ASSUME NEW o, o \in Seq(Nodes), InOrder = o, NEW z \in Nodes, NEW q \in 0 .. Len(o), Behindmost(o, q, z),
         InOrder' = With(o, q, z)
  PROVE  TreeBag!Put(z)
<1>1. DOMAIN o = 1 .. Len(o) /\ Len(o) \in Nat
  BY LenProperties
<1>2. TreeBag!Before(TreeKey(z)) = q
  BY <1>1, TreeCardinality DEF TreeBag!Before, Behindmost
<1>3. InOrder' = TreeBag!InsertAt(InOrder, q + 1, z)
  <2>1. (q + 1) - 1 = q
    BY <1>1
  <2> QED  BY <2>1 DEF TreeBag!InsertAt, With
<1>4. \A i \in DOMAIN InOrder : InOrder[i] # z
  BY <1>1 DEF Behindmost
<1> QED  BY <1>2, <1>3, <1>4 DEF TreeBag!Put

\* A node taken out of its place is taken out of the bag.
LEMMA WithoutTakes ==
  ASSUME NEW o, o \in Seq(Nodes), InOrder = o, NEW i \in 1 .. Len(o), InOrder' = Without(o, i)
  PROVE  TreeBag!Next
<1>1. i \in DOMAIN InOrder
  BY LenProperties
<1>2. InOrder' = TreeBag!RemoveAt(InOrder, i)
  BY DEF TreeBag!RemoveAt, Without
<1>3. TreeBag!Take(TreeKey(InOrder[i]))
  BY <1>1, <1>2 DEF TreeBag!Take
<1> QED  BY <1>1, <1>3 DEF TreeBag!Next

\* The rules of a red-black tree hold between operations and, but for the node a fixup is at,
\* in every round: the fixups, with their rotations, restore them.
THEOREM TreeStaysRedBlack == TreeSpec => []RedBlack
<1>1. TreeInit => TreeInv
  BY TreeStart DEF TreeInv
<1>2. TreeInv => RedBlack
  BY FitsRedBlack DEF TreeInv, Stands
<1> QED  BY <1>1, <1>2, TreeInvNext, PTL DEF TreeSpec

\* A lookup finds what is there: an extraction fails its assertion only for a key that is not
\* in the tree, no other assertion fails, and the iterators visit the nodes in order.
THEOREM TreeAlwaysFinds == TreeSpec => []TreeFinds
<1>1. TreeInit => TreeInv
  BY TreeStart DEF TreeInv
<1>2. TreeInv => TreeFinds
  BY FitsFinds DEF TreeInv, Stands
<1> QED  BY <1>1, <1>2, TreeInvNext, PTL DEF TreeSpec

\* The tree is an ordered bag of nodes: rotations and the exchange of a node with its successor
\* lose, repeat and reorder nothing.
THEOREM TreeImplementsBag == TreeSpec => TreeIsBag
<1>1. TreeInit => TreeInv
  BY TreeStart DEF TreeInv
<1>2. \A o : Stands(o) => InOrder = o
  BY StandsOrder
<1>3. TreeInit => TreeBag!Init
  BY TreeStart, StandsOrder DEF TreeBag!Init
<1>4. TreeInv /\ [TreeNext]_treeVars /\ (\A o : Stands(o) => InOrder = o)' => [TreeBag!Next]_InOrder
  <2> SUFFICES ASSUME TreeInv, [TreeNext]_treeVars, (\A o : Stands(o) => InOrder = o)'
               PROVE  [TreeBag!Next]_InOrder
    OBVIOUS
  <2>1. PICK o : Stands(o)
    BY DEF TreeInv
  <2>2. InOrder = o
    BY <2>1, StandsOrder
  <2>3. o \in Seq(Nodes)
    BY <2>1 DEF Stands, Fits, Lists
  <2>4. \A l : Stands(l)' => InOrder' = l
    OBVIOUS
  <2>5. CASE Stands(o)'
    BY <2>2, <2>4, <2>5
  <2>6. ASSUME NEW z \in Nodes, NEW q \in 0 .. Len(o), Behindmost(o, q, z), Stands(With(o, q, z))'
        PROVE  TreeBag!Next
    <3>1. TreeBag!Put(z)
      BY <2>2, <2>3, <2>4, <2>6, WithPuts
    <3> QED  BY <3>1 DEF TreeBag!Next
  <2>7. ASSUME NEW i \in 1 .. Len(o), Stands(Without(o, i))'
        PROVE  TreeBag!Next
    BY <2>2, <2>3, <2>4, <2>7, WithoutTakes
  <2> QED  BY <2>1, <2>5, <2>6, <2>7, TreeGoesOn, StandsStill
<1> QED  BY <1>1, <1>2, <1>3, <1>4, TreeInvNext, PTL DEF TreeSpec, TreeIsBag, TreeBag!Spec

-----------------------------------------------------------------------------
(* Registry: compaction.                                                   *)

Buckets == [key : Nat, live : BOOLEAN]

\* What copy_if keeps of the first i buckets, given what it keeps of fewer.
KeptOf(g, a, i) == IF i = 0 THEN <<>> ELSE IF a[i].live THEN Append(g[i - 1], a[i]) ELSE g[i - 1]

\* The loop of copy_if has a result after every iteration.
LEMMA KeptExists ==
  ASSUME NEW a \in Seq(Buckets)
  PROVE  \E g \in [0 .. Len(a) -> Seq(Buckets)] : \A i \in 0 .. Len(a) : g[i] = KeptOf(g, a, i)
<1> DEFINE Kept(n) == \E g \in [0 .. n -> Seq(Buckets)] : \A i \in 0 .. n : g[i] = KeptOf(g, a, i)
<1> DEFINE Bad == {n \in 0 .. Len(a) : ~Kept(n)}
<1>1. Len(a) \in Nat
  BY LenProperties
<1>2. ASSUME Bad # {} PROVE FALSE
  <2>1. PICK n \in Bad : \A k \in Bad : n <= k
    <3>1. Bad \in SUBSET Nat
      BY <1>1
    <3> HIDE DEF Bad
    <3> QED  BY <1>2, <3>1, LeastNatural
  <2>2. Kept(0)
    <3> DEFINE g == [i \in 0 .. 0 |-> <<>>]
    <3>1. g \in [0 .. 0 -> Seq(Buckets)] /\ \A i \in 0 .. 0 : g[i] = KeptOf(g, a, i)
      BY DEF KeptOf
    <3> QED  BY <3>1
  <2>3. n # 0
    <3> HIDE DEF Kept
    <3> QED  BY <2>1, <2>2
  <2>31. n \in Nat /\ n \in 1 .. Len(a) /\ n - 1 \in Nat /\ n - 1 \in 0 .. Len(a) /\ ~(n <= n - 1)
    BY <1>1, <2>1, <2>3, <2>31
  <2>4. Kept(n - 1)
    <3> HIDE DEF Kept
    <3> QED  BY <2>1, <2>31
  <2>5. PICK g \in [0 .. n - 1 -> Seq(Buckets)] : \A i \in 0 .. n - 1 : g[i] = KeptOf(g, a, i)
    BY <2>4
  <2>6. PICK s \in Seq(Buckets) : s = KeptOf(g, a, n)
    <3>1. n - 1 \in 0 .. n - 1 /\ a[n] \in Buckets
      BY <2>3, ElementOfSeq
    <3>2. g[n - 1] \in Seq(Buckets) /\ Append(g[n - 1], a[n]) \in Seq(Buckets)
      BY <3>1
    <3> QED  BY <2>3, <3>2 DEF KeptOf
  <2> DEFINE h == [i \in 0 .. n |-> IF i = n THEN s ELSE g[i]]
  <2>7. h \in [0 .. n -> Seq(Buckets)]
    BY <2>3, <2>31
  <2>8. \A i \in 0 .. n - 1 : i \in 0 .. n /\ h[i] = g[i]
    BY <2>3, <2>31
  <2>9. \A i \in 0 .. n : h[i] = KeptOf(h, a, i)
    <3> SUFFICES ASSUME NEW i \in 0 .. n PROVE h[i] = KeptOf(h, a, i)
      OBVIOUS
    <3>1. KeptOf(h, a, i) = KeptOf(g, a, i)
      <4>1. i = 0 \/ (i # 0 /\ i - 1 \in 0 .. n - 1)
        BY <2>3, <2>31
      <4>2. CASE i = 0
        BY <4>2 DEF KeptOf
      <4>3. CASE i # 0 /\ i - 1 \in 0 .. n - 1
        <5>1. h[i - 1] = g[i - 1]
          BY <2>8, <4>3
        <5> HIDE DEF h
        <5> QED  BY <4>3, <5>1 DEF KeptOf
      <4> QED  BY <4>1, <4>2, <4>3
    <3>2. CASE i = n
      <4>1. h[i] = s
        BY <2>3, <3>2
      <4> QED  BY <2>6, <3>1, <3>2, <4>1
    <3>3. CASE i # n
      <4>1. i \in 0 .. n - 1
        BY <2>3, <3>3
      <4> QED  BY <2>5, <2>8, <3>1, <4>1
    <3> QED  BY <3>2, <3>3
  <2>10. Kept(n)
    <3> HIDE DEF h
    <3> QED  BY <2>7, <2>9
  <2> QED  BY <2>1, <2>10
<1>3. Len(a) \notin Bad
  BY <1>2
<1> QED  BY <1>1, <1>3

\* Live is that result after the last one.
LEMMA LiveIsKept ==
  ASSUME NEW a \in Seq(Buckets)
  PROVE  \E g \in [0 .. Len(a) -> Seq(Buckets)] :
           Live(a) = g[Len(a)] /\ \A i \in 0 .. Len(a) : g[i] = KeptOf(g, a, i)
<1> DEFINE Is(g) == g = [i \in 0 .. Len(a) |-> IF i = 0 THEN <<>>
                                               ELSE IF a[i].live THEN Append(g[i - 1], a[i])
                                               ELSE g[i - 1]]
<1> DEFINE G == CHOOSE g : Is(g)
<1>1. Live(a) = G[Len(a)]
  BY DEF Live
<1>2. PICK f \in [0 .. Len(a) -> Seq(Buckets)] : \A i \in 0 .. Len(a) : f[i] = KeptOf(f, a, i)
  BY KeptExists
<1>3. Is(f)
  BY <1>2 DEF KeptOf
<1>4. Is(G)
  <2>1. \E g : Is(g)
    <3> HIDE DEF Is, G
    <3> QED  BY ONLY <1>3
  <2> HIDE DEF Is
  <2> QED  BY ONLY <2>1, Zenon
<1>5. \A i \in 0 .. Len(a) : G[i] = KeptOf(G, a, i)
  BY <1>4 DEF KeptOf
<1>6. Len(a) \in Nat
  BY LenProperties
<1>7. G \in [0 .. Len(a) -> Seq(Buckets)]
  <2> DEFINE Bad == {i \in 0 .. Len(a) : G[i] \notin Seq(Buckets)}
  <2>1. ASSUME Bad # {} PROVE FALSE
    <3> HIDE DEF G
    <3>1. PICK n \in Bad : \A k \in Bad : n <= k
      <4>1. Bad \in SUBSET Nat
        BY <1>6
      <4> HIDE DEF Bad
      <4> QED  BY <2>1, <4>1, LeastNatural
    <3>2. CASE n = 0
      <4>1. 0 \in 0 .. Len(a) /\ <<>> \in Seq(Buckets)
        BY <1>6
      <4>2. G[0] = <<>>
        BY <1>5, <4>1 DEF KeptOf
      <4> QED  BY <3>1, <3>2, <4>1, <4>2
    <3>3. CASE n # 0
      <4>1. n \in 1 .. Len(a) /\ n - 1 \in 0 .. Len(a) /\ n - 1 \in Nat /\ ~(n <= n - 1)
        BY <1>6, <3>1, <3>3
      <4>2. G[n - 1] \in Seq(Buckets)
        BY <3>1, <4>1
      <4>3. a[n] \in Buckets
        BY <4>1, ElementOfSeq
      <4>4. Append(G[n - 1], a[n]) \in Seq(Buckets)
        BY <4>2, <4>3
      <4>5. G[n] = IF a[n].live THEN Append(G[n - 1], a[n]) ELSE G[n - 1]
        BY <1>5, <3>1, <3>3 DEF KeptOf
      <4> QED  BY <3>1, <4>2, <4>4, <4>5
    <3> QED  BY <3>2, <3>3
  <2>2. \A i \in 0 .. Len(a) : G[i] \in Seq(Buckets)
    BY ONLY <2>1, Zenon
  <2>3. G = [i \in 0 .. Len(a) |-> G[i]]
    BY ONLY <1>4, Zenon
  <2> HIDE DEF G
  <2> QED  BY <2>2, <2>3
<1> HIDE DEF G
<1> QED  BY <1>1, <1>5, <1>7


\* The keys grow: they are handed out one after the other.
Sorted(a) == \A i, j \in 1 .. Len(a) : i < j => a[i].key < a[j].key

\* s is what is live of the first n buckets, in their order.
IsLive(s, a, n) ==
  /\ s \in Seq(Buckets) /\ Len(s) <= n /\ Sorted(s)
  /\ \A j \in 1 .. Len(s) : s[j].live /\ \E i \in 1 .. n : a[i] = s[j]
  /\ \A i \in 1 .. n : a[i].live => \E j \in 1 .. Len(s) : s[j] = a[i]

\* A bucket behind the others: the order stays, and what is there is the old and the new.
LEMMA BucketAppended ==
  ASSUME NEW s \in Seq(Buckets), NEW b \in Buckets, Sorted(s),
         \A j \in 1 .. Len(s) : s[j].key < b.key
  PROVE  /\ Append(s, b) \in Seq(Buckets) /\ Sorted(Append(s, b))
         /\ Len(s) \in Nat /\ Len(Append(s, b)) = Len(s) + 1
         /\ Append(s, b)[Len(s) + 1] = b
         /\ \A j \in 1 .. Len(s) : Append(s, b)[j] = s[j]
<1>1. /\ Append(s, b) \in Seq(Buckets)
      /\ Len(s) \in Nat /\ Len(Append(s, b)) = Len(s) + 1
      /\ Append(s, b)[Len(s) + 1] = b
      /\ \A j \in 1 .. Len(s) : Append(s, b)[j] = s[j]
  OBVIOUS
<1>2. PICK t \in Seq(Buckets) : t = Append(s, b)
  BY <1>1
<1>3. ASSUME NEW i \in 1 .. Len(t), NEW j \in 1 .. Len(t), i < j PROVE t[i].key < t[j].key
  <2>1. i \in 1 .. Len(s) /\ (j \in 1 .. Len(s) \/ j = Len(s) + 1)
    BY <1>1, <1>2, <1>3
  <2>2. t[i] = s[i]
    BY <1>1, <1>2, <2>1
  <2>3. CASE j \in 1 .. Len(s)
    <3>1. t[j] = s[j]
      BY <1>1, <1>2, <2>3
    <3> QED  BY <1>3, <2>1, <2>2, <2>3, <3>1 DEF Sorted
  <2>4. CASE j = Len(s) + 1
    <3>1. t[j] = b
      BY <1>1, <1>2, <2>4
    <3> QED  BY <2>1, <2>2, <3>1
  <2> QED  BY <2>1, <2>3, <2>4
<1>4. Sorted(t)
  BY <1>3 DEF Sorted
<1> QED  BY <1>1, <1>2, <1>4

\* One more iteration of copy_if.
LEMMA NextIsLive ==
  ASSUME NEW a \in Seq(Buckets), Sorted(a), NEW n \in 1 .. Len(a), NEW s, IsLive(s, a, n - 1)
  PROVE  IsLive(IF a[n].live THEN Append(s, a[n]) ELSE s, a, n)
<1>1. Len(a) \in Nat /\ n \in Nat /\ n - 1 \in Nat /\ Len(s) \in Nat /\ s \in Seq(Buckets)
  BY LenProperties DEF IsLive
<1>2. \A i \in 1 .. n : i \in 1 .. n - 1 \/ i = n
  BY <1>1
<1>3. \A i \in 1 .. n - 1 : i \in 1 .. n /\ i \in 1 .. Len(a) /\ i < n
  BY <1>1
<1>4. CASE ~a[n].live
  <2>1. Len(s) <= n
    BY <1>1 DEF IsLive
  <2>2. \A j \in 1 .. Len(s) : s[j].live /\ \E i \in 1 .. n : a[i] = s[j]
    BY <1>3 DEF IsLive
  <2>3. \A i \in 1 .. n : a[i].live => \E j \in 1 .. Len(s) : s[j] = a[i]
    BY <1>2, <1>4 DEF IsLive
  <2> QED  BY <1>4, <2>1, <2>2, <2>3 DEF IsLive
<1>5. CASE a[n].live
  <2>1. a[n] \in Buckets
    BY ElementOfSeq
  <2>2. \A j \in 1 .. Len(s) : s[j].key < a[n].key
    <3> SUFFICES ASSUME NEW j \in 1 .. Len(s) PROVE s[j].key < a[n].key
      OBVIOUS
    <3>1. PICK i \in 1 .. n - 1 : a[i] = s[j]
      BY DEF IsLive
    <3> QED  BY <1>3, <3>1 DEF Sorted
  <2>3. PICK t \in Seq(Buckets) : t = Append(s, a[n])
    <3>1. PICK b \in Buckets : b = a[n]
      BY <2>1
    <3>2. Append(s, b) \in Seq(Buckets)
      BY <1>1
    <3> QED  BY <3>1, <3>2
  <2>4. /\ Sorted(t) /\ Len(t) = Len(s) + 1 /\ t[Len(s) + 1] = a[n]
        /\ \A j \in 1 .. Len(s) : t[j] = s[j]
    <3>1. Sorted(s)
      BY DEF IsLive
    <3> QED  BY <1>1, <2>1, <2>2, <2>3, <3>1, BucketAppended
  <2>5. Len(t) <= n
    BY <1>1, <2>4 DEF IsLive
  <2>6. ASSUME NEW j \in 1 .. Len(t) PROVE t[j].live /\ \E i \in 1 .. n : a[i] = t[j]
    <3>1. j \in 1 .. Len(s) \/ j = Len(s) + 1
      BY <1>1, <2>4
    <3>2. CASE j \in 1 .. Len(s)
      <4>1. s[j].live /\ \E i \in 1 .. n - 1 : a[i] = s[j]
        BY <3>2 DEF IsLive
      <4>2. t[j] = s[j]
        BY <2>4, <3>2
      <4> QED  BY <1>3, <4>1, <4>2
    <3>3. CASE j = Len(s) + 1
      <4>1. t[j] = a[n]
        BY <2>4, <3>3
      <4>2. n \in 1 .. n
        BY <1>1
      <4> QED  BY <1>5, <4>1, <4>2
    <3> QED  BY <3>1, <3>2, <3>3
  <2>7. ASSUME NEW i \in 1 .. n, a[i].live PROVE \E j \in 1 .. Len(t) : t[j] = a[i]
    <3>1. CASE i \in 1 .. n - 1
      <4>1. PICK j \in 1 .. Len(s) : s[j] = a[i]
        BY <2>7, <3>1 DEF IsLive
      <4>2. j \in 1 .. Len(t) /\ t[j] = s[j]
        BY <1>1, <2>4
      <4> QED  BY <4>1, <4>2
    <3>2. CASE i = n
      <4>1. Len(s) + 1 \in 1 .. Len(t)
        BY <1>1, <2>4
      <4> QED  BY <2>4, <3>2, <4>1
    <3> QED  BY <1>2, <3>1, <3>2
  <2>8. IsLive(t, a, n)
    BY <2>4, <2>5, <2>6, <2>7 DEF IsLive
  <2> QED  BY <1>5, <2>3, <2>8
<1> QED  BY <1>4, <1>5

\* copy_if and partition keep the live buckets, all of them, in their order.
LEMMA LiveIsLive ==
  ASSUME NEW a \in Seq(Buckets), Sorted(a)
  PROVE  IsLive(Live(a), a, Len(a))
<1>1. PICK g \in [0 .. Len(a) -> Seq(Buckets)] :
        Live(a) = g[Len(a)] /\ \A i \in 0 .. Len(a) : g[i] = KeptOf(g, a, i)
  BY LiveIsKept
<1>2. Len(a) \in Nat
  BY LenProperties
<1> DEFINE Bad == {i \in 0 .. Len(a) : ~IsLive(g[i], a, i)}
<1>3. ASSUME Bad # {} PROVE FALSE
  <2>1. PICK n \in Bad : \A k \in Bad : n <= k
    <3>1. Bad \in SUBSET Nat
      BY <1>2
    <3> HIDE DEF Bad
    <3> QED  BY <1>3, <3>1, LeastNatural
  <2>2. IsLive(g[0], a, 0)
    <3>1. 0 \in 0 .. Len(a)
      BY <1>2
    <3>2. g[0] = <<>>
      BY <1>1, <3>1 DEF KeptOf
    <3>3. <<>> \in Seq(Buckets) /\ Len(<<>>) = 0
      OBVIOUS
    <3> QED  BY <3>2, <3>3 DEF IsLive, Sorted
  <2>3. n # 0
    BY <2>1, <2>2
  <2>4. n \in 1 .. Len(a) /\ n \in 0 .. Len(a) /\ n - 1 \in 0 .. Len(a) /\ ~(n <= n - 1)
    BY <1>2, <2>1, <2>3
  <2>5. IsLive(g[n - 1], a, n - 1)
    BY <2>1, <2>4
  <2>6. g[n] = IF a[n].live THEN Append(g[n - 1], a[n]) ELSE g[n - 1]
    BY <1>1, <2>3, <2>4 DEF KeptOf
  <2>7. IsLive(g[n], a, n)
    BY <2>4, <2>5, <2>6, NextIsLive
  <2> QED  BY <2>1, <2>7
<1>4. Len(a) \in 0 .. Len(a)
  BY <1>2
<1> QED  BY <1>1, <1>3, <1>4

\* Two such sequences are the same.
LEMMA LiveIsOne ==
  ASSUME NEW s \in Seq(Buckets), NEW t \in Seq(Buckets), Sorted(s), Sorted(t),
         \A i \in 1 .. Len(s) : \E j \in 1 .. Len(t) : t[j] = s[i],
         \A j \in 1 .. Len(t) : \E i \in 1 .. Len(s) : s[i] = t[j]
  PROVE  s = t
<1>1. Len(s) \in Nat /\ Len(t) \in Nat
  BY LenProperties
<1>2. /\ \A i \in 1 .. Len(s) : s[i].key \in Nat
      /\ \A j \in 1 .. Len(t) : t[j].key \in Nat
  <2>1. /\ \A i \in 1 .. Len(s) : s[i] \in Buckets
        /\ \A j \in 1 .. Len(t) : t[j] \in Buckets
    BY ElementOfSeq
  <2> QED  BY <2>1 DEF Buckets
<1> DEFINE Same(i) == i \in 1 .. Len(s) /\ i \in 1 .. Len(t) /\ s[i] = t[i]
<1> DEFINE Bad == {i \in (1 .. Len(s)) \union (1 .. Len(t)) : ~Same(i)}
<1>3. ASSUME Bad # {} PROVE FALSE
  <2>1. PICK n \in Bad : \A k \in Bad : n <= k
    <3>1. Bad \in SUBSET Nat
      BY <1>1
    <3> HIDE DEF Bad
    <3> QED  BY <1>3, <3>1, LeastNatural
  <2>2. n \in Nat \ {0} /\ \A i \in 1 .. Len(s) : i < n => Same(i)
    <3>1. n \in Nat \ {0} /\ \A i \in 1 .. Len(s) : i < n => ~(n <= i)
      BY <1>1, <2>1
    <3>2. \A i \in 1 .. Len(s) : i \in Bad \/ Same(i)
      OBVIOUS
    <3> HIDE DEF Bad, Same
    <3> QED  BY <2>1, <3>1, <3>2
  <2>3. \A j \in 1 .. Len(t) : j < n => Same(j)
    <3>1. \A i \in 1 .. Len(t) : i < n => ~(n <= i)
      BY <1>1, <2>1
    <3>2. \A i \in 1 .. Len(t) : i \in Bad \/ Same(i)
      OBVIOUS
    <3> HIDE DEF Bad, Same
    <3> QED  BY <2>1, <3>1, <3>2
  <2>4. ASSUME n \in 1 .. Len(s)
        PROVE  \E j \in 1 .. Len(t) : t[j] = s[n] /\ n <= j
    <3>1. PICK j \in 1 .. Len(t) : t[j] = s[n]
      BY <2>4
    <3>2. CASE j < n
      <4>1. Same(j)
        BY <2>3, <3>2
      <4>2. j \in 1 .. Len(s) /\ s[j] = s[n]
        BY <3>1, <4>1
      <4>3. s[j].key < s[n].key
        BY <2>4, <3>2, <4>2 DEF Sorted
      <4>4. PICK k \in Nat : k = s[n].key
        BY <1>2, <2>4
      <4>5. k < k
        BY <4>2, <4>3, <4>4
      <4> QED  BY <4>4, <4>5
    <3>3. CASE ~(j < n)
      <4>1. n <= j
        BY <1>1, <2>2, <3>3
      <4> QED  BY <3>1, <4>1
    <3> QED  BY <3>2, <3>3
  <2>5. ASSUME n \in 1 .. Len(t)
        PROVE  \E i \in 1 .. Len(s) : s[i] = t[n] /\ n <= i
    <3>1. PICK i \in 1 .. Len(s) : s[i] = t[n]
      BY <2>5
    <3>2. CASE i < n
      <4>1. Same(i)
        BY <2>2, <3>2
      <4>2. i \in 1 .. Len(t) /\ t[i] = t[n]
        BY <3>1, <4>1
      <4>3. t[i].key < t[n].key
        BY <2>5, <3>2, <4>2 DEF Sorted
      <4>4. PICK k \in Nat : k = t[n].key
        BY <1>2, <2>5
      <4>5. k < k
        BY <4>2, <4>3, <4>4
      <4> QED  BY <4>4, <4>5
    <3>3. CASE ~(i < n)
      <4>1. n <= i
        BY <1>1, <2>2, <3>3
      <4> QED  BY <3>1, <4>1
    <3> QED  BY <3>2, <3>3
  <2>6. n \in 1 .. Len(s) /\ n \in 1 .. Len(t)
    <3>1. n \in 1 .. Len(s) => n \in 1 .. Len(t)
      BY <1>1, <2>2, <2>4
    <3>2. n \in 1 .. Len(t) => n \in 1 .. Len(s)
      BY <1>1, <2>2, <2>5
    <3>3. n \in 1 .. Len(s) \/ n \in 1 .. Len(t)
      BY <2>1
    <3> QED  BY <3>1, <3>2, <3>3
  <2>7. PICK j \in 1 .. Len(t) : t[j] = s[n] /\ n <= j
    BY <2>4, <2>6
  <2>8. PICK i \in 1 .. Len(s) : s[i] = t[n] /\ n <= i
    BY <2>5, <2>6
  <2>9. s[n] # t[n]
    BY <2>1, <2>6
  <2>10. n < j /\ n < i
    <3>1. n # j /\ n # i
      BY <2>7, <2>8, <2>9
    <3>2. n \in Nat /\ j \in Nat /\ i \in Nat
      BY <1>1, <2>2
    <3> QED  BY <2>7, <2>8, <3>1, <3>2
  <2>11. s[n].key < s[i].key /\ t[n].key < t[j].key
    BY <2>6, <2>10 DEF Sorted
  <2>12. PICK k \in Nat, m \in Nat : k = s[n].key /\ m = t[n].key
    BY <1>2, <2>6
  <2>13. k < m /\ m < k
    BY <2>7, <2>8, <2>11, <2>12
  <2>14. ~(k < m /\ m < k)
    OBVIOUS
  <2> QED  BY <2>13, <2>14
<1>4. \A i \in (1 .. Len(s)) \union (1 .. Len(t)) : Same(i)
  BY <1>3
<1>5. Len(s) = Len(t)
  <2>1. Len(s) > 0 => Len(s) \in 1 .. Len(t)
    BY <1>1, <1>4
  <2>2. Len(t) > 0 => Len(t) \in 1 .. Len(s)
    BY <1>1, <1>4
  <2> QED  BY <1>1, <2>1, <2>2
<1>6. \A i \in 1 .. Len(s) : s[i] = t[i]
  BY <1>4
<1> QED  BY <1>5, <1>6, SeqEqual

\* What is new at the end is kept at the end.
LEMMA LiveOfAppended ==
  ASSUME NEW a \in Seq(Buckets), Sorted(a), NEW b \in Buckets, b.live,
         \A i \in 1 .. Len(a) : a[i].key < b.key
  PROVE  Live(Append(a, b)) = Append(Live(a), b)
<1>1. PICK t \in Seq(Buckets) :
        /\ t = Append(a, b) /\ Sorted(t) /\ Len(a) \in Nat /\ Len(t) = Len(a) + 1
        /\ t[Len(a) + 1] = b /\ \A j \in 1 .. Len(a) : t[j] = a[j]
  BY BucketAppended
<1>2. PICK s \in Seq(Buckets) : s = Live(a) /\ IsLive(s, a, Len(a))
  BY LiveIsLive DEF IsLive
<1>3. \A j \in 1 .. Len(s) : s[j].key < b.key
  BY <1>2 DEF IsLive
<1>4. PICK w \in Seq(Buckets) :
        /\ w = Append(s, b) /\ Sorted(w) /\ Len(s) \in Nat /\ Len(w) = Len(s) + 1
        /\ w[Len(s) + 1] = b /\ \A j \in 1 .. Len(s) : w[j] = s[j]
  <2>1. Sorted(s)
    BY <1>2 DEF IsLive
  <2> QED  BY <1>3, <2>1, BucketAppended
<1>5. PICK l \in Seq(Buckets) : l = Live(t) /\ IsLive(l, t, Len(t))
  <2>1. IsLive(Live(t), t, Len(t))
    BY <1>1, LiveIsLive
  <2> QED  BY <2>1 DEF IsLive
<1>6. ASSUME NEW i \in 1 .. Len(l) PROVE \E j \in 1 .. Len(w) : w[j] = l[i]
  <2>1. PICK k \in 1 .. Len(t) : t[k] = l[i] /\ l[i].live
    BY <1>5 DEF IsLive
  <2>2. k \in 1 .. Len(a) \/ k = Len(a) + 1
    BY <1>1
  <2>3. CASE k \in 1 .. Len(a)
    <3>1. a[k] = l[i]
      BY <1>1, <2>1, <2>3
    <3>2. PICK j \in 1 .. Len(s) : s[j] = l[i]
      BY <1>2, <2>1, <2>3, <3>1 DEF IsLive
    <3>3. j \in 1 .. Len(w) /\ w[j] = l[i]
      BY <1>4, <3>2
    <3> QED  BY <3>3
  <2>4. CASE k = Len(a) + 1
    <3>1. Len(s) + 1 \in 1 .. Len(w) /\ w[Len(s) + 1] = l[i]
      BY <1>1, <1>4, <2>1, <2>4
    <3> QED  BY <3>1
  <2> QED  BY <2>2, <2>3, <2>4
<1>7. ASSUME NEW j \in 1 .. Len(w) PROVE \E i \in 1 .. Len(l) : l[i] = w[j]
  <2>1. j \in 1 .. Len(s) \/ j = Len(s) + 1
    BY <1>4
  <2>2. \E k \in 1 .. Len(t) : t[k] = w[j] /\ t[k].live
    <3>1. CASE j \in 1 .. Len(s)
      <4>1. w[j] = s[j]
        BY <1>4, <3>1
      <4>2. PICK k \in 1 .. Len(a) : a[k] = s[j] /\ s[j].live
        BY <1>2, <3>1 DEF IsLive
      <4>3. k \in 1 .. Len(t) /\ t[k] = a[k]
        BY <1>1
      <4> QED  BY <4>1, <4>2, <4>3
    <3>2. CASE j = Len(s) + 1
      <4>1. Len(a) + 1 \in 1 .. Len(t) /\ t[Len(a) + 1] = w[j]
        BY <1>1, <1>4, <3>2
      <4>2. t[Len(a) + 1].live
        BY <1>1
      <4> QED  BY <4>1, <4>2
    <3> QED  BY <2>1, <3>1, <3>2
  <2> QED  BY <1>5, <2>2 DEF IsLive
<1>8. l = w
  <2>1. Sorted(l) /\ Sorted(w)
    BY <1>4, <1>5 DEF IsLive
  <2> QED  BY <1>6, <1>7, <2>1, LiveIsOne
<1> QED  BY <1>1, <1>2, <1>4, <1>5, <1>8

\* A compacted array has nothing to lose.
LEMMA LiveOfLive ==
  ASSUME NEW a \in Seq(Buckets), Sorted(a)
  PROVE  Live(Live(a)) = Live(a)
<1>1. PICK s \in Seq(Buckets) : s = Live(a) /\ IsLive(s, a, Len(a))
  BY LiveIsLive DEF IsLive
<1>2. Sorted(s) /\ \A j \in 1 .. Len(s) : s[j].live
  BY <1>1 DEF IsLive
<1>3. PICK l \in Seq(Buckets) : l = Live(s) /\ IsLive(l, s, Len(s))
  BY <1>2, LiveIsLive DEF IsLive
<1>4. \A i \in 1 .. Len(l) : \E j \in 1 .. Len(s) : s[j] = l[i]
  BY <1>3 DEF IsLive
<1>5. \A j \in 1 .. Len(s) : \E i \in 1 .. Len(l) : l[i] = s[j]
  BY <1>2, <1>3 DEF IsLive
<1>6. Sorted(l)
  BY <1>3 DEF IsLive
<1>7. l = s
  BY <1>2, <1>4, <1>5, <1>6, LiveIsOne
<1> QED  BY <1>1, <1>3, <1>7

\* A bucket that is marked as erased, and no other, is lost.
LEMMA LiveOfMarked ==
  ASSUME NEW a \in Seq(Buckets), Sorted(a), NEW i \in 1 .. Len(a), a[i].live
  PROVE  /\ [a EXCEPT ![i].live = FALSE] \in Seq(Buckets)
         /\ Len([a EXCEPT ![i].live = FALSE]) = Len(a)
         /\ Sorted([a EXCEPT ![i].live = FALSE])
         /\ \A k \in 1 .. Len(a) : [a EXCEPT ![i].live = FALSE][k].key = a[k].key
         /\ \E j \in 1 .. Len(Live(a)) :
              Live(a)[j] = a[i] /\ Live([a EXCEPT ![i].live = FALSE]) = Without(Live(a), j)
<1>1. PICK b \in Buckets : b = [a[i] EXCEPT !.live = FALSE] /\ b.key = a[i].key /\ ~b.live
  <2>1. a[i] \in Buckets
    BY ElementOfSeq
  <2>2. PICK r \in Buckets : r = a[i]
    BY <2>1
  <2>3. [r EXCEPT !.live = FALSE] \in Buckets
    BY DEF Buckets
  <2>4. [r EXCEPT !.live = FALSE].key = r.key /\ ~[r EXCEPT !.live = FALSE].live
    BY DEF Buckets
  <2> QED  BY <2>2, <2>3, <2>4
<1>2. PICK t \in Seq(Buckets) :
        /\ t = [a EXCEPT ![i].live = FALSE] /\ Len(t) = Len(a)
        /\ \A k \in 1 .. Len(a) : t[k] = IF k = i THEN b ELSE a[k]
  <2>1. [a EXCEPT ![i].live = FALSE] = [a EXCEPT ![i] = b]
    BY <1>1
  <2> QED  BY <2>1, ExceptSeq
<1>3. \A k \in 1 .. Len(a) : t[k].key = a[k].key /\ a[k].key \in Nat
  <2>1. \A k \in 1 .. Len(a) : a[k] \in Buckets
    BY ElementOfSeq
  <2> QED  BY <1>1, <1>2, <2>1 DEF Buckets
<1>4. Sorted(t)
  BY <1>2, <1>3 DEF Sorted
<1>5. PICK s \in Seq(Buckets) : s = Live(a) /\ IsLive(s, a, Len(a))
  BY LiveIsLive DEF IsLive
<1>6. PICK j \in 1 .. Len(s) : s[j] = a[i]
  BY <1>5 DEF IsLive
<1>7. PICK w \in Seq(Buckets) :
        /\ w = Without(s, j) /\ Len(s) \in Nat /\ Len(w) = Len(s) - 1
        /\ \A k \in 1 .. Len(s) - 1 : w[k] = s[IF k < j THEN k ELSE k + 1]
  BY WithoutIs
<1>8. PICK l \in Seq(Buckets) : l = Live(t) /\ IsLive(l, t, Len(t))
  BY <1>4, LiveIsLive DEF IsLive
<1>9. \A m \in 1 .. Len(s) : m # j => s[m].key # s[j].key
  <2> SUFFICES ASSUME NEW m \in 1 .. Len(s), m # j PROVE s[m].key # s[j].key
    OBVIOUS
  <2>1. s[m] \in Buckets /\ s[j] \in Buckets
    BY ElementOfSeq
  <2>2. PICK x \in Nat, y \in Nat : x = s[m].key /\ y = s[j].key
    BY <2>1 DEF Buckets
  <2>3. m < j \/ j < m
    BY <1>7
  <2>4. x < y \/ y < x
    BY <1>5, <2>2, <2>3 DEF IsLive, Sorted
  <2>5. x # y
    BY <2>4
  <2> QED  BY <2>2, <2>5
<1>10. Sorted(w)
  <2> SUFFICES ASSUME NEW p \in 1 .. Len(w), NEW q \in 1 .. Len(w), p < q
               PROVE  w[p].key < w[q].key
    BY DEF Sorted
  <2>1. PICK m \in 1 .. Len(s), n \in 1 .. Len(s) : m < n /\ w[p] = s[m] /\ w[q] = s[n]
    <3>1. /\ (IF p < j THEN p ELSE p + 1) \in 1 .. Len(s)
          /\ (IF q < j THEN q ELSE q + 1) \in 1 .. Len(s)
          /\ (IF p < j THEN p ELSE p + 1) < (IF q < j THEN q ELSE q + 1)
      BY <1>7
    <3> QED  BY <1>7, <3>1
  <2> QED  BY <1>5, <2>1 DEF IsLive, Sorted
<1>11. ASSUME NEW p \in 1 .. Len(l) PROVE \E q \in 1 .. Len(w) : w[q] = l[p]
  <2>1. PICK k \in 1 .. Len(t) : t[k] = l[p] /\ l[p].live
    BY <1>8 DEF IsLive
  <2>2. k \in 1 .. Len(a) /\ k # i /\ t[k] = a[k]
    BY <1>1, <1>2, <2>1
  <2>3. PICK m \in 1 .. Len(s) : s[m] = a[k]
    BY <1>5, <2>1, <2>2 DEF IsLive
  <2>4. m # j
    <3>1. k < i \/ i < k
      BY <2>2
    <3>2. PICK x \in Nat, y \in Nat : x = a[k].key /\ y = a[i].key
      BY <1>3, <2>2
    <3>3. x < y \/ y < x
      BY <2>2, <3>1, <3>2 DEF Sorted
    <3>4. x # y
      BY <3>3
    <3> QED  BY <1>6, <2>3, <3>2, <3>4
  <2>5. CASE m < j
    <3>1. m \in 1 .. Len(w) /\ w[m] = s[m]
      BY <1>7, <2>5
    <3> QED  BY <2>1, <2>2, <2>3, <3>1
  <2>6. CASE ~(m < j)
    <3>1. m - 1 \in 1 .. Len(w) /\ ~(m - 1 < j) /\ m - 1 + 1 = m
      BY <1>7, <2>4, <2>6
    <3>2. w[m - 1] = s[m]
      BY <1>7, <3>1
    <3> QED  BY <2>1, <2>2, <2>3, <3>1, <3>2
  <2> QED  BY <2>5, <2>6
<1>12. ASSUME NEW q \in 1 .. Len(w) PROVE \E p \in 1 .. Len(l) : l[p] = w[q]
  <2>1. PICK m \in 1 .. Len(s) : m # j /\ w[q] = s[m]
    <3>1. (IF q < j THEN q ELSE q + 1) \in 1 .. Len(s) /\ (IF q < j THEN q ELSE q + 1) # j
      BY <1>7
    <3> QED  BY <1>7, <3>1
  <2>2. PICK k \in 1 .. Len(a) : a[k] = s[m] /\ s[m].live
    BY <1>5 DEF IsLive
  <2>3. k # i
    BY <1>6, <1>9, <2>1, <2>2
  <2>4. k \in 1 .. Len(t) /\ t[k] = w[q] /\ t[k].live
    BY <1>2, <2>1, <2>2, <2>3
  <2> QED  BY <1>8, <2>4 DEF IsLive
<1>13. l = w
  <2>1. Sorted(l)
    BY <1>8 DEF IsLive
  <2> QED  BY <1>10, <1>11, <1>12, <2>1, LiveIsOne
<1> QED  BY <1>2, <1>3, <1>4, <1>5, <1>6, <1>7, <1>8, <1>13

-----------------------------------------------------------------------------
(* Registry: the search.                                                   *)

\* assoc_reg_front stops at the first live bucket, or at the end.
LEMMA FrontIs ==
  ASSUME arr \in Seq(Buckets)
  PROVE  /\ FirstLive \in 1 .. Len(arr) + 1
         /\ \A j \in 1 .. Len(arr) : j < FirstLive => ~arr[j].live
<1> DEFINE FirstAt(i) == (i <= Len(arr) => arr[i].live) /\ \A j \in 1 .. i - 1 : ~arr[j].live
<1>1. Len(arr) \in Nat
  BY LenProperties
<1>2. \E i \in Positions : FirstAt(i)
  <2> DEFINE S == {i \in 1 .. Len(arr) + 1 : i <= Len(arr) => arr[i].live}
  <2>1. S \in SUBSET Nat /\ Len(arr) + 1 \in S
    BY <1>1
  <2>2. PICK n \in S : \A k \in S : n <= k
    <3> HIDE DEF S
    <3> QED  BY <2>1, LeastNatural
  <2>3. \A j \in 1 .. n - 1 : j \in 1 .. Len(arr) + 1 /\ j \notin S
    BY <1>1, <2>2
  <2>4. FirstAt(n)
    BY <2>2, <2>3
  <2> QED  BY <2>2, <2>4 DEF Positions
<1>3. FirstLive \in Positions /\ FirstAt(FirstLive)
  <2>1. FirstLive = CHOOSE i \in Positions : FirstAt(i)
    BY DEF FirstLive
  <2> HIDE DEF FirstAt
  <2> QED  BY <1>2, <2>1
<1>4. PICK n \in 1 .. Len(arr) + 1 : n = FirstLive
  BY <1>3 DEF Positions
<1>5. \A j \in 1 .. Len(arr) : j < n => j \in 1 .. n - 1
  BY <1>1
<1> QED  BY <1>3, <1>4, <1>5

\* The two halves of a range that is not empty are ranges, and shorter.
LEMMA Halved ==
  ASSUME Len(arr) \in Nat, NEW r \in Ranges, r[2] # 0
  PROVE  \E lower \in Nat, len \in Nat, half \in Nat :
           /\ r = <<lower, len>> /\ r[1] = lower /\ r[2] = len /\ lower + len <= Len(arr)
           /\ half = r[2] \div 2 /\ half < len
           /\ <<lower + half + 1, len - half - 1>> \in Ranges /\ <<lower, half>> \in Ranges
<1>1. PICK lower \in 0 .. Len(arr), len \in 0 .. Len(arr) :
        r = <<lower, len>> /\ r[1] = lower /\ r[2] = len /\ lower + len <= Len(arr)
  BY DEF Ranges
<1>2. PICK half \in Nat : half = len \div 2 /\ half < len
  <2>1. len \in Nat \ {0}
    BY <1>1
  <2> QED  BY <2>1
<1>3. /\ lower + half + 1 \in 0 .. Len(arr) /\ len - half - 1 \in 0 .. Len(arr)
      /\ (lower + half + 1) + (len - half - 1) <= Len(arr)
      /\ half \in 0 .. Len(arr) /\ lower + half <= Len(arr)
  BY <1>1, <1>2
<1>4. <<lower + half + 1, len - half - 1>> \in Ranges /\ <<lower, half>> \in Ranges
  BY <1>1, <1>3 DEF Ranges
<1>5. lower \in Nat /\ len \in Nat /\ half = r[2] \div 2
  BY <1>1, <1>2
<1> QED  BY <1>1, <1>2, <1>4, <1>5

\* One iteration of lower_bound_reg, given the outcome of the others.
SearchOf(f, key, r) ==
  LET half == r[2] \div 2
  IN  IF r[2] = 0 THEN r[1]
      ELSE IF arr[FirstLive + r[1] + half].key < key
      THEN f[<<r[1] + half + 1, r[2] - half - 1>>] ELSE f[<<r[1], half>>]

\* The loop of lower_bound_reg ends on every range.
LEMMA SearchExists ==
  ASSUME arr \in Seq(Buckets), NEW key
  PROVE  \E f : f = [r \in Ranges |-> SearchOf(f, key, r)]
<1> DEFINE Upto(f, n) == /\ f = [r \in Ranges |-> f[r]]
                         /\ \A r \in Ranges : r[2] <= n => f[r] = SearchOf(f, key, r)
<1> DEFINE Bad == {n \in 0 .. Len(arr) : ~\E f : Upto(f, n)}
<1>1. Len(arr) \in Nat
  BY LenProperties
<1>2. \A r \in Ranges : r[2] \in 0 .. Len(arr)
  BY <1>1 DEF Ranges
<1>3. ASSUME Bad # {} PROVE FALSE
  <2>1. PICK n \in Bad : \A k \in Bad : n <= k
    <3>1. Bad \in SUBSET Nat
      BY <1>1
    <3> HIDE DEF Bad
    <3> QED  BY <1>3, <3>1, LeastNatural
  <2>2. \E f : Upto(f, 0)
    <3> DEFINE f == [r \in Ranges |-> r[1]]
    <3>1. \A r \in Ranges : r[2] <= 0 => f[r] = SearchOf(f, key, r)
      <4> SUFFICES ASSUME NEW r \in Ranges, r[2] <= 0 PROVE f[r] = SearchOf(f, key, r)
        OBVIOUS
      <4>1. r[2] = 0
        BY <1>1, <1>2
      <4> QED  BY <4>1 DEF SearchOf
    <3>2. Upto(f, 0)
      BY <3>1
    <3> QED  BY <3>2
  <2>3. n # 0
    <3> HIDE DEF Upto
    <3> QED  BY <2>1, <2>2
  <2>4. n \in 1 .. Len(arr) /\ n - 1 \in 0 .. Len(arr) /\ n \in Nat /\ ~(n <= n - 1)
    BY <1>1, <2>1, <2>3
  <2>5. PICK f : Upto(f, n - 1)
    <3> HIDE DEF Upto
    <3> QED  BY <2>1, <2>4
  <2> DEFINE h == [r \in Ranges |-> IF r[2] <= n - 1 THEN f[r] ELSE SearchOf(f, key, r)]
  <2>6. ASSUME NEW r \in Ranges, r[2] <= n PROVE SearchOf(h, key, r) = SearchOf(f, key, r)
    <3>1. CASE r[2] = 0
      <4> HIDE DEF h
      <4> QED  BY <3>1 DEF SearchOf
    <3>2. CASE r[2] # 0
      <4>1. PICK lower \in Nat, len \in Nat, half \in Nat :
             /\ r = <<lower, len>> /\ r[1] = lower /\ r[2] = len /\ lower + len <= Len(arr)
             /\ half = r[2] \div 2 /\ half < len
             /\ <<lower + half + 1, len - half - 1>> \in Ranges /\ <<lower, half>> \in Ranges
        BY <1>1, <3>2, Halved
      <4>2. half <= n - 1 /\ len - half - 1 <= n - 1
        BY <2>4, <2>6, <4>1
      <4>3. /\ h[<<lower + half + 1, len - half - 1>>] = f[<<lower + half + 1, len - half - 1>>]
            /\ h[<<lower, half>>] = f[<<lower, half>>]
        <5>1. /\ <<lower + half + 1, len - half - 1>>[2] = len - half - 1
              /\ <<lower, half>>[2] = half
          OBVIOUS
        <5>2. \A q \in Ranges : q[2] <= n - 1 => h[q] = f[q]
          OBVIOUS
        <5> HIDE DEF h
        <5> QED  BY <4>1, <4>2, <5>1, <5>2
      <4> HIDE DEF h
      <4> QED  BY <3>2, <4>1, <4>3, Zenon DEF SearchOf
    <3> QED  BY <3>1, <3>2
  <2>7. \A r \in Ranges : r[2] <= n => h[r] = SearchOf(h, key, r)
    <3> SUFFICES ASSUME NEW r \in Ranges, r[2] <= n PROVE h[r] = SearchOf(h, key, r)
      OBVIOUS
    <3>1. h[r] = SearchOf(f, key, r)
      BY <2>5
    <3> HIDE DEF h
    <3> QED  BY <2>6, <3>1
  <2>8. h = [r \in Ranges |-> h[r]]
    OBVIOUS
  <2>9. Upto(h, n)
    <3> HIDE DEF h
    <3> QED  BY <2>7, <2>8
  <2> HIDE DEF Upto, h
  <2> QED  BY <2>1, <2>9
<1>4. PICK f : Upto(f, Len(arr))
  <2>1. Len(arr) \in 0 .. Len(arr)
    BY <1>1
  <2> HIDE DEF Upto
  <2> QED  BY <1>3, <2>1
<1>5. \A r \in Ranges : f[r] = SearchOf(f, key, r)
  <2>1. \A r \in Ranges : r[2] <= Len(arr)
    BY <1>1, <1>2
  <2> QED  BY <1>4, <2>1
<1>6. f = [r \in Ranges |-> SearchOf(f, key, r)]
  BY <1>4, <1>5
<1> QED  BY <1>6

\* What the loop returns for a range: the first position of it whose key is not
\* smaller, or the one behind it.
Bound(f, key, lower, len) ==
  LET p == f[<<lower, len>>]
  IN  /\ p \in lower .. lower + len
      /\ \A q \in lower .. p - 1 : arr[FirstLive + q].key < key
      /\ p < lower + len => ~(arr[FirstLive + p].key < key)

\* The first bucket from FirstLive on whose key is not smaller is found.
LEMMA LowerBoundIs ==
  ASSUME arr \in Seq(Buckets), Sorted(arr), NEW key \in Nat
  PROVE  /\ LowerBound(key) \in FirstLive .. Len(arr) + 1
         /\ \A i \in FirstLive .. LowerBound(key) - 1 : arr[i].key < key
         /\ LowerBound(key) <= Len(arr) => ~(arr[LowerBound(key)].key < key)
<1> DEFINE Is(f) == f = [r \in Ranges |->
                     LET half == r[2] \div 2
                     IN  IF r[2] = 0 THEN r[1]
                         ELSE IF arr[FirstLive + r[1] + half].key < key
                         THEN f[<<r[1] + half + 1, r[2] - half - 1>>] ELSE f[<<r[1], half>>]]
<1> DEFINE G == CHOOSE f : Is(f)
<1>1. LowerBound(key) = FirstLive + G[<<0, Len(arr) + 1 - FirstLive>>]
  BY DEF LowerBound
<1>2. \E f : Is(f)
  BY SearchExists, Zenon DEF SearchOf
<1>3. Is(G)
  <2> HIDE DEF Is
  <2> QED  BY <1>2
<1>4. \A r \in Ranges : G[r] = SearchOf(G, key, r)
  BY ONLY <1>3, Zenon DEF SearchOf
<1> HIDE DEF G
<1>5. Len(arr) \in Nat
  BY LenProperties
<1>6. PICK front \in 1 .. Len(arr) + 1 : front = FirstLive
  BY FrontIs
<1>7. PICK N \in 0 .. Len(arr) : N = Len(arr) + 1 - front
  BY <1>5
<1> DEFINE All(len) == \A lower \in 0 .. N : lower + len <= N => Bound(G, key, lower, len)
<1> DEFINE Bad == {len \in 0 .. N : ~All(len)}
<1>8. \A lower \in 0 .. N, len \in 0 .. N : lower + len <= N => <<lower, len>> \in Ranges
  BY <1>5 DEF Ranges
<1>9. \A i \in 1 .. Len(arr) : arr[i].key \in Nat
  <2>1. \A i \in 1 .. Len(arr) : arr[i] \in Buckets
    BY ElementOfSeq
  <2> QED  BY <2>1 DEF Buckets
<1>10. ASSUME Bad # {} PROVE FALSE
  <2>1. PICK n \in Bad : \A k \in Bad : n <= k
    <3>1. Bad \in SUBSET Nat
      BY <1>5
    <3> HIDE DEF Bad
    <3> QED  BY <1>10, <3>1, LeastNatural
  <2>2. PICK lower \in 0 .. N : lower + n <= N /\ ~Bound(G, key, lower, n)
    BY <2>1
  <2>3. n \in 0 .. N /\ \A k \in 0 .. N : k < n => All(k)
    <3>1. n \in 0 .. N /\ \A k \in 0 .. N : k < n => ~(n <= k)
      BY <1>5, <2>1
    <3>2. \A k \in 0 .. N : k \in Bad \/ All(k)
      OBVIOUS
    <3> HIDE DEF Bad, All
    <3> QED  BY <2>1, <3>1, <3>2
  <2>4. <<lower, n>> \in Ranges
    BY <1>8, <2>2, <2>3
  <2>5. PICK r \in Ranges : r = <<lower, n>> /\ r[1] = lower /\ r[2] = n
    BY <2>4
  <2>6. G[r] = SearchOf(G, key, r)
    BY <1>4
  <2>7. CASE n = 0
    <3>1. G[<<lower, n>>] = lower
      BY <2>5, <2>6, <2>7 DEF SearchOf
    <3>2. Bound(G, key, lower, n)
      BY <1>5, <2>7, <3>1 DEF Bound
    <3> QED  BY <2>2, <3>2
  <2>8. CASE n # 0
    <3>1. PICK half \in Nat :
           /\ half = r[2] \div 2 /\ half < n
           /\ <<lower + half + 1, n - half - 1>> \in Ranges /\ <<lower, half>> \in Ranges
      <4>1. PICK low \in Nat, len \in Nat, half \in Nat :
             /\ r = <<low, len>> /\ r[1] = low /\ r[2] = len /\ low + len <= Len(arr)
             /\ half = r[2] \div 2 /\ half < len
             /\ <<low + half + 1, len - half - 1>> \in Ranges /\ <<low, half>> \in Ranges
        BY <1>5, <2>5, <2>8, Halved
      <4>2. low = lower /\ len = n
        BY <2>5, <4>1
      <4> QED  BY <4>1, <4>2
    <3>2. G[r] = IF arr[front + lower + half].key < key
                 THEN G[<<lower + half + 1, n - half - 1>>] ELSE G[<<lower, half>>]
      BY <1>6, <2>5, <2>6, <2>8, <3>1 DEF SearchOf
    <3>3. /\ front + lower + half \in 1 .. Len(arr)
          /\ lower + half + 1 \in 0 .. N /\ n - half - 1 \in 0 .. N /\ n - half - 1 < n
          /\ (lower + half + 1) + (n - half - 1) = lower + n
          /\ half \in 0 .. N /\ half < n /\ lower + half < lower + n /\ lower + half <= N
      <4>1. half < n /\ n \in 0 .. N /\ lower + n <= N
        BY <2>2, <2>3, <3>1
      <4>2. front + N = Len(arr) + 1
        BY <1>5, <1>7
      <4> QED  BY <1>5, <4>1, <4>2
    <3>4. CASE arr[front + lower + half].key < key
      <4>1. Bound(G, key, lower + half + 1, n - half - 1)
        BY <2>2, <2>3, <3>3
      <4>2. PICK p \in lower + half + 1 .. lower + n : p = G[r]
        BY <3>2, <3>3, <3>4, <4>1 DEF Bound
      <4>3. /\ \A q \in lower + half + 1 .. p - 1 : arr[front + q].key < key
            /\ p < lower + n => ~(arr[front + p].key < key)
        BY <1>6, <3>2, <3>3, <3>4, <4>1, <4>2 DEF Bound
      <4>4. \A q \in lower .. p - 1 : arr[front + q].key < key
        <5> SUFFICES ASSUME NEW q \in lower .. p - 1 PROVE arr[front + q].key < key
          OBVIOUS
        <5>1. CASE q \in lower + half + 1 .. p - 1
          BY <4>3, <5>1
        <5>2. CASE q = lower + half
          BY <3>3, <3>4, <5>2
        <5>3. CASE q < lower + half
          <6>1. PICK i \in 1 .. Len(arr), m \in 1 .. Len(arr) :
                  i = front + q /\ m = front + lower + half /\ i < m
            BY <1>5, <3>3, <5>3
          <6>2. arr[i].key < arr[m].key
            BY <6>1 DEF Sorted
          <6>3. arr[i].key \in Nat /\ arr[m].key \in Nat
            BY <1>9
          <6>4. arr[m].key < key
            BY <3>4, <6>1
          <6>5. arr[i].key < key
            BY <6>2, <6>3, <6>4
          <6> QED  BY <6>1, <6>5
        <5>4. q \in lower + half + 1 .. p - 1 \/ q = lower + half \/ q < lower + half
          BY <1>5
        <5> QED  BY <5>1, <5>2, <5>3, <5>4
      <4>5. p \in lower .. lower + n
        <5>1. n \in 0 .. N
          BY <2>3
        <5>2. half < n
          BY <3>1
        <5> HIDE DEF Bad, All
        <5> QED  BY ONLY <1>5, <4>2, <5>1, <5>2
      <4>6. Bound(G, key, lower, n)
        BY <1>6, <2>5, <4>2, <4>3, <4>4, <4>5 DEF Bound
      <4> QED  BY <2>2, <4>6
    <3>5. CASE ~(arr[front + lower + half].key < key)
      <4>1. Bound(G, key, lower, half)
        BY <2>2, <2>3, <3>3
      <4>2. PICK p \in lower .. lower + half : p = G[r]
        BY <3>2, <3>3, <3>5, <4>1 DEF Bound
      <4>3. /\ \A q \in lower .. p - 1 : arr[front + q].key < key
            /\ p < lower + half => ~(arr[front + p].key < key)
        BY <1>6, <3>2, <3>3, <3>5, <4>1, <4>2 DEF Bound
      <4>4. ~(arr[front + p].key < key)
        <5>1. p < lower + half \/ p = lower + half
          BY <1>5
        <5>2. front + (lower + half) = front + lower + half
          BY <3>1
        <5> QED  BY <3>5, <4>3, <5>1, <5>2
      <4>5. p \in lower .. lower + n
        <5>1. n \in 0 .. N
          BY <2>3
        <5>2. half < n
          BY <3>1
        <5> HIDE DEF Bad, All
        <5> QED  BY ONLY <1>5, <4>2, <5>1, <5>2
      <4>6. Bound(G, key, lower, n)
        BY <1>6, <2>5, <4>2, <4>3, <4>4, <4>5 DEF Bound
      <4> QED  BY <2>2, <4>6
    <3> QED  BY <3>4, <3>5
  <2> QED  BY <2>7, <2>8
<1>11. Bound(G, key, 0, N)
  <2>1. N \in 0 .. N /\ 0 \in 0 .. N /\ 0 + N <= N
    BY <1>5
  <2>2. All(N)
    BY <1>10, <2>1
  <2> QED  BY <2>1, <2>2
<1>12. PICK p \in 0 .. N : p = G[<<0, N>>]
  BY <1>11 DEF Bound
<1>13. /\ \A q \in 0 .. p - 1 : arr[front + q].key < key
       /\ p < N => ~(arr[front + p].key < key)
  BY <1>6, <1>11, <1>12 DEF Bound
<1>14. PICK i \in front .. Len(arr) + 1 : i = LowerBound(key) /\ i = front + p
  BY <1>1, <1>5, <1>6, <1>7, <1>12
<1>15. \A k \in front .. i - 1 : arr[k].key < key
  <2> SUFFICES ASSUME NEW k \in front .. i - 1 PROVE arr[k].key < key
    OBVIOUS
  <2>1. k - front \in 0 .. p - 1 /\ front + (k - front) = k
    BY <1>14
  <2> QED  BY <1>13, <2>1
<1>16. i <= Len(arr) => ~(arr[i].key < key)
  <2>1. i <= Len(arr) => p < N
    BY <1>5, <1>7, <1>14
  <2> QED  BY <1>13, <1>14, <2>1
<1> QED  BY <1>6, <1>14, <1>15, <1>16

\* find_reg finds the bucket of a key that is active, and the end for any other.
LEMMA FindIs ==
  ASSUME arr \in Seq(Buckets), Sorted(arr), NEW key \in Nat
  PROVE  /\ Find(key) \in 1 .. Len(arr) + 1
         /\ Find(key) <= Len(arr) => arr[Find(key)].live /\ arr[Find(key)].key = key
         /\ \A i \in 1 .. Len(arr) : arr[i].live /\ arr[i].key = key => Find(key) = i
         /\ ~Handed(key) => Find(key) = Len(arr) + 1
<1>1. Len(arr) \in Nat /\ DOMAIN arr = 1 .. Len(arr)
  BY LenProperties
<1>2. PICK front \in 1 .. Len(arr) + 1 :
        front = FirstLive /\ \A j \in 1 .. Len(arr) : j < front => ~arr[j].live
  BY FrontIs
<1>3. PICK b \in front .. Len(arr) + 1 :
        /\ b = LowerBound(key) /\ \A i \in front .. b - 1 : arr[i].key < key
        /\ b <= Len(arr) => ~(arr[b].key < key)
  BY <1>2, LowerBoundIs
<1>4. \A i \in 1 .. Len(arr) : arr[i] \in Buckets
  BY ElementOfSeq
<1>5. Find(key) = IF b <= Len(arr) /\ [key |-> key, live |-> TRUE] = arr[b] THEN b ELSE Len(arr) + 1
  BY <1>3 DEF Find
<1>6. PICK f \in 1 .. Len(arr) + 1 : f = Find(key)
  BY <1>1, <1>5
<1>7. f <= Len(arr) => arr[f].live /\ arr[f].key = key
  BY <1>1, <1>5, <1>6
<1>8. ASSUME NEW i \in 1 .. Len(arr), arr[i].live, arr[i].key = key PROVE f = i
  <2>1. front <= i
    BY <1>1, <1>2, <1>8
  <2>2. ~(arr[i].key < key)
    <3>1. ~(key < key)
      OBVIOUS
    <3> QED  BY <1>8, <3>1
  <2>3. b <= i
    <3>1. i \notin front .. b - 1
      BY <1>3, <2>2
    <3> QED  BY <1>1, <2>1, <3>1
  <2>4. b \in 1 .. Len(arr)
    BY <1>1, <2>3
  <2>5. b = i
    <3>1. CASE b < i
      <4>1. arr[b].key < arr[i].key
        BY <2>4, <3>1 DEF Sorted
      <4>2. arr[b].key < key
        BY <1>8, <4>1
      <4> QED  BY <1>1, <1>3, <2>4, <4>2
    <3> QED  BY <1>1, <2>3, <3>1
  <2>6. arr[b] = [key |-> key, live |-> TRUE]
    <3>1. PICK r \in Buckets : r = arr[b] /\ r.live /\ r.key = key
      BY <1>4, <1>8, <2>4, <2>5
    <3>2. r.live = TRUE
      BY <3>1 DEF Buckets
    <3> QED  BY <3>1, <3>2 DEF Buckets
  <2> QED  BY <1>1, <1>5, <1>6, <2>4, <2>5, <2>6
<1>9. ~Handed(key) => f = Len(arr) + 1
  BY <1>1, <1>6, <1>7 DEF Handed
<1> QED  BY <1>6, <1>7, <1>8, <1>9

-----------------------------------------------------------------------------
(* Registry: the inductive invariant.                                      *)

RegTypes == /\ arr \in Seq(Buckets) /\ sz \in Nat /\ cap \in Nat \ {0} /\ keyId \in Nat \ {0}
            /\ regFault \in [why : {"none", "overflow", "not_found", "reserved"}, id : Nat]

\* The array is in the order of the keys, all of them handed out; sz counts the live
\* ones; there is room for one more; without an overflow every key fits its 16 bits.
\* The id of a failed removal is one the array does not have.
RegInv ==
  /\ RegTypes
  /\ Sorted(arr) /\ \A i \in 1 .. Len(arr) : arr[i].key \in 1 .. keyId - 1
  /\ sz = Len(Live(arr)) /\ Len(arr) < cap
  /\ keyId - 1 <= LastKey
  /\ regFault.why # "overflow" => \A i \in 1 .. Len(arr) : arr[i].key < ReqIds
  /\ regFault.why = "not_found" => ~Handed(regFault.id)

\* The registry starts empty.
LEMMA RegInvInit == RegInit => RegInv
<1> SUFFICES ASSUME RegInit PROVE RegInv
  OBVIOUS
<1>1. MinSize \in Nat \ {0} /\ LastKey \in Nat
  BY RegistryAssumption
<1>2. PICK e \in Seq(Buckets) : e = <<>> /\ Len(e) = 0
  BY EmptySeq, Zenon
<1>3. arr = e /\ sz = 0 /\ cap = MinSize /\ keyId = 1 /\ regFault = [why |-> "none", id |-> 0]
  BY <1>2 DEF RegInit
<1>4. Sorted(arr)
  BY <1>2, <1>3 DEF Sorted
<1>5. Len(Live(arr)) = 0
  <2>1. IsLive(Live(arr), arr, Len(arr))
    BY <1>3, <1>4, LiveIsLive
  <2>2. Len(Live(arr)) \in Nat /\ Len(Live(arr)) <= 0
    BY <1>2, <1>3, <2>1, LenProperties DEF IsLive
  <2> QED  BY <2>2
<1>6. RegTypes
  BY <1>1, <1>3 DEF RegTypes
<1> QED  BY <1>1, <1>2, <1>3, <1>4, <1>5, <1>6 DEF RegInv

\* What the array may be replaced by: the same live buckets, in their order.
LEMMA LiveOfFewer ==
  ASSUME NEW a \in Seq(Buckets), Sorted(a)
  PROVE  /\ Live(a) \in Seq(Buckets) /\ Sorted(Live(a)) /\ Len(Live(a)) \in Nat
         /\ Len(Live(a)) <= Len(a) /\ Live(Live(a)) = Live(a)
         /\ \A j \in 1 .. Len(Live(a)) : \E i \in 1 .. Len(a) : a[i] = Live(a)[j]
<1>1. IsLive(Live(a), a, Len(a))
  BY LiveIsLive
<1>2. Live(a) \in Seq(Buckets)
  BY <1>1 DEF IsLive
<1>3. Len(Live(a)) \in Nat
  BY <1>2, LenProperties
<1> QED  BY <1>1, <1>2, <1>3, LiveOfLive DEF IsLive

\* assoc_reg_push_back adds its key at the end, and keeps room for the next one.
LEMMA PushBackIs ==
  ASSUME RegInv, PushBack
  PROVE  /\ arr' \in Seq(Buckets) /\ Sorted(arr') /\ sz' \in Nat /\ cap' \in Nat \ {0}
         /\ keyId' = keyId + 1 /\ sz' = Len(Live(arr')) /\ Len(arr') < cap'
         /\ Live(arr') = Append(Live(arr), [key |-> keyId, live |-> TRUE])
         /\ \A i \in 1 .. Len(arr') :
              arr'[i].key = keyId \/ \E j \in 1 .. Len(arr) : arr'[i].key = arr[j].key
<1>1. /\ arr \in Seq(Buckets) /\ Sorted(arr) /\ Len(arr) \in Nat
      /\ cap \in Nat \ {0} /\ keyId \in Nat \ {0} /\ sz \in Nat /\ sz = Len(Live(arr))
      /\ Len(arr) < cap /\ \A i \in 1 .. Len(arr) : arr[i].key \in 1 .. keyId - 1
  BY LenProperties DEF RegInv, RegTypes
<1>2. /\ Live(arr) \in Seq(Buckets) /\ Sorted(Live(arr)) /\ Len(Live(arr)) \in Nat
      /\ Len(Live(arr)) <= Len(arr) /\ Live(Live(arr)) = Live(arr)
      /\ \A j \in 1 .. Len(Live(arr)) : \E i \in 1 .. Len(arr) : arr[i] = Live(arr)[j]
  BY <1>1, LiveOfFewer
<1>3. PICK a \in Seq(Buckets) :
        /\ a = IF Len(arr) >= cap - 1 THEN Live(arr) ELSE arr
        /\ Sorted(a) /\ Len(a) \in Nat /\ Len(a) <= Len(arr) /\ Live(a) = Live(arr)
        /\ \A j \in 1 .. Len(a) : \E i \in 1 .. Len(arr) : arr[i] = a[j]
  <2>1. CASE Len(arr) >= cap - 1
    BY <1>2, <2>1
  <2>2. CASE ~(Len(arr) >= cap - 1)
    BY <1>1, <2>2
  <2> QED  BY <2>1, <2>2
<1>4. PICK b \in Buckets : b = [key |-> keyId, live |-> TRUE] /\ b.key = keyId /\ b.live
  <2>1. [key |-> keyId, live |-> TRUE] \in Buckets
    BY <1>1 DEF Buckets
  <2> QED  BY <2>1
<1>5. \A j \in 1 .. Len(a) : a[j].key < b.key
  <2> SUFFICES ASSUME NEW j \in 1 .. Len(a) PROVE a[j].key < b.key
    OBVIOUS
  <2>1. a[j].key \in 1 .. keyId - 1
    BY <1>1, <1>3
  <2> QED  BY <1>1, <1>4, <2>1
<1>6. PICK t \in Seq(Buckets) :
        /\ t = Append(a, b) /\ Sorted(t) /\ Len(t) = Len(a) + 1
        /\ t[Len(a) + 1] = b /\ \A j \in 1 .. Len(a) : t[j] = a[j]
  BY <1>3, <1>5, BucketAppended
<1>7. /\ arr' = t /\ sz' = sz + 1 /\ keyId' = keyId + 1
      /\ cap' = IF Len(arr) >= cap - 1 THEN cap * 2 ELSE cap
  BY <1>3, <1>4, <1>6 DEF PushBack
<1>8. Live(t) = Append(Live(arr), b)
  <2>1. Live(Append(a, b)) = Append(Live(a), b)
    BY <1>3, <1>4, <1>5, LiveOfAppended
  <2> QED  BY <1>3, <1>6, <2>1
<1>9. Len(Live(t)) = sz + 1
  BY <1>1, <1>2, <1>8
<1>10. Len(t) < cap' /\ cap' \in Nat \ {0}
  BY <1>1, <1>3, <1>6, <1>7
<1>11. ASSUME NEW i \in 1 .. Len(t)
       PROVE  t[i].key = keyId \/ \E j \in 1 .. Len(arr) : t[i].key = arr[j].key
  <2>1. i = Len(a) + 1 \/ i \in 1 .. Len(a)
    BY <1>3, <1>6
  <2> QED  BY <1>3, <1>4, <1>6, <2>1
<1>12. Live(arr') = Append(Live(arr), [key |-> keyId, live |-> TRUE])
  BY <1>4, <1>7, <1>8, Zenon
<1>13. arr' \in Seq(Buckets) /\ Sorted(arr')
  BY <1>6, <1>7
<1>14. sz' \in Nat /\ sz' = Len(Live(arr')) /\ keyId' = keyId + 1 /\ Len(arr') < cap' /\ cap' \in Nat \ {0}
  BY <1>1, <1>7, <1>9, <1>10
<1> QED  BY <1>7, <1>11, <1>12, <1>13, <1>14

\* assoc_reg_erase takes out its bucket; after it too there is room for one more.
LEMMA EraseIs ==
  ASSUME RegInv, NEW i \in 1 .. Len(arr), arr[i].live, Erase(i)
  PROVE  /\ arr' \in Seq(Buckets) /\ Sorted(arr') /\ sz' \in Nat /\ cap' \in Nat \ {0}
         /\ sz' = Len(Live(arr')) /\ Len(arr') < cap'
         /\ \E j \in 1 .. Len(Live(arr)) : Live(arr)[j] = arr[i] /\ Live(arr') = Without(Live(arr), j)
         /\ \A k \in 1 .. Len(arr') : \E j \in 1 .. Len(arr) : arr'[k].key = arr[j].key
<1>1. /\ arr \in Seq(Buckets) /\ Sorted(arr) /\ Len(arr) \in Nat
      /\ cap \in Nat \ {0} /\ sz \in Nat /\ sz = Len(Live(arr)) /\ Len(arr) < cap
  BY LenProperties DEF RegInv, RegTypes
<1>2. PICK m \in Seq(Buckets) :
        /\ m = Marked(i) /\ Len(m) = Len(arr) /\ Sorted(m)
        /\ \A k \in 1 .. Len(arr) : m[k].key = arr[k].key
        /\ \E j \in 1 .. Len(Live(arr)) : Live(arr)[j] = arr[i] /\ Live(m) = Without(Live(arr), j)
  BY <1>1, LiveOfMarked DEF Marked
<1>3. PICK j \in 1 .. Len(Live(arr)) : Live(arr)[j] = arr[i] /\ Live(m) = Without(Live(arr), j)
  BY <1>2
<1>4. Len(Live(m)) = sz - 1 /\ sz - 1 \in Nat
  <2>1. Live(arr) \in Seq(Buckets)
    BY <1>1, LiveOfFewer
  <2>2. Len(Without(Live(arr), j)) = Len(Live(arr)) - 1
    BY <2>1, WithoutIs
  <2> QED  BY <1>1, <1>3, <2>2
<1>5. PICK c \in Seq(Buckets) :
        /\ c = Compacted(m, sz - 1) /\ Sorted(c) /\ Len(c) \in Nat /\ Len(c) <= Len(arr)
        /\ Live(c) = Live(m) /\ \A k \in 1 .. Len(c) : \E l \in 1 .. Len(m) : c[k] = m[l]
  <2>1. /\ Live(m) \in Seq(Buckets) /\ Sorted(Live(m)) /\ Len(Live(m)) \in Nat
        /\ Len(Live(m)) <= Len(m) /\ Live(Live(m)) = Live(m)
        /\ \A k \in 1 .. Len(Live(m)) : \E l \in 1 .. Len(m) : m[l] = Live(m)[k]
    BY <1>2, LiveOfFewer
  <2>2. CASE (sz - 1) * 2 > Len(m)
    BY <1>1, <1>2, <2>2 DEF Compacted
  <2>3. CASE ~((sz - 1) * 2 > Len(m))
    BY <1>2, <2>1, <2>3 DEF Compacted
  <2> QED  BY <2>2, <2>3
<1>6. PICK d \in Seq(Buckets) :
        /\ d = (IF Shrinks(sz - 1) THEN Live(c) ELSE c) /\ Sorted(d) /\ Len(d) \in Nat
        /\ Live(d) = Live(c) /\ \A k \in 1 .. Len(d) : \E l \in 1 .. Len(c) : d[k] = c[l]
        /\ Shrinks(sz - 1) => Len(d) = sz - 1
        /\ Len(d) <= Len(c)
  <2>1. /\ Live(c) \in Seq(Buckets) /\ Sorted(Live(c)) /\ Len(Live(c)) \in Nat
        /\ Len(Live(c)) <= Len(c) /\ Live(Live(c)) = Live(c)
        /\ \A k \in 1 .. Len(Live(c)) : \E l \in 1 .. Len(c) : c[l] = Live(c)[k]
    BY <1>5, LiveOfFewer
  <2>2. CASE Shrinks(sz - 1)
    BY <1>4, <1>5, <2>1, <2>2
  <2>3. CASE ~Shrinks(sz - 1)
    BY <1>5, <2>3
  <2> QED  BY <2>2, <2>3
<1>7. arr' = d /\ sz' = sz - 1 /\ cap' = IF Shrinks(sz - 1) THEN cap \div 2 ELSE cap
  BY <1>2, <1>5, <1>6 DEF Erase
<1>8. Len(d) < cap' /\ cap' \in Nat \ {0}
  <2>1. CASE Shrinks(sz - 1)
    <3>1. (sz - 1) * 4 <= cap /\ sz <= Len(arr)
      BY <1>1, <2>1, LiveOfFewer DEF Shrinks
    <3>2. cap \div 2 \in Nat \ {0} /\ sz - 1 < cap \div 2
      BY <1>1, <1>4, <3>1
    <3> QED  BY <1>6, <1>7, <2>1, <3>2
  <2>2. CASE ~Shrinks(sz - 1)
    BY <1>1, <1>5, <1>6, <1>7, <2>2
  <2> QED  BY <2>1, <2>2
<1>9. Live(d) = Without(Live(arr), j) /\ sz - 1 = Len(Live(d))
  BY <1>3, <1>4, <1>5, <1>6
<1>10. \A k \in 1 .. Len(d) : \E l \in 1 .. Len(arr) : d[k].key = arr[l].key
  <2> SUFFICES ASSUME NEW k \in 1 .. Len(d) PROVE \E l \in 1 .. Len(arr) : d[k].key = arr[l].key
    OBVIOUS
  <2>1. PICK l \in 1 .. Len(c) : d[k] = c[l]
    BY <1>6
  <2>2. PICK p \in 1 .. Len(arr) : c[l] = m[p]
    BY <1>2, <1>5
  <2> QED  BY <1>2, <2>1, <2>2
<1> QED  BY <1>3, <1>4, <1>6, <1>7, <1>8, <1>9, <1>10

\* Adding an active procedure keeps the invariant.
LEMMA AddKeeps ==
  ASSUME RegInv, regFault.why = "none", AddActProc
  PROVE  RegInv'
<1>1. RegTypes /\ keyId \in Nat \ {0} /\ keyId <= LastKey /\ LastKey \in Nat /\ ReqIds \in Nat
  BY RegistryAssumption DEF RegInv, RegTypes, AddActProc
<1>2. /\ arr' \in Seq(Buckets) /\ Sorted(arr') /\ sz' \in Nat /\ cap' \in Nat \ {0}
      /\ keyId' = keyId + 1 /\ sz' = Len(Live(arr')) /\ Len(arr') < cap'
      /\ \A i \in 1 .. Len(arr') :
           arr'[i].key = keyId \/ \E j \in 1 .. Len(arr) : arr'[i].key = arr[j].key
  BY PushBackIs DEF AddActProc
<1>3. /\ \A j \in 1 .. Len(arr) : arr[j].key \in 1 .. keyId - 1
      /\ \A j \in 1 .. Len(arr) : arr[j].key < ReqIds
  BY DEF RegInv
<1>4. PICK t \in Seq(Buckets) : t = arr'
  BY <1>2
<1>5. \A i \in 1 .. Len(t) : t[i].key \in 1 .. keyId
  <2> SUFFICES ASSUME NEW i \in 1 .. Len(t) PROVE t[i].key \in 1 .. keyId
    OBVIOUS
  <2>1. CASE t[i].key = keyId
    BY <1>1, <2>1
  <2>2. CASE \E j \in 1 .. Len(arr) : t[i].key = arr[j].key
    <3>1. PICK j \in 1 .. Len(arr) : t[i].key = arr[j].key
      BY <2>2
    <3>2. arr[j].key \in 1 .. keyId - 1
      BY <1>3
    <3>3. 1 .. keyId - 1 \subseteq 1 .. keyId
      BY <1>1
    <3> QED  BY <3>1, <3>2, <3>3
  <2> QED  BY <1>2, <1>4, <2>1, <2>2
<1>6. /\ regFault' \in [why : {"none", "overflow", "not_found", "reserved"}, id : Nat]
      /\ regFault'.why \in {"none", "overflow"}
      /\ regFault'.why # "overflow" => keyId < ReqIds
  <2>1. CASE KeyFits(keyId)
    <3>1. regFault' = regFault /\ keyId < ReqIds
      BY <2>1 DEF AddActProc, KeyFits
    <3> QED  BY <1>1, <3>1 DEF RegTypes
  <2>2. CASE ~KeyFits(keyId)
    <3>1. regFault' = [why |-> "overflow", id |-> keyId]
      BY <2>2 DEF AddActProc, RegAbort
    <3> QED  BY <1>1, <3>1
  <2> QED  BY <2>1, <2>2
<1>7. ASSUME regFault'.why # "overflow", NEW i \in 1 .. Len(t) PROVE t[i].key < ReqIds
  <2>1. CASE t[i].key = keyId
    BY <1>6, <1>7, <2>1
  <2>2. CASE \E j \in 1 .. Len(arr) : t[i].key = arr[j].key
    BY <1>3, <2>2
  <2> QED  BY <1>2, <1>4, <2>1, <2>2
<1>8. RegTypes'
  BY <1>1, <1>2, <1>6 DEF RegTypes
<1>9. (keyId - 1 <= LastKey)' /\ keyId' - 1 = keyId
  BY <1>1, <1>2
<1>10. regFault'.why # "not_found"
  BY <1>6
<1> QED  BY <1>2, <1>4, <1>5, <1>7, <1>8, <1>9, <1>10 DEF RegInv

\* A removal keeps the invariant: it takes out what it is asked to, or fails its
\* assertion for an id that no active procedure has.
LEMMA RemoveKeeps ==
  ASSUME RegInv, regFault.why = "none", NEW id \in 0 .. ReqIds - 1, RmActProc(id)
  PROVE  RegInv'
<1>1. RegTypes /\ arr \in Seq(Buckets) /\ Sorted(arr) /\ Len(arr) \in Nat /\ ReqIds \in Nat
  BY RegistryAssumption, LenProperties DEF RegInv, RegTypes
<1>2. id \in Nat
  BY <1>1
<1>4. CASE id > 0 /\ Find(id) <= Len(arr) /\ Erase(Find(id)) /\ UNCHANGED <<keyId, regFault>>
  <2>1. PICK i \in 1 .. Len(arr) : i = Find(id) /\ arr[i].live
    <3>1. Find(id) \in 1 .. Len(arr) + 1 /\ (Find(id) <= Len(arr) => arr[Find(id)].live)
      BY <1>1, <1>2, FindIs
    <3>2. Find(id) \in 1 .. Len(arr)
      BY <1>1, <1>4, <3>1
    <3> QED  BY <1>4, <3>1, <3>2
  <2>2. /\ arr' \in Seq(Buckets) /\ Sorted(arr') /\ sz' \in Nat /\ cap' \in Nat \ {0}
        /\ sz' = Len(Live(arr')) /\ Len(arr') < cap'
        /\ \A k \in 1 .. Len(arr') : \E j \in 1 .. Len(arr) : arr'[k].key = arr[j].key
    <3>1. Erase(i)
      BY <1>4, <2>1
    <3> QED  BY <2>1, <3>1, EraseIs
  <2>3. /\ \A j \in 1 .. Len(arr) : arr[j].key \in 1 .. keyId - 1
        /\ \A j \in 1 .. Len(arr) : arr[j].key < ReqIds
        /\ keyId - 1 <= LastKey
    BY DEF RegInv
  <2>4. PICK t \in Seq(Buckets) : t = arr'
    BY <2>2
  <2>5. \A k \in 1 .. Len(t) : t[k].key \in 1 .. keyId - 1 /\ t[k].key < ReqIds
    <3> SUFFICES ASSUME NEW k \in 1 .. Len(t) PROVE t[k].key \in 1 .. keyId - 1 /\ t[k].key < ReqIds
      OBVIOUS
    <3>1. PICK j \in 1 .. Len(arr) : t[k].key = arr[j].key
      BY <2>2, <2>4
    <3> QED  BY <2>3, <3>1
  <2>6. RegTypes'
    BY <1>1, <1>4, <2>2 DEF RegTypes
  <2>7. keyId' = keyId /\ regFault' = regFault
    BY <1>4
  <2> QED  BY <2>2, <2>3, <2>4, <2>5, <2>6, <2>7 DEF RegInv
<1>5. CASE id > 0 /\ Find(id) > Len(arr) /\ RegAbort("not_found", id) /\ UNCHANGED <<arr, sz, cap, keyId>>
  <2>1. ~Handed(id)
    <3>1. ASSUME Handed(id) PROVE FALSE
      <4>1. PICK i \in 1 .. Len(arr) : arr[i].live /\ arr[i].key = id
        BY <1>1, <3>1, LenProperties DEF Handed
      <4>2. Find(id) = i
        BY <1>1, <1>2, <4>1, FindIs
      <4>3. i <= Len(arr) /\ ~(i > Len(arr))
        BY <1>1
      <4> QED  BY <1>5, <4>2, <4>3
    <3> QED  BY <3>1
  <2>2. arr' = arr /\ sz' = sz /\ cap' = cap /\ keyId' = keyId
        /\ regFault' = [why |-> "not_found", id |-> id]
    BY <1>5 DEF RegAbort
  <2>3. ~Handed(id)'
    BY <2>1, <2>2 DEF Handed
  <2>4. RegTypes'
    BY <1>1, <1>2, <2>2 DEF RegTypes
  <2> QED  BY <2>2, <2>3, <2>4 DEF RegInv, Handed
<1>6. CASE id = 0 /\ RegAbort("reserved", id) /\ UNCHANGED <<arr, sz, cap, keyId>>
  <2>1. arr' = arr /\ sz' = sz /\ cap' = cap /\ keyId' = keyId
        /\ regFault' = [why |-> "reserved", id |-> id]
    BY <1>6 DEF RegAbort
  <2>2. RegTypes'
    BY <1>1, <1>2, <2>1 DEF RegTypes
  <2> QED  BY <2>1, <2>2 DEF RegInv
<1> QED  BY <1>4, <1>5, <1>6 DEF RmActProc

\* Every step keeps the invariant.
LEMMA RegInvNext == RegInv /\ [RegNext]_regVars => RegInv'
<1> SUFFICES ASSUME RegInv, [RegNext]_regVars PROVE RegInv'
  OBVIOUS
<1>1. CASE regFault.why = "none" /\ AddActProc
  BY <1>1, AddKeeps
<1>2. CASE regFault.why = "none" /\ \E id \in 0 .. ReqIds - 1 : RmActProc(id)
  BY <1>2, RemoveKeeps
<1>3. CASE UNCHANGED regVars
  <2>1. arr' = arr /\ sz' = sz /\ cap' = cap /\ keyId' = keyId /\ regFault' = regFault
    BY <1>3 DEF regVars
  <2> QED  BY <2>1 DEF RegInv, RegTypes, Sorted, Handed
<1> QED  BY <1>1, <1>2, <1>3 DEF RegNext

\* The invariant is what the callers rely on.
LEMMA RegInvFinds == RegInv => RegistryFinds
<1> SUFFICES ASSUME RegInv PROVE RegistryFinds
  OBVIOUS
<1>1. /\ arr \in Seq(Buckets) /\ Sorted(arr) /\ Len(arr) \in Nat /\ ReqIds \in Nat /\ Len(arr) < cap
      /\ DOMAIN arr = 1 .. Len(arr) /\ keyId \in Nat
  BY RegistryAssumption, LenProperties DEF RegInv, RegTypes
<1>2. ASSUME regFault.why \in {"none", "not_found"}, NEW i \in DOMAIN arr, arr[i].live
      PROVE  Find(arr[i].key % ReqIds) = i
  <2>1. PICK k \in 1 .. keyId - 1 : k = arr[i].key
    BY <1>1 DEF RegInv
  <2>2. k < ReqIds
    BY <1>1, <1>2, <2>1 DEF RegInv
  <2>3. k \in Nat /\ k % ReqIds = k
    BY <1>1, <2>2
  <2>4. Find(k) = i
    BY <1>1, <1>2, <2>1, <2>3, FindIs
  <2> QED  BY <2>1, <2>3, <2>4
<1>3. \A id \in 1 .. ReqIds - 1 : ~Handed(id) => Find(id) = Len(arr) + 1
  <2>1. \A id \in 1 .. ReqIds - 1 : id \in Nat
    BY <1>1
  <2> QED  BY <1>1, <2>1, FindIs
<1>4. regFault.why = "not_found" => ~Handed(regFault.id)
  BY DEF RegInv
<1> QED  BY <1>1, <1>2, <1>3, <1>4 DEF RegistryFinds

\* The registry finds what is active and nothing else.  Whatever was added and removed
\* before, the binary search over the buckets that find_reg is (an erased one stays in the
\* array until it is compacted) returns the bucket of every active procedure and no other,
\* and stays within the array.
THEOREM RegistryAlwaysFinds == RegSpec => []RegistryFinds
<1>1. RegInit => RegInv
  BY RegInvInit
<1>2. RegInv /\ [RegNext]_regVars => RegInv'
  BY RegInvNext
<1>3. RegInv => RegistryFinds
  BY RegInvFinds
<1> QED  BY <1>1, <1>2, <1>3, PTL DEF RegSpec

-----------------------------------------------------------------------------
(* Registry: the ordered bag of the keys.                                  *)

\* The keys of a sequence of buckets.
KeysOf(s) == [i \in DOMAIN s |-> s[i].key]

\* They are as many, and each is that of its bucket.
LEMMA KeysOfIs ==
  ASSUME NEW s \in Seq(Buckets)
  PROVE  /\ KeysOf(s) \in Seq(Nat) /\ Len(s) \in Nat /\ Len(KeysOf(s)) = Len(s)
         /\ \A i \in 1 .. Len(s) : KeysOf(s)[i] = s[i].key
<1>1. Len(s) \in Nat /\ DOMAIN s = 1 .. Len(s)
  BY LenProperties
<1>2. \A i \in 1 .. Len(s) : s[i].key \in Nat
  <2>1. \A i \in 1 .. Len(s) : s[i] \in Buckets
    BY ElementOfSeq
  <2> QED  BY <2>1 DEF Buckets
<1>3. KeysOf(s) = [i \in 1 .. Len(s) |-> s[i].key]
  BY <1>1 DEF KeysOf
<1> QED  BY <1>1, <1>2, <1>3

\* The instance counts as this module does.
LEMMA SameCardinality == \A S : KeyBag!Cardinality(S) = Cardinality(S)
BY DEF KeyBag!Cardinality, Cardinality

\* A key larger than the others is put at the end of an ordered bag.
LEMMA PutAtEnd ==
  ASSUME ActiveKeys \in Seq(Nat), NEW e \in 1 .. LastKey,
         \A i \in 1 .. Len(ActiveKeys) : ActiveKeys[i] < e,
         ActiveKeys' = Append(ActiveKeys, e)
  PROVE  KeyBag!Put(e)
<1>1. PICK n \in Nat : n = Len(ActiveKeys) /\ DOMAIN ActiveKeys = 1 .. n
  BY LenProperties
<1>2. PICK k \in Seq(Nat) : k = ActiveKeys
  OBVIOUS
<1>3. \A i \in 1 .. n : k[i] \in Nat /\ k[i] <= e /\ k[i] # e
  BY <1>1, <1>2, ElementOfSeq
<1>4. {i \in 1 .. n : k[i] <= e} = 1 .. n
  BY <1>3
<1>5. Cardinality({i \in 1 .. n : k[i] <= e}) = n
  <2>1. Cardinality(1 .. n) = n
    BY FS_Interval
  <2> QED  BY <1>4, <2>1
<1>6. KeyBag!Before(KeyItself(e)) = n
  BY <1>1, <1>2, <1>5, SameCardinality DEF KeyBag!Before, KeyItself
<1>7. SubSeq(k, 1, n) = k /\ SubSeq(k, n + 1, n) = <<>>
  <2>1. n = Len(k)
    BY <1>1, <1>2
  <2> QED  BY <1>1, <2>1, SubSeqFull, SubSeqEmpty
<1>8. SubSeq(k, 1, n + 1 - 1) \o <<e>> \o SubSeq(k, n + 1, n) = Append(k, e)
  <2>1. n + 1 - 1 = n
    BY <1>1
  <2>2. Append(k, e) \in Seq(Nat) /\ k \o <<e>> = Append(k, e)
    BY <1>2
  <2>3. Append(k, e) \o <<>> = Append(k, e)
    BY <2>2, ConcatEmptySeq
  <2> QED  BY <1>7, <2>1, <2>2, <2>3
<1> QED  BY <1>1, <1>2, <1>3, <1>6, <1>8 DEF KeyBag!Put, KeyBag!InsertAt

\* What the bag holds are the keys of the live buckets.
LEMMA BagOfLive == ActiveKeys = KeysOf(Live(arr)) /\ ActiveKeys' = KeysOf(Live(arr'))
BY DEF ActiveKeys, KeysOf

\* The new key goes to the end.
LEMMA KeysOfAppended ==
  ASSUME NEW s \in Seq(Buckets), NEW b \in Buckets
  PROVE  KeysOf(Append(s, b)) = Append(KeysOf(s), b.key)
<1>1. PICK t \in Seq(Buckets) : /\ t = Append(s, b) /\ Len(t) = Len(s) + 1 /\ t[Len(s) + 1] = b
                                /\ \A i \in 1 .. Len(s) : t[i] = s[i]
  <2>1. /\ Append(s, b) \in Seq(Buckets) /\ Len(Append(s, b)) = Len(s) + 1
        /\ Append(s, b)[Len(s) + 1] = b /\ \A i \in 1 .. Len(s) : Append(s, b)[i] = s[i]
    OBVIOUS
  <2> QED  BY <2>1, Zenon
<1>2. PICK k \in Seq(Nat) : /\ k = KeysOf(s) /\ Len(s) \in Nat /\ Len(k) = Len(s)
                            /\ \A i \in 1 .. Len(s) : k[i] = s[i].key
  BY KeysOfIs
<1>3. PICK l \in Seq(Nat) : /\ l = KeysOf(t) /\ Len(l) = Len(t)
                            /\ \A i \in 1 .. Len(t) : l[i] = t[i].key
  BY KeysOfIs
<1>4. b.key \in Nat
  BY DEF Buckets
<1>5. PICK m \in Seq(Nat) : /\ m = Append(k, b.key) /\ Len(m) = Len(k) + 1 /\ m[Len(k) + 1] = b.key
                            /\ \A i \in 1 .. Len(k) : m[i] = k[i]
  <2>1. PICK x \in Nat : x = b.key
    BY <1>4
  <2>2. /\ Append(k, x) \in Seq(Nat) /\ Len(Append(k, x)) = Len(k) + 1
        /\ Append(k, x)[Len(k) + 1] = x /\ \A i \in 1 .. Len(k) : Append(k, x)[i] = k[i]
    OBVIOUS
  <2> QED  BY <2>1, <2>2, Zenon
<1>6. Len(l) = Len(m)
  BY <1>1, <1>2, <1>3, <1>5
<1>7. \A i \in 1 .. Len(l) : l[i] = m[i]
  <2> SUFFICES ASSUME NEW i \in 1 .. Len(l) PROVE l[i] = m[i]
    OBVIOUS
  <2>1. i \in 1 .. Len(s) \/ i = Len(s) + 1
    BY <1>1, <1>2, <1>3
  <2>2. CASE i \in 1 .. Len(s)
    BY <1>1, <1>2, <1>3, <1>5, <2>2
  <2>3. CASE i = Len(s) + 1
    BY <1>1, <1>2, <1>3, <1>5, <2>3
  <2> QED  BY <2>1, <2>2, <2>3
<1>8. l = m
  BY <1>6, <1>7, SeqEqual
<1> QED  BY <1>1, <1>2, <1>3, <1>5, <1>8

\* The key of a bucket goes with it.
LEMMA KeysOfWithout ==
  ASSUME NEW s \in Seq(Buckets), NEW j \in 1 .. Len(s)
  PROVE  KeysOf(Without(s, j)) = Without(KeysOf(s), j)
<1>1. PICK t \in Seq(Buckets) :
        /\ t = Without(s, j) /\ Len(s) \in Nat /\ Len(t) = Len(s) - 1
        /\ \A i \in 1 .. Len(s) - 1 : t[i] = s[IF i < j THEN i ELSE i + 1]
  BY WithoutIs
<1>2. PICK k \in Seq(Nat) : /\ k = KeysOf(s) /\ Len(k) = Len(s)
                            /\ \A i \in 1 .. Len(s) : k[i] = s[i].key
  BY KeysOfIs
<1>3. PICK l \in Seq(Nat) : /\ l = KeysOf(t) /\ Len(l) = Len(t)
                            /\ \A i \in 1 .. Len(t) : l[i] = t[i].key
  BY KeysOfIs
<1>4. PICK m \in Seq(Nat) :
        /\ m = Without(k, j) /\ Len(m) = Len(s) - 1
        /\ \A i \in 1 .. Len(s) - 1 : m[i] = k[IF i < j THEN i ELSE i + 1]
  <2>1. j \in 1 .. Len(k)
    BY <1>2
  <2>2. /\ Without(k, j) \in Seq(Nat) /\ Len(Without(k, j)) = Len(k) - 1
        /\ \A i \in 1 .. Len(k) - 1 : Without(k, j)[i] = k[IF i < j THEN i ELSE i + 1]
    BY <2>1, WithoutIs
  <2>3. /\ Without(k, j) \in Seq(Nat) /\ Len(Without(k, j)) = Len(s) - 1
        /\ \A i \in 1 .. Len(s) - 1 : Without(k, j)[i] = k[IF i < j THEN i ELSE i + 1]
    BY <1>2, <2>2
  <2> QED  BY <2>3, Zenon
<1>5. \A i \in 1 .. Len(l) : l[i] = m[i]
  <2> SUFFICES ASSUME NEW i \in 1 .. Len(l) PROVE l[i] = m[i]
    OBVIOUS
  <2>1. i \in 1 .. Len(s) - 1 /\ i \in 1 .. Len(t)
    BY <1>1, <1>3
  <2>2. PICK p \in 1 .. Len(s) : p = IF i < j THEN i ELSE i + 1
    BY <1>1, <2>1
  <2>3. l[i] = s[p].key
    BY <1>1, <1>3, <2>1, <2>2
  <2>4. m[i] = s[p].key
    BY <1>2, <1>4, <2>1, <2>2
  <2> QED  BY <2>3, <2>4
<1>6. l = m
  <2>1. Len(l) = Len(m)
    BY <1>1, <1>3, <1>4
  <2> QED  BY <1>5, <2>1, SeqEqual
<1> QED  BY <1>1, <1>2, <1>3, <1>4, <1>6

\* add_act_proc puts its key into the bag.
LEMMA AddPuts ==
  ASSUME RegInv, AddActProc
  PROVE  KeyBag!Next
<1>1. /\ arr \in Seq(Buckets) /\ Sorted(arr) /\ keyId \in Nat \ {0} /\ keyId <= LastKey /\ LastKey \in Nat
      /\ \A i \in 1 .. Len(arr) : arr[i].key \in 1 .. keyId - 1
  BY RegistryAssumption DEF RegInv, RegTypes, AddActProc
<1>2. PICK b \in Buckets : b = [key |-> keyId, live |-> TRUE] /\ b.key = keyId
  <2>1. [key |-> keyId, live |-> TRUE] \in Buckets
    BY <1>1 DEF Buckets
  <2> QED  BY <2>1
<1>3. Live(arr') = Append(Live(arr), b)
  BY <1>2, PushBackIs DEF AddActProc
<1>4. PICK s \in Seq(Buckets) :
        s = Live(arr) /\ \A j \in 1 .. Len(s) : \E i \in 1 .. Len(arr) : arr[i] = s[j]
  BY <1>1, LiveOfFewer
<1>5. PICK k \in Seq(Nat) : /\ k = KeysOf(s) /\ Len(s) \in Nat /\ Len(k) = Len(s)
                            /\ \A i \in 1 .. Len(s) : k[i] = s[i].key
  BY KeysOfIs
<1>6. ActiveKeys = k /\ ActiveKeys' = Append(k, keyId)
  <2>1. KeysOf(Append(s, b)) = Append(k, keyId)
    BY <1>2, <1>5, KeysOfAppended
  <2> QED  BY <1>3, <1>4, <1>5, <2>1, BagOfLive
<1>7. \A i \in 1 .. Len(k) : k[i] < keyId
  <2> SUFFICES ASSUME NEW i \in 1 .. Len(k) PROVE k[i] < keyId
    OBVIOUS
  <2>1. PICK j \in 1 .. Len(arr) : arr[j] = s[i]
    BY <1>4, <1>5
  <2>2. k[i] \in 1 .. keyId - 1
    BY <1>1, <1>5, <2>1
  <2> QED  BY <1>1, <2>2
<1>8. keyId \in 1 .. LastKey
  BY <1>1
<1>9. PICK e \in 1 .. LastKey : e = keyId
  BY <1>8
<1>10. KeyBag!Put(e)
  BY <1>6, <1>7, <1>9, PutAtEnd
<1> QED  BY <1>10 DEF KeyBag!Next

\* rm_act_proc takes one key out of the bag, or leaves it alone.
LEMMA RemoveTakes ==
  ASSUME RegInv, NEW id \in 0 .. ReqIds - 1, RmActProc(id)
  PROVE  KeyBag!Next \/ UNCHANGED ActiveKeys
<1>1. /\ arr \in Seq(Buckets) /\ Sorted(arr) /\ Len(arr) \in Nat /\ ReqIds \in Nat /\ id \in Nat
  BY RegistryAssumption, LenProperties DEF RegInv, RegTypes
<1>2. CASE Find(id) <= Len(arr) /\ Erase(Find(id))
  <2>1. PICK i \in 1 .. Len(arr) : i = Find(id) /\ arr[i].live
    <3>1. Find(id) \in 1 .. Len(arr) + 1 /\ (Find(id) <= Len(arr) => arr[Find(id)].live)
      BY <1>1, FindIs
    <3>2. Find(id) \in 1 .. Len(arr)
      BY <1>1, <1>2, <3>1
    <3> QED  BY <1>2, <3>1, <3>2
  <2>2. PICK j \in 1 .. Len(Live(arr)) : Live(arr') = Without(Live(arr), j)
    <3>1. Erase(i)
      BY <1>2, <2>1
    <3> QED  BY <2>1, <3>1, EraseIs
  <2>3. PICK s \in Seq(Buckets) : s = Live(arr)
    BY <1>1, LiveOfFewer
  <2>4. PICK k \in Seq(Nat) : k = KeysOf(s) /\ Len(k) = Len(s)
    BY KeysOfIs
  <2>5. ActiveKeys = k /\ ActiveKeys' = Without(k, j)
    <3>1. KeysOf(Without(s, j)) = Without(k, j)
      BY <2>3, <2>4, KeysOfWithout
    <3> QED  BY <2>2, <2>3, <2>4, <3>1, BagOfLive
  <2>6. j \in DOMAIN ActiveKeys
    BY <2>3, <2>4, <2>5, LenProperties
  <2>7. ActiveKeys' = KeyBag!RemoveAt(ActiveKeys, j)
    BY <2>5 DEF Without, KeyBag!RemoveAt
  <2>8. KeyBag!Take(KeyItself(ActiveKeys[j]))
    BY <2>6, <2>7 DEF KeyBag!Take
  <2> QED  BY <2>6, <2>8 DEF KeyBag!Next
<1>3. CASE UNCHANGED arr
  BY <1>3 DEF ActiveKeys
<1> QED  BY <1>2, <1>3 DEF RmActProc

\* The registry is an ordered bag of keys: compactions and changes of capacity lose,
\* repeat and reorder nothing, add_act_proc puts one key in, at its place in the order,
\* and rm_act_proc takes one out.
THEOREM RegistryImplementsBag == RegSpec => RegistryIsBag
<1>1. RegInit => KeyBag!Init
  <2> SUFFICES ASSUME RegInit PROVE KeyBag!Init
    OBVIOUS
  <2>1. arr \in Seq(Buckets) /\ Sorted(arr) /\ Len(arr) = 0
    BY RegInvInit, EmptySeq DEF RegInv, RegTypes, RegInit
  <2>2. PICK s \in Seq(Buckets) : s = Live(arr) /\ Len(s) \in Nat /\ Len(s) <= 0
    BY <2>1, LiveOfFewer
  <2>3. PICK k \in Seq(Nat) : k = KeysOf(s) /\ Len(k) = 0
    BY <2>2, KeysOfIs
  <2>4. ActiveKeys = k /\ k = <<>>
    BY <2>2, <2>3, BagOfLive, EmptySeq
  <2> QED  BY <2>4 DEF KeyBag!Init
<1>2. RegInv /\ [RegNext]_regVars => [KeyBag!Next]_ActiveKeys
  <2> SUFFICES ASSUME RegInv, [RegNext]_regVars PROVE [KeyBag!Next]_ActiveKeys
    OBVIOUS
  <2>1. CASE AddActProc
    BY <2>1, AddPuts
  <2>2. CASE \E id \in 0 .. ReqIds - 1 : RmActProc(id)
    BY <2>2, RemoveTakes
  <2>3. CASE UNCHANGED regVars
    <3>1. arr' = arr
      BY <2>3 DEF regVars
    <3> QED  BY <3>1 DEF ActiveKeys
  <2> QED  BY <2>1, <2>2, <2>3 DEF RegNext
<1>3. RegInit => RegInv
  BY RegInvInit
<1>4. RegInv /\ [RegNext]_regVars => RegInv'
  BY RegInvNext
<1> QED  BY <1>1, <1>2, <1>3, <1>4, PTL DEF RegSpec, RegistryIsBag, KeyBag!Spec

-----------------------------------------------------------------------------
(* IndicationStore: the inductive invariant.                               *)

StoreTypes ==
  /\ queue \in Seq(Nat) /\ batch \in Seq(Nat) /\ table \in Seq(Nat)
  /\ pushed \in 0 .. MaxPushed /\ stopToken \in BOOLEAN /\ stopped \in BOOLEAN
  /\ writer \in {"size", "pop", "waiting", "write", "stopping", "leaving", "done"}
  /\ want \in {1, Small, Large} /\ val \in [{Small, Large} -> Nat]
  /\ closer \in {"no", "signal", "spin", "join", "closed"}

\* What the writer has in hand, and what it relies on after the size was read: the
\* queue is no shorter and the static batch is empty.
InHand ==
  /\ writer = "write" <=> batch # <<>>
  /\ writer = "waiting" => want = 1
  /\ writer = "pop" /\ want # 1 => Len(queue) >= want /\ val[want] = 0

\* The order of the close: the queue is freed when the writer is done with it.
CloseOrder ==
  /\ stopToken <=> closer # "no"
  /\ writer \in {"stopping", "leaving", "done"} => stopToken
  /\ stopped => writer \in {"leaving", "done"}
  /\ closer \in {"join", "closed"} => stopped /\ queue = <<>>
  /\ closer = "closed" => writer = "done"

\* Indications are numbered as they arrive: stored, in hand, queued.
Numbered ==
  /\ \A i \in 1 .. Len(table) : table[i] = i
  /\ \A i \in 1 .. Len(batch) : batch[i] = Len(table) + i
  /\ \A i \in 1 .. Len(queue) : queue[i] = Len(table) + Len(batch) + i
  /\ closer = "no" => pushed = Len(table) + Len(batch) + Len(queue)

StoreInv == StoreTypes /\ InHand /\ CloseOrder /\ Numbered /\ storeFault = "none"

-----------------------------------------------------------------------------
(* IndicationStore: sequences.                                             *)

\* An element appended comes last.
LEMMA Appended ==
  ASSUME NEW s \in Seq(Nat), NEW e \in Nat
  PROVE  /\ Append(s, e) \in Seq(Nat) /\ Len(s) \in Nat /\ Len(Append(s, e)) = Len(s) + 1
         /\ Append(s, e)[Len(s) + 1] = e
         /\ \A i \in 1 .. Len(s) : Append(s, e)[i] = s[i]
         /\ \A i \in 1 .. Len(s) + 1 : i \in 1 .. Len(s) \/ i = Len(s) + 1
OBVIOUS

\* Without its first element the others move up.
LEMMA Shifted ==
  ASSUME NEW s \in Seq(Nat), s # <<>>
  PROVE  /\ Tail(s) \in Seq(Nat) /\ Len(s) \in Nat \ {0} /\ Len(Tail(s)) = Len(s) - 1
         /\ Head(s) = s[1] /\ Head(s) \in Nat
         /\ \A i \in 1 .. Len(s) - 1 : Tail(s)[i] = s[i + 1] /\ i + 1 \in 1 .. Len(s)
OBVIOUS

\* A sequence is split after its first n elements.
LEMMA Split ==
  ASSUME NEW s \in Seq(Nat), NEW n \in Nat, n <= Len(s)
  PROVE  /\ SubSeq(s, 1, n) \in Seq(Nat) /\ SubSeq(s, n + 1, Len(s)) \in Seq(Nat) /\ Len(s) \in Nat
         /\ Len(SubSeq(s, 1, n)) = n /\ Len(SubSeq(s, n + 1, Len(s))) = Len(s) - n
         /\ \A i \in 1 .. n : SubSeq(s, 1, n)[i] = s[i]
         /\ \A i \in 1 .. Len(s) - n : SubSeq(s, n + 1, Len(s))[i] = s[n + i]
OBVIOUS

\* The parts make up the whole.
LEMMA SplitJoined ==
  ASSUME NEW s \in Seq(Nat), NEW n \in Nat, n <= Len(s)
  PROVE  SubSeq(s, 1, n) \o SubSeq(s, n + 1, Len(s)) = s
<1>1. Len(s) \in Nat
  BY LenProperties
<1>2. 1 \in 1 .. Len(s) + 1 /\ n \in 1 - 1 .. Len(s) /\ Len(s) \in n .. Len(s)
  BY <1>1
<1>3. SubSeq(s, 1, n) \o SubSeq(s, n + 1, Len(s)) = SubSeq(s, 1, Len(s))
  BY <1>2, ConcatAdjacentSubSeq
<1> QED
  BY <1>3, SubSeqFull

\* Appending to the second of two sequences is appending to both.
LEMMA JoinedAppend ==
  ASSUME NEW s \in Seq(Nat), NEW t \in Seq(Nat), NEW e \in Nat
  PROVE  s \o Append(t, e) = Append(s \o t, e)
<1>1. <<e>> \in Seq(Nat) /\ s \o t \in Seq(Nat)
  BY ConcatProperties
<1>2. Append(t, e) = t \o <<e>> /\ Append(s \o t, e) = (s \o t) \o <<e>>
  BY <1>1, AppendIsConcat
<1>3. (s \o t) \o <<e>> = s \o (t \o <<e>>)
  BY <1>1, ConcatAssociative
<1> QED
  BY <1>2, <1>3

\* Taking from the first of two sequences is taking from both.
LEMMA JoinedTail ==
  ASSUME NEW s \in Seq(Nat), NEW t \in Seq(Nat), s # <<>>
  PROVE  s \o t # <<>> /\ Head(s \o t) = Head(s) /\ Tail(s \o t) = Tail(s) \o t
<1>1. /\ s \o t \in Seq(Nat) /\ Len(s \o t) = Len(s) + Len(t)
      /\ \A i \in 1 .. Len(s) + Len(t) : (s \o t)[i] = IF i <= Len(s) THEN s[i] ELSE t[i - Len(s)]
  BY ConcatProperties
<1>2. Len(s) \in Nat \ {0} /\ Len(t) \in Nat
  BY LenProperties, EmptySeq
<1>3. s \o t # <<>>
  BY <1>1, <1>2, EmptySeq
<1>4. Head(s \o t) = Head(s)
  BY <1>1, <1>2, <1>3, Shifted
<1>5. /\ Tail(s \o t) \in Seq(Nat) /\ Len(Tail(s \o t)) = Len(s) + Len(t) - 1
      /\ \A i \in 1 .. Len(s) + Len(t) - 1 : Tail(s \o t)[i] = (s \o t)[i + 1]
  BY <1>1, <1>3, Shifted
<1>6. Tail(s) \in Seq(Nat) /\ Len(Tail(s)) = Len(s) - 1 /\ \A i \in 1 .. Len(s) - 1 : Tail(s)[i] = s[i + 1]
  BY Shifted
<1>7. /\ Tail(s) \o t \in Seq(Nat) /\ Len(Tail(s) \o t) = Len(Tail(s)) + Len(t)
      /\ \A i \in 1 .. Len(Tail(s)) + Len(t) :
           (Tail(s) \o t)[i] = IF i <= Len(Tail(s)) THEN Tail(s)[i] ELSE t[i - Len(Tail(s))]
  BY <1>6, ConcatProperties
<1>8. ASSUME NEW i \in 1 .. Len(s) + Len(t) - 1
      PROVE  Tail(s \o t)[i] = (Tail(s) \o t)[i]
  <2>1. Tail(s \o t)[i] = IF i + 1 <= Len(s) THEN s[i + 1] ELSE t[i + 1 - Len(s)]
    BY <1>1, <1>2, <1>5
  <2>2. (Tail(s) \o t)[i] = IF i <= Len(s) - 1 THEN Tail(s)[i] ELSE t[i - (Len(s) - 1)]
    BY <1>2, <1>6, <1>7
  <2>3. i + 1 - Len(s) = i - (Len(s) - 1) /\ (i + 1 <= Len(s) <=> i <= Len(s) - 1)
    BY <1>2
  <2>4. i <= Len(s) - 1 => Tail(s)[i] = s[i + 1]
    BY <1>2, <1>6
  <2> QED
    BY <2>1, <2>2, <2>3, <2>4
<1>9. Len(Tail(s \o t)) = Len(Tail(s) \o t)
  BY <1>2, <1>5, <1>6, <1>7
<1>10. Tail(s \o t) = Tail(s) \o t
  BY <1>5, <1>7, <1>8, <1>9, SeqEqual
<1> QED
  BY <1>3, <1>4, <1>10

-----------------------------------------------------------------------------
(* IndicationStore: the invariant is inductive.                            *)

LEMMA StoreStarts == StoreInit => StoreInv
<1> SUFFICES ASSUME StoreInit PROVE StoreInv
  OBVIOUS
<1> USE DEF StoreInit
<1>1. <<>> \in Seq(Nat) /\ Len(<<>>) = 0
  BY EmptySeq
<1>2. MaxPushed \in Nat /\ [n \in {Small, Large} |-> 0] \in [{Small, Large} -> Nat]
  BY StoreAssumption
<1>3. StoreTypes
  <2>1. queue \in Seq(Nat) /\ batch \in Seq(Nat) /\ table \in Seq(Nat)
    BY <1>1
  <2>2. pushed \in 0 .. MaxPushed
    BY <1>2
  <2>3. val \in [{Small, Large} -> Nat]
    BY <1>2
  <2> QED
    BY <2>1, <2>2, <2>3 DEF StoreTypes
<1>4. InHand /\ CloseOrder
  BY DEF InHand, CloseOrder
<1>5. Numbered
  BY <1>1 DEF Numbered
<1> QED
  BY <1>3, <1>4, <1>5 DEF StoreInv

\* A pushed indication is the last of the queue; the waiting writer wakes to take one.
LEMMA PushKeeps == StoreInv /\ Push => StoreInv'
<1> SUFFICES ASSUME StoreInv, Push PROVE StoreInv'
  OBVIOUS
<1> USE DEF StoreInv, StoreTypes, Push, Signalled
<1>1. /\ queue' \in Seq(Nat) /\ Len(queue) \in Nat /\ Len(queue') = Len(queue) + 1
      /\ queue'[Len(queue) + 1] = pushed + 1
      /\ \A i \in 1 .. Len(queue) : queue'[i] = queue[i]
      /\ \A i \in 1 .. Len(queue) + 1 : i \in 1 .. Len(queue) \/ i = Len(queue) + 1
  BY Appended
<1>2. Len(table) \in Nat /\ Len(batch) \in Nat /\ MaxPushed \in Nat
  BY LenProperties, StoreAssumption
<1>3. StoreTypes'
  BY <1>1, <1>2
<1>4. InHand'
  <2>1. (writer' = "write" <=> writer = "write") /\ writer' # "waiting"
    OBVIOUS
  <2>2. writer' = "pop" /\ want # 1 => writer = "pop"
    BY DEF InHand
  <2>3. writer = "pop" /\ want # 1 => Len(queue') >= want /\ val[want] = 0
    BY <1>1, StoreAssumption DEF InHand
  <2> QED
    BY <2>1, <2>2, <2>3 DEF InHand
<1>5. CloseOrder'
  BY DEF CloseOrder
<1>6. Numbered'
  <2>1. pushed + 1 = Len(table) + Len(batch) + (Len(queue) + 1)
    BY <1>1, <1>2 DEF Numbered
  <2>2. \A i \in 1 .. Len(queue) + 1 : queue'[i] = Len(table) + Len(batch) + i
    BY <1>1, <2>1 DEF Numbered
  <2>3. pushed' = Len(table') + Len(batch') + Len(queue')
    BY <1>1, <2>1
  <2> QED
    BY <1>1, <2>2, <2>3 DEF Numbered
<1> QED
  BY <1>3, <1>4, <1>5, <1>6

\* The size that was read is there until it is taken: nobody else takes.
LEMMA ReadSizeKeeps == StoreInv /\ ReadSize => StoreInv'
<1> SUFFICES ASSUME StoreInv, ReadSize PROVE StoreInv'
  OBVIOUS
<1> USE DEF StoreInv, StoreTypes, ReadSize, queueVars
<1>1. Len(queue) \in Nat /\ Small \in Nat /\ Large \in Nat /\ 1 < Small /\ Small < Large
  BY LenProperties, StoreAssumption
<1>2. want' = BatchSize(Len(queue)) /\ val' = ResetVal(want')
  OBVIOUS
<1>3. want' \in {1, Small, Large} /\ (want' # 1 => Len(queue) >= want')
  BY <1>1, <1>2 DEF BatchSize
<1>4. val' \in [{Small, Large} -> Nat] /\ (want' # 1 => val'[want'] = 0)
  BY <1>2, <1>3 DEF ResetVal
<1>5. StoreTypes'
  BY <1>3, <1>4
<1>6. InHand'
  BY <1>3, <1>4 DEF InHand
<1>7. CloseOrder' /\ Numbered'
  BY DEF CloseOrder, Numbered
<1> QED
  BY <1>5, <1>6, <1>7

\* What is taken is the front of the queue, and it was there: no assertion fails.
LEMMA TakeFits ==
  StoreInv /\ writer = "pop" /\ ~stopToken /\ ~(want = 1 /\ Waits)
    => want \in Nat /\ 1 <= want /\ want <= Len(queue) /\ (want # 1 => val[want] = 0)
<1> SUFFICES ASSUME StoreInv, writer = "pop", ~stopToken, ~(want = 1 /\ Waits)
             PROVE  want \in Nat /\ 1 <= want /\ want <= Len(queue) /\ (want # 1 => val[want] = 0)
  OBVIOUS
<1> USE DEF StoreInv, StoreTypes
<1>1. want \in Nat /\ 1 <= want /\ Len(queue) \in Nat
  BY LenProperties, StoreAssumption
<1>2. CASE want = 1
  <2>1. queue # <<>>
    BY <1>2 DEF Waits
  <2> QED
    BY <1>1, <1>2, <2>1, EmptySeq
<1>3. CASE want # 1
  BY <1>1, <1>3 DEF InHand
<1> QED
  BY <1>2, <1>3

LEMMA TakeKeeps ==
  StoreInv /\ writer = "pop" /\ ~stopToken /\ ~(want = 1 /\ Waits) /\ Take => StoreInv'
<1> SUFFICES ASSUME StoreInv, writer = "pop", ~stopToken, ~(want = 1 /\ Waits), Take
             PROVE  StoreInv'
  OBVIOUS
<1> USE DEF StoreInv, StoreTypes
<1>1. want \in Nat /\ 1 <= want /\ want <= Len(queue) /\ (want # 1 => val[want] = 0)
  BY TakeFits
<1>2. /\ batch' = SubSeq(queue, 1, want) /\ queue' = SubSeq(queue, want + 1, Len(queue))
      /\ val' = IF want = 1 THEN val ELSE [val EXCEPT ![want] = want]
      /\ writer' = "write"
      /\ UNCHANGED <<pushed, stopToken, stopped, want, table, closer, storeFault>>
  <2>1. Len(queue) \in Nat
    BY LenProperties
  <2>2. ~(Len(queue) < want \/ (want # 1 /\ val[want] # 0))
    BY <1>1, <2>1
  <2> QED
    BY <2>2 DEF Take
<1>3. /\ batch' \in Seq(Nat) /\ queue' \in Seq(Nat) /\ Len(queue) \in Nat
      /\ Len(batch') = want /\ Len(queue') = Len(queue) - want
      /\ \A i \in 1 .. want : batch'[i] = queue[i]
      /\ \A i \in 1 .. Len(queue) - want : queue'[i] = queue[want + i]
  BY <1>1, <1>2, Split
<1>4. StoreTypes'
  BY <1>1, <1>2, <1>3
<1>5. batch = <<>> /\ Len(batch) = 0 /\ Len(table) \in Nat
  BY LenProperties, EmptySeq DEF InHand
<1>6. InHand'
  <2>1. batch' # <<>>
    BY <1>1, <1>3, EmptySeq
  <2> QED
    BY <1>2, <2>1 DEF InHand
<1>7. CloseOrder'
  <2>1. closer = "no" /\ stopped = FALSE
    BY DEF CloseOrder
  <2> QED
    BY <1>2, <2>1 DEF CloseOrder
<1>8. Numbered'
  <2>1. \A i \in 1 .. Len(queue) : queue[i] = Len(table) + i
    BY <1>5 DEF Numbered
  <2>2. \A i \in 1 .. want : batch'[i] = Len(table) + i
    BY <1>1, <1>3, <2>1
  <2>3. \A i \in 1 .. Len(queue) - want : queue'[i] = Len(table) + want + i
    BY <1>1, <1>3, <1>5, <2>1
  <2>4. closer = "no" => pushed = Len(table) + want + (Len(queue) - want)
    BY <1>1, <1>3, <1>5 DEF Numbered
  <2> QED
    BY <1>2, <1>3, <2>2, <2>3, <2>4 DEF Numbered
<1> QED
  BY <1>2, <1>4, <1>6, <1>7, <1>8

LEMMA PopKeeps == StoreInv /\ Pop => StoreInv'
<1> SUFFICES ASSUME StoreInv, Pop PROVE StoreInv'
  OBVIOUS
<1>1. CASE /\ want = 1 /\ Waits
           /\ writer' = "waiting"
           /\ UNCHANGED <<queueVars, want, val, batch, table, closer, storeFault>>
  <2> USE <1>1 DEF StoreInv, StoreTypes, queueVars, Waits
  <2>1. StoreTypes'
    OBVIOUS
  <2>2. writer = "pop"
    BY DEF Pop
  <2>3. InHand' /\ CloseOrder' /\ Numbered'
    BY <2>2 DEF InHand, CloseOrder, Numbered
  <2> QED
    BY <2>1, <2>3
<1>2. CASE /\ stopToken
           /\ writer' = "stopping"
           /\ UNCHANGED <<queueVars, want, val, batch, table, closer, storeFault>>
  <2> USE <1>2 DEF StoreInv, StoreTypes, queueVars
  <2>1. StoreTypes'
    OBVIOUS
  <2>2. writer = "pop"
    BY DEF Pop
  <2>3. InHand' /\ CloseOrder' /\ Numbered'
    BY <2>2 DEF InHand, CloseOrder, Numbered
  <2> QED
    BY <2>1, <2>3
<1>3. CASE ~(want = 1 /\ Waits) /\ ~stopToken /\ Take
  <2>1. writer = "pop"
    BY DEF Pop
  <2> QED
    BY <1>3, <2>1, TakeKeeps
<1> QED
  BY <1>1, <1>2, <1>3 DEF Pop

LEMMA SpuriousWakeupKeeps == StoreInv /\ SpuriousWakeup => StoreInv'
<1> SUFFICES ASSUME StoreInv, SpuriousWakeup PROVE StoreInv'
  OBVIOUS
<1> USE DEF StoreInv, StoreTypes, SpuriousWakeup, queueVars
<1>1. StoreTypes'
  OBVIOUS
<1>2. InHand' /\ CloseOrder' /\ Numbered'
  BY DEF InHand, CloseOrder, Numbered
<1> QED
  BY <1>1, <1>2

\* The first of the batch is the next number of the table.
LEMMA WriteKeeps == StoreInv /\ Write => StoreInv'
<1> SUFFICES ASSUME StoreInv, Write PROVE StoreInv'
  OBVIOUS
<1> USE DEF StoreInv, StoreTypes, Write, queueVars
<1>1. batch # <<>>
  BY DEF InHand
<1>2. /\ batch' \in Seq(Nat) /\ Len(batch) \in Nat \ {0} /\ Len(batch') = Len(batch) - 1
      /\ Head(batch) = batch[1] /\ Head(batch) \in Nat
      /\ \A i \in 1 .. Len(batch) - 1 : batch'[i] = batch[i + 1] /\ i + 1 \in 1 .. Len(batch)
  BY <1>1, Shifted
<1>3. Head(batch) = Len(table) + 1
  <2>1. 1 \in 1 .. Len(batch)
    BY <1>2
  <2> QED
    BY <1>2, <2>1 DEF Numbered
<1>4. /\ table' \in Seq(Nat) /\ Len(table) \in Nat /\ Len(table') = Len(table) + 1
      /\ table'[Len(table) + 1] = Head(batch)
      /\ \A i \in 1 .. Len(table) : table'[i] = table[i]
      /\ \A i \in 1 .. Len(table) + 1 : i \in 1 .. Len(table) \/ i = Len(table) + 1
  BY <1>2, Appended
<1>5. StoreTypes'
  BY <1>2, <1>4
<1>6. InHand'
  <2>1. batch' = <<>> <=> Len(batch) = 1
    <3>1. batch' = <<>> => Len(batch') = 0
      BY EmptySeq
    <3>2. batch' # <<>> => Len(batch') \in Nat \ {0}
      BY <1>2, EmptySeq
    <3>3. Len(batch) \in Nat \ {0} /\ Len(batch') = Len(batch) - 1
      BY <1>2
    <3> HIDE DEF StoreInv, StoreTypes, Write
    <3> QED
      BY <3>1, <3>2, <3>3
  <2>2. writer' \in {"size", "write"}
    OBVIOUS
  <2> QED
    BY <2>1, <2>2 DEF InHand
<1>7. CloseOrder'
  BY DEF CloseOrder
<1>8. Numbered'
  <2>1. \A i \in 1 .. Len(table) + 1 : table'[i] = i
    BY <1>3, <1>4 DEF Numbered
  <2>2. \A i \in 1 .. Len(batch) - 1 : batch'[i] = Len(table) + (i + 1)
    BY <1>2 DEF Numbered
  <2>3. \A i \in 1 .. Len(batch') : batch'[i] = Len(table') + i
    BY <1>2, <1>4, <2>2
  <2>4. Len(table') + Len(batch') = Len(table) + Len(batch)
    BY <1>2, <1>4
  <2>5. \A i \in 1 .. Len(queue') : queue'[i] = Len(table') + Len(batch') + i
    BY <2>4 DEF Numbered
  <2>6. closer' = "no" => pushed' = Len(table') + Len(batch') + Len(queue')
    BY <2>4 DEF Numbered
  <2> QED
    BY <1>4, <2>1, <2>3, <2>5, <2>6 DEF Numbered
<1> QED
  BY <1>5, <1>6, <1>7, <1>8

LEMMA StoppingKeeps == StoreInv /\ Stopping => StoreInv'
<1> SUFFICES ASSUME StoreInv, Stopping PROVE StoreInv'
  OBVIOUS
<1> USE DEF StoreInv, StoreTypes, Stopping
<1>1. StoreTypes'
  OBVIOUS
<1>2. InHand' /\ CloseOrder' /\ Numbered'
  BY DEF InHand, CloseOrder, Numbered
<1> QED
  BY <1>1, <1>2

LEMMA SetStopTokenKeeps == StoreInv /\ SetStopToken => StoreInv'
<1> SUFFICES ASSUME StoreInv, SetStopToken PROVE StoreInv'
  OBVIOUS
<1> USE DEF StoreInv, StoreTypes, SetStopToken, writerVars
<1>1. StoreTypes'
  OBVIOUS
<1>2. InHand' /\ CloseOrder' /\ Numbered'
  BY DEF InHand, CloseOrder, Numbered
<1> QED
  BY <1>1, <1>2

LEMMA SignalStopKeeps == StoreInv /\ SignalStop => StoreInv'
<1> SUFFICES ASSUME StoreInv, SignalStop PROVE StoreInv'
  OBVIOUS
<1> USE DEF StoreInv, StoreTypes, SignalStop, Signalled, queueVars
<1>1. StoreTypes'
  OBVIOUS
<1>2. InHand' /\ CloseOrder' /\ Numbered'
  BY DEF InHand, CloseOrder, Numbered
<1> QED
  BY <1>1, <1>2

\* The queue is freed after the writer's last look at it.
LEMMA FreeQueueKeeps == StoreInv /\ FreeQueue => StoreInv'
<1> SUFFICES ASSUME StoreInv, FreeQueue PROVE StoreInv'
  OBVIOUS
<1> USE DEF StoreInv, StoreTypes, FreeQueue, writerVars
<1>1. queue' \in Seq(Nat) /\ Len(queue') = 0
  BY EmptySeq
<1>2. StoreTypes'
  BY <1>1
<1>3. writer \in {"leaving", "done"}
  BY DEF CloseOrder
<1>4. InHand' /\ CloseOrder'
  BY <1>3 DEF InHand, CloseOrder
<1>5. Numbered'
  BY <1>1 DEF Numbered
<1> QED
  BY <1>2, <1>4, <1>5

LEMMA JoinWriterKeeps == StoreInv /\ JoinWriter => StoreInv'
<1> SUFFICES ASSUME StoreInv, JoinWriter PROVE StoreInv'
  OBVIOUS
<1> USE DEF StoreInv, StoreTypes, JoinWriter, queueVars, writerVars
<1>1. StoreTypes'
  OBVIOUS
<1>2. InHand' /\ CloseOrder' /\ Numbered'
  BY DEF InHand, CloseOrder, Numbered
<1> QED
  BY <1>1, <1>2

LEMMA StoreKeeps == StoreInv /\ [StoreNext]_storeVars => StoreInv'
<1> SUFFICES ASSUME StoreInv, [StoreNext]_storeVars PROVE StoreInv'
  OBVIOUS
<1>1. CASE UNCHANGED storeVars
  BY <1>1 DEF storeVars, queueVars, writerVars, StoreInv, StoreTypes, InHand, CloseOrder, Numbered
<1>2. CASE WriterStep
  BY <1>2, ReadSizeKeeps, PopKeeps, WriteKeeps, StoppingKeeps DEF WriterStep
<1>3. CASE CloserStep
  BY <1>3, SignalStopKeeps, FreeQueueKeeps, JoinWriterKeeps DEF CloserStep
<1>4. CASE Push \/ SpuriousWakeup \/ SetStopToken
  BY <1>4, PushKeeps, SpuriousWakeupKeeps, SetStopTokenKeeps
<1> QED
  BY <1>1, <1>2, <1>3, <1>4 DEF StoreNext

-----------------------------------------------------------------------------
(* IndicationStore: what the invariant gives.                              *)

\* The invariant holds in every reachable state; with it, the state keeps its types.
THEOREM StoreInvariant == StoreSpec => []StoreInv
BY StoreStarts, StoreKeeps, PTL DEF StoreSpec

\* No assertion of the queue fails: when the writer takes ten or a hundred, they are
\* there, although the size was read under a lock section of its own, and the static
\* batch has been written and reset.
THEOREM WriterNeverAborts == StoreSpec => [](storeFault = "none")
<1>1. StoreInv => storeFault = "none"
  BY DEF StoreInv
<1> QED
  BY <1>1, StoreInvariant, PTL

\* No indication is stored twice, out of order or with a gap before it.
StoredInOrder == \A i \in 1 .. Len(table) : table[i] = i

THEOREM StoresInOrder == StoreSpec => []StoredInOrder
<1>1. StoreInv => StoredInOrder
  BY DEF StoreInv, Numbered, StoredInOrder
<1> QED
  BY <1>1, StoreInvariant, PTL

\* Closing never loses an indication the writer has taken, nor frees the queue under it.
ClosedClean == closer \in {"join", "closed"} => batch = <<>> /\ writer \in {"leaving", "done"}

THEOREM ClosesClean == StoreSpec => []ClosedClean
<1>1. StoreInv => ClosedClean
  BY DEF StoreInv, CloseOrder, InHand, ClosedClean
<1> QED
  BY <1>1, StoreInvariant, PTL

-----------------------------------------------------------------------------
(* IndicationStore: each step of the writer, of the event loop and of the  *)
(* close is a step of the log, or none.                                    *)

LEMMA LogStarts == StoreInit => Log!Init
<1> SUFFICES ASSUME StoreInit PROVE Log!Init
  OBVIOUS
<1>1. <<>> \o <<>> = <<>>
  BY ConcatEmptySeq, EmptySeq
<1> QED
  BY <1>1 DEF StoreInit, Log!Init

LEMMA PushArrives == StoreInv /\ Push => Log!Arrive
<1> SUFFICES ASSUME StoreInv, Push PROVE Log!Arrive
  OBVIOUS
<1> USE DEF StoreInv, StoreTypes, Push
<1>1. pushed + 1 \in Nat
  BY StoreAssumption
<1>2. batch \o Append(queue, pushed + 1) = Append(batch \o queue, pushed + 1)
  BY <1>1, JoinedAppend
<1>3. Len(batch \o queue) = Len(batch) + Len(queue)
  BY ConcatProperties
<1>4. pushed + 1 = Len(table) + Len(batch \o queue) + 1
  <2>1. Len(table) \in Nat /\ Len(batch) \in Nat /\ Len(queue) \in Nat
    BY LenProperties
  <2> QED
    BY <1>3, <2>1 DEF Numbered
<1>5. (batch \o queue)' = Append(batch \o queue, Len(table) + Len(batch \o queue) + 1)
  BY <1>2, <1>4
<1> QED
  BY <1>5 DEF Log!Arrive

\* Taking a batch moves the front of the queue and changes nothing of what is pending.
LEMMA PopStutters == StoreInv /\ Pop => UNCHANGED Log!vars
<1> SUFFICES ASSUME StoreInv, Pop PROVE UNCHANGED Log!vars
  OBVIOUS
<1>1. CASE ~(want = 1 /\ Waits) /\ ~stopToken /\ Take
  <2> USE DEF StoreInv, StoreTypes
  <2>1. writer = "pop"
    BY DEF Pop
  <2>2. want \in Nat /\ 1 <= want /\ want <= Len(queue) /\ (want # 1 => val[want] = 0)
    BY <1>1, <2>1, TakeFits
  <2>3. ~(Len(queue) < want \/ (want # 1 /\ val[want] # 0))
    BY <2>2, LenProperties
  <2>4. /\ batch' = SubSeq(queue, 1, want) /\ queue' = SubSeq(queue, want + 1, Len(queue))
        /\ UNCHANGED <<table, closer>>
    BY <1>1, <2>3 DEF Take
  <2>5. batch \o queue = queue
    <3>1. batch = <<>>
      BY <2>1 DEF InHand
    <3> QED
      BY <3>1, ConcatEmptySeq
  <2>6. SubSeq(queue, 1, want) \o SubSeq(queue, want + 1, Len(queue)) = queue
    BY <2>2, SplitJoined
  <2>7. (batch \o queue)' = batch \o queue
    BY <2>4, <2>5, <2>6
  <2> QED
    BY <2>4, <2>7 DEF Log!vars
<1>2. CASE UNCHANGED <<queueVars, want, val, batch, table, closer, storeFault>>
  BY <1>2 DEF Log!vars, queueVars
<1> QED
  BY <1>1, <1>2 DEF Pop

LEMMA WriteStores == StoreInv /\ Write => Log!Store
<1> SUFFICES ASSUME StoreInv, Write PROVE Log!Store
  OBVIOUS
<1> USE DEF StoreInv, StoreTypes, Write, queueVars
<1>1. batch # <<>>
  BY DEF InHand
<1>2. /\ batch \o queue # <<>> /\ Head(batch \o queue) = Head(batch)
      /\ Tail(batch \o queue) = Tail(batch) \o queue
  BY <1>1, JoinedTail
<1>3. (batch \o queue)' = Tail(batch \o queue)
  BY <1>2
<1>4. table' = Append(table, Head(batch \o queue))
  BY <1>2
<1> QED
  BY <1>2, <1>3, <1>4 DEF Log!Store

\* By then the writer has nothing in hand, so only queued indications are dropped.
LEMMA FreeQueueDrops == StoreInv /\ FreeQueue => Log!Drop
<1> SUFFICES ASSUME StoreInv, FreeQueue PROVE Log!Drop
  OBVIOUS
<1> USE DEF StoreInv, FreeQueue, writerVars
<1>1. batch = <<>>
  BY DEF CloseOrder, InHand
<1>2. <<>> \o <<>> = <<>>
  BY ConcatEmptySeq, EmptySeq
<1>3. (batch \o queue)' = <<>>
  BY <1>1, <1>2
<1> QED
  BY <1>3 DEF Log!Drop

LEMMA JoinWriterFinishes == StoreInv /\ JoinWriter => Log!Finish
<1> SUFFICES ASSUME StoreInv, JoinWriter PROVE Log!Finish
  OBVIOUS
<1> USE DEF StoreInv, JoinWriter, queueVars, writerVars
<1>1. batch = <<>> /\ queue = <<>>
  BY DEF CloseOrder, InHand
<1>2. <<>> \o <<>> = <<>>
  BY ConcatEmptySeq, EmptySeq
<1>3. batch \o queue = <<>>
  BY <1>1, <1>2
<1> QED
  BY <1>3 DEF Log!Finish

LEMMA StepsOfTheLog == StoreInv /\ [StoreNext]_storeVars => [Log!Next]_Log!vars
<1> SUFFICES ASSUME StoreInv, [StoreNext]_storeVars PROVE [Log!Next]_Log!vars
  OBVIOUS
<1>1. CASE UNCHANGED storeVars
  BY <1>1 DEF storeVars, queueVars, writerVars, Log!vars
<1>2. CASE ReadSize \/ Stopping \/ SpuriousWakeup
  <2>1. UNCHANGED <<batch, queue, table, closer>>
    BY <1>2 DEF ReadSize, Stopping, SpuriousWakeup, queueVars
  <2> QED
    BY <2>1 DEF Log!vars
<1>3. CASE Pop
  BY <1>3, PopStutters
<1>4. CASE Write
  BY <1>4, WriteStores DEF Log!Next
<1>5. CASE Push
  BY <1>5, PushArrives DEF Log!Next
<1>6. CASE SetStopToken
  BY <1>6 DEF SetStopToken, writerVars, Log!Close, Log!Next
<1>7. CASE FreeQueue
  BY <1>7, FreeQueueDrops DEF Log!Next
<1>8. CASE JoinWriter
  BY <1>8, JoinWriterFinishes DEF Log!Next
<1>9. CASE SignalStop
  BY <1>9 DEF SignalStop, queueVars, Log!vars
<1> QED
  BY <1>1, <1>2, <1>3, <1>4, <1>5, <1>6, <1>7, <1>8, <1>9 DEF StoreNext, WriterStep, CloserStep

\* The database is the log, as far as its steps go: an indication is stored once and in
\* order, and only one that is still in the queue can be dropped.
THEOREM StoreImplementsLog == StoreSpec => Log!Spec
<1>1. StoreInit => Log!Init
  BY LogStarts
<1>2. StoreInv /\ [StoreNext]_storeVars => [Log!Next]_Log!vars
  BY StepsOfTheLog
<1> QED
  BY <1>1, <1>2, StoreInvariant, PTL DEF StoreSpec, Log!Spec

-----------------------------------------------------------------------------
(* MCContainers: the three side by side.                                   *)

\* Each behaves as it does alone: a step of one leaves the others as they are.
THEOREM EachByItself == Spec => TreeSpec /\ RegSpec /\ StoreSpec
<1>1. Init => TreeInit /\ RegInit /\ StoreInit
  BY DEF Init
<1>2. [Next]_vars => [TreeNext]_treeVars
  BY DEF Next, vars
<1>3. [Next]_vars => [RegNext]_regVars
  BY DEF Next, vars
<1>4. [Next]_vars => [StoreNext]_storeVars
  BY DEF Next, vars
<1> QED  BY <1>1, <1>2, <1>3, <1>4, PTL DEF Spec, TreeSpec, RegSpec, StoreSpec

\* Lookups find what is there.  Through any history of calls assoc_rb_tree_find, the
\* iterators of the tree and find_reg find every key that was put in and not taken out,
\* and no other, although a rotation, an unlinking or a compaction has moved it since.
THEOREM LookupsAlwaysFind == Spec => []LookupsFind
<1>1. TreeFinds /\ RegistryFinds => LookupsFind
  BY DEF LookupsFind
<1> QED  BY <1>1, EachByItself, TreeAlwaysFinds, RegistryAlwaysFinds, PTL
===============================================================================
