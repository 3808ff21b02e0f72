--------------------------- MODULE TaskManagerProofs ---------------------------
(***************************************************************************)
(* Theorems about TaskManager, for any number of threads, any capacity of  *)
(* the rings and any position of their counters, any number of rounds of   *)
(* the search and any size of a batch.                                     *)
(*                                                                         *)
(* The lemmas about the operations of SeqRing come first: on what a ring   *)
(* contains, in order, PushBack is Append, and Erase drops the oldest      *)
(* elements, also where the contents wrap around the array, where the      *)
(* counters wrap around their width, and where the ring is enlarged.       *)
(***************************************************************************)
EXTENDS TaskManager, Integers, TLAPS

-----------------------------------------------------------------------------
(* Remainders.                                                             *)

\* Every number is a multiple of m and a remainder.
LEMMA Division ==
  ASSUME NEW m \in Nat \ {0}, NEW x \in Nat
  PROVE  \E q \in Nat, w \in Nat, r \in 0 .. m - 1 : w = m * q /\ r = x % m /\ x = w + r
<1>1. PICK q \in Nat : q = x \div m
  OBVIOUS
<1>2. PICK r \in 0 .. m - 1 : r = x % m
  OBVIOUS
<1>3. PICK w \in Nat : w = m * q
  OBVIOUS
<1>4. r = x - w
  BY <1>1, <1>2, <1>3
<1> QED  BY <1>2, <1>3, <1>4

\* The remainder is the only one.
LEMMA OneRemainder ==
  ASSUME NEW m \in Nat \ {0}, NEW x \in Nat, NEW q \in Int, NEW r \in 0 .. m - 1,
         x = m * q + r
  PROVE  x % m = r
<1>1. PICK p \in Nat, w \in Nat, s \in 0 .. m - 1 : w = m * p /\ s = x % m /\ x = w + s
  BY Division
<1>2. PICK v \in Int : v = m * q /\ m * (p - q) = w - v
  BY <1>1
<1>3. r - s = w - v
  <2>1. x = v + r
    BY <1>2
  <2>2. x = w + s
    BY <1>1
  <2> QED  BY <2>1, <2>2
<1>4. /\ p - q >= 1 => m * (p - q) >= m
      /\ p - q <= -1 => m * (p - q) <= -m
  OBVIOUS
<1>5. p = q
  BY <1>2, <1>3, <1>4
<1> QED  BY <1>1, <1>2, <1>3, <1>5

\* Below twice the modulus, the remainder takes at most one subtraction.
LEMMA SmallRemainder ==
  ASSUME NEW m \in Nat \ {0}, NEW x \in 0 .. 2 * m - 1
  PROVE  x % m = IF x < m THEN x ELSE x - m
<1>1. CASE x < m
  BY <1>1
<1>2. CASE ~(x < m)
  <2>1. x - m \in 0 .. m - 1 /\ x = m * 1 + (x - m)
    BY <1>2
  <2> QED  BY <1>2, <2>1, OneRemainder
<1> QED  BY <1>1, <1>2

\* The remainder of a sum needs the remainder of its parts only.
LEMMA RemainderOfSum ==
  ASSUME NEW m \in Nat \ {0}, NEW x \in Nat, NEW n \in Nat
  PROVE  (x + n) % m = ((x % m) + n) % m
<1>1. PICK p \in Nat, w \in Nat, r \in 0 .. m - 1 : w = m * p /\ r = x % m /\ x = w + r
  BY Division
<1>2. PICK y \in Nat : y = r + n
  OBVIOUS
<1>3. PICK d \in Nat, v \in Nat, s \in 0 .. m - 1 : v = m * d /\ s = y % m /\ y = v + s
  BY Division
<1>4. m * (p + d) = w + v
  BY <1>1, <1>3
<1>5. PICK z \in Nat : z = x + n
  OBVIOUS
<1>6. z = m * (p + d) + s
  BY <1>1, <1>2, <1>3, <1>4, <1>5
<1>7. z % m = s
  BY <1>6, OneRemainder
<1> QED  BY <1>1, <1>2, <1>3, <1>5, <1>7

\* Taking a remainder modulo a multiple first changes nothing: why capacities that
\* divide the range of the counters survive their wrap.
LEMMA RemainderOfDivisor ==
  ASSUME NEW m \in Nat \ {0}, NEW c \in Nat \ {0}, m % c = 0, NEW x \in Nat
  PROVE  (x % m) % c = x % c
<1>1. PICK p \in Nat, w \in Nat, y \in 0 .. m - 1 : w = m * p /\ y = x % m /\ x = w + y
  BY Division
<1>2. PICK k \in Nat : m = c * k
  BY Division
<1>3. PICK e \in Nat, v \in Nat, s \in 0 .. c - 1 : v = c * e /\ s = y % c /\ y = v + s
  BY Division
<1>4. w = c * (k * p) /\ k * p \in Nat
  BY <1>1, <1>2
<1>5. c * (k * p + e) = w + v
  BY <1>3, <1>4
<1>6. x = c * (k * p + e) + s
  BY <1>1, <1>3, <1>5
<1>7. x % c = s
  BY <1>4, <1>6, OneRemainder
<1> QED  BY <1>1, <1>3, <1>7

-----------------------------------------------------------------------------
(* Rings.                                                                  *)

\* The rings there are: the capacity divides the range of the counters, and at least
\* one position is free.
Ring(V) ==
  {r \in [array : UNION {[0 .. c - 1 -> V] : c \in 1 .. IdxMod}, cap : 1 .. IdxMod,
          head : 0 .. IdxMod - 1, tail : 0 .. IdxMod - 1] :
     /\ r.array \in [0 .. r.cap - 1 -> V]
     /\ IdxMod % r.cap = 0
     /\ RingSize(r) < r.cap}

\* The i-th position after p in an array of c elements.
After(p, i, c) == IF p + i < c THEN p + i ELSE p + i - c

\* RingSize, Mask and PosAt without remainders.
LEMMA RingPositions ==
  ASSUME NEW V, NEW r \in Ring(V)
  PROVE  /\ RingSize(r) = IF r.head >= r.tail THEN r.head - r.tail
                          ELSE r.head + IdxMod - r.tail
         /\ Mask(r, r.tail) \in 0 .. r.cap - 1
         /\ \A i \in 0 .. r.cap - 1 : PosAt(r, i) = After(Mask(r, r.tail), i, r.cap)
         /\ Mask(r, r.head) = After(Mask(r, r.tail), RingSize(r), r.cap)
<1>1. /\ r.cap \in Nat \ {0} /\ r.cap <= IdxMod /\ IdxMod \in Nat \ {0}
      /\ r.head \in 0 .. IdxMod - 1 /\ r.tail \in 0 .. IdxMod - 1
      /\ IdxMod % r.cap = 0 /\ RingSize(r) < r.cap
  BY RingAssumption DEF Ring
<1>2. PICK c \in Nat \ {0}, h \in 0 .. IdxMod - 1, t \in 0 .. IdxMod - 1 :
             c = r.cap /\ h = r.head /\ t = r.tail
  BY <1>1
<1>3. RingSize(r) = IF h >= t THEN h - t ELSE h + IdxMod - t
  <2>1. PICK x \in 0 .. 2 * IdxMod - 1 : x = h + IdxMod - t
    BY <1>1
  <2>2. x % IdxMod = IF x < IdxMod THEN x ELSE x - IdxMod
    BY <1>1, <2>1, SmallRemainder
  <2> QED  BY <1>1, <1>2, <2>1, <2>2 DEF RingSize
<1>4. PICK p \in 0 .. c - 1 : p = t % c /\ p = Mask(r, r.tail)
  BY <1>2 DEF Mask
<1>5. ASSUME NEW i \in 0 .. c - 1
      PROVE  PosAt(r, i) = After(p, i, c) /\ PosAt(r, i) = ((t + i) % IdxMod) % c
  <2>1. PICK x \in Nat : x = t + i
    OBVIOUS
  <2>2. PICK y \in 0 .. 2 * c - 1 : y = p + i
    OBVIOUS
  <2>3. PosAt(r, i) = (x % IdxMod) % c
    BY <1>2, <2>1 DEF PosAt, Mask
  <2>4. (x % IdxMod) % c = x % c
    <3>1. IdxMod % c = 0
      BY <1>1, <1>2
    <3> QED  BY <1>1, <3>1, RemainderOfDivisor
  <2>5. x % c = y % c
    BY <1>4, <2>1, <2>2, RemainderOfSum
  <2>6. y % c = IF y < c THEN y ELSE y - c
    BY SmallRemainder
  <2> QED  BY <2>1, <2>2, <2>3, <2>4, <2>5, <2>6 DEF After
<1>6. Mask(r, r.head) = After(p, RingSize(r), c)
  <2>1. PICK n \in 0 .. c - 1 : n = RingSize(r)
    BY <1>1, <1>2, <1>3
  <2>2. PICK x \in 0 .. 2 * IdxMod - 1 : x = t + n
    BY <1>1, <1>2
  <2>3. x % IdxMod = h
    <3>1. x % IdxMod = IF x < IdxMod THEN x ELSE x - IdxMod
      BY <1>1, <2>2, SmallRemainder
    <3> QED  BY <1>1, <1>3, <2>1, <2>2, <3>1
  <2>4. PosAt(r, n) = h % c
    BY <1>5, <2>2, <2>3
  <2> QED  BY <1>2, <1>5, <2>1, <2>4 DEF Mask
<1> QED  BY <1>2, <1>3, <1>4, <1>5, <1>6

\* What is between tail and head, in order.
LEMMA ContentsInOrder ==
  ASSUME NEW V, NEW r \in Ring(V)
  PROVE  /\ RingSize(r) \in 0 .. r.cap - 1
         /\ Contents(r) \in Seq(V) /\ Len(Contents(r)) = RingSize(r)
         /\ \A i \in 1 .. RingSize(r) :
              /\ After(Mask(r, r.tail), i - 1, r.cap) \in 0 .. r.cap - 1
              /\ Contents(r)[i] = r.array[After(Mask(r, r.tail), i - 1, r.cap)]
              /\ Contents(r)[i] \in V
<1>1. PICK c \in Nat \ {0}, p \in Nat, n \in Nat :
             /\ p < c /\ n < c
             /\ c = r.cap /\ p = Mask(r, r.tail) /\ n = RingSize(r)
             /\ \A i \in 0 .. c - 1 : PosAt(r, i) = After(p, i, c)
             /\ r.array \in [0 .. c - 1 -> V]
  <2>1. r.cap \in Nat \ {0} /\ RingSize(r) < r.cap /\ r.array \in [0 .. r.cap - 1 -> V]
    BY RingAssumption DEF Ring
  <2>2. RingSize(r) \in Nat
    <3>1. r.head + IdxMod - r.tail \in Nat /\ IdxMod \in Nat \ {0}
      BY RingAssumption DEF Ring
    <3> QED  BY <3>1 DEF RingSize
  <2> QED  BY <2>1, <2>2, RingPositions
<1>2. ASSUME NEW i \in 1 .. n
      PROVE  /\ After(p, i - 1, c) \in 0 .. c - 1
             /\ Contents(r)[i] = r.array[After(p, i - 1, c)]
             /\ r.array[After(p, i - 1, c)] \in V
  <2>1. PICK k \in 0 .. c - 1 : k = i - 1
    BY <1>1
  <2>2. After(p, k, c) \in 0 .. c - 1
    BY <1>1 DEF After
  <2>3. PosAt(r, i - 1) = After(p, i - 1, c) /\ After(p, i - 1, c) \in 0 .. c - 1
    BY <1>1, <2>1, <2>2
  <2> QED  BY <1>1, <2>3 DEF Contents
<1>3. Contents(r) \in [1 .. n -> V]
  BY <1>1, <1>2 DEF Contents
<1>4. Contents(r) \in Seq(V) /\ Len(Contents(r)) = n
  BY <1>3
<1> QED  BY <1>1, <1>2, <1>4

\* One step of the tail makes the distance from the head one longer.
LEMMA OneFurther ==
  ASSUME NEW m \in Nat \ {0}, NEW a \in 0 .. m - 1, NEW b \in 0 .. m - 1, NEW n \in Nat,
         NEW x \in Nat, n = IF a >= b THEN a - b ELSE a + m - b, n + 1 < m,
         x = (IF a + 1 < m THEN a + 1 ELSE a + 1 - m) + m - b
  PROVE  (IF x < m THEN x ELSE x - m) = n + 1
<1>1. CASE a + 1 < m /\ a >= b
  BY <1>1
<1>2. CASE a + 1 < m /\ ~(a >= b)
  BY <1>2
<1>3. CASE ~(a + 1 < m)
  BY <1>3
<1> QED  BY <1>1, <1>2, <1>3

\* seq_ring_push_back once there is a free position.
PutLast(s, elt) ==
  [s EXCEPT !.array[Mask(s, s.head)] = elt, !.head = (s.head + 1) % IdxMod]

\* A push into a ring with room appends the element and leaves the others.
LEMMA PushIntoFree ==
  ASSUME NEW V, NEW s \in Ring(V), NEW elt \in V, ~Full(s)
  PROVE  /\ PutLast(s, elt) \in Ring(V) /\ RingSize(PutLast(s, elt)) = RingSize(s) + 1
         /\ Contents(PutLast(s, elt)) = Append(Contents(s), elt)
<1>0. PICK t : t = [s EXCEPT !.array[Mask(s, s.head)] = elt, !.head = (s.head + 1) % IdxMod]
  OBVIOUS
<1>1. PICK c \in 1 .. IdxMod, p \in Nat, n \in Nat, h \in Nat :
             /\ p < c /\ h < c
             /\ c = s.cap /\ p = Mask(s, s.tail) /\ n = RingSize(s) /\ n + 1 < c
             /\ h = Mask(s, s.head) /\ h = After(p, n, c)
             /\ IdxMod % c = 0 /\ s.array \in [0 .. c - 1 -> V]
  <2>1. PICK c \in 1 .. IdxMod : /\ c = s.cap /\ IdxMod % c = 0
                                 /\ s.array \in [0 .. c - 1 -> V]
    BY DEF Ring
  <2>2. PICK n \in 0 .. c - 1 : n = RingSize(s) /\ n + 1 < c
    BY <2>1, ContentsInOrder DEF Full
  <2>3. PICK p \in 0 .. c - 1 : p = Mask(s, s.tail)
    BY <2>1, RingPositions
  <2>4. After(p, n, c) \in 0 .. c - 1
    BY DEF After
  <2>5. Mask(s, s.head) = After(p, n, c)
    BY <2>1, <2>2, <2>3, RingPositions
  <2> QED  BY <2>1, <2>2, <2>3, <2>4, <2>5
<1>2. /\ t.cap = c /\ t.tail = s.tail /\ t.head = (s.head + 1) % IdxMod
      /\ t.array = [s.array EXCEPT ![h] = elt]
      /\ s.head \in 0 .. IdxMod - 1 /\ s.tail \in 0 .. IdxMod - 1 /\ IdxMod \in Nat \ {0}
  BY <1>0, <1>1, RingAssumption DEF Ring
<1>3. t.head = IF s.head + 1 < IdxMod THEN s.head + 1 ELSE s.head + 1 - IdxMod
  <2>1. PICK x \in 0 .. 2 * IdxMod - 1 : x = s.head + 1
    BY <1>2
  <2> QED  BY <1>2, <2>1, SmallRemainder
<1>4. RingSize(t) = n + 1
  <2>1. n = IF s.head >= s.tail THEN s.head - s.tail ELSE s.head + IdxMod - s.tail
    BY <1>1, RingPositions
  <2>2. PICK x \in 0 .. 2 * IdxMod - 1 : x = t.head + IdxMod - t.tail
    BY <1>2, <1>3
  <2>3. x % IdxMod = IF x < IdxMod THEN x ELSE x - IdxMod
    BY <1>2, <2>2, SmallRemainder
  <2>4. RingSize(t) = x % IdxMod
    BY <2>2 DEF RingSize
  <2>5. PICK a \in 0 .. IdxMod - 1, b \in 0 .. IdxMod - 1 : a = s.head /\ b = s.tail
    BY <1>2
  <2>6. n = (IF a >= b THEN a - b ELSE a + IdxMod - b) /\ n + 1 < IdxMod
    <3>1. n = (IF a >= b THEN a - b ELSE a + IdxMod - b)
      BY <2>1, <2>5
    <3>2. n + 1 < c /\ c \in 1 .. IdxMod /\ IdxMod \in Nat
      BY <1>1, <1>2
    <3> QED  BY ONLY <3>1, <3>2, n \in Nat
  <2>7. x = (IF a + 1 < IdxMod THEN a + 1 ELSE a + 1 - IdxMod) + IdxMod - b
    BY <1>2, <1>3, <2>2, <2>5
  <2>8. (IF x < IdxMod THEN x ELSE x - IdxMod) = n + 1
    BY <1>2, <2>6, <2>7, OneFurther
  <2> QED  BY <2>3, <2>4, <2>8
<1>5. t \in Ring(V)
  <2>1. t.array \in [0 .. c - 1 -> V] /\ t.head \in 0 .. IdxMod - 1
    <3>1. h \in 0 .. c - 1 /\ s.array \in [0 .. c - 1 -> V]
      BY <1>1
    <3>2. [s.array EXCEPT ![h] = elt] \in [0 .. c - 1 -> V]
      BY ONLY <3>1, elt \in V
    <3>3. PICK a \in 0 .. IdxMod - 1 : a = s.head
      BY <1>2
    <3>4. (IF a + 1 < IdxMod THEN a + 1 ELSE a + 1 - IdxMod) \in 0 .. IdxMod - 1
      BY <1>2
    <3> QED  BY <1>2, <1>3, <3>2, <3>3, <3>4
  <2>2. t \in [array : UNION {[0 .. d - 1 -> V] : d \in 1 .. IdxMod}, cap : 1 .. IdxMod,
               head : 0 .. IdxMod - 1, tail : 0 .. IdxMod - 1]
    <3>1. [0 .. c - 1 -> V] \in {[0 .. d - 1 -> V] : d \in 1 .. IdxMod}
      OBVIOUS
    <3>2. t.array \in UNION {[0 .. d - 1 -> V] : d \in 1 .. IdxMod}
      BY <2>1, <3>1
    <3>3. t = [array |-> t.array, cap |-> t.cap, head |-> t.head, tail |-> t.tail]
      BY <1>0 DEF Ring
    <3> QED  BY <1>1, <1>2, <2>1, <3>2, <3>3
  <2> QED  BY <1>1, <1>2, <1>4, <2>1, <2>2 DEF Ring
<1>6. Contents(s) \in Seq(V) /\ Len(Contents(s)) = n
      /\ Contents(t) \in Seq(V) /\ Len(Contents(t)) = n + 1
  BY <1>1, <1>4, <1>5, ContentsInOrder
<1>7. ASSUME NEW i \in 1 .. n + 1
      PROVE  Contents(t)[i] = Append(Contents(s), elt)[i]
  <2>1. /\ Contents(t)[i] = t.array[After(p, i - 1, c)]
        /\ After(p, i - 1, c) \in 0 .. c - 1
    <3>1. Mask(t, t.tail) = p
      BY <1>1, <1>2 DEF Mask
    <3>2. i \in 1 .. RingSize(t)
      BY <1>4
    <3>3. /\ After(Mask(t, t.tail), i - 1, t.cap) \in 0 .. t.cap - 1
          /\ Contents(t)[i] = t.array[After(Mask(t, t.tail), i - 1, t.cap)]
      BY <1>5, <3>2, ContentsInOrder
    <3> QED  BY <1>2, <3>1, <3>3
  <2>2. CASE i = n + 1
    BY <1>1, <1>2, <1>6, <2>1, <2>2
  <2>3. CASE i \in 1 .. n
    <3>1. After(p, i - 1, c) # h
      <4>1. /\ p < c /\ n + 1 < c /\ c \in Nat /\ c # 0 /\ h = After(p, n, c)
            /\ i \in Nat /\ 1 <= i /\ i <= n
        BY <1>1, <2>3
      <4> QED  BY ONLY <4>1, p \in Nat, n \in Nat DEF After
    <3>2. Contents(s)[i] = s.array[After(p, i - 1, c)]
      BY <1>1, <2>3, ContentsInOrder
    <3> QED  BY <1>1, <1>2, <1>6, <2>1, <2>3, <3>1, <3>2
  <2>4. i = n + 1 \/ i \in 1 .. n
    OBVIOUS
  <2> QED  BY <2>2, <2>3, <2>4
<1> QED
  <2>1. Append(Contents(s), elt) \in Seq(V) /\ Len(Append(Contents(s), elt)) = n + 1
    BY <1>6
  <2>2. Contents(t) = Append(Contents(s), elt)
    BY <1>6, <1>7, <2>1
  <2>3. t = PutLast(s, elt)
    BY <1>0 DEF PutLast
  <2> QED  BY <1>1, <1>4, <1>5, <2>2, <2>3

\* The two parts enlarge_buffer copies: together the contents, wherever they wrap.
FirstPart(c, p, h) == IF h <= p THEN c - p ELSE h - p
SecondPart(p, h) == IF h <= p THEN h ELSE 0

\* The two parts that enlarging copies stay within the old array.
LEMMA CopiedParts ==
  ASSUME NEW c \in Nat \ {0}, NEW p \in 0 .. c - 1, NEW n \in Nat, n + 1 = c,
         NEW h \in Nat, h = After(p, n, c)
  PROVE  LET first == FirstPart(c, p, h)
             second == SecondPart(p, h)
         IN
         /\ first \in Nat /\ second \in Nat
         /\ \A i \in Nat : i < first => p + i \in 0 .. c - 1
         /\ \A i \in first .. first + second - 1 : i - first \in 0 .. c - 1
         /\ \A i \in 0 .. n - 1 :
              \/ i < first /\ After(p, i, c) = p + i
              \/ /\ ~(i < first) /\ i \in first .. first + second - 1
                 /\ After(p, i, c) = i - first
<1> DEFINE first == FirstPart(c, p, h)
           second == SecondPart(p, h)
<1> USE DEF FirstPart, SecondPart
<1>1. CASE p = 0 /\ c = 1
  BY <1>1 DEF After
<1>2. CASE p = 0 /\ c > 1
  BY <1>2 DEF After
<1>3. CASE p > 0
  <2>1. h = p - 1 /\ first = c - p /\ second = p - 1
    BY <1>3 DEF After
  <2>2. /\ first \in Nat /\ second \in Nat
        /\ \A i \in Nat : i < first => p + i \in 0 .. c - 1
        /\ \A i \in first .. first + second - 1 : i - first \in 0 .. c - 1
    BY <1>3, <2>1
  <2>3. \A i \in 0 .. n - 1 :
          \/ i < first /\ After(p, i, c) = p + i
          \/ /\ ~(i < first) /\ i \in first .. first + second - 1
             /\ After(p, i, c) = i - first
    BY <1>3, <2>1 DEF After
  <2> QED  BY <2>2, <2>3
<1> QED  BY <1>1, <1>2, <1>3

\* Enlarging a full ring keeps its elements in order and makes room.
LEMMA EnlargeKeeps ==
  ASSUME NEW V, Zero \in V, NEW r \in Ring(V), Full(r), r.cap < IdxMod
  PROVE  /\ Enlarge(r) \in Ring(V) /\ ~Full(Enlarge(r))
         /\ RingSize(Enlarge(r)) = RingSize(r)
         /\ Contents(Enlarge(r)) = Contents(r)
<1> DEFINE c == r.cap  p == Mask(r, r.tail)  n == RingSize(r)  h == Mask(r, r.head)
           first == FirstPart(c, p, h)
           second == SecondPart(p, h)
           copied == [i \in 0 .. 2 * c - 1 |->
                        CASE i < first -> r.array[p + i]
                          [] i \in first .. first + second - 1 -> r.array[i - first]
                          [] OTHER -> Zero]
           t == Enlarge(r)
<1>1. /\ IdxMod \in Nat \ {0} /\ c \in Nat \ {0} /\ c \in 1 .. IdxMod /\ c < IdxMod
      /\ n \in Nat /\ n + 1 = c /\ IdxMod % c = 0
      /\ r.array \in [0 .. c - 1 -> V]
  BY RingAssumption, ContentsInOrder DEF Full, Ring
<1>2. p \in 0 .. c - 1 /\ h = After(p, n, c)
  BY RingPositions
<1>3. PICK a : a = r.array
  OBVIOUS
<1>4. /\ t.cap = 2 * c /\ t.tail = 0 /\ t.head = (2 * c) \div 2 - 1
      /\ t.array = [i \in 0 .. 2 * c - 1 |->
                      CASE i < first -> a[p + i]
                        [] i \in first .. first + second - 1 -> a[i - first]
                        [] OTHER -> Zero]
      /\ t = [array |-> t.array, cap |-> t.cap, tail |-> t.tail, head |-> t.head]
  <2>1. t = [array |-> copied, cap |-> 2 * c, tail |-> 0, head |-> (2 * c) \div 2 - 1]
    BY DEF Enlarge, FirstPart, SecondPart
  <2> HIDE DEF copied, t
  <2>2. /\ t.cap = 2 * c /\ t.tail = 0 /\ t.head = (2 * c) \div 2 - 1 /\ t.array = copied
        /\ t = [array |-> t.array, cap |-> t.cap, tail |-> t.tail, head |-> t.head]
    BY <2>1
  <2> QED  BY <1>3, <2>2 DEF copied
<1>5. /\ first \in Nat /\ second \in Nat
      /\ \A i \in Nat : i < first => p + i \in 0 .. c - 1
      /\ \A i \in first .. first + second - 1 : i - first \in 0 .. c - 1
      /\ \A i \in 0 .. n - 1 :
           \/ i < first /\ After(p, i, c) = p + i
           \/ /\ ~(i < first) /\ i \in first .. first + second - 1
              /\ After(p, i, c) = i - first
  <2> HIDE DEF c, p, n, h, first, second
  <2>1. /\ c \in Nat \ {0} /\ p \in 0 .. c - 1 /\ n \in Nat /\ n + 1 = c
        /\ h \in Nat /\ h = After(p, n, c)
    BY <1>1, <1>2 DEF After
  <2> QED  BY <2>1, CopiedParts DEF first, second
<1>6. a \in [0 .. c - 1 -> V]
  BY <1>1, <1>3
<1> HIDE DEF c, p, n, h, first, second, t
<1>7. t.head = n
  <2>1. (2 * c) \div 2 = c
    BY <1>1
  <2> QED  BY <1>1, <1>4, <2>1
<1>8. \A i \in 0 .. n - 1 : t.array[i] = a[After(p, i, c)]
  <2> SUFFICES ASSUME NEW i \in 0 .. n - 1 PROVE t.array[i] = a[After(p, i, c)]
    OBVIOUS
  <2>1. i \in 0 .. 2 * c - 1
    BY <1>1
  <2>2. t.array[i] = CASE i < first -> a[p + i]
                       [] i \in first .. first + second - 1 -> a[i - first]
                       [] OTHER -> Zero
    BY <1>4, <2>1
  <2>3. CASE i < first
    <3>1. After(p, i, c) = p + i /\ ~(i \in first .. first + second - 1)
      BY <1>5, <2>3
    <3> QED  BY <2>2, <2>3, <3>1
  <2>4. CASE ~(i < first)
    BY <1>5, <2>2, <2>4
  <2> QED  BY <2>3, <2>4
<1>9. t.array \in [0 .. 2 * c - 1 -> V]
  <2>1. ASSUME NEW i \in 0 .. 2 * c - 1
        PROVE  t.array[i] \in V
    <3>1. i \in Nat
      BY <1>1
    <3>2. t.array[i] = CASE i < first -> a[p + i]
                         [] i \in first .. first + second - 1 -> a[i - first]
                         [] OTHER -> Zero
      BY <1>4
    <3>3. CASE i < first
      <4>1. ~(i \in first .. first + second - 1) /\ a[p + i] \in V
        BY <1>5, <1>6, <3>1, <3>3
      <4> QED  BY <3>2, <3>3, <4>1
    <3>4. CASE ~(i < first) /\ i \in first .. first + second - 1
      <4>1. a[i - first] \in V
        BY <1>5, <1>6, <3>4
      <4> QED  BY <3>2, <3>4, <4>1
    <3>5. CASE ~(i < first) /\ ~(i \in first .. first + second - 1)
      BY <3>2, <3>5
    <3> QED  BY <3>3, <3>4, <3>5
  <2>2. t.array = [i \in 0 .. 2 * c - 1 |-> t.array[i]]
    BY <1>4
  <2> QED  BY <2>1, <2>2
<1>10. PICK d \in Nat \ {0} : d = 2 * c /\ d \in 1 .. IdxMod /\ IdxMod % d = 0
  <2>1. PICK d \in Nat \ {0} : d = 2 * c
    BY <1>1
  <2>2. IdxMod % d = 0
    <3>1. c \in 1 .. IdxMod - 1
      BY <1>1
    <3> QED  BY <1>1, <2>1, <3>1, RingAssumption, Zenon
  <2>3. d <= IdxMod
    BY <1>1, <2>1, <2>2
  <2> QED  BY <1>1, <2>1, <2>2, <2>3
<1>11. RingSize(t) = n
  <2>1. PICK x \in 0 .. 2 * IdxMod - 1 : x = n + IdxMod
    BY <1>1
  <2>2. RingSize(t) = x % IdxMod
    BY <1>1, <1>4, <1>7, <2>1 DEF RingSize
  <2>3. x % IdxMod = IF x < IdxMod THEN x ELSE x - IdxMod
    BY <1>1, SmallRemainder
  <2> QED  BY <1>1, <2>1, <2>2, <2>3
<1>12. t \in Ring(V)
  <2>1. [0 .. d - 1 -> V] \in {[0 .. e - 1 -> V] : e \in 1 .. IdxMod}
    BY <1>10
  <2>2. t.array \in [0 .. d - 1 -> V]
    BY <1>9, <1>10
  <2>3. t.array \in UNION {[0 .. e - 1 -> V] : e \in 1 .. IdxMod}
    BY <2>1, <2>2
  <2>4. t.head \in 0 .. IdxMod - 1 /\ t.tail \in 0 .. IdxMod - 1 /\ t.cap = d
    BY <1>1, <1>4, <1>7, <1>10
  <2>5. t \in [array : UNION {[0 .. e - 1 -> V] : e \in 1 .. IdxMod}, cap : 1 .. IdxMod,
               head : 0 .. IdxMod - 1, tail : 0 .. IdxMod - 1]
    BY <1>4, <1>10, <2>3, <2>4
  <2>6. RingSize(t) < d
    BY <1>1, <1>10, <1>11
  <2> QED  BY <1>10, <2>2, <2>4, <2>5, <2>6 DEF Ring
<1>13. Contents(t) = Contents(r)
  <2>1. Mask(t, t.tail) = 0
    BY <1>4, <1>10, SmallRemainder DEF Mask
  <2>2. /\ Contents(t) \in Seq(V) /\ Len(Contents(t)) = n
        /\ Contents(r) \in Seq(V) /\ Len(Contents(r)) = n
    BY <1>11, <1>12, ContentsInOrder DEF n
  <2>3. ASSUME NEW i \in 1 .. n
        PROVE  Contents(t)[i] = Contents(r)[i]
    <3>1. PICK k \in 0 .. n - 1 : k = i - 1
      BY <1>1
    <3>2. Contents(r)[i] = a[After(p, k, c)]
      BY <1>3, <3>1, ContentsInOrder DEF n, p, c
    <3>3. i \in 1 .. RingSize(t)
      BY <1>11
    <3>4. Contents(t)[i] = t.array[After(Mask(t, t.tail), i - 1, t.cap)]
      BY <1>12, <3>3, ContentsInOrder
    <3>5. After(0, k, d) = k
      BY <1>1, <1>10 DEF After
    <3> QED  BY <1>4, <1>8, <1>10, <2>1, <3>1, <3>2, <3>4, <3>5
  <2> QED  BY <2>2, <2>3
<1>14. ~Full(t)
  BY <1>1, <1>4, <1>11 DEF Full
<1> QED  BY <1>11, <1>12, <1>13, <1>14 DEF t, n

\* seq_ring_push_back, also on a full ring.
LEMMA PushBackAppends ==
  ASSUME NEW V, Zero \in V, NEW r \in Ring(V), NEW elt \in V, RingSize(r) + 1 < IdxMod
  PROVE  /\ PushBack(r, elt) \in Ring(V) /\ RingSize(PushBack(r, elt)) = RingSize(r) + 1
         /\ Contents(PushBack(r, elt)) = Append(Contents(r), elt)
<1>1. PICK s : s = IF Full(r) THEN Enlarge(r) ELSE r
  OBVIOUS
<1>2. /\ s \in Ring(V) /\ ~Full(s) /\ RingSize(s) = RingSize(r)
      /\ Contents(s) = Contents(r)
  <2>1. Full(r) => r.cap < IdxMod
    <3>1. r.cap \in Nat
      BY RingAssumption DEF Ring
    <3>2. RingSize(r) \in 0 .. r.cap - 1
      BY ContentsInOrder
    <3> QED  BY <3>1, <3>2, RingAssumption DEF Full
  <2> QED  BY <1>1, <2>1, EnlargeKeeps
<1>3. PushBack(r, elt) = PutLast(s, elt)
  BY <1>1 DEF PushBack, PutLast
<1> QED  BY <1>2, <1>3, PushIntoFree

\* Advancing the head by n makes the distance to the tail n shorter.
LEMMA SomeFewer ==
  ASSUME NEW m \in Nat \ {0}, NEW a \in 0 .. m - 1, NEW b \in 0 .. m - 1, NEW s \in 0 .. m - 1,
         NEW n \in 0 .. s, NEW x \in Nat, s = IF a >= b THEN a - b ELSE a + m - b,
         x = a + m - (IF b + n < m THEN b + n ELSE b + n - m)
  PROVE  x \in 0 .. 2 * m - 1 /\ (IF x < m THEN x ELSE x - m) = s - n
<1>1. CASE b + n < m /\ a >= b
  BY <1>1
<1>2. CASE b + n < m /\ ~(a >= b)
  BY <1>2
<1>3. CASE ~(b + n < m)
  BY <1>3
<1> QED  BY <1>1, <1>2, <1>3

\* Positions of what is left, and of what is erased.
Gone(i, start, end) == IF end > start THEN i \in start .. end - 1 ELSE i >= start \/ i < end

\* After an erase at the front, the remaining elements are where the iterators find them.
LEMMA LeftPositions ==
  ASSUME NEW c \in Nat \ {0}, NEW p \in 0 .. c - 1, NEW s \in 0 .. c - 1, NEW n \in 1 .. s,
         NEW end \in Nat, end = After(p, n, c)
  PROVE  /\ end \in 0 .. c - 1
         /\ (IF end > p THEN end - p ELSE c - p + end) = n
         /\ \A i \in 0 .. s - n - 1 : /\ After(end, i, c) = After(p, n + i, c)
                                      /\ After(end, i, c) \in 0 .. c - 1
                                      /\ ~Gone(After(end, i, c), p, end)
<1>1. CASE p + n < c
  BY <1>1 DEF After, Gone
<1>2. CASE ~(p + n < c)
  BY <1>2 DEF After, Gone
<1> QED  BY <1>1, <1>2

\* seq_ring_erase of the n oldest elements.
LEMMA EraseDrops ==
  ASSUME NEW V, Zero \in V, NEW r \in Ring(V), NEW n \in 1 .. RingSize(r)
  PROVE  /\ Erase(r, n) \in Ring(V) /\ RingSize(Erase(r, n)) = RingSize(r) - n
         /\ \A i \in 1 .. RingSize(r) - n : Contents(Erase(r, n))[i] = Contents(r)[n + i]
<1> DEFINE c == r.cap  p == Mask(r, r.tail)  s == RingSize(r)  end == PosAt(r, n)
           len == IF end > p THEN end - p ELSE c - p + end
           t == Erase(r, n)
<1>1. /\ IdxMod \in Nat \ {0} /\ c \in Nat \ {0} /\ c \in 1 .. IdxMod
      /\ s \in 0 .. c - 1 /\ IdxMod % c = 0 /\ p \in 0 .. c - 1
      /\ r.array \in [0 .. c - 1 -> V]
      /\ r.head \in 0 .. IdxMod - 1 /\ r.tail \in 0 .. IdxMod - 1
      /\ r = [array |-> r.array, cap |-> r.cap, head |-> r.head, tail |-> r.tail]
  <2>1. s \in 0 .. c - 1 /\ p \in 0 .. c - 1
    BY ContentsInOrder, RingPositions
  <2> HIDE DEF s, p
  <2> QED  BY RingAssumption, <2>1 DEF Ring
<1>2. n \in 0 .. c - 1 /\ n \in 1 .. s /\ end = After(p, n, c)
  <2>1. n \in 0 .. c - 1 /\ n \in 1 .. s
    BY <1>1
  <2> QED  BY <2>1, RingPositions
<1>3. t = [array |-> [i \in 0 .. c - 1 |-> IF Gone(i, p, end) THEN Zero ELSE r.array[i]],
           cap |-> c, head |-> r.head, tail |-> (r.tail + len) % IdxMod]
  <2>1. DOMAIN r.array = 0 .. c - 1
    BY <1>1
  <2>2. t = [r EXCEPT !.array = [i \in DOMAIN r.array |->
                                   IF Gone(i, p, end) THEN Zero ELSE r.array[i]],
                      !.tail = (r.tail + len) % IdxMod]
    BY DEF Erase, Gone
  <2> HIDE DEF p, end, len, t
  <2> QED  BY <1>1, <2>1, <2>2
<1>4. end \in Nat
  <2> HIDE DEF p, end, c
  <2> QED  BY <1>1, <1>2 DEF After
<1>5. /\ end \in 0 .. c - 1 /\ len = n
      /\ \A i \in 0 .. s - n - 1 : /\ After(end, i, c) = After(p, n + i, c)
                                   /\ After(end, i, c) \in 0 .. c - 1
                                   /\ ~Gone(After(end, i, c), p, end)
  <2> HIDE DEF p, end, c, s
  <2>1. c \in Nat \ {0} /\ p \in 0 .. c - 1 /\ s \in 0 .. c - 1 /\ n \in 1 .. s
    BY <1>1, <1>2
  <2> QED  BY <1>2, <1>4, <2>1, LeftPositions
<1>6. Mask(r, (r.tail + n) % IdxMod) = end
  BY DEF PosAt
<1>7. s = IF r.head >= r.tail THEN r.head - r.tail ELSE r.head + IdxMod - r.tail
  BY RingPositions
<1> HIDE DEF p, end, len, c, s, t
<1>8. /\ t.cap = c /\ t.head = r.head /\ t.tail = (r.tail + n) % IdxMod
      /\ \A i \in 0 .. c - 1 : t.array[i] = IF Gone(i, p, end) THEN Zero ELSE r.array[i]
      /\ t.array \in [0 .. c - 1 -> V]
      /\ t = [array |-> t.array, cap |-> t.cap, head |-> t.head, tail |-> t.tail]
  BY <1>1, <1>3, <1>5
<1>9. t.tail = (IF r.tail + n < IdxMod THEN r.tail + n ELSE r.tail + n - IdxMod)
      /\ t.tail \in 0 .. IdxMod - 1
  <2>1. PICK x \in 0 .. 2 * IdxMod - 1 : x = r.tail + n
    BY <1>1, <1>2
  <2>2. x % IdxMod = IF x < IdxMod THEN x ELSE x - IdxMod
    BY <1>1, SmallRemainder
  <2> QED  BY <1>1, <1>2, <1>8, <2>1, <2>2
<1>10. RingSize(t) = s - n
  <2>1. PICK a \in 0 .. IdxMod - 1, b \in 0 .. IdxMod - 1 : a = r.head /\ b = r.tail
    BY <1>1
  <2>2. PICK x \in Nat : x = a + IdxMod - t.tail
    <3>1. PICK y \in 0 .. IdxMod - 1 : y = t.tail
      BY <1>9
    <3>2. IdxMod \in Nat /\ a + IdxMod - y \in Nat
      BY <1>1
    <3> QED  BY <3>1, <3>2
  <2>3. n \in 0 .. s /\ s \in 0 .. IdxMod - 1
    BY <1>1, <1>2
  <2>4. x \in 0 .. 2 * IdxMod - 1 /\ (IF x < IdxMod THEN x ELSE x - IdxMod) = s - n
    <3>1. s = IF a >= b THEN a - b ELSE a + IdxMod - b
      BY <1>7, <2>1
    <3>2. x = a + IdxMod - (IF b + n < IdxMod THEN b + n ELSE b + n - IdxMod)
      BY <1>9, <2>1, <2>2
    <3>3. IdxMod \in Nat \ {0}
      BY <1>1
    <3> QED  BY <2>3, <3>1, <3>2, <3>3, SomeFewer
  <2>5. x % IdxMod = IF x < IdxMod THEN x ELSE x - IdxMod
    BY <1>1, <2>4, SmallRemainder
  <2>6. RingSize(t) = x % IdxMod
    BY <1>8, <2>1, <2>2 DEF RingSize
  <2> QED  BY <2>4, <2>5, <2>6
<1>11. t \in Ring(V)
  <2>1. [0 .. c - 1 -> V] \in {[0 .. e - 1 -> V] : e \in 1 .. IdxMod}
    BY <1>1
  <2>2. t.array \in UNION {[0 .. e - 1 -> V] : e \in 1 .. IdxMod}
    BY <1>8, <2>1
  <2>3. t \in [array : UNION {[0 .. e - 1 -> V] : e \in 1 .. IdxMod}, cap : 1 .. IdxMod,
               head : 0 .. IdxMod - 1, tail : 0 .. IdxMod - 1]
    BY <1>1, <1>8, <1>9, <2>2
  <2>4. RingSize(t) < c
    BY <1>1, <1>2, <1>10
  <2> QED  BY <1>1, <1>8, <2>3, <2>4 DEF Ring
<1>12. ASSUME NEW i \in 1 .. s - n
       PROVE  Contents(t)[i] = Contents(r)[n + i]
  <2>1. PICK k \in 0 .. s - n - 1 : k = i - 1
    BY <1>1, <1>2
  <2>2. Mask(t, t.tail) = end
    BY <1>6, <1>8 DEF Mask, c
  <2>3. Contents(t)[i] = t.array[After(end, k, c)]
    <3>1. i \in 1 .. RingSize(t)
      BY <1>10
    <3>2. Contents(t)[i] = t.array[After(Mask(t, t.tail), i - 1, t.cap)]
      BY <1>11, <3>1, ContentsInOrder
    <3> QED  BY <1>8, <2>1, <2>2, <3>2
  <2>4. Contents(r)[n + i] = r.array[After(p, n + k, c)]
    <3>1. n + i \in 1 .. RingSize(r) /\ (n + i) - 1 = n + k
      BY <1>1, <1>2, <2>1 DEF s
    <3>2. Contents(r)[n + i] = r.array[After(Mask(r, r.tail), (n + i) - 1, r.cap)]
      BY <3>1, ContentsInOrder
    <3> QED  BY <3>1, <3>2 DEF p, c
  <2> QED  BY <1>5, <1>8, <2>1, <2>3, <2>4
<1> QED  BY <1>10, <1>11, <1>12 DEF t, s

\* A new ring, wherever its counters stand.
LEMMA NewRingIsEmpty ==
  ASSUME NEW V, Zero \in V, NEW pos \in 0 .. IdxMod - 1
  PROVE  /\ RingAt(pos) \in Ring(V) /\ RingSize(RingAt(pos)) = 0
         /\ Contents(RingAt(pos)) = <<>>
<1>1. /\ IdxMod \in Nat \ {0} /\ DefaultElm \in 1 .. IdxMod /\ IdxMod % DefaultElm = 0
  BY RingAssumption
<1>2. PICK a : a = [i \in 0 .. DefaultElm - 1 |-> Zero]
  OBVIOUS
<1>3. PICK r : r = [array |-> a, cap |-> DefaultElm, head |-> pos, tail |-> pos]
  OBVIOUS
<1>4. r = RingAt(pos)
  BY <1>2, <1>3 DEF RingAt
<1>5. a \in [0 .. DefaultElm - 1 -> V]
  BY <1>2
<1>6. RingSize(r) = 0
  <2>1. IdxMod \in 0 .. 2 * IdxMod - 1 /\ pos + IdxMod - pos = IdxMod
    BY <1>1
  <2>2. IdxMod % IdxMod = 0
    BY <1>1, <2>1, SmallRemainder
  <2> QED  BY <1>3, <2>1, <2>2 DEF RingSize
<1>7. r \in Ring(V)
  <2>1. [0 .. DefaultElm - 1 -> V] \in {[0 .. c - 1 -> V] : c \in 1 .. IdxMod}
    BY <1>1
  <2>2. a \in UNION {[0 .. c - 1 -> V] : c \in 1 .. IdxMod}
    BY <1>5, <2>1
  <2>3. r \in [array : UNION {[0 .. c - 1 -> V] : c \in 1 .. IdxMod}, cap : 1 .. IdxMod,
               head : 0 .. IdxMod - 1, tail : 0 .. IdxMod - 1]
    BY <1>1, <1>3, <2>2
  <2> QED  BY <1>1, <1>3, <1>5, <1>6, <2>3 DEF Ring
<1>8. Contents(r) = <<>>
  <2>1. Contents(r) \in Seq(V) /\ Len(Contents(r)) = 0
    BY <1>6, <1>7, ContentsInOrder
  <2> QED  BY <2>1
<1> QED  BY <1>4, <1>6, <1>7, <1>8

-----------------------------------------------------------------------------
(* The inductive invariant.                                                *)

Rings == Ring(0 .. MaxTasks)
Size(q) == RingSize(ring[q])

\* The tasks that were pushed: the one in hand is not among them.
Pushed == IF ppc \in {"try", "block", "push"} THEN index - 1 ELSE index

Types ==
  /\ ring \in [Threads -> Rings]
  /\ done \in [Threads -> BOOLEAN] /\ held \subseteq Threads
  /\ ppc \in {"idle", "try", "block", "push", "signal", "doneLock", "doneSet",
              "doneSignal", "join", "freed"}
  /\ pi \in Threads /\ index \in 0 .. MaxTasks
  /\ wpc \in [Threads -> {"search", "tryPop", "lock", "pop", "wait", "run", "exit"}]
  /\ wi \in [Threads -> Nat]
  /\ batch \in [Threads -> Seq(Tasks)] /\ runs \in [Tasks -> Nat]

\* Positions and what they imply: a submitter has a task, a stop comes last, a worker
\* that runs has tasks, one that searches has not come to the end.
Positions ==
  /\ ppc \in {"try", "block", "push", "signal"} => index > 0
  /\ \A q \in Threads : done[q] => ppc \in {"doneLock", "doneSet", "doneSignal", "join", "freed"}
  /\ \A w \in Threads : /\ wpc[w] = "run" <=> batch[w] # <<>>
                        /\ wi[w] \in w .. NumIt(w)
                        /\ wpc[w] \in {"search", "tryPop"} => wi[w] < NumIt(w)

\* Who is between the lock and the unlock of the mutex of queue q.
SubmitterIn(q) == \/ ppc = "push" /\ Target(pi) = q
                  \/ ppc = "doneSet" /\ pi = q
WorkerIn(w, q) == \/ wpc[w] = "tryPop" /\ Queue(w) = q
                  \/ wpc[w] = "pop" /\ w = q

Exclusion ==
  \A q \in Threads :
    /\ SubmitterIn(q) => q \in held /\ \A w \in Threads : ~WorkerIn(w, q)
    /\ \A v, w \in Threads : WorkerIn(v, q) => q \in held /\ (WorkerIn(w, q) => v = w)

\* A task is in one place, was pushed, and was not executed before.
Places ==
  /\ \A q \in Threads : Size(q) <= Pushed
  /\ \A q, r \in Threads : \A t \in ContentsOf(q) : t \in ContentsOf(r) => q = r
  /\ \A v, w \in Threads : \A t \in BatchOf(v) : t \in BatchOf(w) => v = w
  /\ \A q, w \in Threads : \A t \in ContentsOf(q) : t \notin BatchOf(w)
  /\ \A q \in Threads : \A t \in ContentsOf(q) \union BatchOf(q) :
       t \in 1 .. Pushed /\ runs[t] = 0
  /\ \A t \in Tasks : runs[t] # 0 => t <= Pushed

TaskInv == /\ Types /\ Positions /\ Exclusion /\ Places
           /\ OrderKept /\ NoSleepOverWork

-----------------------------------------------------------------------------
(* Lemmas.                                                                 *)

\* The numbers of queues and threads that the actions compute are numbers of queues.
LEMMA QueueNumbers ==
  ASSUME Types
  PROVE  /\ NumThreads \in Nat \ {0} /\ MaxTasks \in Nat
         /\ 0 \in Threads /\ (pi + 1) % NumThreads \in Threads
         /\ pi + 1 = NumThreads \/ pi + 1 \in Threads
         /\ index > 0 => Target(pi) \in Threads
         /\ \A w \in Threads : Queue(w) \in Threads /\ NumIt(w) \in Nat /\ NumIt(w) > w
<1>0. MaxTasks \in Nat
  BY TaskAssumption, RingAssumption
<1>1. NumThreads \in Nat \ {0} /\ pi \in 0 .. NumThreads - 1 /\ index \in Nat
  BY <1>0, TaskAssumption DEF Types, Threads
<1>2. ASSUME index > 0 PROVE Target(pi) \in Threads
  <2>1. pi + index - 1 \in Nat
    BY <1>1, <1>2
  <2> QED  BY <1>1, <2>1 DEF Target, Threads
<1>3. ASSUME NEW w \in Threads
      PROVE  Queue(w) \in Threads /\ NumIt(w) \in Nat /\ NumIt(w) > w
  <2>1. wi[w] \in Nat
    BY DEF Types
  <2>2. PICK k \in Nat : k = NumThreads + w /\ k > w
    BY <1>1 DEF Threads
  <2>3. Rounds * k \in Nat /\ Rounds * k >= k
    BY TaskAssumption
  <2> QED  BY <1>1, <2>1, <2>2, <2>3 DEF Queue, NumIt, Threads
<1>4. /\ 0 \in Threads /\ (pi + 1) % NumThreads \in Threads
      /\ pi + 1 = NumThreads \/ pi + 1 \in Threads
  BY <1>1 DEF Threads
<1> QED  BY <1>0, <1>1, <1>2, <1>3, <1>4

\* What a queue contains.
LEMMA QueueContents ==
  ASSUME Types, NEW q \in Threads
  PROVE  /\ ring[q] \in Rings /\ Size(q) \in Nat
         /\ Contents(ring[q]) \in Seq(0 .. MaxTasks) /\ Len(Contents(ring[q])) = Size(q)
<1>1. ring[q] \in Ring(0 .. MaxTasks)
  BY DEF Types, Rings
<1>2. RingSize(ring[q]) \in 0 .. ring[q].cap - 1
  BY <1>1, ContentsInOrder
<1>3. ring[q].cap \in Nat
  BY <1>1, RingAssumption DEF Ring
<1> QED  BY <1>1, <1>2, <1>3, ContentsInOrder DEF Rings, Size

\* Steps that neither move nor execute a task.
LEMMA QuietPlaces ==
  ASSUME TaskInv, UNCHANGED <<ring, batch, runs>>, Pushed' = Pushed
  PROVE  Places' /\ OrderKept'
<1>1. /\ \A q : ContentsOf(q)' = ContentsOf(q) /\ Size(q)' = Size(q)
      /\ \A w : BatchOf(w)' = BatchOf(w)
  BY DEF ContentsOf, BatchOf, Size
<1> QED  BY <1>1 DEF TaskInv, Places, OrderKept

\* A signal wakes a thread that waits, and changes nothing else.
LEMMA WakeThread ==
  ASSUME Types, NEW q \in Threads, wpc' = Wake(q)
  PROVE  /\ wpc' \in [Threads -> {"search", "tryPop", "lock", "pop", "wait", "run", "exit"}]
         /\ \A w \in Threads :
              \/ wpc'[w] = wpc[w] /\ (w = q => wpc[w] # "wait")
              \/ w = q /\ wpc[w] = "wait" /\ wpc'[w] = "lock"
BY DEF Types, Wake

-----------------------------------------------------------------------------
(* The steps of the submitter.                                             *)

\* async_task_manager's choice of a queue keeps the invariant.
LEMMA AsyncStep ==
  ASSUME TaskInv, Async
  PROVE  TaskInv'
<1>1. Types'
  BY QueueNumbers DEF TaskInv, Types, Async, queueVars
<1>2. Positions'
  BY DEF TaskInv, Types, Positions, Async, queueVars
<1>3. Exclusion'
  BY DEF TaskInv, Exclusion, SubmitterIn, WorkerIn, Queue, Async, queueVars
<1>4. NoSleepOverWork'
  BY DEF TaskInv, NoSleepOverWork, Async, queueVars
<1>5. Pushed' = Pushed /\ UNCHANGED <<ring, batch, runs>>
  BY DEF TaskInv, Types, Pushed, Async, queueVars
<1> QED  BY <1>1, <1>2, <1>3, <1>4, <1>5, QuietPlaces DEF TaskInv

\* Locking a queue to push keeps the invariant.
LEMMA LockToPushStep ==
  ASSUME TaskInv, TryPush \/ PushLock
  PROVE  TaskInv'
<1>1. /\ UNCHANGED <<ring, done, index, wpc, wi, batch, runs>>
      /\ ppc \in {"try", "block"}
      /\ \/ /\ Target(pi) \notin held /\ held' = held \union {Target(pi)}
            /\ ppc' = "push" /\ pi' = pi
         \/ /\ held' = held /\ pi' = (pi + 1) % NumThreads /\ ppc' \in {"try", "block"}
  BY DEF TryPush, PushLock, Unlocked
<1>2. Target(pi) \in Threads /\ (pi + 1) % NumThreads \in Threads
  BY <1>1, QueueNumbers DEF TaskInv, Positions
<1>3. Types'
  BY <1>1, <1>2 DEF TaskInv, Types
<1>4. Positions'
  BY <1>1 DEF TaskInv, Positions
<1>5. \A v : UNCHANGED Target(v) /\ \A q : UNCHANGED WorkerIn(v, q)
  BY <1>1 DEF Target, WorkerIn, Queue
<1>6. Exclusion'
  BY <1>1, <1>5 DEF TaskInv, Exclusion, SubmitterIn
<1>7. NoSleepOverWork'
  BY <1>1, <1>5 DEF TaskInv, NoSleepOverWork
<1>8. Pushed' = Pushed
  BY <1>1 DEF Pushed
<1> QED  BY <1>1, <1>3, <1>4, <1>6, <1>7, <1>8, QuietPlaces DEF TaskInv

\* The signals of push and of done keep the invariant.
LEMMA SignalStep ==
  ASSUME TaskInv, PushSignal \/ DoneSignal
  PROVE  TaskInv'
<1>1. PICK q \in Threads : /\ wpc' = Wake(q)
                           /\ ppc = "signal" => q = Target(pi)
                           /\ ppc = "doneSignal" => q = pi
  BY QueueNumbers DEF TaskInv, Types, Positions, PushSignal, DoneSignal
<1>2. /\ UNCHANGED <<ring, done, held, index, wi, batch, runs>>
      /\ \/ ppc = "signal" /\ ppc' = "idle" /\ pi' = pi
         \/ /\ ppc = "doneSignal" /\ ppc' \in {"doneLock", "join"}
            /\ pi' = pi \/ (pi' = pi + 1 /\ pi + 1 < NumThreads)
  BY DEF PushSignal, DoneSignal, queueVars
<1>3. /\ wpc' \in [Threads -> {"search", "tryPop", "lock", "pop", "wait", "run", "exit"}]
      /\ \A w \in Threads : \/ wpc'[w] = wpc[w] /\ (w = q => wpc[w] # "wait")
                            \/ w = q /\ wpc[w] = "wait" /\ wpc'[w] = "lock"
  BY <1>1, WakeThread DEF TaskInv
<1>4. pi' \in Threads
  BY <1>2, QueueNumbers DEF TaskInv, Types
<1>5. Types'
  BY <1>2, <1>3, <1>4 DEF TaskInv, Types
<1>6. Positions'
  BY <1>2, <1>3 DEF TaskInv, Positions, NumIt
<1>7. \A v, r \in Threads : UNCHANGED WorkerIn(v, r)
  BY <1>2, <1>3 DEF WorkerIn, Queue
<1>8. Exclusion'
  BY <1>2, <1>7 DEF TaskInv, Exclusion, SubmitterIn
<1>9. NoSleepOverWork'
  BY <1>1, <1>2, <1>3 DEF TaskInv, NoSleepOverWork
<1>10. Pushed' = Pushed
  BY <1>2 DEF Pushed
<1> QED  BY <1>2, <1>5, <1>6, <1>8, <1>9, <1>10, QuietPlaces DEF TaskInv

\* free_task_manager's setting of done, and the joins, keep the invariant.
LEMMA StopStep ==
  ASSUME TaskInv, Free \/ DoneLock \/ DoneSet \/ Join
  PROVE  TaskInv'
<1>1. /\ UNCHANGED <<ring, index, wpc, wi, batch, runs>>
      /\ \/ ppc = "idle" /\ ppc' = "doneLock" /\ pi' = 0 /\ UNCHANGED <<done, held>>
         \/ /\ ppc = "doneLock" /\ pi \notin held /\ held' = held \union {pi}
            /\ ppc' = "doneSet" /\ UNCHANGED <<done, pi>>
         \/ /\ ppc = "doneSet" /\ done' = [done EXCEPT ![pi] = TRUE] /\ held' = held \ {pi}
            /\ ppc' = "doneSignal" /\ pi' = pi
         \/ ppc = "join" /\ ppc' = "freed" /\ UNCHANGED <<done, held, pi>>
  BY DEF Free, DoneLock, DoneSet, Join, queueVars, Unlocked
<1>2. 0 \in Threads
  BY QueueNumbers DEF TaskInv, Threads
<1>3. Types'
  BY <1>1, <1>2 DEF TaskInv, Types
<1>4. \A q \in Threads : done'[q] => done[q] \/ (ppc' = "doneSignal" /\ q = pi')
  BY <1>1 DEF TaskInv, Types
<1>5. Positions'
  BY <1>1, <1>4 DEF TaskInv, Positions, NumIt
<1>6. \A v, q \in Threads : UNCHANGED WorkerIn(v, q)
  BY <1>1 DEF WorkerIn, Queue
<1>7. Exclusion'
  BY <1>1, <1>6 DEF TaskInv, Exclusion, SubmitterIn
<1>8. NoSleepOverWork'
  BY <1>1, <1>4 DEF TaskInv, NoSleepOverWork
<1>9. Pushed' = Pushed
  BY <1>1 DEF Pushed
<1> QED  BY <1>1, <1>3, <1>5, <1>7, <1>8, <1>9, QuietPlaces DEF TaskInv

\* A push keeps the invariant, and adds one task to one queue.
LEMMA PushStep ==
  ASSUME TaskInv, Push
  PROVE  TaskInv' /\ \E q \in Threads :
           /\ ContentsOf(q)' = ContentsOf(q) \union {index}
           /\ \A p \in Threads : p # q => ContentsOf(p)' = ContentsOf(p)
           /\ \A w \in Threads : BatchOf(w)' = BatchOf(w)
<1>1. PICK q \in Threads : q = Target(pi)
  BY QueueNumbers DEF TaskInv, Positions, Push
<1>2. /\ ppc = "push" /\ ppc' = "signal" /\ held' = held \ {q}
      /\ ring' = [ring EXCEPT ![q] = PushBack(ring[q], index)]
      /\ UNCHANGED <<done, pi, index, wpc, wi, batch, runs>>
  BY <1>1 DEF Push
<1>3. /\ index \in 1 .. MaxTasks /\ MaxTasks \in Nat /\ MaxTasks < IdxMod
      /\ Pushed = index - 1 /\ Pushed' = index
  BY <1>2, TaskAssumption, RingAssumption DEF TaskInv, Types, Positions, Pushed
<1>4. PICK s \in Seq(0 .. MaxTasks) :
        /\ s = Contents(ring[q]) /\ Len(s) = Size(q) /\ Len(s) + 1 < IdxMod
        /\ ring[q] \in Ring(0 .. MaxTasks)
  <2>1. ring[q] \in Rings /\ Size(q) \in Nat /\ Size(q) <= Pushed
    BY QueueContents DEF TaskInv, Places
  <2> QED  BY <1>3, <2>1, QueueContents, RingAssumption DEF TaskInv, Rings
<1>5. PICK r : r = PushBack(ring[q], index)
  OBVIOUS
<1>6. r \in Ring(0 .. MaxTasks) /\ RingSize(r) = Len(s) + 1 /\ Contents(r) = Append(s, index)
  <2>1. RingSize(ring[q]) = Len(s) /\ Zero \in 0 .. MaxTasks /\ index \in 0 .. MaxTasks
    BY <1>3, <1>4 DEF Size, Zero
  <2>2. RingSize(ring[q]) + 1 < IdxMod
    BY <1>4, <2>1
  <2>3. /\ PushBack(ring[q], index) \in Ring(0 .. MaxTasks)
        /\ RingSize(PushBack(ring[q], index)) = RingSize(ring[q]) + 1
        /\ Contents(PushBack(ring[q], index)) = Append(Contents(ring[q]), index)
    BY <1>4, <2>1, <2>2, PushBackAppends, Zenon
  <2> QED  BY <1>4, <1>5, <2>1, <2>3
<1>7. /\ ring'[q] = r /\ \A p \in Threads : p # q => ring'[p] = ring[p]
      /\ ring' \in [Threads -> Rings]
  BY <1>2, <1>5, <1>6 DEF TaskInv, Types, Rings
<1>8. /\ Contents(ring'[q]) = Append(s, index) /\ RingSize(ring'[q]) = Len(s) + 1
      /\ \A i \in 1 .. Len(s) : Append(s, index)[i] = s[i] /\ s[i] \in 1 .. index - 1
      /\ Append(s, index)[Len(s) + 1] = index
      /\ Len(Append(s, index)) = Len(s) + 1 /\ Len(s) \in Nat
  <2>1. \A i \in 1 .. Len(s) : s[i] \in ContentsOf(q)
    BY <1>4 DEF ContentsOf, Size
  <2>2. \A i \in 1 .. Len(s) : s[i] \in 1 .. index - 1
    BY <1>3, <2>1 DEF TaskInv, Places
  <2> QED  BY <1>3, <1>4, <1>6, <1>7, <2>2
<1>9. /\ ContentsOf(q)' = ContentsOf(q) \union {index}
      /\ \A p \in Threads : p # q => ContentsOf(p)' = ContentsOf(p) /\ Size(p)' = Size(p)
      /\ Size(q)' = Size(q) + 1
      /\ \A w : BatchOf(w)' = BatchOf(w)
  <2>1. ContentsOf(q)' = ContentsOf(q) \union {index}
    <3>1. ContentsOf(q) = {s[i] : i \in 1 .. Len(s)}
      BY <1>4 DEF ContentsOf, Size
    <3>2. ContentsOf(q)' = {Append(s, index)[i] : i \in 1 .. Len(s) + 1}
      BY <1>8 DEF ContentsOf
    <3> QED  BY <1>8, <3>1, <3>2
  <2> QED  BY <1>2, <1>4, <1>7, <1>8, <2>1 DEF ContentsOf, Size, BatchOf
<1>10. Types'
  BY <1>2, <1>7 DEF TaskInv, Types
<1>11. Positions'
  BY <1>2 DEF TaskInv, Positions, NumIt
<1>12. \A v, p \in Threads : UNCHANGED WorkerIn(v, p)
  BY <1>2 DEF WorkerIn, Queue
<1>13. Exclusion'
  BY <1>1, <1>2, <1>12 DEF TaskInv, Exclusion, SubmitterIn
<1>14. Places'
  <2>1. \A p, w \in Threads : index \notin ContentsOf(p) /\ index \notin BatchOf(w)
    BY <1>3 DEF TaskInv, Places
  <2>2. \A p \in Threads : Size(p)' <= Pushed'
    BY <1>3, <1>9, QueueContents DEF TaskInv, Places
  <2>3. \A p, w \in Threads : \A t \in ContentsOf(p)' : /\ t \in ContentsOf(w)' => p = w
                                                        /\ t \notin BatchOf(w)'
    BY <1>9, <2>1 DEF TaskInv, Places
  <2>4. \A p \in Threads : \A t \in ContentsOf(p)' \union BatchOf(p)' :
          t \in 1 .. Pushed' /\ runs'[t] = 0
    <3>1. runs[index] = 0
      BY <1>3 DEF TaskInv, Types, Places, Tasks
    <3> QED  BY <1>2, <1>3, <1>9, <3>1 DEF TaskInv, Places
  <2>5. \A t \in Tasks : runs'[t] # 0 => t <= Pushed'
    BY <1>2, <1>3 DEF TaskInv, Places, Tasks
  <2> QED  BY <1>9, <2>2, <2>3, <2>4, <2>5 DEF TaskInv, Places
<1>15. OrderKept'
  <2>1. Increasing(s)
    BY <1>4 DEF TaskInv, OrderKept
  <2>2. Increasing(Append(s, index))
    BY <1>3, <1>8, <2>1 DEF Increasing
  <2> QED  BY <1>2, <1>7, <1>8, <2>2 DEF TaskInv, OrderKept
<1>16. NoSleepOverWork'
  <2>1. Target(pi)' = Target(pi)
    BY <1>2 DEF Target
  <2> QED  BY <1>1, <1>2, <1>7, <2>1 DEF TaskInv, NoSleepOverWork
<1> QED  BY <1>9, <1>10, <1>11, <1>13, <1>14, <1>15, <1>16 DEF TaskInv

-----------------------------------------------------------------------------
(* The steps of a thread.                                                  *)

\* Taking a mutex, or not getting it.
LEMMA LockStep ==
  ASSUME TaskInv, NEW w \in Threads, TryLock(w) \/ Lock(w)
  PROVE  TaskInv'
<1>1. /\ UNCHANGED <<ring, done, ppc, pi, index, batch, runs>>
      /\ \/ /\ wpc[w] = "search" /\ Queue(w) \notin held /\ held' = held \union {Queue(w)}
            /\ wpc' = [wpc EXCEPT ![w] = "tryPop"] /\ wi' = wi
         \/ wpc[w] = "search" /\ held' = held /\ NextTry(w)
         \/ /\ wpc[w] = "lock" /\ w \notin held /\ held' = held \union {w}
            /\ wpc' = [wpc EXCEPT ![w] = "pop"] /\ wi' = wi
  BY DEF TryLock, Lock, Unlocked, mainVars
<1>2. Queue(w) \in Threads /\ wi[w] \in Nat /\ NumIt(w) \in Nat /\ w \in Nat
  <2>1. w \in Nat
    BY QueueNumbers DEF TaskInv, Threads
  <2> QED  BY <2>1, QueueNumbers DEF TaskInv, Types
<1>3. Types'
  <2>1. wi' \in [Threads -> Nat] /\ held' \subseteq Threads
    <3>1. PICK n \in Nat : n = wi[w] + 1
      BY <1>2
    <3>2. wi' = wi \/ wi' = [wi EXCEPT ![w] = n]
      BY <1>1, <3>1 DEF NextTry
    <3> QED  BY <1>1, <1>2, <3>2 DEF TaskInv, Types
  <2>2. wpc' \in [Threads -> {"search", "tryPop", "lock", "pop", "wait", "run", "exit"}]
    BY <1>1 DEF TaskInv, Types, NextTry
  <2> QED  BY <1>1, <2>1, <2>2 DEF TaskInv, Types
<1>4. \A v \in Threads : v # w => wpc'[v] = wpc[v] /\ wi'[v] = wi[v]
  BY <1>1 DEF TaskInv, Types, NextTry
<1>5. /\ wpc[w] \in {"search", "lock"} /\ wpc'[w] \in {"search", "tryPop", "lock", "pop"}
      /\ wi'[w] \in w .. NumIt(w)
      /\ wpc'[w] \in {"search", "tryPop"} => wi'[w] < NumIt(w)
  BY <1>1, <1>2 DEF TaskInv, Types, Positions, NextTry
<1>6. Positions'
  BY <1>1, <1>4, <1>5 DEF TaskInv, Positions, NumIt
<1>7. /\ \A v, q \in Threads : v # w => UNCHANGED WorkerIn(v, q)
      /\ \A q \in Threads : UNCHANGED SubmitterIn(q)
  BY <1>1, <1>4 DEF WorkerIn, SubmitterIn, Queue, Target
<1>8. /\ \A q \in Threads : ~WorkerIn(w, q)
      /\ \A q \in Threads : WorkerIn(w, q)' => q \notin held /\ q \in held'
      /\ held \subseteq held'
  BY <1>1, <1>5 DEF WorkerIn, Queue, NextTry, TaskInv, Types
<1>9. Exclusion'
  BY <1>7, <1>8 DEF TaskInv, Exclusion
<1>10. NoSleepOverWork'
  BY <1>1, <1>4, <1>5 DEF TaskInv, NoSleepOverWork, Target
<1>11. Pushed' = Pushed
  BY <1>1 DEF Pushed
<1> QED  BY <1>1, <1>3, <1>6, <1>9, <1>10, <1>11, QuietPlaces DEF TaskInv

\* Releasing a mutex without a task, and waking up.
LEMMA UnlockStep ==
  ASSUME TaskInv, NEW w \in Threads,
         \/ TryPop(w) /\ Size(Queue(w)) = 0
         \/ Pop(w) /\ (done[w] \/ Size(w) = 0)
         \/ SpuriousWakeup(w)
  PROVE  TaskInv'
<1>1. PICK q \in Threads :
        /\ UNCHANGED <<ring, done, ppc, pi, index, batch, runs>>
        /\ \/ wpc[w] = "tryPop" /\ q = Queue(w) /\ held' = held \ {q} /\ NextTry(w)
           \/ /\ wpc[w] = "pop" /\ q = w /\ held' = held \ {q} /\ wi' = wi
              /\ wpc' = [wpc EXCEPT ![w] = IF done[w] THEN "exit" ELSE "wait"]
              /\ done[w] \/ Size(w) = 0
           \/ /\ wpc[w] = "wait" /\ held' = held /\ wi' = wi
              /\ wpc' = [wpc EXCEPT ![w] = "lock"]
  BY QueueNumbers DEF TaskInv, TryPop, Pop, SpuriousWakeup, Size, queueVars, mainVars
<1>2. wi[w] \in Nat /\ NumIt(w) \in Nat /\ w \in Nat
  <2>1. w \in Nat
    BY QueueNumbers DEF TaskInv, Threads
  <2> QED  BY <2>1, QueueNumbers DEF TaskInv, Types
<1>3. Types'
  <2>1. wi' \in [Threads -> Nat] /\ held' \subseteq Threads
    <3>1. PICK n \in Nat : n = wi[w] + 1
      BY <1>2
    <3>2. wi' = wi \/ wi' = [wi EXCEPT ![w] = n]
      BY <1>1, <3>1 DEF NextTry
    <3> QED  BY <1>1, <1>2, <3>2 DEF TaskInv, Types
  <2>2. wpc' \in [Threads -> {"search", "tryPop", "lock", "pop", "wait", "run", "exit"}]
    BY <1>1 DEF TaskInv, Types, NextTry
  <2> QED  BY <1>1, <2>1, <2>2 DEF TaskInv, Types
<1>4. \A v \in Threads : v # w => wpc'[v] = wpc[v] /\ wi'[v] = wi[v]
  BY <1>1 DEF TaskInv, Types, NextTry
<1>5. /\ wpc[w] \in {"tryPop", "pop", "wait"} /\ wpc'[w] \in {"search", "lock", "wait", "exit"}
      /\ wi'[w] \in w .. NumIt(w)
      /\ wpc'[w] \in {"search", "tryPop"} => wi'[w] < NumIt(w)
      /\ wpc'[w] = "wait" => ~done[w] /\ Size(w) = 0
  <2>1. /\ wpc \in [Threads -> {"search", "tryPop", "lock", "pop", "wait", "run", "exit"}]
        /\ wi \in [Threads -> Nat]
    BY DEF TaskInv, Types
  <2>2. wi[w] \in w .. NumIt(w) /\ (wpc[w] = "tryPop" => wi[w] < NumIt(w))
    BY DEF TaskInv, Positions
  <2> QED  BY <1>1, <1>2, <2>1, <2>2 DEF NextTry
<1>6. Positions'
  BY <1>1, <1>4, <1>5 DEF TaskInv, Positions, NumIt
<1>7. /\ \A v, p \in Threads : v # w => UNCHANGED WorkerIn(v, p)
      /\ \A p \in Threads : UNCHANGED SubmitterIn(p)
  BY <1>1, <1>4 DEF WorkerIn, SubmitterIn, Queue, Target
<1>8. /\ \A p \in Threads : ~WorkerIn(w, p)'
      /\ held' = held \/ (WorkerIn(w, q) /\ held' = held \ {q})
  BY <1>1, <1>5 DEF WorkerIn
<1>9. Exclusion'
  BY <1>7, <1>8 DEF TaskInv, Exclusion
<1>10. NoSleepOverWork'
  <2>1. UNCHANGED Target(pi)
    BY <1>1 DEF Target
  <2>2. \A v \in Threads : v # w => (wpc'[v] = "wait" => wpc[v] = "wait")
    BY <1>4
  <2> QED  BY <1>1, <1>5, <2>1, <2>2 DEF TaskInv, NoSleepOverWork, Size
<1>11. Pushed' = Pushed
  BY <1>1 DEF Pushed
<1> QED  BY <1>1, <1>3, <1>6, <1>9, <1>10, <1>11, QuietPlaces DEF TaskInv

\* A sequence of numbers up to m is a sequence of numbers.
LEMMA SeqOfNumbers ==
  ASSUME NEW m \in Nat, NEW s \in Seq(0 .. m)
  PROVE  s \in Seq(Nat)
<1>1. Len(s) \in Nat /\ \A i \in 1 .. Len(s) : s[i] \in Nat
  OBVIOUS
<1> QED  BY <1>1

\* A sequence in increasing order, cut in two.
Elements(s) == {s[i] : i \in 1 .. Len(s)}

CutAt(n, s, b, u) ==
  /\ s \in Seq(Nat) /\ b \in Seq(Nat) /\ u \in Seq(Nat) /\ n \in 1 .. Len(s)
  /\ Len(b) = n /\ \A i \in 1 .. n : b[i] = s[i]
  /\ Len(u) = Len(s) - n /\ \A i \in 1 .. Len(s) - n : u[i] = s[n + i]

\* The two pieces of a cut sequence hold its elements, in order, none in both.
LEMMA CutInTwo ==
  ASSUME NEW n, NEW s, NEW b, NEW u, CutAt(n, s, b, u), Increasing(s)
  PROVE  /\ Increasing(b) /\ Increasing(u)
         /\ Elements(s) = Elements(u) \union Elements(b)
         /\ \A t \in Elements(u) : t \notin Elements(b)
<1>0. /\ Len(s) \in Nat /\ n \in 1 .. Len(s)
      /\ Len(b) = n /\ \A i \in 1 .. n : b[i] = s[i]
      /\ Len(u) = Len(s) - n /\ \A i \in 1 .. Len(s) - n : u[i] = s[n + i]
      /\ \A i \in 1 .. Len(s) : s[i] \in Nat
  BY DEF CutAt
<1>1. \A i, j \in 1 .. Len(s) : i < j => s[i] < s[j]
  BY DEF Increasing
<1>2. Increasing(b)
  <2>1. ASSUME NEW i \in 1 .. Len(b), NEW j \in 1 .. Len(b), i < j
        PROVE  b[i] < b[j]
    <3>1. i \in 1 .. Len(s) /\ j \in 1 .. Len(s) /\ i \in 1 .. n /\ j \in 1 .. n
      BY <1>0
    <3>2. s[i] < s[j] /\ b[i] = s[i] /\ b[j] = s[j]
      BY <1>0, <1>1, <2>1, <3>1
    <3> QED  BY <3>2
  <2> QED  BY <2>1 DEF Increasing
<1>3. Increasing(u)
  <2>1. ASSUME NEW i \in 1 .. Len(u), NEW j \in 1 .. Len(u), i < j
        PROVE  u[i] < u[j]
    <3>1. n + i \in 1 .. Len(s) /\ n + j \in 1 .. Len(s) /\ n + i < n + j
      BY <1>0, <2>1
    <3>2. s[n + i] < s[n + j]
      BY <1>1, <3>1
    <3> QED  BY <1>0, <3>2
  <2> QED  BY <2>1 DEF Increasing
<1>4. ASSUME NEW i \in 1 .. Len(s)
      PROVE  s[i] \in {u[k] : k \in 1 .. Len(u)} \union {b[k] : k \in 1 .. Len(b)}
  <2>1. CASE i <= n
    BY <1>0, <2>1
  <2>2. CASE ~(i <= n)
    <3>1. PICK k \in 1 .. Len(u) : k = i - n
      BY <1>0, <2>2
    <3>2. u[k] = s[i]
      BY <1>0, <3>1
    <3> QED  BY <3>2
  <2> QED  BY <2>1, <2>2
<1>5. ASSUME NEW i \in 1 .. Len(u)
      PROVE  n + i \in 1 .. Len(s) /\ u[i] = s[n + i]
  BY <1>0
<1>6. \A j \in 1 .. Len(b) : b[j] = s[j] /\ j \in 1 .. Len(s)
  BY <1>0
<1>7. ASSUME NEW i \in 1 .. Len(u), NEW j \in 1 .. Len(b)
      PROVE  u[i] # b[j]
  <2>1. j \in 1 .. Len(s) /\ j < n + i
    BY <1>0
  <2>2. s[j] < s[n + i]
    BY <1>1, <1>5, <2>1
  <2>3. s[j] \in Nat /\ s[n + i] \in Nat
    BY <1>0, <1>5, <2>1
  <2> QED  BY <1>5, <1>6, <2>2, <2>3
<1>8. /\ {s[i] : i \in 1 .. Len(s)} \subseteq
            {u[i] : i \in 1 .. Len(u)} \union {b[i] : i \in 1 .. Len(b)}
      /\ {u[i] : i \in 1 .. Len(u)} \subseteq {s[i] : i \in 1 .. Len(s)}
      /\ {b[i] : i \in 1 .. Len(b)} \subseteq {s[i] : i \in 1 .. Len(s)}
  <2>1. ASSUME NEW i \in 1 .. Len(u)
        PROVE  u[i] \in {s[k] : k \in 1 .. Len(s)}
    BY <1>5
  <2>2. ASSUME NEW i \in 1 .. Len(b)
        PROVE  b[i] \in {s[k] : k \in 1 .. Len(s)}
    BY <1>6
  <2> QED  BY <1>4, <2>1, <2>2
<1>9. \A t \in {u[i] : i \in 1 .. Len(u)} : t \notin {b[i] : i \in 1 .. Len(b)}
  BY <1>7
<1> QED  BY <1>2, <1>3, <1>8, <1>9 DEF Elements

\* A thread that takes a batch gets the oldest tasks of the queue, and leaves the rest.
LEMMA TakeEffect ==
  ASSUME TaskInv, NEW w \in Threads, NEW q \in Threads, Take(w, q), Size(q) > 0
  PROVE  /\ ring' \in [Threads -> Rings] /\ batch' \in [Threads -> Seq(Tasks)]
         /\ batch'[w] # <<>>
         /\ \A p \in Threads : p # q => ring'[p] = ring[p]
         /\ \A v \in Threads : v # w => batch'[v] = batch[v]
         /\ Size(q)' <= Size(q)
         /\ ContentsOf(q) = ContentsOf(q)' \union BatchOf(w)'
         /\ \A t \in ContentsOf(q)' : t \notin BatchOf(w)'
         /\ Increasing(Contents(ring'[q])) /\ Increasing(batch'[w])
<1>1. PICK s \in Seq(Nat) : s = Contents(ring[q]) /\ Len(s) = Size(q) /\ Increasing(s)
                            /\ \A i \in 1 .. Len(s) : s[i] \in Tasks
  <2>1. Contents(ring[q]) \in Seq(0 .. MaxTasks) /\ Len(Contents(ring[q])) = Size(q)
    BY QueueContents DEF TaskInv
  <2>2. Contents(ring[q]) \in Seq(Nat) /\ Increasing(Contents(ring[q]))
    BY <2>1, SeqOfNumbers, QueueNumbers DEF TaskInv, OrderKept
  <2>3. ASSUME NEW i \in 1 .. Len(Contents(ring[q]))
        PROVE  Contents(ring[q])[i] \in Tasks
    <3>1. Contents(ring[q])[i] \in ContentsOf(q)
      BY <2>1 DEF ContentsOf, Size
    <3>2. Contents(ring[q])[i] \in 1 .. Pushed /\ Pushed \in Int /\ Pushed <= index
      BY <3>1 DEF TaskInv, Places, Types, Pushed
    <3>3. index \in 0 .. MaxTasks /\ MaxTasks \in Nat
      BY QueueNumbers DEF TaskInv, Types
    <3> QED  BY <3>2, <3>3 DEF Tasks
  <2> QED  BY <2>1, <2>2, <2>3
<1>2. PICK n \in 1 .. Len(s) : n = BatchLen(q)
  <2>1. RingSize(ring[q]) = Len(s) /\ Len(s) \in Nat /\ Len(s) > 0 /\ BatchMax \in Nat \ {0}
    BY <1>1, TaskAssumption DEF Size
  <2>2. BatchLen(q) = IF Len(s) < BatchMax THEN Len(s) ELSE BatchMax
    BY <2>1 DEF BatchLen
  <2> QED  BY <2>1, <2>2
<1>3. PICK r : r = Erase(ring[q], n)
  OBVIOUS
<1>4. /\ r \in Ring(0 .. MaxTasks) /\ RingSize(r) = Len(s) - n
      /\ \A i \in 1 .. Len(s) - n : Contents(r)[i] = s[n + i]
  <2>1. ring[q] \in Ring(0 .. MaxTasks) /\ RingSize(ring[q]) = Len(s)
    BY <1>1, QueueContents DEF TaskInv, Rings, Size
  <2>2. Zero \in 0 .. MaxTasks /\ n \in 1 .. RingSize(ring[q])
    BY <2>1, QueueNumbers DEF TaskInv, Zero
  <2>3. /\ Erase(ring[q], n) \in Ring(0 .. MaxTasks)
        /\ RingSize(Erase(ring[q], n)) = RingSize(ring[q]) - n
        /\ \A i \in 1 .. RingSize(ring[q]) - n :
             Contents(Erase(ring[q], n))[i] = Contents(ring[q])[n + i]
    BY <2>1, <2>2, EraseDrops, Zenon
  <2> QED  BY <1>1, <1>3, <2>1, <2>3
<1>5. PICK b \in Seq(Tasks) : /\ b = SubSeq(s, 1, n) /\ Len(b) = n
                              /\ \A i \in 1 .. n : b[i] = s[i]
  <2>1. SubSeq(s, 1, n) \in Seq(Nat) /\ Len(SubSeq(s, 1, n)) = n
        /\ \A i \in 1 .. n : SubSeq(s, 1, n)[i] = s[i]
    OBVIOUS
  <2>2. PICK b \in Seq(Nat) : b = SubSeq(s, 1, n) /\ Len(b) = n /\ \A i \in 1 .. n : b[i] = s[i]
    BY <2>1
  <2>3. \A i \in 1 .. Len(b) : b[i] \in Tasks
    BY <1>1, <2>2
  <2>4. b \in Seq(Tasks)
    BY <2>2, <2>3
  <2> QED  BY <2>2, <2>4
<1>6. /\ ring' = [ring EXCEPT ![q] = r] /\ batch' = [batch EXCEPT ![w] = b]
      /\ ring' \in [Threads -> Rings] /\ batch' \in [Threads -> Seq(Tasks)]
      /\ ring'[q] = r /\ batch'[w] = b
      /\ \A p \in Threads : p # q => ring'[p] = ring[p]
      /\ \A v \in Threads : v # w => batch'[v] = batch[v]
  BY <1>1, <1>2, <1>3, <1>4, <1>5 DEF TaskInv, Types, Rings, Take, Erased
<1>7. PICK u \in Seq(Nat) : /\ u = Contents(r) /\ Len(u) = Len(s) - n
                            /\ \A i \in 1 .. Len(s) - n : u[i] = s[n + i]
  <2>1. Contents(r) \in Seq(0 .. MaxTasks) /\ Len(Contents(r)) = RingSize(r)
    BY <1>4, ContentsInOrder
  <2>2. Contents(r) \in Seq(Nat)
    BY <2>1, SeqOfNumbers, QueueNumbers DEF TaskInv
  <2> QED  BY <1>4, <2>1, <2>2
<1>8. b \in Seq(Nat)
  BY <1>5 DEF Tasks
<1>9. /\ Increasing(b) /\ Increasing(u)
      /\ Elements(s) = Elements(u) \union Elements(b)
      /\ \A t \in Elements(u) : t \notin Elements(b)
  <2>1. CutAt(n, s, b, u) /\ Increasing(s)
    BY <1>1, <1>5, <1>7, <1>8 DEF CutAt
  <2> QED  BY <2>1, CutInTwo, Zenon
<1>10. /\ ContentsOf(q) = Elements(s) /\ ContentsOf(q)' = Elements(u)
       /\ BatchOf(w)' = Elements(b)
  <2>1. ContentsOf(q) = Elements(s)
    BY <1>1 DEF ContentsOf, Elements, Size
  <2>2. RingSize(ring'[q]) = Len(u) /\ Contents(ring'[q]) = u
    BY <1>4, <1>6, <1>7
  <2>3. ContentsOf(q)' = Elements(u)
    BY <2>2 DEF ContentsOf, Elements
  <2>4. BatchOf(w)' = Elements(b)
    BY <1>6 DEF BatchOf, Elements
  <2> QED  BY <2>1, <2>3, <2>4
<1>11. Size(q)' <= Size(q) /\ b # <<>>
  <2>1. Size(q)' = Len(s) - n
    BY <1>4, <1>6 DEF Size
  <2> QED  BY <1>1, <1>2, <1>5, <2>1
<1> QED  BY <1>6, <1>7, <1>9, <1>10, <1>11

\* A batch changes hands: from the queue to the thread, under the queue's mutex.
LEMMA TakeStep ==
  ASSUME TaskInv, NEW w \in Threads, NEW q \in Threads, WorkerIn(w, q), Take(w, q),
         Size(q) > 0, UNCHANGED <<done, mainVars, runs>>
  PROVE  TaskInv'
<1>1. /\ UNCHANGED <<done, ppc, pi, index, runs, wi>>
      /\ wpc' = [wpc EXCEPT ![w] = "run"] /\ held' = held \ {q}
      /\ wpc[w] \in {"tryPop", "pop"}
  BY DEF Take, mainVars, WorkerIn
<1>2. /\ ring' \in [Threads -> Rings] /\ batch' \in [Threads -> Seq(Tasks)]
      /\ batch'[w] # <<>>
      /\ \A p \in Threads : p # q => ring'[p] = ring[p]
      /\ \A v \in Threads : v # w => batch'[v] = batch[v]
      /\ Size(q)' <= Size(q)
      /\ ContentsOf(q) = ContentsOf(q)' \union BatchOf(w)'
      /\ \A t \in ContentsOf(q)' : t \notin BatchOf(w)'
      /\ Increasing(Contents(ring'[q])) /\ Increasing(batch'[w])
  BY TakeEffect
<1>3. Types'
  BY <1>1, <1>2 DEF TaskInv, Types
<1>4. wpc'[w] = "run" /\ \A v \in Threads : v # w => wpc'[v] = wpc[v]
  BY <1>1 DEF TaskInv, Types
<1>5. Positions'
  BY <1>1, <1>2, <1>4 DEF TaskInv, Positions, NumIt
<1>6. /\ \A v, p \in Threads : v # w => UNCHANGED WorkerIn(v, p)
      /\ \A p \in Threads : UNCHANGED SubmitterIn(p) /\ ~WorkerIn(w, p)'
  BY <1>1, <1>4 DEF WorkerIn, SubmitterIn, Queue, Target
<1>7. Exclusion'
  BY <1>1, <1>6 DEF TaskInv, Exclusion
<1>8. /\ \A p \in Threads : p # q => ContentsOf(p)' = ContentsOf(p) /\ Size(p)' = Size(p)
      /\ \A v \in Threads : v # w => BatchOf(v)' = BatchOf(v)
      /\ Pushed' = Pushed
  BY <1>1, <1>2 DEF ContentsOf, BatchOf, Size, Pushed
<1>9. Places'
  <2>1. \A p \in Threads : Size(p)' <= Pushed'
    <3>1. Size(q)' \in Int /\ Size(q) \in Int /\ Pushed \in Int
      <4>1. Size(q) \in Nat
        BY QueueContents DEF TaskInv
      <4>2. Size(q)' \in Nat
        <5>1. ring'[q] \in Ring(0 .. MaxTasks)
          BY <1>2 DEF Rings
        <5>2. RingSize(ring'[q]) \in 0 .. ring'[q].cap - 1
          BY <5>1, ContentsInOrder
        <5> QED  BY <5>2 DEF Size
      <4> QED  BY <4>1, <4>2, QueueNumbers DEF TaskInv, Types, Pushed
    <3> QED  BY <1>2, <1>8, <3>1 DEF TaskInv, Places
  <2>2. /\ \A p \in Threads : ContentsOf(p)' \subseteq ContentsOf(p)
        /\ \A v \in Threads : v # w => BatchOf(v)' = BatchOf(v)
        /\ BatchOf(w)' \subseteq ContentsOf(q)
    BY <1>2, <1>8
  <2>3. \A p, r \in Threads : \A t \in ContentsOf(p)' : t \in ContentsOf(r)' => p = r
    BY <2>2 DEF TaskInv, Places
  <2>4. \A u, v \in Threads : \A t \in BatchOf(u)' : t \in BatchOf(v)' => u = v
    BY <2>2 DEF TaskInv, Places
  <2>5. \A p, v \in Threads : \A t \in ContentsOf(p)' : t \notin BatchOf(v)'
    BY <1>2, <2>2 DEF TaskInv, Places
  <2>6. \A p \in Threads : \A t \in ContentsOf(p)' \union BatchOf(p)' :
          t \in 1 .. Pushed' /\ runs'[t] = 0
    BY <1>1, <1>8, <2>2 DEF TaskInv, Places
  <2>7. \A t \in Tasks : runs'[t] # 0 => t <= Pushed'
    BY <1>1, <1>8 DEF TaskInv, Places
  <2> QED  BY <2>1, <2>3, <2>4, <2>5, <2>6, <2>7 DEF Places
<1>10. OrderKept'
  BY <1>2 DEF TaskInv, OrderKept
<1>11. NoSleepOverWork'
  <2>1. UNCHANGED Target(pi)
    BY <1>1 DEF Target
  <2>2. \A v \in Threads : Size(v)' > 0 => Size(v) > 0
    BY <1>8
  <2> QED  BY <1>1, <1>4, <2>1, <2>2 DEF TaskInv, NoSleepOverWork, Size
<1> QED  BY <1>3, <1>5, <1>7, <1>9, <1>10, <1>11 DEF TaskInv

\* A task is executed: it was executed never before, and is in no place any more.
LEMMA RunStep ==
  ASSUME TaskInv, NEW w \in Threads, Run(w)
  PROVE  TaskInv' /\ \E t \in BatchOf(w) : /\ runs' = [runs EXCEPT ![t] = 1] /\ runs[t] = 0
                                           /\ BatchOf(w)' = BatchOf(w) \ {t}
<1>1. PICK b \in Seq(Tasks) : b = batch[w] /\ b # <<>> /\ Increasing(b)
  BY DEF TaskInv, Types, Positions, OrderKept, Run
<1>2. PICK t \in Tasks : t = Head(b) /\ t = b[1]
  BY <1>1
<1>3. PICK n \in Nat \ {0} : n = Len(b) /\ \A i \in 1 .. n : b[i] \in Tasks
  BY <1>1
<1>4. PICK c \in Seq(Tasks) : /\ c = Tail(b) /\ Len(c) = n - 1
                              /\ \A i \in 1 .. n - 1 : c[i] = b[i + 1]
                              /\ c = <<>> <=> Len(c) = 0
  <2>1. Tail(b) \in Seq(Tasks) /\ Len(Tail(b)) = n - 1
    BY <1>1, <1>3
  <2>2. \A i \in 1 .. n - 1 : Tail(b)[i] = b[i + 1]
    BY <1>1, <1>3
  <2>3. ASSUME NEW c \in Seq(Tasks)
        PROVE  c = <<>> <=> Len(c) = 0
    OBVIOUS
  <2>4. PICK c \in Seq(Tasks) : c = Tail(b)
    BY <2>1
  <2> QED  BY <2>1, <2>2, <2>3, <2>4
<1>5. /\ UNCHANGED <<ring, done, held, ppc, pi, index>>
      /\ batch' = [batch EXCEPT ![w] = c] /\ wpc[w] = "run"
      /\ runs' = [runs EXCEPT ![t] = runs[t] + 1]
      /\ \/ n > 1 /\ UNCHANGED <<wpc, wi>>
         \/ /\ n = 1 /\ wpc' = [wpc EXCEPT ![w] = "search"] /\ wi' = [wi EXCEPT ![w] = w]
  BY <1>1, <1>2, <1>3, <1>4 DEF Run, queueVars, mainVars
<1>6. t \in BatchOf(w) /\ runs[t] = 0 /\ t \in 1 .. Pushed
  <2>1. t \in BatchOf(w)
    BY <1>1, <1>2, <1>3 DEF BatchOf
  <2> QED  BY <2>1 DEF TaskInv, Places
<1>7. /\ batch'[w] = c /\ \A v \in Threads : v # w => batch'[v] = batch[v]
      /\ batch' \in [Threads -> Seq(Tasks)]
  BY <1>4, <1>5 DEF TaskInv, Types
<1>8. BatchOf(w)' = BatchOf(w) \ {t} /\ Increasing(c)
  <2>1. BatchOf(w) = {b[i] : i \in 1 .. n} /\ BatchOf(w)' = {c[i] : i \in 1 .. n - 1}
    BY <1>1, <1>3, <1>4, <1>7 DEF BatchOf
  <2>2. \A i, j \in 1 .. n : i < j => b[i] < b[j]
    BY <1>1, <1>3 DEF Increasing
  <2>3. ASSUME NEW i \in 1 .. n - 1
        PROVE  c[i] \in {b[j] : j \in 1 .. n} /\ c[i] # t
    <3>1. i + 1 \in 1 .. n /\ 1 \in 1 .. n /\ 1 < i + 1
      BY <1>3
    <3>2. b[1] < b[i + 1] /\ b[1] \in Nat /\ b[i + 1] \in Nat
      BY <1>3, <2>2, <3>1 DEF Tasks
    <3> QED  BY <1>2, <1>4, <3>1, <3>2
  <2>4. ASSUME NEW j \in 1 .. n, b[j] # t
        PROVE  b[j] \in {c[i] : i \in 1 .. n - 1}
    <3>1. PICK i \in 1 .. n - 1 : j = i + 1
      BY <1>2, <1>3, <2>4
    <3> QED  BY <1>4, <3>1
  <2>5. Increasing(c)
    <3>1. ASSUME NEW i \in 1 .. Len(c), NEW j \in 1 .. Len(c), i < j
          PROVE  c[i] < c[j]
      <4>1. i + 1 \in 1 .. n /\ j + 1 \in 1 .. n /\ i + 1 < j + 1
        BY <1>3, <1>4, <3>1
      <4>2. b[i + 1] < b[j + 1]
        BY <2>2, <4>1
      <4> QED  BY <1>3, <1>4, <4>2
    <3> QED  BY <3>1 DEF Increasing
  <2> QED  BY <2>1, <2>3, <2>4, <2>5
<1>9. Types'
  <2>1. w \in Nat /\ runs[t] + 1 = 1
    BY <1>6, QueueNumbers DEF TaskInv, Threads
  <2>2. runs' \in [Tasks -> Nat] /\ wi' \in [Threads -> Nat]
    <3>1. runs' = [runs EXCEPT ![t] = 1]
      BY <1>5, <2>1
    <3>2. wi' = wi \/ wi' = [wi EXCEPT ![w] = w]
      BY <1>5
    <3> QED  BY <1>2, <2>1, <3>1, <3>2 DEF TaskInv, Types
  <2> QED  BY <1>5, <1>7, <2>2 DEF TaskInv, Types
<1>10. \A v \in Threads : v # w => wpc'[v] = wpc[v] /\ wi'[v] = wi[v]
  BY <1>5 DEF TaskInv, Types
<1>11. Positions'
  <2>2. NumIt(w) > w /\ w \in Nat /\ NumIt(w) \in Nat
    <3>1. w \in Nat
      BY QueueNumbers DEF TaskInv, Threads
    <3> QED  BY <3>1, QueueNumbers DEF TaskInv
  <2>3. /\ wpc'[w] = "run" <=> c # <<>>
        /\ wpc'[w] = "run" => wi'[w] = wi[w]
        /\ wpc'[w] # "run" => wpc'[w] = "search" /\ wi'[w] = w
    <3>1. /\ wpc \in [Threads -> {"search", "tryPop", "lock", "pop", "wait", "run", "exit"}]
          /\ wi \in [Threads -> Nat]
      BY DEF TaskInv, Types
    <3>2. CASE n > 1
      BY <1>4, <1>5, <3>2
    <3>3. CASE n = 1
      BY <1>4, <1>5, <3>1, <3>3
    <3> QED  BY <1>3, <3>2, <3>3
  <2>4. /\ wi'[w] \in w .. NumIt(w)
        /\ wpc'[w] \in {"search", "tryPop"} => wi'[w] < NumIt(w)
    BY <2>2, <2>3 DEF TaskInv, Positions
  <2> QED  BY <1>5, <1>7, <1>10, <2>3, <2>4 DEF TaskInv, Positions, NumIt
<1>12. /\ \A v, q \in Threads : v # w => UNCHANGED WorkerIn(v, q)
       /\ \A q \in Threads : UNCHANGED SubmitterIn(q) /\ ~WorkerIn(w, q)'
  BY <1>5, <1>10 DEF WorkerIn, SubmitterIn, Queue, Target, TaskInv, Types
<1>13. Exclusion'
  BY <1>5, <1>12 DEF TaskInv, Exclusion
<1>14. /\ \A q \in Threads : ContentsOf(q)' = ContentsOf(q) /\ Size(q)' = Size(q)
       /\ \A v \in Threads : v # w => BatchOf(v)' = BatchOf(v)
       /\ Pushed' = Pushed
  BY <1>5, <1>7 DEF ContentsOf, BatchOf, Size, Pushed
<1>15. Places'
  <2>1. \A s \in Tasks : s # t => runs'[s] = runs[s]
    BY <1>5 DEF TaskInv, Types
  <2>2. \A q \in Threads : t \notin ContentsOf(q)' /\ t \notin BatchOf(q)'
    BY <1>6, <1>8, <1>14 DEF TaskInv, Places
  <2>3. \A q \in Threads : \A s \in ContentsOf(q)' \union BatchOf(q)' :
          s \in 1 .. Pushed' /\ runs'[s] = 0
    <3>1. ASSUME NEW q \in Threads, NEW s \in ContentsOf(q)' \union BatchOf(q)'
          PROVE  s \in 1 .. Pushed' /\ runs'[s] = 0
      <4>1. s \in 1 .. Pushed /\ runs[s] = 0 /\ s # t
        BY <1>8, <1>14, <2>2 DEF TaskInv, Places
      <4>2. s \in Tasks
        <5>1. index \in 0 .. MaxTasks /\ Pushed \in Int /\ Pushed <= index /\ MaxTasks \in Nat
          BY QueueNumbers DEF TaskInv, Types, Pushed
        <5> QED  BY <4>1, <5>1 DEF Tasks
      <4> QED  BY <1>14, <2>1, <4>1, <4>2
    <3> QED  BY <3>1
  <2>4. \A s \in Tasks : runs'[s] # 0 => s <= Pushed'
    BY <1>6, <1>14, <2>1 DEF TaskInv, Places
  <2>5. /\ \A q \in Threads : Size(q)' <= Pushed'
        /\ \A q, r \in Threads : \A s \in ContentsOf(q)' : s \in ContentsOf(r)' => q = r
        /\ \A u, v \in Threads : \A s \in BatchOf(u)' : s \in BatchOf(v)' => u = v
        /\ \A q, v \in Threads : \A s \in ContentsOf(q)' : s \notin BatchOf(v)'
    BY <1>8, <1>14 DEF TaskInv, Places
  <2> QED  BY <2>3, <2>4, <2>5 DEF Places
<1>16. OrderKept'
  BY <1>5, <1>7, <1>8 DEF TaskInv, OrderKept
<1>17. NoSleepOverWork'
  BY <1>5, <1>10 DEF TaskInv, Types, NoSleepOverWork, Target
<1>18. runs' = [runs EXCEPT ![t] = 1]
  BY <1>5, <1>6
<1> QED  BY <1>6, <1>8, <1>9, <1>11, <1>13, <1>15, <1>16, <1>17, <1>18 DEF TaskInv

-----------------------------------------------------------------------------
(* The invariant.                                                          *)

\* The invariant holds initially.
LEMMA InitInvariant ==
  ASSUME Init
  PROVE  TaskInv
<1>1. /\ NumThreads \in Nat \ {0} /\ Rounds \in Nat \ {0} /\ MaxTasks \in Nat
      /\ FirstPos \in 0 .. IdxMod - 1 /\ Zero \in 0 .. MaxTasks
  BY TaskAssumption, RingAssumption DEF Zero
<1>2. PICK r \in Ring(0 .. MaxTasks) : /\ r = RingAt(FirstPos)
                                       /\ RingSize(r) = 0 /\ Contents(r) = <<>>
  BY <1>1, NewRingIsEmpty
<1>3. /\ ring = [q \in Threads |-> r] /\ done = [q \in Threads |-> FALSE] /\ held = {}
      /\ ppc = "idle" /\ pi = 0 /\ index = 0
      /\ wpc = [w \in Threads |-> "search"] /\ wi = [w \in Threads |-> w]
      /\ batch = [w \in Threads |-> <<>>] /\ runs = [t \in Tasks |-> 0]
  BY <1>2 DEF Init
<1>4. \A w \in Threads : w \in Nat
  BY <1>1 DEF Threads
<1>5. Types
  <2>1. 0 \in Threads /\ 0 \in 0 .. MaxTasks
    BY <1>1 DEF Threads
  <2>2. wi \in [Threads -> Nat]
    BY <1>3, <1>4
  <2> QED  BY <1>2, <1>3, <2>1, <2>2 DEF Types, Rings
<1>6. Positions
  <2>1. \A w \in Threads : NumIt(w) \in Nat /\ NumIt(w) > w
    BY <1>5, QueueNumbers
  <2>2. \A w \in Threads : w \in w .. NumIt(w) /\ w < NumIt(w)
    BY <1>4, <2>1
  <2> QED  BY <1>3, <2>2 DEF Positions
<1>7. Exclusion
  BY <1>3 DEF Exclusion, SubmitterIn, WorkerIn
<1>8. \A q \in Threads : ContentsOf(q) = {} /\ BatchOf(q) = {} /\ Size(q) = 0
  BY <1>2, <1>3 DEF ContentsOf, BatchOf, Size
<1>9. Places
  BY <1>3, <1>8 DEF Places, Pushed
<1>10. OrderKept
  BY <1>2, <1>3 DEF OrderKept, Increasing
<1>11. NoSleepOverWork
  BY <1>3 DEF NoSleepOverWork
<1> QED  BY <1>5, <1>6, <1>7, <1>9, <1>10, <1>11 DEF TaskInv

\* Every step keeps the invariant.
LEMMA NextInvariant ==
  ASSUME TaskInv, [Next]_vars
  PROVE  TaskInv'
<1>1. CASE Async
  BY <1>1, AsyncStep
<1>2. CASE MainStep \/ Free
  BY <1>2, LockToPushStep, PushStep, SignalStep, StopStep DEF MainStep
<1>3. ASSUME NEW w \in Threads, WorkerStep(w) \/ SpuriousWakeup(w)
      PROVE  TaskInv'
  <2>1. CASE TryLock(w) \/ Lock(w)
    BY <2>1, LockStep
  <2>2. CASE TryPop(w)
    <3>1. Queue(w) \in Threads /\ WorkerIn(w, Queue(w))
      BY <2>2, QueueNumbers DEF TaskInv, TryPop, WorkerIn
    <3>2. CASE Size(Queue(w)) = 0
      BY <2>2, <3>2, UnlockStep
    <3>3. CASE Size(Queue(w)) # 0
      BY <2>2, <3>1, <3>3, TakeStep DEF TryPop, Size
    <3> QED  BY <3>2, <3>3
  <2>3. CASE Pop(w)
    <3>1. WorkerIn(w, w)
      BY <2>3 DEF Pop, WorkerIn
    <3>2. CASE done[w] \/ Size(w) = 0
      BY <2>3, <3>2, UnlockStep
    <3>3. CASE ~(done[w] \/ Size(w) = 0)
      BY <2>3, <3>1, <3>3, TakeStep DEF Pop, Size
    <3> QED  BY <3>2, <3>3
  <2>4. CASE Run(w)
    BY <2>4, RunStep
  <2>5. CASE SpuriousWakeup(w)
    BY <2>5, UnlockStep
  <2> QED  BY <1>3, <2>1, <2>2, <2>3, <2>4, <2>5 DEF WorkerStep
<1>4. CASE UNCHANGED vars
  <2>1. /\ UNCHANGED <<ring, done, held, ppc, pi, index, wpc, wi, batch, runs>>
    BY <1>4 DEF vars, queueVars, mainVars
  <2>2. UNCHANGED <<Types, Positions, NoSleepOverWork>>
    BY <2>1 DEF Types, Positions, NumIt, NoSleepOverWork, Target
  <2>3. UNCHANGED Exclusion
    BY <2>1 DEF Exclusion, SubmitterIn, WorkerIn, Queue, Target
  <2>4. UNCHANGED Pushed
    BY <2>1 DEF Pushed
  <2> QED  BY <2>1, <2>2, <2>3, <2>4, QuietPlaces DEF TaskInv
<1> QED  BY <1>1, <1>2, <1>3, <1>4 DEF Next

\* Who holds which mutex, where each task is, and what each thread may sleep over.
THEOREM TaskInvariant == Spec => []TaskInv
<1>1. Init => TaskInv
  BY InitInvariant
<1>2. TaskInv /\ [Next]_vars => TaskInv'
  BY NextInvariant
<1> QED  BY <1>1, <1>2, PTL DEF Spec

\* The rings are never over-full and their counters stay in their width.
THEOREM TypeCorrect == Spec => []TypeOK
<1>1. TaskInv => TypeOK
  <2> SUFFICES ASSUME TaskInv PROVE TypeOK
    OBVIOUS
  <2>1. ASSUME NEW q \in Threads
        PROVE  /\ ring[q].cap \in 1 .. IdxMod
               /\ {ring[q].head, ring[q].tail} \subseteq 0 .. IdxMod - 1
               /\ ring[q].array \in [0 .. ring[q].cap - 1 -> 0 .. MaxTasks]
               /\ RingSize(ring[q]) < ring[q].cap
    <3>1. ring[q] \in Ring(0 .. MaxTasks)
      BY QueueContents DEF TaskInv, Rings
    <3> QED  BY <3>1 DEF Ring
  <2> QED  BY <2>1 DEF TaskInv, Types, Positions, TypeOK
<1> QED  BY <1>1, TaskInvariant, PTL

\* Tasks keep the order they were submitted in, in every queue and in every batch,
\* whatever wraps around, is enlarged or is stolen.
THEOREM TasksInOrder == Spec => []OrderKept
<1>1. TaskInv => OrderKept
  BY DEF TaskInv
<1> QED  BY <1>1, TaskInvariant, PTL

\* No thread sleeps on a queue with a task, or on a queue that was stopped, unless the
\* signal is still to come.
THEOREM NoLostWakeup == Spec => []NoSleepOverWork
<1>1. TaskInv => NoSleepOverWork
  BY DEF TaskInv
<1> QED  BY <1>1, TaskInvariant, PTL

-----------------------------------------------------------------------------
(* The task manager implements the pool.                                   *)

Waiting == InHand \union UNION {ContentsOf(q) \union BatchOf(q) : q \in Threads}
Executed == {t \in Tasks : runs[t] = 1}
Open == \A q \in Threads : ~done[q]

\* Steps that move no task, and stop no queue.
LEMMA PoolStutters ==
  ASSUME UNCHANGED <<ring, done, batch, runs>>, UNCHANGED InHand
  PROVE  UNCHANGED <<Waiting, Executed, Open>>
<1>1. \A q : UNCHANGED <<ContentsOf(q), BatchOf(q)>>
  BY DEF ContentsOf, BatchOf
<1> QED  BY <1>1 DEF Waiting, Executed, Open

\* A push of a task already accepted is a stutter of the abstract pool.
LEMMA PushStutters ==
  ASSUME TaskInv, Push
  PROVE  UNCHANGED <<Waiting, Executed, Open>>
<1>1. PICK q \in Threads :
        /\ ContentsOf(q)' = ContentsOf(q) \union {index}
        /\ \A p \in Threads : p # q => ContentsOf(p)' = ContentsOf(p)
        /\ \A w \in Threads : BatchOf(w)' = BatchOf(w)
  BY PushStep
<1>2. InHand = {index} /\ InHand' = {} /\ UNCHANGED <<done, runs>>
  BY DEF Push, InHand
<1>3. \A t : t \in Waiting <=> \/ t \in InHand
                               \/ \E p \in Threads : t \in ContentsOf(p) \/ t \in BatchOf(p)
  BY DEF Waiting
<1>4. \A t : t \in Waiting' <=> \/ t \in InHand'
                                \/ \E p \in Threads : t \in ContentsOf(p)' \/ t \in BatchOf(p)'
  BY DEF Waiting
<1>5. \A t : t \in Waiting' <=> t \in Waiting
  BY <1>1, <1>2, <1>3, <1>4
<1>6. Waiting' = Waiting
  BY <1>5
<1> QED  BY <1>2, <1>6 DEF Executed, Open

\* A worker that takes tasks from a queue is a stutter of the abstract pool.
LEMMA TakeStutters ==
  ASSUME TaskInv, NEW w \in Threads, NEW q \in Threads, WorkerIn(w, q), Take(w, q),
         Size(q) > 0, UNCHANGED <<done, mainVars, runs>>
  PROVE  UNCHANGED <<Waiting, Executed, Open>>
<1>1. /\ \A p \in Threads : p # q => ContentsOf(p)' = ContentsOf(p)
      /\ \A v \in Threads : v # w => BatchOf(v)' = BatchOf(v)
      /\ ContentsOf(q) = ContentsOf(q)' \union BatchOf(w)'
  <2>1. /\ \A p \in Threads : p # q => ring'[p] = ring[p]
        /\ \A v \in Threads : v # w => batch'[v] = batch[v]
        /\ ContentsOf(q) = ContentsOf(q)' \union BatchOf(w)'
    BY TakeEffect
  <2> QED  BY <2>1 DEF ContentsOf, BatchOf
<1>2. BatchOf(w) = {}
  <2>1. batch[w] = <<>>
    BY DEF TaskInv, Positions, WorkerIn
  <2> QED  BY <2>1 DEF BatchOf
<1>3. UNCHANGED <<InHand, Executed, Open>>
  BY DEF InHand, Executed, Open, mainVars
<1>4. \A t : t \in Waiting <=> \/ t \in InHand
                               \/ \E p \in Threads : t \in ContentsOf(p) \/ t \in BatchOf(p)
  BY DEF Waiting
<1>5. \A t : t \in Waiting' <=> \/ t \in InHand'
                                \/ \E p \in Threads : t \in ContentsOf(p)' \/ t \in BatchOf(p)'
  BY DEF Waiting
<1>6. \A t : t \in Waiting' <=> t \in Waiting
  BY <1>1, <1>2, <1>3, <1>4, <1>5
<1>7. Waiting' = Waiting
  BY <1>6
<1> QED  BY <1>3, <1>7

\* Async submits the next task.
LEMMA AsyncSubmits ==
  ASSUME TaskInv, Async
  PROVE  /\ Open /\ index + 1 \in Tasks /\ index + 1 \notin Waiting \union Executed
         /\ Waiting' = Waiting \union {index + 1} /\ UNCHANGED <<Executed, Open>>
<1>1. /\ ppc = "idle" /\ ppc' = "try" /\ index' = index + 1 /\ index < MaxTasks
      /\ UNCHANGED <<ring, done, batch, runs>>
      /\ index \in Nat /\ MaxTasks \in Nat
  BY QueueNumbers DEF Async, queueVars, TaskInv, Types
<1>2. InHand = {} /\ InHand' = {index + 1} /\ Pushed = index
  BY <1>1 DEF InHand, Pushed
<1>3. Open /\ index + 1 \in Tasks
  BY <1>1 DEF TaskInv, Positions, Open, Tasks
<1>4. \A q \in Threads : index + 1 \notin ContentsOf(q) /\ index + 1 \notin BatchOf(q)
  BY <1>1, <1>2 DEF TaskInv, Places
<1>5. index + 1 \notin Executed
  BY <1>1, <1>2 DEF TaskInv, Places, Executed
<1>6. \A q : UNCHANGED <<ContentsOf(q), BatchOf(q)>>
  BY <1>1 DEF ContentsOf, BatchOf
<1> QED  BY <1>1, <1>2, <1>3, <1>4, <1>5, <1>6 DEF Waiting, Executed, Open

\* Run executes a task that waits; no other place holds it.
LEMMA RunExecutes ==
  ASSUME TaskInv, NEW w \in Threads, Run(w)
  PROVE  \E t \in Tasks : /\ t \in Waiting /\ Waiting' = Waiting \ {t}
                          /\ Executed' = Executed \union {t} /\ UNCHANGED Open
<1>1. PICK t \in BatchOf(w) : /\ runs' = [runs EXCEPT ![t] = 1] /\ runs[t] = 0
                              /\ BatchOf(w)' = BatchOf(w) \ {t}
  BY RunStep
<1>2. /\ UNCHANGED <<ring, done, ppc, index>>
      /\ \A v \in Threads : v # w => batch'[v] = batch[v]
  BY DEF Run, queueVars, mainVars, TaskInv, Types
<1>3. /\ \A q \in Threads : ContentsOf(q)' = ContentsOf(q)
      /\ \A v \in Threads : v # w => BatchOf(v)' = BatchOf(v)
      /\ UNCHANGED <<InHand, Open>>
  BY <1>2 DEF ContentsOf, BatchOf, InHand, Open
<1>4. t \in Tasks /\ t \notin InHand
  <2>1. t \in 1 .. Pushed
    BY DEF TaskInv, Places
  <2>2. index \in 0 .. MaxTasks /\ MaxTasks \in Nat
    BY QueueNumbers DEF TaskInv, Types
  <2> QED  BY <2>1, <2>2 DEF Pushed, InHand, Tasks
<1>5. /\ \A q \in Threads : t \notin ContentsOf(q)
      /\ \A v \in Threads : v # w => t \notin BatchOf(v)
  BY DEF TaskInv, Places
<1>6. Executed' = Executed \union {t}
  BY <1>1, <1>4 DEF Executed, TaskInv, Types
<1>7. \A s : s \in Waiting <=> \/ s \in InHand
                               \/ \E p \in Threads : s \in ContentsOf(p) \/ s \in BatchOf(p)
  BY DEF Waiting
<1>8. \A s : s \in Waiting' <=> \/ s \in InHand'
                                \/ \E p \in Threads : s \in ContentsOf(p)' \/ s \in BatchOf(p)'
  BY DEF Waiting
<1>9. \A s : s \in Waiting' <=> s \in Waiting /\ s # t
  BY <1>1, <1>3, <1>4, <1>5, <1>7, <1>8
<1>10. Waiting' = Waiting \ {t} /\ t \in Waiting
  BY <1>7, <1>9
<1> QED  BY <1>3, <1>4, <1>6, <1>10

\* Every step of the task manager is a step of the pool, or changes nothing of it.
LEMMA PoolStep ==
  ASSUME TaskInv, [Next]_vars
  PROVE  \/ UNCHANGED <<Waiting, Executed, Open>>
         \/ \E t \in Tasks : /\ Open /\ t \notin Waiting \union Executed
                             /\ Waiting' = Waiting \union {t} /\ UNCHANGED <<Executed, Open>>
         \/ \E t \in Tasks : /\ t \in Waiting /\ Waiting' = Waiting \ {t}
                             /\ Executed' = Executed \union {t} /\ UNCHANGED Open
         \/ Open /\ Open' = FALSE /\ UNCHANGED <<Waiting, Executed>>
<1> DEFINE Goal == \/ UNCHANGED <<Waiting, Executed, Open>>
                   \/ \E t \in Tasks : /\ Open /\ t \notin Waiting \union Executed
                                       /\ Waiting' = Waiting \union {t}
                                       /\ UNCHANGED <<Executed, Open>>
                   \/ \E t \in Tasks : /\ t \in Waiting /\ Waiting' = Waiting \ {t}
                                       /\ Executed' = Executed \union {t} /\ UNCHANGED Open
                   \/ Open /\ Open' = FALSE /\ UNCHANGED <<Waiting, Executed>>
<1>1. CASE Async
  BY <1>1, AsyncSubmits
<1>2. CASE Push
  BY <1>2, PushStutters
<1>3. CASE Free \/ TryPush \/ PushLock \/ PushSignal \/ DoneLock \/ DoneSignal \/ Join
  <2>1. UNCHANGED <<ring, done, batch, runs>> /\ UNCHANGED InHand
    BY <1>3 DEF Free, TryPush, PushLock, PushSignal, DoneLock, DoneSignal, Join, queueVars, InHand
  <2> QED  BY <2>1, PoolStutters
<1>4. CASE DoneSet
  <2>1. /\ done' = [done EXCEPT ![pi] = TRUE] /\ UNCHANGED <<ring, batch, runs>>
        /\ InHand' = InHand /\ pi \in Threads
    BY <1>4 DEF DoneSet, InHand, TaskInv, Types
  <2>2. done'[pi] = TRUE
    BY <2>1 DEF TaskInv, Types
  <2>3. \A q : UNCHANGED <<ContentsOf(q), BatchOf(q)>>
    BY <2>1 DEF ContentsOf, BatchOf
  <2>4. UNCHANGED <<Waiting, Executed>>
    BY <2>1, <2>3 DEF Waiting, Executed
  <2>5. Open' = FALSE /\ Open \in BOOLEAN
    BY <2>1, <2>2 DEF Open
  <2> QED  BY <2>4, <2>5
<1>5. ASSUME NEW w \in Threads, WorkerStep(w) \/ SpuriousWakeup(w)
      PROVE  Goal
  <2>1. CASE TryLock(w) \/ Lock(w) \/ SpuriousWakeup(w)
    <3>1. UNCHANGED <<ring, done, batch, runs>> /\ UNCHANGED InHand
      BY <2>1 DEF TryLock, Lock, SpuriousWakeup, queueVars, mainVars, InHand
    <3> QED  BY <3>1, PoolStutters
  <2>2. CASE TryPop(w)
    <3>1. Queue(w) \in Threads /\ WorkerIn(w, Queue(w))
      BY <2>2, QueueNumbers DEF TaskInv, TryPop, WorkerIn
    <3>2. CASE Size(Queue(w)) = 0
      <4>1. UNCHANGED <<ring, done, batch, runs>> /\ UNCHANGED InHand
        BY <2>2, <3>2 DEF TryPop, Size, mainVars, InHand
      <4> QED  BY <4>1, PoolStutters
    <3>3. CASE Size(Queue(w)) # 0
      <4>1. Take(w, Queue(w)) /\ Size(Queue(w)) > 0 /\ UNCHANGED <<done, mainVars, runs>>
        BY <2>2, <3>3 DEF TryPop, Size
      <4> QED  BY <3>1, <4>1, TakeStutters
    <3> QED  BY <3>2, <3>3
  <2>3. CASE Pop(w)
    <3>1. WorkerIn(w, w)
      BY <2>3 DEF Pop, WorkerIn
    <3>2. CASE done[w] \/ Size(w) = 0
      <4>1. UNCHANGED <<ring, done, batch, runs>> /\ UNCHANGED InHand
        BY <2>3, <3>2 DEF Pop, Size, mainVars, InHand
      <4> QED  BY <4>1, PoolStutters
    <3>3. CASE ~(done[w] \/ Size(w) = 0)
      <4>1. Take(w, w) /\ Size(w) > 0 /\ UNCHANGED <<done, mainVars, runs>>
        BY <2>3, <3>3 DEF Pop, Size
      <4> QED  BY <3>1, <4>1, TakeStutters
    <3> QED  BY <3>2, <3>3
  <2>4. CASE Run(w)
    BY <2>4, RunExecutes
  <2> QED  BY <1>5, <2>1, <2>2, <2>3, <2>4 DEF WorkerStep
<1>6. CASE UNCHANGED vars
  <2>1. UNCHANGED <<ring, done, batch, runs>> /\ UNCHANGED InHand
    BY <1>6 DEF vars, queueVars, mainVars, InHand
  <2> QED  BY <2>1, PoolStutters
<1> QED  BY <1>1, <1>2, <1>3, <1>4, <1>5, <1>6 DEF Next, MainStep

\* Every behaviour of the task manager is one of the pool: no task is lost, doubled or
\* invented, also while threads steal from each other.
THEOREM ImplementsPool == Spec => PoolSpec
<1>1. Init => Pool!Init
  <2> SUFFICES ASSUME Init PROVE Pool!Init
    OBVIOUS
  <2>1. /\ done = [q \in Threads |-> FALSE] /\ ppc = "idle" /\ runs = [t \in Tasks |-> 0]
        /\ batch = [w \in Threads |-> <<>>] /\ ring = [q \in Threads |-> RingAt(FirstPos)]
    BY DEF Init
  <2>2. RingSize(RingAt(FirstPos)) = 0
    <3>1. FirstPos \in 0 .. IdxMod - 1
      BY TaskAssumption
    <3>2. Zero \in {0}
      BY DEF Zero
    <3> QED  BY <3>1, <3>2, NewRingIsEmpty
  <2>3. \A q \in Threads : ContentsOf(q) = {} /\ BatchOf(q) = {}
    BY <2>1, <2>2 DEF ContentsOf, BatchOf
  <2>4. InHand = {}
    BY <2>1 DEF InHand
  <2> QED  BY <2>1, <2>3, <2>4 DEF Pool!Init
<1>2. TaskInv /\ [Next]_vars => [Pool!Next]_Pool!vars
  <2> SUFFICES ASSUME TaskInv, [Next]_vars PROVE [Pool!Next]_Pool!vars
    OBVIOUS
  <2> QED  BY PoolStep DEF Pool!Next, Pool!vars, Pool!Submit, Pool!Execute, Pool!Close,
                           Waiting, Executed, Open
<1> QED  BY <1>1, <1>2, TaskInvariant, PTL DEF Spec, PoolSpec, Pool!Spec
===============================================================================
