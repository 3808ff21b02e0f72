-------------------------------- MODULE SeqRing --------------------------------
(***************************************************************************)
(* The ring buffer of the task manager's queues (seq_ring_t in             *)
(* src/util/alg_ds/ds/task_man/task_manager.c).  head and tail are         *)
(* free-running 32 bit counters; a position is the counter masked with the *)
(* capacity, a power of two that doubles when the ring is full.            *)
(***************************************************************************)
EXTENDS Naturals, Sequences

CONSTANTS IdxMod,     \* number of values of a counter (2^32 in the code)
          DefaultElm  \* initial capacity, DEFAULT_ELM (32768 in the code)

\* Both are powers of two: the double of a divisor of IdxMod is a divisor again.
ASSUME RingAssumption ==
  /\ IdxMod \in Nat /\ DefaultElm \in Nat \ {0} /\ IdxMod > DefaultElm
  /\ IdxMod % DefaultElm = 0
  /\ \A c \in 1 .. IdxMod - 1 : IdxMod % c = 0 => IdxMod % (2 * c) = 0

Zero == 0   \* an array element that was never written, or was erased

\* A ring whose counters are at pos; the code starts it at 0.
RingAt(pos) == [array |-> [i \in 0 .. DefaultElm - 1 |-> Zero],
                cap |-> DefaultElm, head |-> pos, tail |-> pos]

Mask(r, v) == v % r.cap
RingSize(r) == (r.head + IdxMod - r.tail) % IdxMod
Full(r) == RingSize(r) = r.cap - 1
PosAt(r, i) == Mask(r, (r.tail + i) % IdxMod)

\* The elements from tail to head, in order.
Contents(r) == [i \in 1 .. RingSize(r) |-> r.array[PosAt(r, i - 1)]]

\* enlarge_buffer: copy [tail, head), which may wrap around the array's end.
EnlargeFirstPart(r) ==
  LET cap == 2 * r.cap
      tail == Mask(r, r.tail)
  IN  [array |-> [i \in 0 .. cap - 1 |-> IF i < r.cap - tail THEN r.array[tail + i] ELSE Zero],
       cap |-> cap, tail |-> 0, head |-> cap \div 2 - 1]

Enlarge(r) ==
  LET cap == 2 * r.cap
      head == Mask(r, r.head)
      tail == Mask(r, r.tail)
      wraps == head <= tail
      first == IF wraps THEN r.cap - tail ELSE head - tail
      second == IF wraps THEN head ELSE 0
  IN  [array |-> [i \in 0 .. cap - 1 |->
                    CASE i < first -> r.array[tail + i]
                      [] i \in first .. first + second - 1 -> r.array[i - first]
                      [] OTHER -> Zero],
       cap |-> cap, tail |-> 0, head |-> cap \div 2 - 1]

PushBack(r, elt) ==
  LET s == IF Full(r) THEN Enlarge(r) ELSE r
  IN  [s EXCEPT !.array[Mask(s, s.head)] = elt, !.head = (s.head + 1) % IdxMod]

\* Erase the n > 0 oldest elements: [tail, end), or [tail, cap) and [0, end).
Erase(r, n) ==
  LET start == Mask(r, r.tail)
      end == PosAt(r, n)
      gone(i) == IF end > start THEN i \in start .. end - 1 ELSE i >= start \/ i < end
      len == IF end > start THEN end - start ELSE r.cap - start + end
  IN  [r EXCEPT !.array = [i \in DOMAIN r.array |-> IF gone(i) THEN Zero ELSE r.array[i]],
                !.tail = (r.tail + len) % IdxMod]
===============================================================================
