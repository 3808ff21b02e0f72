------------------------------- MODULE Registry -------------------------------
(***************************************************************************)
(* The registry of the active procedures of an xApp (src/xApp/act_proc.c)  *)
(* and the container it stands on, src/util/alg_ds/ds/assoc_container/     *)
(* assoc_reg.c: an array of buckets in the order of keys that are handed   *)
(* out one after the other.  Erased buckets stay behind until the array is *)
(* compacted, shrunk or expanded, so a key is found by binary search.      *)
(* Every call holds act_proc_t.mtx: it is one step.                        *)
(***************************************************************************)
EXTENDS Integers, FiniteSets, Sequences

CONSTANTS MinSize,  \* MIN_SIZE, 16
          ReqIds,   \* 1 << 16: how many values a ric_req_id of 16 bits has
          LastKey   \* bound: keys handed out

ASSUME RegistryAssumption == MinSize \in Nat \ {0, 1} /\ {ReqIds, LastKey} \subseteq Nat

VARIABLES
  arr,        \* the occ_bucket first buckets: [key, live]
  sz, cap,    \* assoc_reg_t.sz and .cap
  keyId,      \* assoc_reg_t.key_id, the next key
  regFault    \* [why, id]: the assertion that failed, or "none"

regVars == <<arr, sz, cap, keyId, regFault>>

RegAbort(why, id) == regFault' = [why |-> why, id |-> id]

-----------------------------------------------------------------------------
(* The array.                                                              *)

\* copy_if and partition.
FirstOnes(a) == SubSeq(a, 1, Cardinality({i \in DOMAIN a : a[i].live}))
Live(a) == LET kept[i \in 0 .. Len(a)] == IF i = 0 THEN <<>>
                                           ELSE IF a[i].live THEN Append(kept[i - 1], a[i])
                                           ELSE kept[i - 1]
           IN  kept[Len(a)]

Positions == 1 .. Len(arr) + 1   \* the last one is assoc_reg_end

\* assoc_reg_front
FirstLive == CHOOSE i \in Positions : /\ i <= Len(arr) => arr[i].live
                                      /\ \A j \in 1 .. i - 1 : ~arr[j].live

\* lower_bound_reg: the first bucket from FirstLive on whose key is not smaller.
Ranges == {r \in (0 .. Len(arr)) \X (0 .. Len(arr)) : r[1] + r[2] <= Len(arr)}
LowerBound(key) ==
  LET search[r \in Ranges] ==   \* r = <<lower, len>>
        LET half == r[2] \div 2
        IN  IF r[2] = 0 THEN r[1]
            ELSE IF arr[FirstLive + r[1] + half].key < key
            THEN search[<<r[1] + half + 1, r[2] - half - 1>>] ELSE search[<<r[1], half>>]
  IN  FirstLive + search[<<0, Len(arr) + 1 - FirstLive>>]

\* find_reg
Find(key) == LET i == LowerBound(key)
             IN  IF i <= Len(arr) /\ [key |-> key, live |-> TRUE] = arr[i]
                 THEN i ELSE Len(arr) + 1

\* assoc_reg_erase of one element: mark, compact_if_necessary, shrink_if_necessary.
Marked(i) == [arr EXCEPT ![i].live = FALSE]
Compacted(a, s) == IF s * 2 > Len(a) THEN a ELSE Live(a)
Shrinks(s) == cap # MinSize /\ s * 4 <= cap

Erase(i) ==
  LET a == Compacted(Marked(i), sz - 1)
  IN  /\ arr' = IF Shrinks(sz - 1) THEN Live(a) ELSE a
      /\ sz' = sz - 1
      /\ cap' = IF Shrinks(sz - 1) THEN cap \div 2 ELSE cap

\* assoc_reg_push_back
PushBack ==
  LET full == Len(arr) >= cap - 1
      a == IF full THEN Live(arr) ELSE arr
  IN  /\ arr' = Append(a, [key |-> keyId, live |-> TRUE])
      /\ sz' = sz + 1
      /\ cap' = IF full THEN cap * 2 ELSE cap
      /\ keyId' = keyId + 1

-----------------------------------------------------------------------------
(* The active procedures.                                                  *)

\* generate_ric_gen_id: the key must fit the 16 bits of a ric_req_id.
AnyKeyFits(key) == TRUE
KeyFits(key) == key < ReqIds

AddActProc ==
  /\ keyId <= LastKey
  /\ PushBack
  /\ IF KeyFits(keyId) THEN UNCHANGED regFault ELSE RegAbort("overflow", keyId)

\* rm_act_proc, of what the user asks to remove.
RmActProc(id) ==
  \/ /\ id > 0 /\ Find(id) <= Len(arr)
     /\ Erase(Find(id))
     /\ UNCHANGED <<keyId, regFault>>
  \/ /\ id > 0 /\ Find(id) > Len(arr)
     /\ RegAbort("not_found", id)
     /\ UNCHANGED <<arr, sz, cap, keyId>>
  \/ /\ id = 0
     /\ RegAbort("reserved", id)
     /\ UNCHANGED <<arr, sz, cap, keyId>>

RegInit == /\ arr = <<>> /\ sz = 0 /\ cap = MinSize /\ keyId = 1
           /\ regFault = [why |-> "none", id |-> 0]

RegNext == /\ regFault.why = "none"
           /\ AddActProc \/ \E id \in 0 .. ReqIds - 1 : RmActProc(id)

RegSpec == RegInit /\ [][RegNext]_regVars

-----------------------------------------------------------------------------
(* Properties.                                                             *)

Handed(id) == \E i \in DOMAIN arr : arr[i].live /\ arr[i].key = id

\* Through any history of additions, removals, compactions and changes of
\* capacity the binary search finds every active procedure under the 16 bits
\* the user was given for it, and none that has ended; a removal fails its
\* assertion only for an id without an active procedure.  The search stays
\* within the array (lower_bound_reg asserts its size to be below cap).
RegistryFinds ==
  /\ Len(arr) < cap
  /\ regFault.why \in {"none", "not_found"} =>
       /\ \A i \in DOMAIN arr : arr[i].live => Find(arr[i].key % ReqIds) = i
       /\ \A id \in 1 .. ReqIds - 1 : ~Handed(id) => Find(id) = Len(arr) + 1
  /\ regFault.why = "not_found" => ~Handed(regFault.id)

ActiveKeys == [i \in DOMAIN Live(arr) |-> Live(arr)[i].key]
KeyItself(k) == k
KeyBag == INSTANCE OrderedBag WITH Entries <- 1 .. LastKey, KeyOf <- KeyItself,
                                   entries <- ActiveKeys

\* Compactions and changes of capacity lose, repeat and reorder nothing: the
\* registry is an ordered bag of keys of which a removal takes exactly one.
RegistryIsBag == KeyBag!Spec
===============================================================================
