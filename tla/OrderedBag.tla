------------------------------ MODULE OrderedBag ------------------------------
(***************************************************************************)
(* What an associative container promises its caller: its entries in the   *)
(* order of their keys, entries with equal keys in the order they came.    *)
(* Nothing is said of nodes, colours, buckets or capacities.               *)
(***************************************************************************)
EXTENDS Integers, Sequences, SequencesExt

CONSTANTS Entries,   \* what can be put into the container
          KeyOf(_)   \* the key of an entry, an integer

VARIABLE entries     \* the entries, front to end

Init == entries = <<>>

\* How many entries come before one with key k.
Before(k) == Cardinality({i \in DOMAIN entries : KeyOf(entries[i]) <= k})

Put(e) == /\ \A i \in DOMAIN entries : entries[i] # e
          /\ entries' = InsertAt(entries, Before(KeyOf(e)) + 1, e)

\* Which of several entries with the key goes is not said.
Take(k) == \E i \in DOMAIN entries : /\ KeyOf(entries[i]) = k
                                     /\ entries' = RemoveAt(entries, i)

Next == \/ \E e \in Entries : Put(e)
        \/ \E i \in DOMAIN entries : Take(KeyOf(entries[i]))

Spec == Init /\ [][Next]_entries
===============================================================================
