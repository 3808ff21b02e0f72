----------------------------- MODULE IndicationLog -----------------------------
(***************************************************************************)
(* What the database of an xApp promises: each indication is stored once,  *)
(* in the order of arrival, sooner or later; closing it takes an end, and  *)
(* only the last indications can be missing then.                          *)
(***************************************************************************)
EXTENDS Naturals, Sequences

VARIABLES pending,   \* indications that arrived and are not stored
          stored,    \* indications stored, which are numbered as they arrive
          status     \* "open", "closing", "closed"

vars == <<pending, stored, status>>

Init == pending = <<>> /\ stored = <<>> /\ status = "open"

Arrive == /\ status = "open"
          /\ pending' = Append(pending, Len(stored) + Len(pending) + 1)
          /\ UNCHANGED <<stored, status>>

Store == /\ pending # <<>>
         /\ stored' = Append(stored, Head(pending)) /\ pending' = Tail(pending)
         /\ UNCHANGED status

Close == status = "open" /\ status' = "closing" /\ UNCHANGED <<pending, stored>>
Drop == status = "closing" /\ pending' = <<>> /\ UNCHANGED <<stored, status>>
Finish == /\ status = "closing" /\ pending = <<>> /\ status' = "closed"
          /\ UNCHANGED <<pending, stored>>

Next == Arrive \/ Store \/ Close \/ Drop \/ Finish

Spec == Init /\ [][Next]_vars

\* Nothing waits for ever, and closing, once begun, comes to an end.
FairSpec == Spec /\ WF_vars(Store) /\ WF_vars(Drop \/ Finish)
================================================================================
