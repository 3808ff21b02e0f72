------------------------------- MODULE TaskPool -------------------------------
(***************************************************************************)
(* What a task manager promises the thread that submits: every task is     *)
(* executed once, by some thread, at some time after it was submitted.     *)
(* After the pool was closed a task may be left, but none is executed      *)
(* twice and none comes back.                                              *)
(***************************************************************************)
CONSTANT Tasks

VARIABLES waiting,    \* tasks submitted and not yet executed
          executed,   \* tasks executed
          open        \* is the pool taking tasks?

vars == <<waiting, executed, open>>

Init == waiting = {} /\ executed = {} /\ open = TRUE

Submit(t) == /\ open /\ t \notin waiting \union executed
             /\ waiting' = waiting \union {t}
             /\ UNCHANGED <<executed, open>>

Execute(t) == /\ t \in waiting
              /\ waiting' = waiting \ {t}
              /\ executed' = executed \union {t}
              /\ UNCHANGED open

Close == open /\ open' = FALSE /\ UNCHANGED <<waiting, executed>>

Next == (\E t \in Tasks : Submit(t) \/ Execute(t)) \/ Close

Spec == Init /\ [][Next]_vars
===============================================================================
