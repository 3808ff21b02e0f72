------------------------------ MODULE TaskManager ------------------------------
(***************************************************************************)
(* The work-stealing task manager of the near-RT RIC                       *)
(* (src/util/alg_ds/ds/task_man/task_manager.c): one ring queue, mutex and *)
(* condition variable per thread.  The event loop submits a task to the    *)
(* queues round-robin, trying each mutex before it blocks; a thread tries  *)
(* all queues three times, takes a whole batch, and blocks on its own      *)
(* queue when it found none.  free_task_manager stops the threads.         *)
(*                                                                         *)
(* A step ends where a mutex is taken or released, or a task returns.      *)
(***************************************************************************)
EXTENDS SeqRing

CONSTANTS NumThreads,  \* threads, and queues
          Rounds,      \* how often a thread tries all queues (3 in the code)
          BatchMax,    \* tasks a thread takes at once (4096 in the code)
          FirstPos,    \* where the counters of the rings stand at first
          MaxTasks     \* bound: tasks submitted

ASSUME TaskAssumption == /\ NumThreads \in Nat \ {0} /\ BatchMax \in Nat \ {0} /\ Rounds \in Nat \ {0}
                         /\ FirstPos \in 0 .. IdxMod - 1 /\ MaxTasks \in 0 .. IdxMod - 1

Threads == 0 .. NumThreads - 1
Tasks == 1 .. MaxTasks

VARIABLES
  ring, done,     \* not_q_t.r, not_q_t.done of each queue
  held,           \* the queues whose mutex is held
  ppc, pi,        \* the submitting thread: position, loop counter
  index,          \* task_manager_t.index; also the task submitted last
  wpc, wi,        \* each worker: position, loop counter of the search
  batch,          \* ret.t of each worker: tasks taken and not yet executed
  runs            \* how often each task was executed

queueVars == <<ring, done, held>>
mainVars == <<ppc, pi, index>>
vars == <<queueVars, mainVars, wpc, wi, batch, runs>>

\* pthread_mutex_trylock succeeds, or pthread_mutex_lock does not block.
Unlocked(q) == q \notin held

-----------------------------------------------------------------------------
(* async_task_manager, called by the event loop.                           *)

\* The i-th queue tried for the current task.
Target(i) == (i + index - 1) % NumThreads

Async ==
  /\ ppc = "idle" /\ index < MaxTasks
  /\ index' = index + 1
  /\ ppc' = "try" /\ pi' = 0
  /\ UNCHANGED <<queueVars, wpc, wi, batch, runs>>

TryPush ==
  /\ ppc = "try"
  /\ \/ /\ Unlocked(Target(pi))
        /\ held' = held \union {Target(pi)}
        /\ ppc' = "push"
        /\ UNCHANGED pi
     \/ /\ ~Unlocked(Target(pi))
        /\ pi' = (pi + 1) % NumThreads
        /\ ppc' = IF pi + 1 = NumThreads THEN "block" ELSE "try"
        /\ UNCHANGED held
  /\ UNCHANGED <<ring, done, index, wpc, wi, batch, runs>>

\* push_not_q, on the first queue tried.
PushLock ==
  /\ ppc = "block" /\ Unlocked(Target(pi))
  /\ held' = held \union {Target(pi)}
  /\ ppc' = "push"
  /\ UNCHANGED <<ring, done, pi, index, wpc, wi, batch, runs>>

Push ==
  /\ ppc = "push"
  /\ ring' = [ring EXCEPT ![Target(pi)] = PushBack(@, index)]
  /\ held' = held \ {Target(pi)}
  /\ ppc' = "signal"
  /\ UNCHANGED <<done, pi, index, wpc, wi, batch, runs>>

\* pthread_cond_signal, after the unlock: wakes the queue's thread if it waits.
WakeNobody(q) == wpc
Wake(q) == [wpc EXCEPT ![q] = IF @ = "wait" THEN "lock" ELSE @]

PushSignal ==
  /\ ppc = "signal"
  /\ wpc' = Wake(Target(pi))
  /\ ppc' = "idle"
  /\ UNCHANGED <<queueVars, pi, index, wi, batch, runs>>

-----------------------------------------------------------------------------
(* free_task_manager: the event loop has ended.                            *)

Free ==
  /\ ppc = "idle"
  /\ ppc' = "doneLock" /\ pi' = 0
  /\ UNCHANGED <<queueVars, index, wpc, wi, batch, runs>>

DoneLock ==
  /\ ppc = "doneLock" /\ Unlocked(pi)
  /\ held' = held \union {pi}
  /\ ppc' = "doneSet"
  /\ UNCHANGED <<ring, done, pi, index, wpc, wi, batch, runs>>

DoneSet ==
  /\ ppc = "doneSet"
  /\ done' = [done EXCEPT ![pi] = TRUE]
  /\ held' = held \ {pi}
  /\ ppc' = "doneSignal"
  /\ UNCHANGED <<ring, pi, index, wpc, wi, batch, runs>>

DoneSignal ==
  /\ ppc = "doneSignal"
  /\ wpc' = Wake(pi)
  /\ \/ pi + 1 < NumThreads /\ pi' = pi + 1 /\ ppc' = "doneLock"
     \/ pi + 1 = NumThreads /\ ppc' = "join" /\ UNCHANGED pi
  /\ UNCHANGED <<queueVars, index, wi, batch, runs>>

\* Join every thread, then free the queues.
Join ==
  /\ ppc = "join" /\ \A w \in Threads : wpc[w] = "exit"
  /\ ppc' = "freed"
  /\ UNCHANGED <<queueVars, pi, index, wpc, wi, batch, runs>>

-----------------------------------------------------------------------------
(* worker_thread.                                                          *)

NumIt(w) == Rounds * (NumThreads + w)
Queue(w) == wi[w] % NumThreads

NextTry(w) ==
  /\ wi' = [wi EXCEPT ![w] = @ + 1]
  /\ wpc' = [wpc EXCEPT ![w] = IF wi[w] + 1 = NumIt(w) THEN "lock" ELSE "search"]

\* What is copied out of a queue and erased from it, under its mutex.
BatchLen(q) == IF RingSize(ring[q]) < BatchMax THEN RingSize(ring[q]) ELSE BatchMax
ErasedAll(q) == RingSize(ring[q])
Erased(q) == BatchLen(q)

Take(w, q) ==
  /\ batch' = [batch EXCEPT ![w] = SubSeq(Contents(ring[q]), 1, BatchLen(q))]
  /\ ring' = [ring EXCEPT ![q] = Erase(@, Erased(q))]
  /\ held' = held \ {q}
  /\ wpc' = [wpc EXCEPT ![w] = "run"]
  /\ UNCHANGED wi

\* try_pop_not_q.
TryLock(w) ==
  /\ wpc[w] = "search"
  /\ \/ /\ Unlocked(Queue(w))
        /\ held' = held \union {Queue(w)}
        /\ wpc' = [wpc EXCEPT ![w] = "tryPop"]
        /\ UNCHANGED wi
     \/ ~Unlocked(Queue(w)) /\ NextTry(w) /\ UNCHANGED held
  /\ UNCHANGED <<ring, done, mainVars, batch, runs>>

TryPop(w) ==
  /\ wpc[w] = "tryPop"
  /\ \/ RingSize(ring[Queue(w)]) > 0 /\ Take(w, Queue(w))
     \/ /\ RingSize(ring[Queue(w)]) = 0
        /\ held' = held \ {Queue(w)} /\ NextTry(w)
        /\ UNCHANGED <<ring, batch>>
  /\ UNCHANGED <<done, mainVars, runs>>

\* pop_not_q, and its return from pthread_cond_wait.
Lock(w) ==
  /\ wpc[w] = "lock" /\ Unlocked(w)
  /\ held' = held \union {w}
  /\ wpc' = [wpc EXCEPT ![w] = "pop"]
  /\ UNCHANGED <<ring, done, mainVars, wi, batch, runs>>

Pop(w) ==
  /\ wpc[w] = "pop"
  /\ \/ ~done[w] /\ RingSize(ring[w]) > 0 /\ Take(w, w)
     \/ /\ done[w] \/ RingSize(ring[w]) = 0
        /\ held' = held \ {w}
        /\ wpc' = [wpc EXCEPT ![w] = IF done[w] THEN "exit" ELSE "wait"]
        /\ UNCHANGED <<ring, wi, batch>>
  /\ UNCHANGED <<done, mainVars, runs>>

\* A condition variable may wake its thread without a signal.
SpuriousWakeup(w) ==
  /\ wpc[w] = "wait"
  /\ wpc' = [wpc EXCEPT ![w] = "lock"]
  /\ UNCHANGED <<queueVars, mainVars, wi, batch, runs>>

\* The tasks of a batch are executed in order.
Run(w) ==
  /\ wpc[w] = "run"
  /\ runs' = [runs EXCEPT ![Head(batch[w])] = @ + 1]
  /\ batch' = [batch EXCEPT ![w] = Tail(@)]
  /\ \/ Len(batch[w]) > 1 /\ UNCHANGED <<wpc, wi>>
     \/ /\ Len(batch[w]) = 1
        /\ wpc' = [wpc EXCEPT ![w] = "search"]
        /\ wi' = [wi EXCEPT ![w] = w]
  /\ UNCHANGED <<queueVars, mainVars>>

-----------------------------------------------------------------------------
Init ==
  /\ ring = [q \in Threads |-> RingAt(FirstPos)]
  /\ done = [q \in Threads |-> FALSE] /\ held = {}
  /\ ppc = "idle" /\ pi = 0 /\ index = 0
  /\ wpc = [w \in Threads |-> "search"] /\ wi = [w \in Threads |-> w]
  /\ batch = [w \in Threads |-> <<>>] /\ runs = [t \in Tasks |-> 0]

MainStep == TryPush \/ PushLock \/ Push \/ PushSignal
            \/ DoneLock \/ DoneSet \/ DoneSignal \/ Join

WorkerStep(w) == TryLock(w) \/ TryPop(w) \/ Lock(w) \/ Pop(w) \/ Run(w)

Next == \/ Async \/ Free \/ MainStep
        \/ \E w \in Threads : WorkerStep(w) \/ SpuriousWakeup(w)

Spec == Init /\ [][Next]_vars

-----------------------------------------------------------------------------
(* Properties.                                                             *)

\* Type correctness of the queues and the threads; a ring is never over-full.
TypeOK ==
  /\ \A q \in Threads : /\ ring[q].cap \in 1 .. IdxMod
                        /\ {ring[q].head, ring[q].tail} \subseteq 0 .. IdxMod - 1
                        /\ ring[q].array \in [0 .. ring[q].cap - 1 -> 0 .. MaxTasks]
                        /\ RingSize(ring[q]) < ring[q].cap
  /\ done \in [Threads -> BOOLEAN] /\ held \subseteq Threads
  /\ ppc \in {"idle", "try", "block", "push", "signal", "doneLock", "doneSet",
              "doneSignal", "join", "freed"}
  /\ pi \in Threads /\ index \in 0 .. MaxTasks
  /\ wpc \in [Threads -> {"search", "tryPop", "lock", "pop", "wait", "run", "exit"}]
  /\ \A w \in Threads : wi[w] \in w .. NumIt(w)
  /\ batch \in [Threads -> Seq(Tasks)] /\ runs \in [Tasks -> Nat]

Increasing(s) == \A i, j \in 1 .. Len(s) : i < j => s[i] < s[j]

\* Tasks keep the order they were submitted in, in each queue and in each batch,
\* whatever wraps around, is enlarged or is stolen.
OrderKept ==
  \A w \in Threads : Increasing(Contents(ring[w])) /\ Increasing(batch[w])

\* A thread sleeps on its queue only while the queue is empty, or while the
\* submitter that pushed has not signalled yet; likewise for the stop.
NoSleepOverWork ==
  \A w \in Threads : wpc[w] = "wait" =>
    /\ RingSize(ring[w]) > 0 => ppc = "signal" /\ Target(pi) = w
    /\ done[w] => ppc = "doneSignal" /\ pi = w

-----------------------------------------------------------------------------
(* The pool the task manager implements.                                   *)

ContentsOf(q) == {Contents(ring[q])[i] : i \in 1 .. RingSize(ring[q])}
BatchOf(w) == {batch[w][i] : i \in 1 .. Len(batch[w])}

InHand == IF ppc \in {"try", "block", "push"} THEN {index} ELSE {}

Pool == INSTANCE TaskPool
          WITH waiting <- InHand \union UNION {ContentsOf(q) \union BatchOf(q) : q \in Threads},
               executed <- {t \in Tasks : runs[t] = 1},
               open <- \A q \in Threads : ~done[q]

\* Every behaviour of the task manager is one of the pool: no task is lost,
\* doubled or invented, also while threads steal from each other.
PoolSpec == Pool!Spec

-----------------------------------------------------------------------------
(* Liveness.  The threads are POSIX threads that block only on a mutex held *)
(* for a bounded time or on their condition variable; a task returns.  The  *)
(* submitter that blocks on a mutex gets it although the queue's thread may *)
(* wake up spuriously, take it and release it any number of times.          *)

Fairness == /\ WF_vars(MainStep) /\ SF_vars(PushLock) /\ SF_vars(DoneLock)
            /\ \A w \in Threads : WF_vars(WorkerStep(w))

FairSpec == Spec /\ Fairness

\* A task submitted is executed, unless the task manager is freed before, and
\* freeing it returns: no thread sleeps through a submission or through the stop.
TasksRun ==
  /\ \A t \in Tasks : index >= t ~> runs[t] = 1 \/ ppc = "freed"
  /\ ppc = "doneLock" ~> ppc = "freed"
===============================================================================
