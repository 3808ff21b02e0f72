---------------------------- MODULE IndicationStore ----------------------------
(***************************************************************************)
(* The database writer of an xApp (src/xApp/db/db.c) and the blocking      *)
(* queue it reads (src/util/alg_ds/ds/tsn_queue/tsn_queue.c).  The event   *)
(* loop pushes, the writer takes one indication, or ten, or a hundred, and *)
(* the thread that frees the xApp closes.  A section under the queue's     *)
(* mutex is one step; what is done before or after the unlock is another.  *)
(***************************************************************************)
EXTENDS Integers, Sequences

CONSTANTS Small, Large,   \* 10 and 100: the sizes of a batch
          MaxPushed       \* bound: indications pushed

ASSUME StoreAssumption == {Small, Large, MaxPushed} \subseteq Nat /\ 1 < Small /\ Small < Large

VARIABLES
  queue,      \* tsnq_t.r: the indications, numbered as they come
  pushed,     \* how many were pushed
  stopToken, stopped,   \* tsnq_t.stop_token, tsnq_t.stopped
  writer,     \* "size", "pop", "waiting", "write", "stopping", "leaving", "done"
  want,         \* the sz of the writer
  val,        \* val_10 and val_100: the next free place of a static batch
  batch,      \* what the writer has taken and not yet written
  table,      \* the indications in the database
  closer,     \* "no", "signal", "spin", "join", "closed"
  storeFault  \* the assertion that failed, or "none"

queueVars == <<queue, pushed, stopToken, stopped>>
writerVars == <<writer, want, val, batch, table>>
storeVars == <<queueVars, writerVars, closer, storeFault>>

\* pthread_cond_signal; the writer is the only thread that waits.
Signalled == IF writer = "waiting" THEN "pop" ELSE writer

-----------------------------------------------------------------------------
\* write_db_xapp, called by the event loop, which has stopped before close_db_xapp.
Push ==
  /\ closer = "no" /\ pushed < MaxPushed
  /\ queue' = Append(queue, pushed + 1) /\ pushed' = pushed + 1
  /\ writer' = Signalled
  /\ UNCHANGED <<stopToken, stopped, want, val, batch, table, closer, storeFault>>

\* size_tsnq, under a lock section of its own, decides how much is taken.
BatchOrLess(n) == IF n + 1 >= Large THEN Large ELSE IF n + 1 >= Small THEN Small ELSE 1
BatchSize(n) == IF n > Large THEN Large ELSE IF n > Small THEN Small ELSE 1

KeepVal(n) == val
ResetVal(n) == IF n = 1 THEN val ELSE [val EXCEPT ![n] = 0]

ReadSize ==
  /\ writer = "size"
  /\ LET n == BatchSize(Len(queue)) IN want' = n /\ val' = ResetVal(n)
  /\ writer' = "pop"
  /\ UNCHANGED <<queueVars, batch, table, closer, storeFault>>

\* The first want indications of the queue, copied to the batch's static array.
Take ==
  IF Len(queue) < want \/ (want # 1 /\ val[want] # 0)
  THEN /\ storeFault' = "pop_tsnq" /\ UNCHANGED <<queueVars, writerVars, closer>>
  ELSE /\ batch' = SubSeq(queue, 1, want) /\ queue' = SubSeq(queue, want + 1, Len(queue))
       /\ val' = IF want = 1 THEN val ELSE [val EXCEPT ![want] = want]
       /\ writer' = "write"
       /\ UNCHANGED <<pushed, stopToken, stopped, want, table, closer, storeFault>>

\* The condition of the while around pthread_cond_wait.
WaitsForMore == queue = <<>>
Waits == queue = <<>> /\ ~stopToken

\* wait_and_pop_tsnq, pop_tsnq_10, pop_tsnq_100
Pop ==
  /\ writer = "pop"
  /\ \/ /\ want = 1 /\ Waits
        /\ writer' = "waiting"
        /\ UNCHANGED <<queueVars, want, val, batch, table, closer, storeFault>>
     \/ /\ ~(want = 1 /\ Waits) /\ stopToken
        /\ writer' = "stopping"
        /\ UNCHANGED <<queueVars, want, val, batch, table, closer, storeFault>>
     \/ /\ ~(want = 1 /\ Waits) /\ ~stopToken
        /\ Take

SpuriousWakeup ==
  /\ writer = "waiting" /\ writer' = "pop"
  /\ UNCHANGED <<queueVars, want, val, batch, table, closer, storeFault>>

\* write_db_gen of one element of the batch.
Write ==
  /\ writer = "write"
  /\ table' = Append(table, Head(batch)) /\ batch' = Tail(batch)
  /\ writer' = IF Len(batch) = 1 THEN "size" ELSE "write"
  /\ UNCHANGED <<queueVars, want, val, closer, storeFault>>

\* stopped is set after the unlock, and once more when the thread returns.
Stopping ==
  /\ writer \in {"stopping", "leaving"}
  /\ stopped' = TRUE
  /\ writer' = IF writer = "stopping" THEN "leaving" ELSE "done"
  /\ UNCHANGED <<queue, pushed, stopToken, want, val, batch, table, closer, storeFault>>

-----------------------------------------------------------------------------
(* close_db_xapp and free_tsnq, in the thread that frees the xApp.         *)

SetStopToken ==
  /\ closer = "no"
  /\ stopToken' = TRUE /\ closer' = "signal"
  /\ UNCHANGED <<queue, pushed, stopped, writerVars, storeFault>>

SignalStop ==
  /\ closer = "signal"
  /\ writer' = Signalled /\ closer' = "spin"
  /\ UNCHANGED <<queueVars, want, val, batch, table, storeFault>>

FreeQueue ==
  /\ closer = "spin" /\ stopped
  /\ queue' = <<>> /\ closer' = "join"
  /\ UNCHANGED <<pushed, stopToken, stopped, writerVars, storeFault>>

JoinWriter ==
  /\ closer = "join" /\ writer = "done"
  /\ closer' = "closed"
  /\ UNCHANGED <<queueVars, writerVars, storeFault>>

-----------------------------------------------------------------------------
StoreInit ==
  /\ queue = <<>> /\ pushed = 0 /\ stopToken = FALSE /\ stopped = FALSE
  /\ writer = "size" /\ want = 1 /\ val = [n \in {Small, Large} |-> 0]
  /\ batch = <<>> /\ table = <<>>
  /\ closer = "no" /\ storeFault = "none"

WriterStep == storeFault = "none" /\ (ReadSize \/ Pop \/ Write \/ Stopping)
CloserStep == storeFault = "none" /\ (SignalStop \/ FreeQueue \/ JoinWriter)
StoreNext == \/ WriterStep \/ CloserStep
             \/ storeFault = "none" /\ (Push \/ SpuriousWakeup \/ SetStopToken)

StoreSpec == StoreInit /\ [][StoreNext]_storeVars

-----------------------------------------------------------------------------
Log == INSTANCE IndicationLog
         WITH pending <- batch \o queue, stored <- table,
              status <- IF closer = "no" THEN "open"
                        ELSE IF closer = "closed" THEN "closed" ELSE "closing"

\* The database is the log: whatever sizes the batches have and whenever it is
\* closed, each indication is stored once and in order, none waits for ever in the
\* queue while it is open, no assertion of the queue ends the writer, and closing
\* ends, with what is in a batch stored and only what is in the queue dropped.
StoreIsLog == Log!FairSpec
================================================================================
