----------------------------- MODULE E2AgentProofs -----------------------------
(***************************************************************************)
(* Theorems about E2Agent, for any ids, threads of the RAN, and bounds.    *)
(***************************************************************************)
EXTENDS E2Agent, FiniteSetTheorems, TLAPS

-----------------------------------------------------------------------------
(* Types.                                                                  *)

Messages == Request \union {Setup, Shutdown}

Types ==
  /\ lpc \in {"start", "idle", "register", "drain", "stopped"}
  /\ lpc = "register" => lmsg \in Request /\ lmsg.kind = "SUBS"
  /\ batch \in Seq(Ids) /\ (lpc = "drain" => batch # <<>>)
  /\ queue \in Seq(Ids) /\ bytes \in Nat /\ wakeup \in BOOLEAN
  /\ ind \subseteq Entry /\ made \in Nat
  /\ pend \in Nat /\ transId \in Nat /\ setups \in Nat
  /\ toAgent \in Seq(Messages) /\ toRic \subseteq Request \union {Setup}
  /\ rpc \in [RanThreads -> {"idle", "find", "push", "write"}]
  /\ rid \in [RanThreads -> Ids \union {NoId}]
  /\ \A t \in RanThreads : rpc[t] # "idle" => rid[t] \in Ids
  /\ ranSubs \subseteq Ids
  /\ ric \in [Ids -> {"new", "asked", "served", "ending", "ended"}]
  /\ up \in BOOLEAN /\ lost \in Nat /\ stop \in {"no", "asked", "freed"}
  /\ stop = "freed" => lpc = "stopped" /\ ind = {} /\ \A t \in RanThreads : rpc[t] = "idle"

\* What a message of the queue to the agent is.
LEMMA MessageKinds ==
  ASSUME NEW m \in Messages
  PROVE  /\ m.kind \in {"SUBS", "DEL", "CTRL", "SETUP", "SHUTDOWN"} /\ m.aper \in BOOLEAN
         /\ m.kind \in {"SUBS", "DEL", "CTRL"} => m \in Request /\ m.id \in Ids
         /\ m.kind = "SETUP" <=> m = Setup
         /\ m.kind = "SHUTDOWN" <=> m = Shutdown
<1>1. CASE m \in Request
  BY <1>1 DEF Request, Setup, Shutdown
<1>2. CASE m = Setup
  BY <1>2 DEF Setup, Shutdown
<1>3. CASE m = Shutdown
  BY <1>3 DEF Setup, Shutdown
<1> QED  BY <1>1, <1>2, <1>3 DEF Messages

\* The steps that fail an assertion: they change nothing else.
LEMMA AbortTypes ==
  ASSUME Types, UNCHANGED dataVars
  PROVE  Types'
BY DEF Types, dataVars, loopVars, indVars, setupVars, pipeVars, ranVars, ricVars

\* A message that is read was the oldest of the queue.
LEMMA ReadMessage ==
  ASSUME Types, NEW m, Read(m)
  PROVE  /\ m \in Messages /\ lpc = "idle" /\ toAgent # <<>> /\ m = toAgent[1]
         /\ Tail(toAgent) \in Seq(Messages) /\ Len(toAgent) \in Nat \ {0}
         /\ Len(Tail(toAgent)) = Len(toAgent) - 1
         /\ \A i \in 1 .. Len(toAgent) - 1 : Tail(toAgent)[i] = toAgent[i + 1]
<1>1. toAgent \in Seq(Messages) /\ toAgent # <<>> /\ m = Head(toAgent) /\ lpc = "idle"
  BY DEF Types, Read
<1> QED  BY <1>1

\* Types is kept by the setup request of the loop's start and by its timer.
LEMMA SetupTypes ==
  ASSUME Types, LoopStart \/ LoopSetupTimer
  PROVE  Types'
<1>1. CASE UNCHANGED dataVars
  BY <1>1, AbortTypes
<1>2. CASE ~UNCHANGED dataVars
  <2>1. /\ SendSetup /\ pend' \in {pend, pend + 1} /\ lpc' \in {lpc, "idle"}
        /\ lpc' = "register" => lpc = "register"
        /\ UNCHANGED <<lmsg, batch, indVars, pipeVars, toAgent, edge, ranVars, ricVars, stop>>
        /\ lpc \in {"idle", "start"}
    BY <1>2 DEF LoopStart, LoopSetupTimer, Abort, loopVars
  <2>2. transId' \in Nat /\ setups' \in Nat /\ toRic' \subseteq toRic \union {Setup} /\ pend' \in Nat
    BY <2>1 DEF Types, SendSetup, NextTransId
  <2>3. stop # "freed"
    BY <2>1 DEF Types
  <2> QED  BY <2>1, <2>2, <2>3 DEF Types, indVars, pipeVars, ranVars, ricVars
<1> QED  BY <1>1, <1>2

\* Types is kept when the loop reads a setup response, a shutdown or a control request.
LEMMA AnswerTypes ==
  ASSUME Types, NEW m, LoopSetupResponse(m) \/ LoopShutdown(m) \/ LoopControl(m)
  PROVE  Types'
<1>1. CASE UNCHANGED dataVars
  BY <1>1, AbortTypes
<1>2. CASE ~UNCHANGED dataVars
  <2>1. /\ Read(m) /\ ReadDone /\ pend' \in Nat /\ transId' \in {transId, 0}
        /\ toRic' = toRic \/ (toRic' = toRic \union {m} /\ m.kind = "CTRL")
        /\ UNCHANGED <<loopVars, indVars, setups, pipeVars, ranVars, ricVars, stop>>
    BY <1>2 DEF LoopSetupResponse, LoopShutdown, LoopControl, Abort, setupVars, Types
  <2>2. toAgent' \in Seq(Messages) /\ m \in Messages
    BY <2>1, ReadMessage DEF ReadDone
  <2>3. toRic' \subseteq Request \union {Setup}
    BY <2>1, <2>2, MessageKinds DEF Types
  <2> QED  BY <2>1, <2>2, <2>3 DEF Types, loopVars, indVars, pipeVars, ranVars, ricVars
<1> QED  BY <1>1, <1>2

\* Types is kept when the loop reads a subscription request.
LEMMA SubscribeTypes ==
  ASSUME Types, NEW m, LoopSubscribe(m)
  PROVE  Types'
<1>1. Read(m) /\ m.kind = "SUBS" /\ toAgent' = Tail(toAgent)
  BY DEF LoopSubscribe, ReadDone
<1>2. m \in Request /\ m.id \in Ids /\ toAgent' \in Seq(Messages) /\ lpc = "idle"
  BY <1>1, ReadMessage, MessageKinds
<1> QED  BY <1>1, <1>2 DEF Types, LoopSubscribe, indVars, setupVars, pipeVars, ricVars

\* Types is kept when the loop registers the timer of a subscription.
LEMMA RegisterTypes ==
  ASSUME Types, LoopRegister
  PROVE  Types'
<1>1. lmsg \in Request /\ [id |-> lmsg.id, aper |-> lmsg.aper, n |-> made] \in Entry
  BY DEF Types, LoopRegister, Request, Entry
<1>2. ind' \subseteq Entry /\ toRic' \subseteq Request \union {Setup} /\ made' \in Nat
  BY <1>1 DEF Types, LoopRegister
<1> QED  BY <1>2 DEF Types, LoopRegister, setupVars, pipeVars, ranVars, ricVars

\* Types is kept when the loop reads a subscription delete.
LEMMA DeleteTypes ==
  ASSUME Types, NEW m, LoopDelete(m)
  PROVE  Types'
<1>1. Read(m) /\ m.kind = "DEL"
  BY DEF LoopDelete
<1>2. m \in Request /\ Tail(toAgent) \in Seq(Messages) /\ lpc = "idle"
  BY <1>1, ReadMessage, MessageKinds
<1>3. /\ ind' \subseteq ind /\ ranSubs' \subseteq ranSubs
      /\ toAgent' \in {toAgent, Tail(toAgent)} /\ toRic' \subseteq toRic \union {m}
      /\ UNCHANGED <<loopVars, made, setupVars, pipeVars, rpc, rid, events, ricVars, stop>>
  BY DEF LoopDelete, ReadDone
<1> QED  BY <1>2, <1>3 DEF Types, loopVars, setupVars, pipeVars, ricVars

\* Types is kept by the events of the loop that are not messages of the RIC.
LEMMA EventTypes ==
  ASSUME Types, LoopAperiodic \/ LoopDrain \/ LoopStop
  PROVE  Types'
<1>1. CASE UNCHANGED dataVars
  BY <1>1, AbortTypes
<1>2. CASE LoopAperiodic /\ ~UNCHANGED dataVars
  <2>1. /\ lpc = "idle" /\ lpc' = "drain" /\ queue # <<>> /\ batch' = queue /\ wakeup' = FALSE
        /\ queue' = SubSeq(queue, Len(queue) + 1, Len(queue))
        /\ UNCHANGED <<lmsg, indVars, setupVars, bytes, toAgent, edge, toRic, ranVars,
                       ricVars, stop>>
    BY <1>2 DEF LoopAperiodic, Abort, AllEvents
  <2>2. queue' \in Seq(Ids)
    BY <2>1 DEF Types
  <2> QED  BY <2>1, <2>2 DEF Types, indVars, setupVars, ranVars, ricVars
<1>3. CASE LoopDrain /\ ~UNCHANGED dataVars
  <2>1. /\ lpc = "drain" /\ lpc' \in {"idle", "drain"} /\ bytes > 0
        /\ bytes' = bytes - Least(ReadSize, bytes)
        /\ batch' = Tail(batch) /\ (lpc' = "drain" => Tail(batch) # <<>>)
        /\ UNCHANGED <<lmsg, indVars, setupVars, queue, wakeup, toAgent, edge, toRic,
                       ranVars, ricVars, stop>>
    BY <1>3 DEF LoopDrain, Abort
  <2>2. bytes' \in Nat
    BY <2>1 DEF Types, Least, ReadSize
  <2>3. batch' \in Seq(Ids)
    BY <2>1 DEF Types
  <2> QED  BY <2>1, <2>2, <2>3 DEF Types, indVars, setupVars, ranVars, ricVars
<1>4. CASE LoopStop
  BY <1>4 DEF LoopStop, Types, indVars, setupVars, pipeVars, ranVars, ricVars
<1> QED  BY <1>1, <1>2, <1>3, <1>4

\* Types is kept by every step of a thread of the RAN.
LEMMA RanTypes ==
  ASSUME Types, NEW t \in RanThreads, RanStep(t) \/ \E id \in Ids : RanEvent(t, id)
  PROVE  Types'
<1>1. CASE UNCHANGED dataVars
  BY <1>1, AbortTypes
<1>2. CASE \E id \in Ids : RanEvent(t, id)
  BY <1>2 DEF RanEvent, Types, loopVars, indVars, setupVars, pipeVars, ricVars
<1>3. CASE RanFind(t) /\ ~UNCHANGED dataVars
  BY <1>3 DEF RanFind, Abort, Types, loopVars, indVars, setupVars, pipeVars, ricVars
<1>4. CASE RanPush(t)
  <2>1. rid[t] \in Ids
    BY <1>4 DEF RanPush, Types
  <2>2. queue' \in Seq(Ids)
    BY <1>4, <2>1 DEF RanPush, Types
  <2> QED  BY <1>4, <2>2 DEF RanPush, Types, loopVars, indVars, setupVars, ricVars
<1>5. CASE RanWrite(t)
  <2>1. bytes' \in Nat
    BY <1>5, AgentAssumption DEF RanWrite, Types
  <2> QED  BY <1>5, <2>1 DEF RanWrite, Types, loopVars, indVars, setupVars, ricVars
<1> QED  BY <1>1, <1>2, <1>3, <1>4, <1>5 DEF RanStep

\* Types is kept by e2_free_agent.
LEMMA StopTypes ==
  ASSUME Types, StopAgent \/ FreeAgent
  PROVE  Types'
<1>1. CASE UNCHANGED dataVars
  BY <1>1, AbortTypes
<1>2. CASE StopAgent
  BY <1>2 DEF StopAgent, Types, loopVars, indVars, setupVars, pipeVars, ranVars, ricVars
<1>3. CASE FreeAgent /\ ~UNCHANGED dataVars
  <2>1. /\ \A t \in RanThreads : rpc[t] = "idle"
        /\ stop' = "freed" /\ lpc = "stopped" /\ ind' = {} /\ pend' = 0 /\ queue' = <<>>
        /\ UNCHANGED <<loopVars, made, transId, setups, bytes, wakeup, toAgent, edge,
                       toRic, ranVars, ricVars>>
    BY <1>3 DEF FreeAgent, Abort
  <2>2. <<>> \in Seq(Ids) /\ {} \subseteq Entry
    OBVIOUS
  <2> QED  BY <2>1, <2>2 DEF Types, loopVars, ranVars, ricVars
<1> QED  BY <1>1, <1>2, <1>3

\* A message of the RIC that arrives leaves a sequence of messages.
LEMMA DeliverTypes ==
  ASSUME Types, NEW m \in Messages, Deliver(m)
  PROVE  toAgent' \in Seq(Messages)
BY DEF Types, Deliver

\* Types is kept by the RIC and by the link.
LEMMA RicTypes ==
  ASSUME Types,
         \/ RicSetsUp \/ RicLost
         \/ \E id \in Ids : RicRequests(id) \/ RicDeletes(id)
         \/ \E m \in toRic : RicHears(m)
  PROVE  Types'
<1>1. CASE RicSetsUp
  <2>1. toAgent' \in Seq(Messages)
    BY <1>1, DeliverTypes DEF RicSetsUp, Messages, Types
  <2> QED  BY <1>1, <2>1 DEF RicSetsUp, Types, loopVars, indVars, setupVars, pipeVars, ranVars
<1>2. CASE RicLost
  <2>1. toAgent' \in Seq(Messages)
    BY <1>2, DeliverTypes DEF RicLost, Messages
  <2>2. lost' \in Nat /\ ric' \in [Ids -> {"new", "asked", "served", "ending", "ended"}]
    BY <1>2 DEF RicLost, Types
  <2> QED  BY <1>2, <2>1, <2>2 DEF RicLost, Types, loopVars, indVars, setupVars, pipeVars, ranVars
<1>3. CASE \E id \in Ids : RicRequests(id) \/ RicDeletes(id)
  <2>1. PICK id \in Ids, kind \in {"SUBS", "CTRL", "DEL"}, aper \in BOOLEAN :
          /\ Deliver([kind |-> kind, id |-> id, aper |-> aper])
          /\ ric' = [ric EXCEPT ![id] = "asked"] \/ ric' = [ric EXCEPT ![id] = "ending"]
    BY <1>3 DEF RicRequests, RicDeletes
  <2>2. [kind |-> kind, id |-> id, aper |-> aper] \in Messages
    BY DEF Messages, Request
  <2>3. toAgent' \in Seq(Messages)
    BY <2>1, <2>2, DeliverTypes
  <2>4. UNCHANGED <<loopVars, indVars, setupVars, pipeVars, toRic, ranVars, up, lost, stop>>
    BY <1>3 DEF RicRequests, RicDeletes
  <2> QED  BY <2>1, <2>3, <2>4 DEF Types, loopVars, indVars, setupVars, pipeVars, ranVars
<1>4. CASE \E m \in toRic : RicHears(m)
  <2>1. PICK m \in Request : RicHears(m)
    <3>1. \A m \in Messages : m.kind # "SETUP" /\ m.kind # "SHUTDOWN" => m \in Request
      BY MessageKinds
    <3>2. PICK m \in toRic : RicHears(m)
      BY <1>4
    <3> QED  BY <3>1, <3>2 DEF RicHears, Types, Messages, Setup
  <2>2. m.id \in Ids /\ m.kind \in {"SUBS", "DEL", "CTRL"}
    BY DEF Request
  <2>3. ric' \in [Ids -> {"new", "asked", "served", "ending", "ended"}]
    BY <2>1, <2>2 DEF RicHears, Types
  <2> QED  BY <2>1, <2>3 DEF RicHears, Types, loopVars, indVars, setupVars, pipeVars, ranVars
<1> QED  BY <1>1, <1>2, <1>3, <1>4

\* Types is inductive: every step keeps it.
LEMMA NextTypes ==
  ASSUME Types, [Next]_vars
  PROVE  Types'
<1>1. CASE UNCHANGED vars
  BY <1>1, AbortTypes DEF vars
<1>2. CASE Next
  BY <1>2, SetupTypes, AnswerTypes, SubscribeTypes, RegisterTypes, DeleteTypes, EventTypes,
     RanTypes, StopTypes, RicTypes DEF Next, LoopOn, LoopReads
<1> QED  BY <1>1, <1>2

\* Types holds initially.
LEMMA InitTypes ==
  ASSUME Init
  PROVE  Types
<1>1. /\ lpc = "start" /\ batch = <<>> /\ ind = {} /\ made = 1
      /\ pend = 0 /\ transId = 0 /\ setups = 0
      /\ queue = <<>> /\ bytes = 0 /\ wakeup = FALSE /\ toAgent = <<>> /\ toRic = {}
      /\ rpc = [t \in RanThreads |-> "idle"] /\ rid = [t \in RanThreads |-> NoId]
      /\ ranSubs = {} /\ ric = [id \in Ids |-> "new"] /\ up = FALSE /\ lost = 0 /\ stop = "no"
  BY DEF Init
<1>2. <<>> \in Seq(Ids) /\ <<>> \in Seq(Messages)
  OBVIOUS
<1> QED  BY <1>1, <1>2 DEF Types

-----------------------------------------------------------------------------
(* The pipe and the queue.                                                 *)

Writers == {t \in RanThreads : rpc[t] = "write"}

\* The loop keeps a batch only while it drains.  What is in the pipe beyond the events
\* of the batch was announced after the batch was popped, so epoll has it to report.
PipeInv ==
  /\ lpc # "drain" => batch = <<>>
  /\ stop # "freed" =>
       /\ bytes + 4 * Writing = 4 * (Len(queue) + Len(batch))
       /\ lpc # "drain" /\ bytes > 0 => wakeup
       /\ lpc = "drain" /\ ~wakeup => bytes <= 4 * Len(batch)

\* The threads between push and write are finitely many, and Writing counts them.
LEMMA WritersFinite == IsFiniteSet(Writers) /\ Writing \in Nat /\ Writing = Cardinality(Writers)
<1>1. IsFiniteSet(Writers)
  BY AgentAssumption, FS_Subset DEF Writers
<1> QED  BY <1>1, FS_CardinalityType DEF Writing, Writers

\* Steps that touch neither the queue nor the pipe.
LEMMA PipeQuiet ==
  ASSUME PipeInv, UNCHANGED <<batch, queue, bytes, wakeup>>, UNCHANGED Writers,
         lpc' = lpc \/ (lpc # "drain" /\ lpc' # "drain"), stop' = "freed" \/ stop # "freed"
  PROVE  PipeInv'
<1>1. Writing' = Writing
  BY DEF Writing, Writers
<1> QED  BY <1>1 DEF PipeInv

\* The steps that touch neither the queue of events, nor the pipe, nor the threads
\* between push and write.
LEMMA QuietSteps ==
  ASSUME Types,
         \/ LoopStart \/ LoopSetupTimer \/ LoopReads \/ LoopRegister \/ LoopStop
         \/ \E t \in RanThreads : RanFind(t) \/ \E id \in Ids : RanEvent(t, id)
         \/ StopAgent \/ RicSetsUp \/ RicLost
         \/ \E id \in Ids : RicRequests(id) \/ RicDeletes(id)
         \/ \E m \in toRic : RicHears(m)
         \/ UNCHANGED dataVars
  PROVE  /\ UNCHANGED <<batch, queue, bytes, wakeup>> /\ UNCHANGED Writers
         /\ lpc' = lpc \/ (lpc # "drain" /\ lpc' # "drain")
         /\ stop' = stop \/ stop # "freed"
<1> DEFINE Quiet == /\ UNCHANGED <<batch, queue, bytes, wakeup>> /\ UNCHANGED Writers
                    /\ lpc' = lpc \/ (lpc # "drain" /\ lpc' # "drain")
                    /\ stop' = stop \/ stop # "freed"
<1>1. CASE UNCHANGED dataVars
  BY <1>1 DEF dataVars, loopVars, pipeVars, ranVars, Writers
<1>2. CASE (LoopStart \/ LoopSetupTimer) /\ ~UNCHANGED dataVars
  BY <1>2 DEF LoopStart, LoopSetupTimer, Abort, loopVars, pipeVars, ranVars, Writers
<1>3. ASSUME NEW m, LoopSetupResponse(m) \/ LoopShutdown(m) \/ LoopControl(m),
             ~UNCHANGED dataVars
      PROVE  Quiet
  BY <1>3 DEF LoopSetupResponse, LoopShutdown, LoopControl, Abort, loopVars, pipeVars,
              ranVars, Writers
<1>4. ASSUME NEW m, LoopSubscribe(m) \/ LoopDelete(m)
      PROVE  Quiet
  BY <1>4 DEF LoopSubscribe, LoopDelete, Read, loopVars, pipeVars, Writers
<1>5. CASE LoopRegister \/ LoopStop \/ StopAgent
  BY <1>5 DEF LoopRegister, LoopStop, StopAgent, loopVars, pipeVars, ranVars, Writers
<1>6. ASSUME NEW t \in RanThreads, RanFind(t) \/ \E id \in Ids : RanEvent(t, id),
             ~UNCHANGED dataVars
      PROVE  Quiet
  <2>1. PICK pos \in {"push", "find"} :
          /\ rpc[t] \in {"idle", "find"} /\ rpc' = [rpc EXCEPT ![t] = pos]
          /\ UNCHANGED <<loopVars, pipeVars, stop>>
    <3>1. CASE RanFind(t)
      BY <1>6, <3>1 DEF RanFind, Abort
    <3>2. CASE \E id \in Ids : RanEvent(t, id)
      BY <3>2 DEF RanEvent
    <3> QED  BY <1>6, <3>1, <3>2
  <2>2. Writers' = Writers
    BY <2>1 DEF Writers, Types
  <2> QED  BY <2>1, <2>2 DEF loopVars, pipeVars
<1>7. CASE RicSetsUp \/ RicLost \/ \E m \in toRic : RicHears(m)
  BY <1>7 DEF RicSetsUp, RicLost, RicHears, loopVars, pipeVars, ranVars, Writers
<1>8. ASSUME NEW id \in Ids, RicRequests(id) \/ RicDeletes(id)
      PROVE  Quiet
  BY <1>8 DEF RicRequests, RicDeletes, loopVars, pipeVars, ranVars, Writers
<1> QED  BY <1>1, <1>2, <1>3, <1>4, <1>5, <1>6, <1>7, <1>8 DEF LoopReads

\* The inductive invariant of queue and pipe is kept by every step.
LEMMA NextPipe ==
  ASSUME Digits = 4, Types, PipeInv, [Next]_vars
  PROVE  PipeInv'
<1>0. Len(queue) \in Nat /\ Len(batch) \in Nat /\ bytes \in Nat /\ Writing \in Nat
  BY WritersFinite DEF Types
<1>1. CASE LoopAperiodic /\ ~UNCHANGED dataVars
  <2>1. /\ lpc = "idle" /\ lpc' = "drain" /\ batch' = queue /\ wakeup' = FALSE
        /\ queue' = SubSeq(queue, Len(queue) + 1, Len(queue))
        /\ UNCHANGED <<bytes, ranVars, stop>>
    BY <1>1 DEF LoopAperiodic, Abort, AllEvents
  <2>2. Len(queue') = 0
    BY <1>0, <2>1 DEF Types
  <2>3. Writing' = Writing /\ batch = <<>> /\ Len(batch) = 0
    BY <2>1 DEF Writing, ranVars, PipeInv
  <2> QED  BY <1>0, <2>1, <2>2, <2>3 DEF PipeInv
<1>2. CASE LoopDrain /\ ~UNCHANGED dataVars
  <2>1. /\ lpc = "drain" /\ bytes > 0
        /\ bytes' = bytes - Least(ReadSize, bytes)
        /\ batch' = Tail(batch) /\ lpc' = IF Tail(batch) = <<>> THEN "idle" ELSE "drain"
        /\ UNCHANGED <<queue, wakeup, ranVars, stop>>
    BY <1>2 DEF LoopDrain, Abort
  <2>2. stop # "freed" /\ batch # <<>>
    BY <2>1 DEF Types
  <2>3. bytes + 4 * Writing = 4 * (Len(queue) + Len(batch))
    BY <2>2 DEF PipeInv
  <2>4. Len(batch') = Len(batch) - 1 /\ batch' \in Seq(Ids)
    BY <2>1, <2>2 DEF Types
  <2>5. Least(ReadSize, bytes) = 4
    BY <1>0, <2>1, <2>3 DEF Least, ReadSize
  <2>6. Writing' = Writing /\ bytes' = bytes - 4
    BY <2>1, <2>5 DEF Writing, ranVars
  <2>7. bytes' + 4 * Writing' = 4 * (Len(queue') + Len(batch'))
    BY <1>0, <2>1, <2>3, <2>4, <2>6
  <2>8. batch' = <<>> <=> Len(batch') = 0
    BY <2>4
  <2> QED  BY <1>0, <2>1, <2>2, <2>4, <2>6, <2>7, <2>8 DEF PipeInv
<1>3. ASSUME NEW t \in RanThreads, RanPush(t)
      PROVE  PipeInv'
  <2>1. /\ rpc[t] = "push" /\ rpc' = [rpc EXCEPT ![t] = "write"] /\ stop # "freed"
        /\ queue' = Append(queue, rid[t]) /\ rid[t] \in Ids
        /\ UNCHANGED <<lpc, batch, bytes, wakeup, stop>>
    BY <1>3 DEF RanPush, loopVars, Types
  <2>2. Writers' = Writers \union {t} /\ t \notin Writers
    BY <2>1 DEF Writers, Types
  <2>3. Cardinality(Writers') = Cardinality(Writers) + 1
    BY <2>2, WritersFinite, FS_AddElement
  <2>4. Writing' = Writing + 1
    BY <2>3, WritersFinite DEF Writing, Writers
  <2>5. Len(queue') = Len(queue) + 1
    BY <2>1 DEF Types
  <2>6. bytes + 4 * Writing = 4 * (Len(queue) + Len(batch))
    BY <2>1 DEF PipeInv
  <2>7. bytes' + 4 * Writing' = 4 * (Len(queue') + Len(batch'))
    BY <1>0, <2>1, <2>4, <2>5, <2>6
  <2> QED  BY <2>1, <2>7 DEF PipeInv
<1>4. ASSUME NEW t \in RanThreads, RanWrite(t)
      PROVE  PipeInv'
  <2>1. /\ rpc[t] = "write" /\ rpc' = [rpc EXCEPT ![t] = "idle"] /\ stop # "freed"
        /\ bytes' = bytes + 4 /\ wakeup' = TRUE
        /\ UNCHANGED <<lpc, batch, queue, stop>>
    BY <1>4 DEF RanWrite, loopVars
  <2>2. Writers' = Writers \ {t} /\ t \in Writers
    BY <2>1 DEF Writers, Types
  <2>3. Cardinality(Writers') = Cardinality(Writers) - 1
    BY <2>2, WritersFinite, FS_RemoveElement
  <2>4. Writing' = Writing - 1
    BY <2>3, WritersFinite DEF Writing, Writers
  <2>5. bytes + 4 * Writing = 4 * (Len(queue) + Len(batch))
    BY <2>1 DEF PipeInv
  <2>6. bytes' + 4 * Writing' = 4 * (Len(queue') + Len(batch'))
    BY <1>0, <2>1, <2>4, <2>5
  <2> QED  BY <2>1, <2>6 DEF PipeInv
<1>5. CASE FreeAgent /\ ~UNCHANGED dataVars
  <2>1. stop' = "freed" /\ UNCHANGED <<lpc, batch>>
    BY <1>5 DEF FreeAgent, Abort, loopVars
  <2> QED  BY <2>1 DEF PipeInv
<1>6. CASE UNCHANGED dataVars
  BY <1>6, QuietSteps, PipeQuiet
<1>7. CASE UNCHANGED vars
  BY <1>6, <1>7 DEF vars
<1>8. CASE \/ LoopStart \/ LoopSetupTimer \/ LoopReads \/ LoopRegister \/ LoopStop
           \/ \E t \in RanThreads : RanFind(t) \/ \E id \in Ids : RanEvent(t, id)
           \/ StopAgent \/ RicSetsUp \/ RicLost
           \/ \E id \in Ids : RicRequests(id) \/ RicDeletes(id)
           \/ \E m \in toRic : RicHears(m)
  BY <1>8, QuietSteps, PipeQuiet
<1> QED  BY <1>1, <1>2, <1>3, <1>4, <1>5, <1>6, <1>7, <1>8 DEF Next, LoopOn, RanStep

\* The inductive invariant of queue and pipe holds initially.
LEMMA InitPipe ==
  ASSUME Init
  PROVE  PipeInv
<1>1. Writers = {}
  BY DEF Init, Writers
<1>2. Writing = 0
  BY <1>1, WritersFinite, FS_EmptySet
<1> QED  BY <1>2 DEF Init, PipeInv

\* The pipe holds four bytes for each event that was announced and is not yet drained,
\* and the loop is told of what it holds.  It needs ids of four digits: the loop reads
\* four bytes per event, whatever the number of digits written.
THEOREM PipeFollowsQueue ==
  ASSUME Digits = 4
  PROVE  Spec => []PipeMatchesQueue
<1>1. Init => Types /\ PipeInv
  BY InitTypes, InitPipe
<1>2. Types /\ PipeInv /\ [Next]_vars => (Types /\ PipeInv)'
  BY NextTypes, NextPipe
<1>3. Types /\ PipeInv => PipeMatchesQueue
  BY DEF Types, PipeInv, PipeMatchesQueue
<1> QED  BY <1>1, <1>2, <1>3, PTL DEF Spec

-----------------------------------------------------------------------------
(* Subscriptions: what the RIC was told, and what the RAN was told.        *)

ToAgentOf(id) == {i \in 1 .. Len(toAgent) : toAgent[i] \in Request /\ toAgent[i].id = id}
ToRicOf(id) == {m \in toRic : m \in Request /\ m.id = id}
Registering(id) == lpc = "register" /\ lmsg.id = id

OneEntry(id) == \E e \in ind : EntriesOf(id) = {e}

\* The dialogue about an id has one message under way at most, which tells with the
\* state of the RIC whether the agent has an entry: exactly one, or none.
Dialogue(id) ==
  /\ \A i, j \in ToAgentOf(id) : i = j
  /\ \A l, m \in ToRicOf(id) : l = m
  /\ ToAgentOf(id) # {} => ToRicOf(id) = {} /\ ~Registering(id)
  /\ Registering(id) => ToRicOf(id) = {} /\ ric[id] = "asked" /\ EntriesOf(id) = {}
  /\ ric[id] \in {"new", "served", "ended"} => ToAgentOf(id) = {} /\ ToRicOf(id) = {}
  /\ \A i \in ToAgentOf(id) : /\ toAgent[i].kind = "DEL" => ric[id] = "ending" /\ OneEntry(id)
                              /\ toAgent[i].kind # "DEL" => ric[id] = "asked" /\ EntriesOf(id) = {}
  /\ \A m \in ToRicOf(id) : /\ m.kind = "DEL" => ric[id] = "ending"
                            /\ m.kind # "DEL" => ric[id] = "asked"
                            /\ m.kind = "SUBS" => OneEntry(id)
                            /\ m.kind # "SUBS" => EntriesOf(id) = {}
  /\ ric[id] = "served" => OneEntry(id)
  /\ ric[id] \in {"new", "ended"} => EntriesOf(id) = {}

Dialogues == lost = 0 /\ stop # "freed" => \A id \in Ids : Dialogue(id)
StreamInv == Dialogues /\ RanInformed

\* Reading takes the oldest message.
LEMMA ReadShifts ==
  ASSUME Types, NEW m, Read(m), toAgent' = Tail(toAgent), NEW id \in Ids
  PROVE  /\ \A i \in ToAgentOf(id)' : i + 1 \in ToAgentOf(id) /\ toAgent'[i] = toAgent[i + 1]
                                      /\ i + 1 # 1
         /\ m \in Request /\ m.id = id => 1 \in ToAgentOf(id) /\ toAgent[1] = m
<1>1. /\ m = toAgent[1] /\ Len(toAgent) \in Nat \ {0} /\ Len(toAgent') = Len(toAgent) - 1
      /\ \A i \in 1 .. Len(toAgent) - 1 : toAgent'[i] = toAgent[i + 1]
  BY ReadMessage
<1>2. ASSUME NEW i \in ToAgentOf(id)'
      PROVE  i + 1 \in ToAgentOf(id) /\ toAgent'[i] = toAgent[i + 1] /\ i + 1 # 1
  <2>1. i \in 1 .. Len(toAgent) - 1 /\ toAgent'[i] \in Request /\ toAgent'[i].id = id
    BY <1>1 DEF ToAgentOf
  <2>2. toAgent'[i] = toAgent[i + 1] /\ i + 1 \in 1 .. Len(toAgent) /\ i + 1 # 1
    BY <1>1, <2>1
  <2> QED  BY <2>1, <2>2 DEF ToAgentOf
<1> QED  BY <1>1, <1>2 DEF ToAgentOf

\* What a message that arrives adds to the dialogue of a subscription.
LEMMA DeliverAdds ==
  ASSUME Types, NEW m \in Messages, Deliver(m), NEW id \in Ids
  PROVE  /\ m \in Request /\ m.id = id => ToAgentOf(id)' = ToAgentOf(id) \union {Len(toAgent) + 1}
         /\ ~(m \in Request /\ m.id = id) => ToAgentOf(id)' = ToAgentOf(id)
         /\ \A i \in ToAgentOf(id) : toAgent'[i] = toAgent[i]
         /\ toAgent'[Len(toAgent) + 1] = m /\ Len(toAgent) \in Nat
<1>1. toAgent' = Append(toAgent, m) /\ toAgent \in Seq(Messages) /\ Len(toAgent) \in Nat
  BY DEF Deliver, Types
<1>2. /\ Len(toAgent') = Len(toAgent) + 1
      /\ \A i \in 1 .. Len(toAgent) : toAgent'[i] = toAgent[i]
      /\ toAgent'[Len(toAgent) + 1] = m
  BY <1>1
<1>3. 1 .. Len(toAgent) + 1 = (1 .. Len(toAgent)) \union {Len(toAgent) + 1}
  BY <1>1
<1> QED  BY <1>1, <1>2, <1>3 DEF ToAgentOf

\* Steps that touch no dialogue.
LEMMA DialogueQuiet ==
  ASSUME NEW id \in Ids, Dialogue(id), UNCHANGED <<ind, ric>>, UNCHANGED ToRicOf(id),
         UNCHANGED Registering(id), UNCHANGED ToAgentOf(id),
         \A i \in ToAgentOf(id) : toAgent'[i] = toAgent[i]
  PROVE  Dialogue(id)'
BY DEF Dialogue, EntriesOf, OneEntry

\* Steps that read a message of another dialogue, or of none.
LEMMA DialogueShifted ==
  ASSUME Types, NEW id \in Ids, Dialogue(id), UNCHANGED <<ric>>, UNCHANGED ToRicOf(id),
         UNCHANGED Registering(id), UNCHANGED EntriesOf(id),
         NEW m, Read(m), toAgent' = Tail(toAgent)
  PROVE  Dialogue(id)'
<1>1. \A i \in ToAgentOf(id)' : i + 1 \in ToAgentOf(id) /\ toAgent'[i] = toAgent[i + 1]
  BY ReadShifts
<1>2. UNCHANGED OneEntry(id)
  BY DEF OneEntry, EntriesOf
<1>3. \A i, j \in ToAgentOf(id)' : i = j
  <2>1. \A i \in ToAgentOf(id)' : i \in Nat
    BY ReadMessage DEF ToAgentOf
  <2>2. \A i, j \in ToAgentOf(id)' : i + 1 = j + 1
    BY <1>1 DEF Dialogue
  <2> QED  BY <2>1, <2>2
<1> QED  BY <1>1, <1>2, <1>3 DEF Dialogue

\* The message that is read was the only one of its dialogue.
LEMMA DialogueRead ==
  ASSUME Types, NEW m, Read(m), toAgent' = Tail(toAgent), m \in Request, m.id \in Ids,
         Dialogue(m.id)
  PROVE  /\ ToAgentOf(m.id)' = {} /\ ToRicOf(m.id) = {} /\ ~Registering(m.id)
         /\ m.kind = "DEL" => ric[m.id] = "ending" /\ OneEntry(m.id)
         /\ m.kind # "DEL" => ric[m.id] = "asked" /\ EntriesOf(m.id) = {}
<1>1. 1 \in ToAgentOf(m.id) /\ toAgent[1] = m
  BY ReadShifts
<1>2. \A i \in ToAgentOf(m.id)' : i + 1 \in ToAgentOf(m.id) /\ i + 1 # 1
  BY ReadShifts
<1> QED  BY <1>1, <1>2 DEF Dialogue

\* Reading a subscription request keeps the dialogue of every subscription.
LEMMA SubscribeDialogue ==
  ASSUME Types, NEW m, LoopSubscribe(m), NEW id \in Ids, Dialogue(id), Dialogue(m.id)
  PROVE  Dialogue(id)'
<1>1. /\ Read(m) /\ m.kind = "SUBS" /\ toAgent' = Tail(toAgent)
      /\ lmsg' = m /\ lpc' = "register" /\ UNCHANGED <<ind, toRic, ric>>
  BY DEF LoopSubscribe, ReadDone, indVars, ricVars
<1>2. m \in Request /\ m.id \in Ids /\ lpc = "idle"
  BY <1>1, ReadMessage, MessageKinds
<1>3. UNCHANGED <<ToRicOf(id), EntriesOf(id)>>
  BY <1>1 DEF ToRicOf, EntriesOf
<1>4. CASE id # m.id
  <2>1. UNCHANGED Registering(id)
    BY <1>1, <1>2, <1>4 DEF Registering
  <2> QED  BY <1>1, <1>3, <2>1, DialogueShifted
<1>5. CASE id = m.id
  <2>1. /\ ToAgentOf(id)' = {} /\ ToRicOf(id)' = {} /\ ric'[id] = "asked"
        /\ EntriesOf(id)' = {}
    BY <1>1, <1>2, <1>3, <1>5, DialogueRead
  <2> QED  BY <2>1 DEF Dialogue
<1> QED  BY <1>4, <1>5

\* Registering the timer keeps the dialogue of every subscription.
LEMMA RegisterDialogue ==
  ASSUME Types, LoopRegister, NEW id \in Ids, Dialogue(id)
  PROVE  Dialogue(id)'
<1>1. PICK e \in Entry : e = [id |-> lmsg.id, aper |-> lmsg.aper, n |-> made]
  BY DEF LoopRegister, Types, Request, Entry
<1>2. /\ lpc = "register" /\ lpc' = "idle" /\ lmsg \in Request /\ lmsg.kind = "SUBS"
      /\ ind' = ind \union {e} /\ toRic' = toRic \union {lmsg} /\ UNCHANGED <<toAgent, ric>>
      /\ e.id = lmsg.id
  BY <1>1 DEF LoopRegister, ricVars, Types
<1>3. /\ ToAgentOf(id)' = ToAgentOf(id) /\ ~Registering(id)'
      /\ \A i \in ToAgentOf(id) : toAgent'[i] = toAgent[i]
  BY <1>2 DEF ToAgentOf, Registering
<1>4. CASE id # lmsg.id
  <2>1. ToRicOf(id)' = ToRicOf(id) /\ EntriesOf(id)' = EntriesOf(id) /\ ~Registering(id)
    BY <1>2, <1>4 DEF ToRicOf, EntriesOf, Registering
  <2>2. UNCHANGED OneEntry(id)
    BY <1>2, <2>1 DEF OneEntry, EntriesOf
  <2> QED  BY <1>2, <1>3, <2>1, <2>2 DEF Dialogue
<1>5. CASE id = lmsg.id
  <2>1. ToRicOf(id) = {} /\ EntriesOf(id) = {} /\ ToAgentOf(id) = {} /\ ric[id] = "asked"
    BY <1>2, <1>5 DEF Dialogue, Registering
  <2>2. ToRicOf(id)' = {lmsg}
    BY <1>2, <1>5, <2>1 DEF ToRicOf
  <2>3. EntriesOf(id)' = {e} /\ OneEntry(id)'
    BY <1>2, <1>5, <2>1 DEF EntriesOf, OneEntry
  <2> QED  BY <1>2, <1>3, <2>1, <2>2, <2>3 DEF Dialogue
<1> QED  BY <1>4, <1>5

\* A delete that is read keeps every dialogue, and frees exactly the one entry of its
\* subscription.
LEMMA DeleteDialogue ==
  ASSUME Types, NEW m, LoopDelete(m), ~UNCHANGED dataVars, NEW id \in Ids, Dialogue(id),
         Dialogue(m.id)
  PROVE  Dialogue(id)' /\ \E e \in ind : /\ EntriesOf(m.id) = {e} /\ ind' = ind \ {e}
                                         /\ ranSubs' = ranSubs \ FreedBy(e)
<1>1. Read(m) /\ m.kind = "DEL"
  BY DEF LoopDelete
<1>2. m \in Request /\ m.id \in Ids /\ lpc = "idle"
  BY <1>1, ReadMessage, MessageKinds
<1>3. OneEntry(m.id)
  <2>1. 1 \in ToAgentOf(m.id) /\ toAgent[1] = m
    BY <1>1, <1>2, ReadMessage DEF ToAgentOf
  <2> QED  BY <1>1, <2>1 DEF Dialogue
<1>4. PICK e \in ind : EntriesOf(m.id) = {e}
  BY <1>3 DEF OneEntry
<1>5. /\ toAgent' = Tail(toAgent) /\ toRic' = toRic \union {m} /\ ind' = ind \ {e}
      /\ ranSubs' = ranSubs \ FreedBy(e) /\ UNCHANGED <<lpc, lmsg, ric>>
  <2>1. UNCHANGED <<loopVars, made, setupVars, pipeVars, rpc, rid, events, ricVars, stop>>
    BY DEF LoopDelete
  <2>2. PICK z \in SameFd(e) :
          IF z.id # e.id THEN UNCHANGED <<ind, ranSubs, toAgent, edge, toRic>>
          ELSE /\ ind' = ind \ EndedBy(e) /\ ranSubs' = ranSubs \ FreedBy(e)
               /\ ReadDone /\ toRic' = toRic \union {m}
    BY <1>4 DEF LoopDelete
  <2>3. CASE z.id # e.id
    BY <2>1, <2>2, <2>3 DEF dataVars, indVars, ranVars
  <2> QED  BY <2>1, <2>2, <2>3 DEF ReadDone, EndedBy, loopVars, ricVars
<1>6. e.id = m.id
  BY <1>4 DEF EntriesOf
<1>7. CASE id # m.id
  <2>1. UNCHANGED <<ToRicOf(id), EntriesOf(id), Registering(id)>>
    BY <1>5, <1>6, <1>7 DEF ToRicOf, EntriesOf, Registering
  <2> QED  BY <1>1, <1>4, <1>5, <2>1, DialogueShifted
<1>8. CASE id = m.id
  <2>1. ToAgentOf(id)' = {} /\ ToRicOf(id) = {} /\ ~Registering(id) /\ ric[id] = "ending"
    BY <1>1, <1>2, <1>5, <1>8, DialogueRead
  <2>2. ToRicOf(id)' = {m} /\ ~Registering(id)'
    BY <1>2, <1>5, <1>8, <2>1 DEF ToRicOf, Registering
  <2>3. EntriesOf(id)' = {}
    BY <1>4, <1>5, <1>8 DEF EntriesOf
  <2> QED  BY <1>1, <1>4, <1>5, <2>1, <2>2, <2>3 DEF Dialogue
<1> QED  BY <1>7, <1>8

\* A control request keeps the dialogue of every subscription.
LEMMA ControlDialogue ==
  ASSUME Types, NEW m, LoopControl(m), NEW id \in Ids, Dialogue(id), Dialogue(m.id)
  PROVE  Dialogue(id)'
<1>1. /\ Read(m) /\ m.kind = "CTRL" /\ toAgent' = Tail(toAgent)
      /\ toRic' = toRic \union {m} /\ UNCHANGED <<ind, lpc, lmsg, ric>>
  BY DEF LoopControl, ReadDone, loopVars, indVars, ricVars
<1>2. m \in Request /\ m.id \in Ids /\ lpc = "idle"
  BY <1>1, ReadMessage, MessageKinds
<1>3. UNCHANGED <<Registering(id), EntriesOf(id)>>
  BY <1>1 DEF Registering, EntriesOf
<1>4. CASE id # m.id
  <2>1. UNCHANGED ToRicOf(id)
    BY <1>1, <1>4 DEF ToRicOf
  <2> QED  BY <1>1, <1>3, <2>1, DialogueShifted
<1>5. CASE id = m.id
  <2>1. /\ ToAgentOf(id)' = {} /\ ToRicOf(id) = {} /\ ric'[id] = "asked"
        /\ EntriesOf(id)' = {} /\ ~Registering(id)
    BY <1>1, <1>2, <1>3, <1>5, DialogueRead
  <2>2. ToRicOf(id)' = {m}
    BY <1>1, <1>2, <1>5, <2>1 DEF ToRicOf
  <2> QED  BY <1>1, <1>3, <2>1, <2>2 DEF Dialogue
<1> QED  BY <1>4, <1>5

\* A message of the RIC.
LEMMA RicDialogue ==
  ASSUME Types, NEW k \in Ids, RicRequests(k) \/ RicDeletes(k), NEW id \in Ids, Dialogue(id)
  PROVE  Dialogue(id)'
<1>1. PICK kind \in {"SUBS", "CTRL", "DEL"}, aper \in BOOLEAN :
        /\ Deliver([kind |-> kind, id |-> k, aper |-> aper])
        /\ \/ kind # "DEL" /\ ric[k] = "new" /\ ric' = [ric EXCEPT ![k] = "asked"]
           \/ kind = "DEL" /\ ric[k] = "served" /\ ric' = [ric EXCEPT ![k] = "ending"]
  BY DEF RicRequests, RicDeletes
<1>2. UNCHANGED <<ind, toRic, lpc, lmsg>>
  BY DEF RicRequests, RicDeletes, loopVars, indVars
<1>3. PICK m \in Request : m = [kind |-> kind, id |-> k, aper |-> aper] /\ m.id = k /\ m.kind = kind
  <2>1. [kind |-> kind, id |-> k, aper |-> aper] \in Request
    BY DEF Request
  <2>2. PICK m \in Request : m = [kind |-> kind, id |-> k, aper |-> aper]
    BY <2>1
  <2>3. m.id = k /\ m.kind = kind
    BY <2>2
  <2> QED  BY <2>2, <2>3
<1>4. Deliver(m) /\ m \in Messages
  BY <1>1, <1>3 DEF Messages
<1>5. UNCHANGED <<ToRicOf(id), Registering(id), EntriesOf(id)>> /\ UNCHANGED OneEntry(id)
  BY <1>2 DEF ToRicOf, Registering, EntriesOf, OneEntry
<1>6. CASE id # k
  <2>1. ToAgentOf(id)' = ToAgentOf(id) /\ \A i \in ToAgentOf(id) : toAgent'[i] = toAgent[i]
    BY <1>3, <1>4, <1>6, DeliverAdds
  <2>2. ric'[id] = ric[id]
    BY <1>1, <1>6 DEF Types
  <2> QED  BY <1>5, <2>1, <2>2 DEF Dialogue
<1>7. CASE id = k
  <2>1. ToAgentOf(id) = {} /\ ToRicOf(id) = {} /\ ~Registering(id)
    BY <1>1, <1>7 DEF Dialogue
  <2>2. ToAgentOf(id)' = {Len(toAgent) + 1} /\ toAgent'[Len(toAgent) + 1] = m
    BY <1>3, <1>4, <1>7, <2>1, DeliverAdds
  <2>3. ric'[id] = IF kind = "DEL" THEN "ending" ELSE "asked"
    BY <1>1, <1>7 DEF Types
  <2> QED  BY <1>1, <1>3, <1>5, <1>7, <2>1, <2>2, <2>3 DEF Dialogue
<1> QED  BY <1>6, <1>7

\* The RIC reading an answer keeps the dialogue of every subscription.
LEMMA HearsDialogue ==
  ASSUME Types, NEW m \in toRic, RicHears(m), NEW id \in Ids, Dialogue(id)
  PROVE  Dialogue(id)'
<1>1. m \in Request
  BY DEF RicHears, Types, Setup
<1>2. /\ toRic' = toRic \ {m} /\ UNCHANGED <<ind, toAgent, lpc, lmsg>>
      /\ m.id \in Ids /\ m.kind \in {"SUBS", "DEL", "CTRL"}
      /\ ric' = [ric EXCEPT ![m.id] = IF m.kind = "SUBS" THEN "served" ELSE "ended"]
  BY <1>1 DEF RicHears, loopVars, indVars, Request
<1>3. /\ UNCHANGED <<Registering(id), EntriesOf(id), ToAgentOf(id)>> /\ UNCHANGED OneEntry(id)
      /\ \A i \in ToAgentOf(id) : toAgent'[i] = toAgent[i]
  BY <1>2 DEF Registering, EntriesOf, ToAgentOf, OneEntry
<1>4. CASE id # m.id
  <2>1. ToRicOf(id)' = ToRicOf(id) /\ ric'[id] = ric[id]
    BY <1>2, <1>4 DEF ToRicOf, Types
  <2> QED  BY <1>3, <2>1 DEF Dialogue
<1>5. CASE id = m.id
  <2>1. m \in ToRicOf(id)
    BY <1>1, <1>5 DEF ToRicOf
  <2>2. /\ ToRicOf(id)' = {} /\ ToAgentOf(id) = {} /\ ~Registering(id)
        /\ m.kind = "SUBS" => OneEntry(id)
        /\ m.kind # "SUBS" => EntriesOf(id) = {}
    BY <1>2, <2>1 DEF Dialogue, ToRicOf
  <2>3. ric'[id] = IF m.kind = "SUBS" THEN "served" ELSE "ended"
    BY <1>2, <1>5 DEF Types
  <2> QED  BY <1>3, <2>2, <2>3 DEF Dialogue
<1> QED  BY <1>4, <1>5

\* The steps that send no message of a dialogue, and register no subscription.
LEMMA OtherSteps ==
  ASSUME Types, [Next]_vars, ~LoopRegister,
         \A m : ~LoopSubscribe(m) /\ ~LoopDelete(m) /\ ~LoopControl(m)
                /\ ~LoopSetupResponse(m) /\ ~LoopShutdown(m),
         \A id \in Ids : ~RicRequests(id) /\ ~RicDeletes(id),
         \A m \in toRic : ~RicHears(m), ~RicLost, ~(FreeAgent /\ stop' = "freed")
  PROVE  /\ UNCHANGED <<ind, ric, ranSubs, lmsg, lost>> /\ toRic' \ {Setup} = toRic \ {Setup}
         /\ lpc' = lpc \/ (lpc # "register" /\ lpc' # "register")
         /\ toAgent' = toAgent \/ Deliver(Setup)
         /\ stop = "freed" => stop' = "freed"
<1> DEFINE Goal == /\ UNCHANGED <<ind, ric, ranSubs, lmsg, lost>>
                   /\ toRic' \ {Setup} = toRic \ {Setup}
                   /\ lpc' = lpc \/ (lpc # "register" /\ lpc' # "register")
                   /\ toAgent' = toAgent \/ Deliver(Setup)
                   /\ stop = "freed" => stop' = "freed"
<1>1. CASE UNCHANGED dataVars
  BY <1>1 DEF dataVars, loopVars, indVars, ranVars, ricVars
<1>2. CASE (LoopStart \/ LoopSetupTimer) /\ ~UNCHANGED dataVars
  BY <1>2 DEF LoopStart, LoopSetupTimer, SendSetup, Abort, loopVars, indVars, ranVars, ricVars
<1>3. CASE (LoopDrain \/ LoopStop \/ LoopAperiodic) /\ ~UNCHANGED dataVars
  BY <1>3 DEF LoopDrain, LoopStop, LoopAperiodic, Abort, indVars, ranVars, ricVars
<1>4. ASSUME NEW t \in RanThreads, RanStep(t) \/ \E id \in Ids : RanEvent(t, id),
             ~UNCHANGED dataVars
      PROVE  Goal
  <2>1. CASE RanFind(t)
    BY <1>4, <2>1 DEF RanFind, Abort, loopVars, indVars, ricVars
  <2>2. CASE RanPush(t)
    BY <2>2 DEF RanPush, loopVars, indVars, ricVars
  <2>3. CASE RanWrite(t)
    BY <2>3 DEF RanWrite, loopVars, indVars, ricVars
  <2>4. CASE \E id \in Ids : RanEvent(t, id)
    BY <2>4 DEF RanEvent, loopVars, indVars, ricVars
  <2> QED  BY <1>4, <2>1, <2>2, <2>3, <2>4 DEF RanStep
<1>5. CASE StopAgent
  BY <1>5 DEF StopAgent, loopVars, indVars, ranVars, ricVars
<1>6. CASE FreeAgent /\ ~UNCHANGED dataVars
  BY <1>6 DEF FreeAgent, Abort
<1>7. CASE RicSetsUp
  BY <1>7 DEF RicSetsUp, loopVars, indVars, ranVars
<1>8. CASE UNCHANGED vars
  BY <1>1, <1>8 DEF vars
<1> QED  BY <1>1, <1>2, <1>3, <1>4, <1>5, <1>6, <1>7, <1>8 DEF Next, LoopOn, LoopReads

\* Every step keeps the dialogues of all subscriptions.
LEMMA NextDialogues ==
  ASSUME Types, Dialogues, [Next]_vars
  PROVE  Dialogues'
<1>0. SUFFICES ASSUME lost' = 0, stop' # "freed", NEW id \in Ids
               PROVE  Dialogue(id)'
  BY DEF Dialogues
<1>1. CASE UNCHANGED dataVars
  <2>1. Dialogue(id)
    BY <1>0, <1>1 DEF Dialogues, dataVars, ricVars
  <2>2. /\ UNCHANGED <<ind, ric, ToRicOf(id), Registering(id), ToAgentOf(id)>>
        /\ \A i \in ToAgentOf(id) : toAgent'[i] = toAgent[i]
    BY <1>1 DEF dataVars, loopVars, indVars, ricVars, ToRicOf, Registering, ToAgentOf
  <2> QED  BY <2>1, <2>2, DialogueQuiet
<1>2. ASSUME NEW m, \/ LoopSubscribe(m) \/ LoopDelete(m) \/ LoopControl(m)
                    \/ LoopSetupResponse(m) \/ LoopShutdown(m),
             ~UNCHANGED dataVars
      PROVE  Dialogue(id)'
  <2>1. Read(m) /\ UNCHANGED lost /\ UNCHANGED stop
    BY <1>2 DEF LoopSubscribe, LoopDelete, LoopControl, LoopSetupResponse, LoopShutdown, Abort,
                ricVars
  <2>2. \A k \in Ids : Dialogue(k)
    BY <1>0, <2>1 DEF Dialogues
  <2>3. m \in Messages
    BY <2>1, ReadMessage
  <2>4. CASE LoopSubscribe(m) \/ LoopDelete(m) \/ LoopControl(m)
    <3>1. m.id \in Ids
      BY <2>3, <2>4, MessageKinds DEF LoopSubscribe, LoopDelete, LoopControl
    <3> QED  BY <1>2, <2>2, <2>4, <3>1, SubscribeDialogue, DeleteDialogue, ControlDialogue
  <2>5. CASE LoopSetupResponse(m) \/ LoopShutdown(m)
    <3>1. /\ toAgent' = Tail(toAgent)
          /\ UNCHANGED <<ind, ric, toRic, lpc, lmsg>>
      BY <1>2, <2>5 DEF LoopSetupResponse, LoopShutdown, ReadDone, Abort, loopVars, indVars,
                        ricVars
    <3>2. UNCHANGED <<ToRicOf(id), Registering(id), EntriesOf(id)>>
      BY <3>1 DEF ToRicOf, Registering, EntriesOf
    <3> QED  BY <2>1, <2>2, <3>1, <3>2, DialogueShifted
  <2> QED  BY <1>2, <2>4, <2>5
<1>3. CASE LoopRegister
  <2>1. Dialogue(id)
    BY <1>0, <1>3 DEF Dialogues, LoopRegister, ricVars
  <2> QED  BY <1>3, <2>1, RegisterDialogue
<1>4. ASSUME NEW k \in Ids, RicRequests(k) \/ RicDeletes(k)
      PROVE  Dialogue(id)'
  <2>1. Dialogue(id)
    BY <1>0, <1>4 DEF Dialogues, RicRequests, RicDeletes
  <2> QED  BY <1>4, <2>1, RicDialogue
<1>5. ASSUME NEW m \in toRic, RicHears(m)
      PROVE  Dialogue(id)'
  <2>1. Dialogue(id)
    BY <1>0, <1>5 DEF Dialogues, RicHears
  <2> QED  BY <1>5, <2>1, HearsDialogue
<1>6. CASE RicLost
  <2>1. lost' # 0
    BY <1>6 DEF RicLost, Types
  <2> QED  BY <1>0, <2>1
<1>7. CASE FreeAgent /\ stop' = "freed"
  BY <1>0, <1>7
<1>8. CASE /\ \A m : ~LoopSubscribe(m) /\ ~LoopDelete(m) /\ ~LoopControl(m)
                     /\ ~LoopSetupResponse(m) /\ ~LoopShutdown(m)
           /\ ~LoopRegister /\ \A k \in Ids : ~RicRequests(k) /\ ~RicDeletes(k)
           /\ \A m \in toRic : ~RicHears(m)
           /\ ~RicLost /\ ~(FreeAgent /\ stop' = "freed")
  <2>1. /\ UNCHANGED <<ind, ric, ranSubs, lmsg, lost>> /\ toRic' \ {Setup} = toRic \ {Setup}
        /\ lpc' = lpc \/ (lpc # "register" /\ lpc' # "register")
        /\ toAgent' = toAgent \/ Deliver(Setup)
        /\ stop = "freed" => stop' = "freed"
    BY <1>8, OtherSteps
  <2>2. stop # "freed"
    BY <1>0, <2>1
  <2>3. Dialogue(id)
    BY <1>0, <2>1, <2>2 DEF Dialogues
  <2>4. Setup \notin Request /\ Setup \in Messages
    BY DEF Setup, Request, Messages
  <2>5. UNCHANGED ToRicOf(id) /\ UNCHANGED Registering(id)
    BY <2>1, <2>4 DEF ToRicOf, Registering
  <2>6. UNCHANGED ToAgentOf(id) /\ \A i \in ToAgentOf(id) : toAgent'[i] = toAgent[i]
    <3>1. CASE toAgent' = toAgent
      BY <3>1 DEF ToAgentOf
    <3>2. CASE Deliver(Setup)
      BY <2>4, <3>2, DeliverAdds
    <3> QED  BY <2>1, <3>1, <3>2
  <2> QED  BY <2>1, <2>3, <2>5, <2>6, DialogueQuiet
<1> QED  BY <1>1, <1>2, <1>3, <1>4, <1>5, <1>6, <1>7, <1>8

\* What the RAN was told of.
Informed == ranSubs = {e.id : e \in {x \in ind : x.aper}}
                      \union (IF lpc = "register" /\ lmsg.aper THEN {lmsg.id} ELSE {})

\* The steps that leave the entries, the RAN's subscriptions and the message being
\* handled alone keep the RAN informed.
LEMMA InformedQuiet ==
  ASSUME Informed, UNCHANGED <<ind, ranSubs, lmsg>>,
         lpc' = lpc \/ (lpc # "register" /\ lpc' # "register")
  PROVE  Informed'
BY DEF Informed

\* Every step keeps the RAN informed of exactly the subscriptions the agent holds.
LEMMA NextInformed ==
  ASSUME Types, Dialogues, RanInformed, [Next]_vars
  PROVE  RanInformed'
<1>0. SUFFICES ASSUME lost' = 0, stop' # "freed"
               PROVE  Informed'
  BY DEF RanInformed, Informed
<1>1. CASE UNCHANGED dataVars
  <2>1. UNCHANGED <<ind, ranSubs, lmsg, lpc, lost, stop>>
    BY <1>1 DEF dataVars, loopVars, indVars, ranVars, ricVars
  <2> QED  BY <1>0, <2>1, InformedQuiet DEF RanInformed, Informed
<1>2. ASSUME NEW m, LoopSubscribe(m)
      PROVE  Informed'
  <2>1. /\ Read(m) /\ lmsg' = m /\ lpc' = "register"
        /\ ranSubs' = (IF m.aper THEN ranSubs \union {m.id} ELSE ranSubs)
        /\ UNCHANGED <<ind, lost, stop>>
    BY <1>2 DEF LoopSubscribe, indVars, ricVars
  <2>2. Informed /\ lpc = "idle"
    BY <1>0, <2>1 DEF RanInformed, Informed, Read
  <2> QED  BY <2>1, <2>2 DEF Informed
<1>3. CASE LoopRegister
  <2>1. PICK e \in Entry : e = [id |-> lmsg.id, aper |-> lmsg.aper, n |-> made]
    BY <1>3 DEF LoopRegister, Types, Request, Entry
  <2>2. /\ lpc = "register" /\ lpc' = "idle" /\ ind' = ind \union {e}
        /\ e.id = lmsg.id /\ e.aper = lmsg.aper /\ UNCHANGED <<ranSubs, lost, stop>>
    BY <1>3, <2>1 DEF LoopRegister, ranVars, ricVars
  <2>3. Informed
    BY <1>0, <2>2 DEF RanInformed, Informed
  <2>4. {x.id : x \in {y \in ind' : y.aper}} =
          {x.id : x \in {y \in ind : y.aper}} \union (IF e.aper THEN {e.id} ELSE {})
    BY <2>2
  <2> QED  BY <2>2, <2>3, <2>4 DEF Informed
<1>4. ASSUME NEW m, LoopDelete(m), ~UNCHANGED dataVars
      PROVE  Informed'
  <2>1. Read(m) /\ m.kind = "DEL" /\ lpc = "idle" /\ UNCHANGED <<lost, stop, lpc, lmsg>>
    BY <1>4 DEF LoopDelete, Read, ricVars, loopVars
  <2>2. m.id \in Ids
    BY <2>1, ReadMessage, MessageKinds
  <2>3. Informed /\ Dialogue(m.id)
    BY <1>0, <2>1, <2>2 DEF RanInformed, Informed, Dialogues
  <2>4. PICK e \in ind : /\ EntriesOf(m.id) = {e} /\ ind' = ind \ {e}
                         /\ ranSubs' = ranSubs \ FreedBy(e)
    BY <1>4, <2>2, <2>3, DeleteDialogue
  <2>5. \A x \in ind : x.id = e.id => x = e
    BY <2>4 DEF EntriesOf
  <2>6. ranSubs = {x.id : x \in {y \in ind : y.aper}}
    BY <2>1, <2>3 DEF Informed
  <2>7. ranSubs' = {x.id : x \in {y \in ind' : y.aper}}
    BY <2>4, <2>5, <2>6 DEF FreedBy
  <2> QED  BY <2>1, <2>7 DEF Informed
<1>5. ASSUME NEW m, LoopControl(m) \/ LoopSetupResponse(m) \/ LoopShutdown(m),
             ~UNCHANGED dataVars
      PROVE  Informed'
  <2>1. UNCHANGED <<ind, ranSubs, lmsg, lpc, lost, stop>>
    BY <1>5 DEF LoopControl, LoopSetupResponse, LoopShutdown, Abort, loopVars, indVars, ranVars,
                ricVars
  <2> QED  BY <1>0, <2>1, InformedQuiet DEF RanInformed, Informed
<1>6. CASE \/ \E k \in Ids : RicRequests(k) \/ RicDeletes(k)
           \/ \E m \in toRic : RicHears(m)
  <2>1. UNCHANGED <<ind, ranSubs, lmsg, lpc, lost, stop>>
    BY <1>6 DEF RicRequests, RicDeletes, RicHears, loopVars, indVars, ranVars
  <2> QED  BY <1>0, <2>1, InformedQuiet DEF RanInformed, Informed
<1>7. CASE RicLost
  <2>1. lost' # 0
    BY <1>7 DEF RicLost, Types
  <2> QED  BY <1>0, <2>1
<1>8. CASE FreeAgent /\ stop' = "freed"
  BY <1>0, <1>8
<1>9. CASE /\ \A m : ~LoopSubscribe(m) /\ ~LoopDelete(m) /\ ~LoopControl(m)
                     /\ ~LoopSetupResponse(m) /\ ~LoopShutdown(m)
           /\ ~LoopRegister /\ \A k \in Ids : ~RicRequests(k) /\ ~RicDeletes(k)
           /\ \A m \in toRic : ~RicHears(m)
           /\ ~RicLost /\ ~(FreeAgent /\ stop' = "freed")
  <2>1. /\ UNCHANGED <<ind, ric, ranSubs, lmsg, lost>> /\ toRic' \ {Setup} = toRic \ {Setup}
        /\ lpc' = lpc \/ (lpc # "register" /\ lpc' # "register")
        /\ toAgent' = toAgent \/ Deliver(Setup)
        /\ stop = "freed" => stop' = "freed"
    BY <1>9, OtherSteps
  <2> QED  BY <1>0, <2>1, InformedQuiet DEF RanInformed, Informed
<1> QED  BY <1>1, <1>2, <1>3, <1>4, <1>5, <1>6, <1>7, <1>8, <1>9

\* The dialogues and the RAN's knowledge hold initially.
LEMMA InitStreams ==
  ASSUME Init
  PROVE  StreamInv
<1>1. /\ toAgent = <<>> /\ toRic = {} /\ ind = {} /\ lpc = "start" /\ ranSubs = {}
      /\ ric = [id \in Ids |-> "new"]
  BY DEF Init
<1>2. \A id \in Ids : /\ ToAgentOf(id) = {} /\ ToRicOf(id) = {} /\ EntriesOf(id) = {}
                      /\ ~Registering(id) /\ ric[id] = "new"
  BY <1>1 DEF ToAgentOf, ToRicOf, EntriesOf, Registering
<1>3. \A id \in Ids : Dialogue(id)
  BY <1>2 DEF Dialogue
<1>4. RanInformed
  BY <1>1 DEF RanInformed
<1> QED  BY <1>3, <1>4 DEF StreamInv, Dialogues

\* While the first RIC is there: a subscription it was told of has its entry, once, and
\* one whose end it was told of has none.
THEOREM AgentKeepsItsWord == Spec => []StreamsAgree
<1>1. Init => Types /\ StreamInv
  BY InitTypes, InitStreams
<1>2. Types /\ StreamInv /\ [Next]_vars => (Types /\ StreamInv)'
  BY NextTypes, NextDialogues, NextInformed DEF StreamInv
<1>3. Types /\ StreamInv => StreamsAgree
  <2> SUFFICES ASSUME Types, StreamInv, lost = 0, stop # "freed", NEW id \in Ids
               PROVE  /\ ric[id] = "served" => Cardinality(EntriesOf(id)) = 1
                      /\ ric[id] \in {"new", "ended"} => EntriesOf(id) = {}
    BY DEF StreamsAgree
  <2>1. \A e \in ind : Cardinality({e}) = 1
    BY FS_Singleton
  <2> QED  BY <2>1 DEF StreamInv, Dialogues, Dialogue, OneEntry
<1> QED  BY <1>1, <1>2, <1>3, PTL DEF Spec

\* While the first RIC is there, the RAN reports events for the aperiodic subscriptions
\* of ind_event alone: it is told of each start and of each end.
THEOREM RanIsInformed == Spec => []RanInformed
<1>1. Init => Types /\ StreamInv
  BY InitTypes, InitStreams
<1>2. Types /\ StreamInv /\ [Next]_vars => (Types /\ StreamInv)'
  BY NextTypes, NextDialogues, NextInformed DEF StreamInv
<1>3. StreamInv => RanInformed
  BY DEF StreamInv
<1> QED  BY <1>1, <1>2, <1>3, PTL DEF Spec

-----------------------------------------------------------------------------
(* A calm environment: no assertion fails.                                 *)

\* What moves in the queue to the agent.
LEMMA ReadPositions ==
  ASSUME Types, NEW m, Read(m), toAgent' = Tail(toAgent)
  PROVE  /\ 1 \in 1 .. Len(toAgent) /\ toAgent[1] = m
         /\ \A i \in 1 .. Len(toAgent') : /\ i + 1 \in 1 .. Len(toAgent) /\ i + 1 # 1
                                          /\ toAgent'[i] = toAgent[i + 1]
         /\ \A i, j \in 1 .. Len(toAgent') : i + 1 = j + 1 => i = j
<1>1. /\ m = toAgent[1] /\ Len(toAgent) \in Nat \ {0} /\ Len(toAgent') = Len(toAgent) - 1
      /\ \A i \in 1 .. Len(toAgent) - 1 : toAgent'[i] = toAgent[i + 1]
  BY ReadMessage
<1> QED  BY <1>1

\* A message that arrives takes the last position, and moves no other.
LEMMA DeliverPositions ==
  ASSUME Types, NEW m \in Messages, Deliver(m)
  PROVE  \A i \in 1 .. Len(toAgent') :
           \/ i \in 1 .. Len(toAgent) /\ toAgent'[i] = toAgent[i]
           \/ i = Len(toAgent) + 1 /\ toAgent'[i] = m
<1>1. toAgent' = Append(toAgent, m) /\ toAgent \in Seq(Messages) /\ Len(toAgent) \in Nat
  BY DEF Deliver, Types
<1>2. /\ Len(toAgent') = Len(toAgent) + 1
      /\ \A i \in 1 .. Len(toAgent) : toAgent'[i] = toAgent[i]
      /\ toAgent'[Len(toAgent) + 1] = m
  BY <1>1
<1> QED  BY <1>1, <1>2

\* One setup dialogue: a pending entry while the RIC has not answered, one answer or
\* one shutdown under way, and a transaction id for the answer to come.
SetupInv ==
  /\ pend \in {0, 1}
  /\ lpc = "start" => pend = 0 /\ ~up /\ toRic = {} /\ toAgent = <<>>
  /\ \A i, j \in 1 .. Len(toAgent) :
       toAgent[i] \in {Setup, Shutdown} /\ toAgent[j] \in {Setup, Shutdown} => i = j
  /\ \A i \in 1 .. Len(toAgent) :
       /\ toAgent[i] = Setup => up /\ pend = 1 /\ transId # 0
       /\ toAgent[i] = Shutdown => ~up /\ pend = 0
  /\ Setup \in toRic /\ ~up => pend = 1 /\ transId # 0

\* One aperiodic subscription, asked for, about to be registered, or registered.
AperInv ==
  /\ \A i, j \in 1 .. Len(toAgent) : toAgent[i].aper /\ toAgent[j].aper => i = j
  /\ \A i \in 1 .. Len(toAgent) : toAgent[i].aper => ranSubs = {}
  /\ Informed
  /\ \A e, z \in ind : e.aper /\ z.aper => e = z
  /\ lpc = "register" /\ lmsg.aper => \A e \in ind : ~e.aper

\* A thread of the RAN that looks for its subscription finds it.
ThreadInv ==
  /\ \A t \in RanThreads : rpc[t] = "find" => EntriesOf(rid[t]) # {}
  /\ stop # "no" => \A t \in RanThreads : rpc[t] = "idle"

CalmInv == Calm => /\ fault = "none"
                   /\ stop # "freed" => SetupInv /\ AperInv /\ ThreadInv

\* No step of a calm environment fails an assertion.
LEMMA NothingFails ==
  ASSUME Digits = 4, Types, PipeInv, CalmInv, Calm, Next
  PROVE  fault' = "none"
<1>0. fault = "none"
  BY DEF CalmInv
<1>1. CASE stop = "freed"
  <2>1. lpc = "stopped"
    BY <1>1 DEF Types
  <2>2. Next => fault' = fault
    BY <1>1, <2>1 DEF Next, LoopOn, LoopStart, LoopRegister, LoopDrain, LoopStop, LoopReads,
       LoopSetupResponse, LoopShutdown, LoopSubscribe, LoopDelete, LoopControl, Read,
       LoopAperiodic, LoopSetupTimer, RanStep, RanFind, RanPush, RanWrite, RanEvent, StopAgent,
       FreeAgent, RicSetsUp, RicLost, RicRequests, RicDeletes, RicHears
  <2> QED  BY <1>0, <2>2
<1>2. CASE stop # "freed"
  <2>0. SetupInv /\ AperInv /\ ThreadInv
    BY <1>2 DEF CalmInv
  <2>1. CASE LoopSetupTimer
    BY <1>0, <2>0, <2>1 DEF LoopSetupTimer, SetupInv
  <2>2. ASSUME NEW m, LoopSetupResponse(m)
        PROVE  fault' = "none"
    <3>1. Read(m) /\ m.kind = "SETUP"
      BY <2>2 DEF LoopSetupResponse
    <3>2. m = Setup /\ 1 \in 1 .. Len(toAgent) /\ toAgent[1] = m
      BY <3>1, ReadMessage, MessageKinds
    <3>3. pend = 1 /\ transId # 0
      BY <2>0, <3>2 DEF SetupInv
    <3> QED  BY <1>0, <2>2, <3>3 DEF LoopSetupResponse
  <2>3. ASSUME NEW m, LoopDelete(m)
        PROVE  fault' = "none"
    <3>1. \A e \in EntriesOf(m.id) : \A z \in SameFd(e) : z = e
      BY <2>0 DEF AperInv, SameFd, EntriesOf
    <3> QED  BY <1>0, <2>3, <3>1 DEF LoopDelete
  <2>4. ASSUME bytes > 0
        PROVE  /\ lpc = "idle" => queue # <<>>
               /\ lpc = "drain" => Least(ReadSize, bytes) = 4
    <3>1. bytes + 4 * Writing = 4 * (Len(queue) + Len(batch))
      BY <1>2 DEF PipeInv
    <3>2. Len(queue) \in Nat /\ Len(batch) \in Nat /\ bytes \in Nat /\ Writing \in Nat
      BY WritersFinite DEF Types
    <3>3. lpc = "idle" => queue # <<>>
      <4>1. lpc = "idle" => Len(batch) = 0
        BY DEF PipeInv
      <4>2. queue = <<>> => Len(queue) = 0
        OBVIOUS
      <4> QED  BY <2>4, <3>1, <3>2, <4>1, <4>2
    <3> QED  BY <2>4, <3>1, <3>2, <3>3 DEF Least, ReadSize
  <2>5. CASE LoopAperiodic
    BY <1>0, <2>4, <2>5 DEF LoopAperiodic
  <2>6. CASE LoopDrain
    BY <1>0, <2>4, <2>6 DEF LoopDrain
  <2>7. ASSUME NEW t \in RanThreads, RanFind(t)
        PROVE  fault' = "none"
    BY <1>0, <2>0, <2>7 DEF RanFind, ThreadInv
  <2>8. CASE FreeAgent
    BY <1>0, <2>0, <2>8 DEF FreeAgent, ThreadInv
  <2>9. CASE \/ LoopStart \/ LoopRegister \/ LoopStop \/ StopAgent
             \/ \E m : LoopShutdown(m) \/ LoopSubscribe(m) \/ LoopControl(m)
             \/ \E t \in RanThreads : RanPush(t) \/ RanWrite(t) \/ \E id \in Ids : RanEvent(t, id)
             \/ RicSetsUp \/ RicLost \/ \E id \in Ids : RicRequests(id) \/ RicDeletes(id)
             \/ \E m \in toRic : RicHears(m)
    BY <1>0, <2>9 DEF LoopStart, LoopRegister, LoopStop, StopAgent, LoopShutdown, LoopSubscribe,
       LoopControl, RanPush, RanWrite, RanEvent, RicSetsUp, RicLost, RicRequests, RicDeletes,
       RicHears
  <2> QED  BY <2>1, <2>2, <2>3, <2>5, <2>6, <2>7, <2>8, <2>9 DEF Next, LoopOn, LoopReads, RanStep
<1> QED  BY <1>1, <1>2

\* Setup responses, shutdowns and requests are told apart.
LEMMA KindsDiffer == Setup \notin Request /\ Shutdown \notin Request /\ Setup # Shutdown
BY DEF Setup, Shutdown, Request

\* Steps that leave the setup dialogue alone.
LEMMA SetupQuiet ==
  ASSUME SetupInv, UNCHANGED <<pend, transId, up>>, lpc # "start" /\ lpc' # "start",
         Setup \in toRic' => Setup \in toRic,
         \A i \in 1 .. Len(toAgent') : toAgent'[i] \in {Setup, Shutdown} =>
           i \in 1 .. Len(toAgent) /\ toAgent'[i] = toAgent[i]
  PROVE  SetupInv'
<1>1. pend' \in {0, 1}
  BY DEF SetupInv
<1>2. \A i, j \in 1 .. Len(toAgent') :
        toAgent'[i] \in {Setup, Shutdown} /\ toAgent'[j] \in {Setup, Shutdown} => i = j
  BY DEF SetupInv
<1>3. \A i \in 1 .. Len(toAgent') :
        /\ toAgent'[i] = Setup => up' /\ pend' = 1 /\ transId' # 0
        /\ toAgent'[i] = Shutdown => ~up' /\ pend' = 0
  BY DEF SetupInv
<1> QED  BY <1>1, <1>2, <1>3 DEF SetupInv

\* Reading a message that is not of the setup dialogue, or that ends it, keeps SetupInv.
LEMMA SetupShifts ==
  ASSUME Types, SetupInv, NEW m, Read(m), toAgent' = Tail(toAgent),
         lpc # "start" /\ lpc' # "start",
         Setup \in toRic' => Setup \in toRic,
         \/ m \in Request /\ UNCHANGED <<pend, transId, up>>
         \/ m = Setup /\ pend' = 0 /\ transId' = 0 /\ up' = up
         \/ m = Shutdown /\ pend' = pend + 1 /\ UNCHANGED <<transId, up>>
  PROVE  SetupInv'
<1>1. /\ 1 \in 1 .. Len(toAgent) /\ toAgent[1] = m
      /\ \A i \in 1 .. Len(toAgent') : /\ i + 1 \in 1 .. Len(toAgent) /\ i + 1 # 1
                                       /\ toAgent'[i] = toAgent[i + 1]
      /\ \A i, j \in 1 .. Len(toAgent') : i + 1 = j + 1 => i = j
  BY ReadPositions
<1>2. \A i, j \in 1 .. Len(toAgent') :
        toAgent'[i] \in {Setup, Shutdown} /\ toAgent'[j] \in {Setup, Shutdown} => i = j
  BY <1>1 DEF SetupInv
<1>3. m \in {Setup, Shutdown} =>
        \A i \in 1 .. Len(toAgent') : toAgent'[i] \notin {Setup, Shutdown}
  BY <1>1 DEF SetupInv
<1>4. CASE m \in Request
  <2>1. UNCHANGED <<pend, transId, up>>
    BY <1>4, KindsDiffer
  <2>2. \A i \in 1 .. Len(toAgent') :
          /\ toAgent'[i] = Setup => up' /\ pend' = 1 /\ transId' # 0
          /\ toAgent'[i] = Shutdown => ~up' /\ pend' = 0
    BY <1>1, <2>1 DEF SetupInv
  <2> QED  BY <1>2, <2>1, <2>2 DEF SetupInv
<1>5. CASE m = Setup
  <2>1. up /\ pend' = 0 /\ up' = up
    BY <1>1, <1>5, KindsDiffer DEF SetupInv
  <2> QED  BY <1>2, <1>3, <1>5, <2>1 DEF SetupInv
<1>6. CASE m = Shutdown
  <2>1. ~up /\ pend = 0 /\ pend' = 1 /\ up' = up
    BY <1>1, <1>6, KindsDiffer DEF SetupInv
  <2>2. Setup \notin toRic
    BY <2>1 DEF SetupInv
  <2> QED  BY <1>2, <1>3, <1>6, <2>1, <2>2 DEF SetupInv
<1> QED  BY <1>4, <1>5, <1>6

\* In a calm environment every step keeps the setup dialogue.
LEMMA NextSetup ==
  ASSUME Types, Calm, SetupInv, stop' # "freed", fault' = "none", Next
  PROVE  SetupInv'
<1>1. CASE LoopStart \/ LoopSetupTimer
  <2>1. /\ transId' = transId + 1 /\ Len(toAgent) \in Nat /\ transId \in Nat
        /\ toAgent' = toAgent /\ up' = up /\ toRic' \subseteq toRic \union {Setup}
        /\ lpc' = "idle"
        /\ \/ lpc = "start" /\ pend' = pend + 1
           \/ lpc = "idle" /\ pend > 0 /\ pend' = pend
    BY <1>1 DEF LoopStart, LoopSetupTimer, Abort, SendSetup, NextTransId, Types, ricVars, loopVars
  <2>2. pend' = 1 /\ transId' # 0
    BY <2>1 DEF SetupInv
  <2>3. lpc = "start" => Len(toAgent) = 0
    BY DEF SetupInv
  <2>4. \A i \in 1 .. Len(toAgent') :
          /\ toAgent'[i] = Setup => up' /\ pend' = 1 /\ transId' # 0
          /\ toAgent'[i] = Shutdown => ~up' /\ pend' = 0
    BY <2>1, <2>2, <2>3 DEF SetupInv
  <2> QED  BY <2>1, <2>2, <2>4 DEF SetupInv
<1>2. ASSUME NEW m, \/ LoopSetupResponse(m) \/ LoopShutdown(m) \/ LoopSubscribe(m)
                    \/ LoopDelete(m) \/ LoopControl(m)
      PROVE  SetupInv'
  <2>1. Read(m) /\ m \in Messages /\ lpc = "idle"
    BY <1>2, ReadMessage DEF LoopSetupResponse, LoopShutdown, LoopSubscribe, LoopDelete, LoopControl
  <2>2. /\ m.kind = "SETUP" => m = Setup
        /\ m.kind = "SHUTDOWN" => m = Shutdown
        /\ m.kind \in {"SUBS", "DEL", "CTRL"} => m \in Request
    BY <2>1, MessageKinds
  <2>3. CASE LoopSetupResponse(m)
    <3>1. /\ m = Setup /\ toAgent' = Tail(toAgent) /\ transId' = 0 /\ pend' = pend - 1
          /\ toRic' = toRic /\ up' = up /\ lpc' = lpc /\ pend # 0
      BY <2>2, <2>3 DEF LoopSetupResponse, Abort, ReadDone, loopVars, ricVars
    <3>2. pend' = 0
      BY <3>1 DEF SetupInv
    <3> QED  BY <2>1, <3>1, <3>2, SetupShifts
  <2>4. CASE LoopShutdown(m)
    <3>1. /\ m = Shutdown /\ toAgent' = Tail(toAgent) /\ pend' = pend + 1
          /\ toRic' = toRic /\ UNCHANGED <<transId, up>> /\ lpc' = lpc
      BY <2>2, <2>4 DEF LoopShutdown, ReadDone, loopVars, ricVars
    <3> QED  BY <2>1, <3>1, SetupShifts
  <2>5. CASE LoopSubscribe(m) \/ LoopControl(m)
    <3>1. /\ m \in Request /\ toAgent' = Tail(toAgent) /\ lpc' # "start"
          /\ UNCHANGED <<pend, transId, up>> /\ toRic' \subseteq toRic \union {m}
      BY <2>1, <2>2, <2>5 DEF LoopSubscribe, LoopControl, ReadDone, setupVars, ricVars, loopVars
    <3> QED  BY <2>1, <3>1, KindsDiffer, SetupShifts
  <2>6. CASE LoopDelete(m)
    <3>1. /\ m \in Request /\ lpc' = lpc
          /\ UNCHANGED <<pend, transId, up>> /\ toRic' \subseteq toRic \union {m}
          /\ toAgent' = Tail(toAgent) \/ toAgent' = toAgent
      BY <2>1, <2>2, <2>6 DEF LoopDelete, ReadDone, setupVars, ricVars, loopVars
    <3>2. Setup \in toRic' => Setup \in toRic
      BY <3>1, KindsDiffer
    <3>3. CASE toAgent' = Tail(toAgent)
      BY <2>1, <3>1, <3>2, <3>3, SetupShifts
    <3>4. CASE toAgent' = toAgent
      BY <2>1, <3>1, <3>2, <3>4, SetupQuiet
    <3> QED  BY <3>1, <3>3, <3>4
  <2> QED  BY <1>2, <2>3, <2>4, <2>5, <2>6
<1>3. CASE LoopRegister
  <2>1. /\ lpc = "register" /\ lpc' = "idle" /\ toRic' = toRic \union {lmsg} /\ toAgent' = toAgent
        /\ UNCHANGED <<pend, transId, up>> /\ lmsg \in Request
    BY <1>3 DEF LoopRegister, setupVars, ricVars, Types
  <2> QED  BY <2>1, KindsDiffer, SetupQuiet
<1>4. CASE \/ LoopDrain \/ LoopStop \/ LoopAperiodic \/ StopAgent \/ FreeAgent
           \/ \E t \in RanThreads : RanStep(t) \/ \E id \in Ids : RanEvent(t, id)
  <2>1. /\ UNCHANGED <<pend, transId, up, toAgent, toRic>>
        /\ lpc' = lpc \/ (lpc # "start" /\ lpc' # "start")
    BY <1>4 DEF LoopDrain, LoopStop, LoopAperiodic, StopAgent, FreeAgent, RanStep, RanFind, RanPush,
       RanWrite, RanEvent, Abort, setupVars, ricVars, loopVars
  <2> QED  BY <2>1 DEF SetupInv
<1>5. CASE RicSetsUp
  <2>1. /\ Setup \in toRic /\ toRic' = toRic \ {Setup} /\ up' = TRUE
        /\ UNCHANGED <<lpc, pend, transId>>
        /\ IF up THEN toAgent' = toAgent ELSE Deliver(Setup)
    BY <1>5 DEF RicSetsUp, loopVars, setupVars
  <2>2. lpc # "start"
    BY <2>1 DEF SetupInv
  <2>3. CASE up
    BY <2>1, <2>2, <2>3, SetupQuiet DEF Types
  <2>4. CASE ~up
    <3>1. pend = 1 /\ transId # 0
      BY <2>1, <2>4 DEF SetupInv
    <3>2. \A i \in 1 .. Len(toAgent) : toAgent[i] \notin {Setup, Shutdown}
      BY <2>4, <3>1 DEF SetupInv
    <3>3. \A i \in 1 .. Len(toAgent') :
            \/ i \in 1 .. Len(toAgent) /\ toAgent'[i] = toAgent[i]
            \/ i = Len(toAgent) + 1 /\ toAgent'[i] = Setup
      BY <2>1, <2>4, DeliverPositions DEF Messages
    <3> QED  BY <2>1, <2>2, <3>1, <3>2, <3>3, KindsDiffer DEF SetupInv
  <2> QED  BY <2>3, <2>4
<1>6. CASE RicLost
  <2>1. /\ pend = 0 /\ up /\ toAgent' = Append(toAgent, Shutdown) /\ toAgent = <<>>
        /\ toRic' = {} /\ up' = FALSE /\ UNCHANGED <<lpc, pend, transId>>
    BY <1>6 DEF RicLost, Deliver, loopVars, setupVars
  <2>2. lpc # "start"
    BY <2>1 DEF SetupInv
  <2>3. toAgent' = <<Shutdown>>
    BY <2>1
  <2>4. \A i \in 1 .. Len(toAgent') : i = 1 /\ toAgent'[i] = Shutdown
    BY <2>3
  <2> QED  BY <2>1, <2>2, <2>4, KindsDiffer DEF SetupInv
<1>7. ASSUME NEW k \in Ids, RicRequests(k) \/ RicDeletes(k)
      PROVE  SetupInv'
  <2>1. PICK kind \in {"SUBS", "CTRL", "DEL"}, aper \in BOOLEAN :
          Deliver([kind |-> kind, id |-> k, aper |-> aper])
    BY <1>7 DEF RicRequests, RicDeletes
  <2>2. PICK m \in Request : Deliver(m)
    <3>1. [kind |-> kind, id |-> k, aper |-> aper] \in Request
      BY DEF Request
    <3> QED  BY <2>1, <3>1
  <2>3. up /\ UNCHANGED <<lpc, pend, transId, up, toRic>>
    BY <1>7 DEF RicRequests, RicDeletes, loopVars, setupVars
  <2>4. lpc # "start"
    BY <2>3 DEF SetupInv
  <2>5. \A i \in 1 .. Len(toAgent') : toAgent'[i] \in {Setup, Shutdown} =>
          i \in 1 .. Len(toAgent) /\ toAgent'[i] = toAgent[i]
    BY <2>2, DeliverPositions, KindsDiffer DEF Messages
  <2> QED  BY <2>3, <2>4, <2>5, SetupQuiet
<1>8. ASSUME NEW m \in toRic, RicHears(m)
      PROVE  SetupInv'
  <2>1. UNCHANGED <<lpc, pend, transId, up, toAgent>> /\ toRic' \subseteq toRic
    BY <1>8 DEF RicHears, loopVars, setupVars
  <2>2. lpc # "start"
    BY <1>8 DEF SetupInv
  <2> QED  BY <2>1, <2>2, SetupQuiet
<1> QED  BY <1>1, <1>2, <1>3, <1>4, <1>5, <1>6, <1>7, <1>8 DEF Next, LoopOn, LoopReads

\* Steps that leave the aperiodic subscriptions alone.
LEMMA AperQuiet ==
  ASSUME AperInv, UNCHANGED <<ind, ranSubs, lmsg>>,
         lpc' = lpc \/ (lpc # "register" /\ lpc' # "register"),
         \A i \in 1 .. Len(toAgent') : toAgent'[i].aper =>
           i \in 1 .. Len(toAgent) /\ toAgent'[i] = toAgent[i]
  PROVE  AperInv'
<1>1. Informed'
  BY InformedQuiet DEF AperInv
<1>2. /\ \A i, j \in 1 .. Len(toAgent') : toAgent'[i].aper /\ toAgent'[j].aper => i = j
      /\ \A i \in 1 .. Len(toAgent') : toAgent'[i].aper => ranSubs' = {}
  BY DEF AperInv
<1> QED  BY <1>1, <1>2 DEF AperInv

\* A message that is read.
LEMMA AperShifts ==
  ASSUME Types, AperInv, NEW m, Read(m), toAgent' = Tail(toAgent)
  PROVE  /\ \A i, j \in 1 .. Len(toAgent') : toAgent'[i].aper /\ toAgent'[j].aper => i = j
         /\ \A i \in 1 .. Len(toAgent') : toAgent'[i].aper => ranSubs = {} /\ ~m.aper
         /\ m.aper => ranSubs = {}
<1>1. /\ 1 \in 1 .. Len(toAgent) /\ toAgent[1] = m
      /\ \A i \in 1 .. Len(toAgent') : /\ i + 1 \in 1 .. Len(toAgent) /\ i + 1 # 1
                                       /\ toAgent'[i] = toAgent[i + 1]
      /\ \A i, j \in 1 .. Len(toAgent') : i + 1 = j + 1 => i = j
  BY ReadPositions
<1> QED  BY <1>1 DEF AperInv

\* In a calm environment every step keeps what the loop knows of the queue of events.
LEMMA NextAper ==
  ASSUME Types, Calm, SetupInv, AperInv, stop' # "freed", fault' = "none", Next
  PROVE  AperInv'
<1>1. ASSUME NEW m, LoopSubscribe(m)
      PROVE  AperInv'
  <2>1. /\ Read(m) /\ toAgent' = Tail(toAgent) /\ lmsg' = m /\ lpc' = "register" /\ lpc = "idle"
        /\ ranSubs' = (IF m.aper THEN ranSubs \union {m.id} ELSE ranSubs) /\ ind' = ind
        /\ m \in Messages /\ m.aper \in BOOLEAN
    BY <1>1, ReadMessage, MessageKinds DEF LoopSubscribe, ReadDone, indVars, Read
  <2>2. ranSubs = {e.id : e \in {x \in ind : x.aper}}
    BY <2>1 DEF AperInv, Informed
  <2>3. Informed'
    BY <2>1, <2>2 DEF Informed
  <2>4. /\ \A i, j \in 1 .. Len(toAgent') : toAgent'[i].aper /\ toAgent'[j].aper => i = j
        /\ \A i \in 1 .. Len(toAgent') : toAgent'[i].aper => ranSubs = {} /\ ~m.aper
        /\ m.aper => ranSubs = {}
    BY <2>1, AperShifts
  <2>5. m.aper => \A e \in ind : ~e.aper
    BY <2>2, <2>4
  <2> QED  BY <2>1, <2>3, <2>4, <2>5 DEF AperInv
<1>2. CASE LoopRegister
  <2>1. PICK e \in Entry : e = [id |-> lmsg.id, aper |-> lmsg.aper, n |-> made]
    BY <1>2 DEF LoopRegister, Types, Request, Entry
  <2>2. /\ lpc = "register" /\ lpc' = "idle" /\ ind' = ind \union {e}
        /\ e.id = lmsg.id /\ e.aper = lmsg.aper /\ UNCHANGED <<ranSubs, toAgent>>
    BY <1>2, <2>1 DEF LoopRegister, ranVars
  <2>3. {x.id : x \in {y \in ind' : y.aper}} =
          {x.id : x \in {y \in ind : y.aper}} \union (IF e.aper THEN {e.id} ELSE {})
    BY <2>2
  <2>4. Informed'
    BY <2>2, <2>3 DEF AperInv, Informed
  <2>5. \A x, z \in ind' : x.aper /\ z.aper => x = z
    BY <2>2 DEF AperInv
  <2>6. /\ \A i, j \in 1 .. Len(toAgent') : toAgent'[i].aper /\ toAgent'[j].aper => i = j
        /\ \A i \in 1 .. Len(toAgent') : toAgent'[i].aper => ranSubs' = {}
    BY <2>2 DEF AperInv
  <2> QED  BY <2>2, <2>4, <2>5, <2>6 DEF AperInv
<1>3. ASSUME NEW m, LoopDelete(m)
      PROVE  AperInv'
  <2>1. Read(m) /\ m.kind = "DEL" /\ lpc = "idle" /\ UNCHANGED <<lpc, lmsg>>
    BY <1>3 DEF LoopDelete, Read, loopVars
  <2>2. CASE EntriesOf(m.id) = {}
    <3>1. UNCHANGED <<ind, ranSubs>> /\ toAgent' = Tail(toAgent)
      BY <1>3, <2>2 DEF LoopDelete, ReadDone
    <3>2. Informed'
      BY <2>1, <3>1, InformedQuiet DEF AperInv
    <3> QED  BY <2>1, <3>1, <3>2, AperShifts DEF AperInv
  <2>3. CASE EntriesOf(m.id) # {}
    <3>1. PICK e \in EntriesOf(m.id) : /\ ind' = ind \ {e} /\ ranSubs' = ranSubs \ FreedBy(e)
                                       /\ toAgent' = Tail(toAgent)
      BY <1>3, <2>3 DEF LoopDelete, ReadDone, EndedBy
    <3>2. e \in ind /\ ranSubs = {x.id : x \in {y \in ind : y.aper}}
      BY <2>1, <3>1 DEF EntriesOf, AperInv, Informed
    <3>3. ranSubs' = {x.id : x \in {y \in ind' : y.aper}}
      <4>1. CASE e.aper
        <5>1. {y \in ind : y.aper} = {e} /\ {y \in ind' : y.aper} = {}
          BY <3>1, <3>2, <4>1 DEF AperInv
        <5> QED  BY <3>1, <3>2, <4>1, <5>1 DEF FreedBy
      <4>2. CASE ~e.aper
        <5>1. {y \in ind : y.aper} = {y \in ind' : y.aper}
          BY <3>1, <3>2, <4>2
        <5> QED  BY <3>1, <3>2, <4>2, <5>1 DEF FreedBy
      <4> QED  BY <4>1, <4>2
    <3>4. Informed'
      BY <2>1, <3>3 DEF Informed
    <3>5. ranSubs = {} => ranSubs' = {}
      BY <3>1
    <3> QED  BY <2>1, <3>1, <3>4, <3>5, AperShifts DEF AperInv
  <2> QED  BY <2>2, <2>3
<1>4. ASSUME NEW m, LoopSetupResponse(m) \/ LoopShutdown(m) \/ LoopControl(m)
      PROVE  AperInv'
  <2>1. Read(m) /\ toAgent' = Tail(toAgent) /\ UNCHANGED <<ind, ranSubs, lmsg, lpc>>
    BY <1>4 DEF LoopSetupResponse, LoopShutdown, LoopControl, Abort, ReadDone, loopVars, indVars,
                ranVars
  <2>2. Informed'
    BY <2>1, InformedQuiet DEF AperInv
  <2> QED  BY <2>1, <2>2, AperShifts DEF AperInv
<1>5. CASE \/ LoopStart \/ LoopSetupTimer \/ LoopDrain \/ LoopStop \/ LoopAperiodic
           \/ StopAgent \/ FreeAgent
           \/ \E t \in RanThreads : RanStep(t) \/ \E id \in Ids : RanEvent(t, id)
  <2>1. /\ UNCHANGED <<ind, ranSubs, lmsg, toAgent>>
        /\ lpc' = lpc \/ (lpc # "register" /\ lpc' # "register")
    BY <1>5 DEF LoopStart, LoopSetupTimer, LoopDrain, LoopStop, LoopAperiodic, StopAgent, FreeAgent,
       RanStep, RanFind, RanPush, RanWrite, RanEvent, Abort, indVars, ranVars, loopVars
  <2> QED  BY <2>1, AperQuiet
<1>6. CASE RicSetsUp \/ RicLost
  <2>1. PICK m \in {Setup, Shutdown} : toAgent' = toAgent \/ Deliver(m)
    BY <1>6 DEF RicSetsUp, RicLost
  <2>2. m \in Messages /\ ~m.aper
    BY DEF Messages, Setup, Shutdown
  <2>3. UNCHANGED <<ind, ranSubs, lmsg, lpc>>
    BY <1>6 DEF RicSetsUp, RicLost, loopVars, indVars, ranVars
  <2>4. \A i \in 1 .. Len(toAgent') : toAgent'[i].aper =>
          i \in 1 .. Len(toAgent) /\ toAgent'[i] = toAgent[i]
    BY <2>1, <2>2, DeliverPositions
  <2> QED  BY <2>3, <2>4, AperQuiet
<1>7. ASSUME NEW k \in Ids, RicRequests(k) \/ RicDeletes(k)
      PROVE  AperInv'
  <2>1. PICK kind \in {"SUBS", "CTRL", "DEL"}, aper \in BOOLEAN :
          /\ Deliver([kind |-> kind, id |-> k, aper |-> aper])
          /\ aper => ranSubs = {} /\ \A i \in DOMAIN toAgent : ~toAgent[i].aper
    BY <1>7 DEF RicRequests, RicDeletes
  <2>2. PICK m \in Request : m = [kind |-> kind, id |-> k, aper |-> aper] /\ m.aper = aper
    <3>1. [kind |-> kind, id |-> k, aper |-> aper] \in Request
      BY DEF Request
    <3>2. PICK m \in Request : m = [kind |-> kind, id |-> k, aper |-> aper]
      BY <3>1
    <3> QED  BY <3>2
  <2>3. UNCHANGED <<ind, ranSubs, lmsg, lpc>>
    BY <1>7 DEF RicRequests, RicDeletes, loopVars, indVars, ranVars
  <2>4. \A i \in 1 .. Len(toAgent') :
          \/ i \in 1 .. Len(toAgent) /\ toAgent'[i] = toAgent[i]
          \/ i = Len(toAgent) + 1 /\ toAgent'[i] = m
    BY <2>1, <2>2, DeliverPositions DEF Messages
  <2>5. CASE ~aper
    BY <2>2, <2>3, <2>4, <2>5, AperQuiet
  <2>6. CASE aper
    <3>1. ranSubs = {} /\ \A i \in 1 .. Len(toAgent) : ~toAgent[i].aper
      BY <2>1, <2>6 DEF Types
    <3>2. Informed'
      BY <2>3, InformedQuiet DEF AperInv
    <3> QED  BY <2>3, <2>4, <3>1, <3>2 DEF AperInv
  <2> QED  BY <2>5, <2>6
<1>8. ASSUME NEW m \in toRic, RicHears(m)
      PROVE  AperInv'
  <2>1. UNCHANGED <<ind, ranSubs, lmsg, lpc, toAgent>>
    BY <1>8 DEF RicHears, loopVars, indVars, ranVars
  <2> QED  BY <2>1, AperQuiet
<1> QED  BY <1>1, <1>2, <1>3, <1>4, <1>5, <1>6, <1>7, <1>8 DEF Next, LoopOn, LoopReads

\* In a calm environment no step takes a subscription away from a thread that looks for it.
LEMMA NextThreads ==
  ASSUME Types, Calm, ThreadInv, stop # "freed", stop' # "freed", fault' = "none", Next
  PROVE  ThreadInv'
<1>1. ASSUME NEW t \in RanThreads, NEW id \in Ids, RanEvent(t, id)
      PROVE  ThreadInv'
  <2>1. /\ stop = "no" /\ stop' = stop /\ EntriesOf(id) # {} /\ ind' = ind
        /\ rpc' = [rpc EXCEPT ![t] = "find"] /\ rid' = [rid EXCEPT ![t] = id]
    BY <1>1 DEF RanEvent, indVars
  <2> QED  BY <2>1 DEF ThreadInv, EntriesOf, Types
<1>2. ASSUME NEW t \in RanThreads, RanStep(t)
      PROVE  ThreadInv'
  <2>1. rpc \in [RanThreads -> {"idle", "find", "push", "write"}] /\ DOMAIN rid = RanThreads
    BY DEF Types
  <2>2. /\ rpc[t] # "idle" /\ stop' = stop /\ ind' = ind
        /\ \A s \in RanThreads : rpc'[s] = "find" => rpc[s] = "find" /\ rid'[s] = rid[s]
    <3>1. CASE RanFind(t)
      BY <2>1, <3>1 DEF RanFind, Abort, indVars
    <3>2. CASE RanPush(t)
      BY <2>1, <3>2 DEF RanPush, indVars
    <3>3. CASE RanWrite(t)
      BY <2>1, <3>3 DEF RanWrite, indVars
    <3> QED  BY <1>2, <3>1, <3>2, <3>3 DEF RanStep
  <2>3. \A id : EntriesOf(id)' = EntriesOf(id)
    BY <2>2 DEF EntriesOf
  <2> QED  BY <2>2, <2>3 DEF ThreadInv
<1>3. ASSUME NEW m, LoopDelete(m)
      PROVE  ThreadInv'
  <2>1. UNCHANGED <<rpc, rid, stop>>
    BY <1>3 DEF LoopDelete
  <2>2. CASE EntriesOf(m.id) = {}
    <3>1. ind' = ind
      BY <1>3, <2>2 DEF LoopDelete
    <3> QED  BY <2>1, <3>1 DEF ThreadInv, EntriesOf
  <2>3. CASE EntriesOf(m.id) # {}
    <3>1. PICK e \in EntriesOf(m.id) : /\ ind' = ind \ {e}
                                       /\ \A t \in RanThreads : rpc[t] = "find" => rid[t] # m.id
      BY <1>3, <2>3 DEF LoopDelete, EndedBy
    <3>2. \A id : id # m.id => EntriesOf(id)' = EntriesOf(id)
      BY <3>1 DEF EntriesOf
    <3> QED  BY <2>1, <3>1, <3>2 DEF ThreadInv
  <2> QED  BY <2>2, <2>3
<1>4. CASE LoopRegister
  <2>1. UNCHANGED <<rpc, rid, stop>> /\ ind \subseteq ind'
    BY <1>4 DEF LoopRegister, ranVars
  <2> QED  BY <2>1 DEF ThreadInv, EntriesOf
<1>5. CASE StopAgent
  BY <1>5 DEF StopAgent, ThreadInv, EntriesOf, indVars, ranVars
<1>6. ASSUME UNCHANGED <<rpc, rid, stop, ind>>
      PROVE  ThreadInv'
  BY <1>6 DEF ThreadInv, EntriesOf
<1>7. CASE \/ LoopStart \/ LoopSetupTimer \/ LoopDrain \/ LoopStop \/ LoopAperiodic \/ FreeAgent
           \/ RicSetsUp \/ RicLost
           \/ \E id \in Ids : RicRequests(id) \/ RicDeletes(id)
           \/ \E m \in toRic : RicHears(m)
           \/ \E m : LoopSetupResponse(m) \/ LoopShutdown(m) \/ LoopSubscribe(m) \/ LoopControl(m)
  <2>1. UNCHANGED <<rpc, rid, stop, ind>>
    BY <1>7 DEF LoopStart, LoopSetupTimer, LoopDrain, LoopStop, LoopAperiodic, FreeAgent, RicSetsUp,
       RicLost, RicRequests, RicDeletes, RicHears, LoopSetupResponse, LoopShutdown, LoopSubscribe,
       LoopControl, Abort, indVars, ranVars
  <2> QED  BY <1>6, <2>1
<1> QED  BY <1>1, <1>2, <1>3, <1>4, <1>5, <1>7 DEF Next, LoopOn, LoopReads

\* The inductive invariant of calm runs is kept by every step.
LEMMA NextCalm ==
  ASSUME Digits = 4, Types, PipeInv, CalmInv, [Next]_vars
  PROVE  CalmInv'
<1>1. CASE UNCHANGED vars
  <2>1. UNCHANGED <<lpc, lmsg, ind, pend, transId, toAgent, toRic, rpc, rid, ranSubs, up, stop,
                    env, fault>>
    BY <1>1 DEF vars, dataVars, loopVars, indVars, setupVars, ranVars, ricVars
  <2> QED  BY <2>1 DEF CalmInv, Calm, SetupInv, AperInv, ThreadInv, Informed, EntriesOf
<1>2. CASE Next /\ Calm'
  <2>1. Calm
    BY <1>2 DEF Next, Calm
  <2>2. fault' = "none"
    BY <1>2, <2>1, NothingFails
  <2>3. CASE stop' # "freed"
    <3>1. stop # "freed"
      BY <1>2, <2>3 DEF Types, Next, LoopOn, LoopStart, LoopRegister, LoopDrain, LoopStop, LoopReads,
         LoopSetupResponse, LoopShutdown, LoopSubscribe, LoopDelete, LoopControl, Read,
         LoopAperiodic, LoopSetupTimer, RanStep, RanFind, RanPush, RanWrite, RanEvent, StopAgent,
         FreeAgent, RicSetsUp, RicLost, RicRequests, RicDeletes, RicHears
    <3> QED  BY <1>2, <2>1, <2>2, <2>3, <3>1, NextSetup, NextAper, NextThreads DEF CalmInv
  <2> QED  BY <2>2, <2>3 DEF CalmInv
<1>3. CASE ~Calm'
  BY <1>3 DEF CalmInv
<1> QED  BY <1>1, <1>2, <1>3

\* The inductive invariant of calm runs holds initially.
LEMMA InitCalm ==
  ASSUME Init
  PROVE  CalmInv
<1>1. /\ lpc = "start" /\ ind = {} /\ pend = 0 /\ toAgent = <<>> /\ toRic = {} /\ ranSubs = {}
      /\ rpc = [t \in RanThreads |-> "idle"] /\ ~up /\ stop = "no" /\ fault = "none"
  BY DEF Init
<1>2. Len(toAgent) = 0
  BY <1>1
<1> QED  BY <1>1, <1>2 DEF CalmInv, SetupInv, AperInv, ThreadInv, Informed

\* In a calm environment no assertion of the agent fails, whatever the interleaving of
\* its loop, the threads of the RAN and the RIC: no setup is answered that was not
\* pending, no event is announced that is not in the queue, no subscription is ended
\* under a thread that looks for it, none is mistaken for another.
THEOREM AgentNeverAborts ==
  ASSUME Digits = 4
  PROVE  Spec => []NoAbort
<1>1. Init => Types /\ PipeInv /\ CalmInv
  BY InitTypes, InitPipe, InitCalm
<1>2. Types /\ PipeInv /\ CalmInv /\ [Next]_vars => (Types /\ PipeInv /\ CalmInv)'
  BY NextTypes, NextPipe, NextCalm
<1>3. CalmInv => NoAbort
  BY DEF CalmInv, NoAbort
<1> QED  BY <1>1, <1>2, <1>3, PTL DEF Spec
===============================================================================
