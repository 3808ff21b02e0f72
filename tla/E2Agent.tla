------------------------------- MODULE E2Agent -------------------------------
(***************************************************************************)
(* The E2 agent: one event loop thread that carries out what the RIC asks  *)
(* (subscription, delete, control), repeats the setup request until it is  *)
(* answered, and sends an indication for each event a thread of the RAN    *)
(* reports.  An event is pushed on a queue, then announced by writing the  *)
(* digits of its ric_req_id to a pipe the loop waits on; the loop pops all *)
(* the queue holds and reads four bytes per event.  (The indications of    *)
(* periodic subscriptions, sent when a timer fires, change no state here.) *)
(*                                                                         *)
(* The socket and the pipe are edge-triggered: a report of epoll is used   *)
(* up by it, and each report of the socket reads one message.              *)
(* A false assert() is Abort.  RAN and RIC are the environment.            *)
(***************************************************************************)
EXTENDS Naturals, Sequences, SequencesExt, FiniteSets

CONSTANTS
  Ids,          \* ric_req_id's the RIC uses, each for one request
  RanThreads,   \* the RAN's threads that call e2_async_event_agent
  Digits,       \* decimal digits of a ric_req_id
  MaxEvents,    \* bound: events of the RAN
  MaxSetups,    \* bound: setup requests
  MaxLost,      \* bound: RICs that are lost
  MaxReqs,      \* bound: subscription and control requests
  Envs,         \* the environments considered: "calm", "rough"
  NoId, NoMsg   \* model values: a message without ric_req_id; no message

ASSUME AgentAssumption ==
  /\ IsFiniteSet(RanThreads)
  /\ Digits \in Nat \ {0} /\ MaxEvents \in Nat /\ MaxSetups \in Nat /\ MaxLost \in Nat
  /\ MaxReqs \in Nat
  /\ Envs \subseteq {"calm", "rough"}

Request == [kind : {"SUBS", "DEL", "CTRL"}, id : Ids, aper : BOOLEAN]
Setup == [kind |-> "SETUP", id |-> NoId, aper |-> FALSE]
Shutdown == [kind |-> "SHUTDOWN", id |-> NoId, aper |-> FALSE]
Entry == [id : Ids, aper : BOOLEAN, n : Nat]

VARIABLES
  lpc, lmsg, batch,       \* loop: position, request, events it popped
  ind, made,              \* e2_agent_t.ind_event; entries made so far
  pend, transId, setups,  \* pending setup entries; trans_id_setup_req; requests sent
  queue, bytes, wakeup,   \* aind; bytes in the pipe; epoll has the pipe to report
  toAgent, edge, toRic,   \* messages; epoll has the socket to report
  rpc, rid, ranSubs, events,  \* RAN: threads, their event, subscriptions, events so far
  ric, up, lost, reqs,    \* RIC: state of each id; is it set up; RICs lost; requests
  stop,                   \* e2_free_agent: "no", "asked", "freed"
  env, fault              \* the environment; the assertion that failed, or "none"

loopVars  == <<lpc, lmsg, batch>>
indVars   == <<ind, made>>
setupVars == <<pend, transId, setups>>
pipeVars  == <<queue, bytes, wakeup>>
ranVars   == <<rpc, rid, ranSubs, events>>
ricVars   == <<ric, up, lost, reqs>>
dataVars  == <<loopVars, indVars, setupVars, pipeVars, toAgent, edge, toRic, ranVars,
               ricVars, stop>>
vars == <<dataVars, env, fault>>

Running == fault = "none"
Abort(a) == fault' = a /\ UNCHANGED dataVars
Calm == env = "calm"

EntriesOf(id) == {e \in ind : e.id = id}
\* The left key of ind_event: the timer's fd, or 0 for every aperiodic entry.
SameFd(e) == {z \in ind : IF e.aper THEN z.aper ELSE z = e}

\* consume_fd_async reads into a uint32_t.
ReadAnUint64 == 8
ReadSize == 4
Least(a, b) == IF a < b THEN a ELSE b

\* aind_event pops as many events as the queue holds.
OneEvent == <<Head(queue)>>
AllEvents == queue

\* What a delete takes out of ind_event, and what the RAN is told.
NothingEnds(e) == {}
EndedBy(e) == {e}
NobodyTold(e) == {}
FreedBy(e) == IF e.aper THEN {e.id} ELSE {}

\* PENDING_EVENT sends the setup request again.
SetupGivenUp == FALSE
SetupRepeated == stop # "freed"

\* gen_setup_request: ag->trans_id_setup_req++.
SameTransId == transId
NextTransId == transId + 1

-----------------------------------------------------------------------------
(* The event loop.                                                         *)

\* A setup request is sent, unless nobody listens yet: the error is ignored.
SendSetup ==
  /\ transId' = NextTransId /\ setups' = setups + 1
  /\ toRic' \in {toRic \union {Setup}} \union (IF setups + 1 < MaxSetups THEN {toRic} ELSE {})

\* e2_start_agent
LoopStart ==
  /\ lpc = "start"
  /\ pend' = pend + 1
  /\ SendSetup
  /\ lpc' = "idle"
  /\ UNCHANGED <<lmsg, batch, indVars, pipeVars, toAgent, edge, ranVars, ricVars, stop, fault>>

\* The pending timer: pend_event wants exactly one entry.
LoopSetupTimer ==
  /\ lpc = "idle" /\ pend > 0 /\ SetupRepeated
  /\ IF pend # 1 THEN Abort("pend_event")
     ELSE /\ setups < MaxSetups
          /\ SendSetup
          /\ UNCHANGED <<loopVars, indVars, pend, pipeVars, toAgent, edge, ranVars, ricVars,
                         stop, fault>>

\* One message per report of the socket.
Read(m) ==
  /\ lpc = "idle" /\ edge /\ toAgent # <<>> /\ m = Head(toAgent)

ReadDone == toAgent' = Tail(toAgent) /\ edge' = FALSE

\* e2ap_handle_setup_response_agent
LoopSetupResponse(m) ==
  /\ Read(m) /\ m.kind = "SETUP"
  /\ IF pend = 0 THEN Abort("stop_pending_event")
     ELSE IF transId = 0 THEN Abort("trans_id")
     ELSE /\ ReadDone
          /\ pend' = pend - 1 /\ transId' = 0
          /\ UNCHANGED <<loopVars, indVars, setups, pipeVars, toRic, ranVars, ricVars,
                         stop, fault>>

\* notification_handle_ag: a new pending event whose timer repeats the setup.
LoopShutdown(m) ==
  /\ Read(m) /\ m.kind = "SHUTDOWN"
  /\ ReadDone
  /\ pend' = pend + 1
  /\ UNCHANGED <<loopVars, indVars, transId, setups, pipeVars, toRic, ranVars, ricVars,
                 stop, fault>>

\* e2ap_handle_subscription_request_agent: on_subscription tells the RAN ...
LoopSubscribe(m) ==
  /\ Read(m) /\ m.kind = "SUBS"
  /\ ReadDone
  /\ ranSubs' = IF m.aper THEN ranSubs \union {m.id} ELSE ranSubs
  /\ lmsg' = m /\ lpc' = "register"
  /\ UNCHANGED <<batch, indVars, setupVars, pipeVars, toRic, rpc, rid, events, ricVars,
                 stop, fault>>

\* ... then the entry is inserted under mtx_ind_event, and the answer sent.
LoopRegister ==
  /\ lpc = "register"
  /\ ind' = ind \union {[id |-> lmsg.id, aper |-> lmsg.aper, n |-> made]}
  /\ made' = made + 1
  /\ toRic' = toRic \union {lmsg}
  /\ lpc' = "idle" /\ lmsg' = NoMsg
  /\ UNCHANGED <<batch, setupVars, pipeVars, toAgent, edge, ranVars, ricVars, stop, fault>>

\* e2ap_handle_subscription_delete_request_agent.  stop_ind_event extracts by
\* id, then by fd; two aperiodic entries have the same.
LoopDelete(m) ==
  /\ Read(m) /\ m.kind = "DEL"
  /\ \/ /\ EntriesOf(m.id) = {}
        /\ UNCHANGED <<ind, ranSubs, fault>>
        /\ ReadDone /\ toRic' = toRic \union {m}
     \/ \E e \in EntriesOf(m.id) : \E z \in SameFd(e) :
          /\ Calm => \A t \in RanThreads : rpc[t] = "find" => rid[t] # m.id
          /\ IF z.id # e.id THEN fault' = "bi_map_extract_right"
                                 /\ UNCHANGED <<ind, ranSubs, toAgent, edge, toRic>>
             ELSE /\ ind' = ind \ EndedBy(e)
                  /\ ranSubs' = ranSubs \ FreedBy(e)
                  /\ ReadDone /\ toRic' = toRic \union {m}
                  /\ UNCHANGED fault
  /\ UNCHANGED <<loopVars, made, setupVars, pipeVars, rpc, rid, events, ricVars, stop>>

\* e2ap_handle_control_request_agent
LoopControl(m) ==
  /\ Read(m) /\ m.kind = "CTRL"
  /\ ReadDone
  /\ toRic' = toRic \union {m}
  /\ UNCHANGED <<loopVars, indVars, setupVars, pipeVars, ranVars, ricVars, stop, fault>>

\* APERIODIC_INDICATION_EVENT: all events of the queue ...
LoopAperiodic ==
  /\ lpc = "idle" /\ wakeup /\ bytes > 0
  /\ IF queue = <<>> THEN Abort("aind_event")
     ELSE /\ wakeup' = FALSE
          /\ batch' = AllEvents
          /\ queue' = SubSeq(queue, Len(AllEvents) + 1, Len(queue))
          /\ lpc' = "drain"
          /\ UNCHANGED <<lmsg, indVars, setupVars, bytes, toAgent, edge, toRic, ranVars,
                         ricVars, stop, fault>>

\* ... each is sent, and four bytes read: the read waits while the pipe is empty.
LoopDrain ==
  /\ lpc = "drain" /\ bytes > 0
  /\ IF Least(ReadSize, bytes) = 1 THEN Abort("no_bytes")
     ELSE /\ bytes' = bytes - Least(ReadSize, bytes)
          /\ batch' = Tail(batch)
          /\ lpc' = IF Tail(batch) = <<>> THEN "idle" ELSE "drain"
          /\ UNCHANGED <<lmsg, indVars, setupVars, queue, wakeup, toAgent, edge, toRic,
                         ranVars, ricVars, stop, fault>>

LoopStop ==
  /\ lpc = "idle" /\ stop = "asked"
  /\ lpc' = "stopped"
  /\ UNCHANGED <<lmsg, batch, indVars, setupVars, pipeVars, toAgent, edge, toRic, ranVars,
                 ricVars, stop, fault>>

-----------------------------------------------------------------------------
(* The threads of the RAN: e2_async_event_agent.                           *)

\* A calm RAN reports events of a subscription between its registration and
\* the call that frees it; a rough one as soon as it has heard of it, and its
\* call may be under way when the subscription is freed.
RanEvent(t, id) ==
  /\ rpc[t] = "idle" /\ events < MaxEvents /\ stop # "freed" /\ id \in ranSubs
  /\ Calm => stop = "no" /\ EntriesOf(id) # {}
  /\ rpc' = [rpc EXCEPT ![t] = "find"] /\ rid' = [rid EXCEPT ![t] = id]
  /\ events' = events + 1
  /\ UNCHANGED <<loopVars, indVars, setupVars, pipeVars, toAgent, edge, toRic, ranSubs,
                 ricVars, stop, fault>>

\* The lookup under mtx_ind_event: ten tries, 10 us apart.
RanFind(t) ==
  /\ rpc[t] = "find" /\ stop # "freed"
  /\ IF EntriesOf(rid[t]) = {} THEN Abort("ric_req_id_not_found")
     ELSE /\ rpc' = [rpc EXCEPT ![t] = "push"]
          /\ UNCHANGED <<loopVars, indVars, setupVars, pipeVars, toAgent, edge, toRic, rid,
                         ranSubs, events, ricVars, stop, fault>>

RanPush(t) ==
  /\ rpc[t] = "push" /\ stop # "freed"
  /\ queue' = Append(queue, rid[t])
  /\ rpc' = [rpc EXCEPT ![t] = "write"]
  /\ UNCHANGED <<loopVars, indVars, setupVars, bytes, wakeup, toAgent, edge, toRic, rid,
                 ranSubs, events, ricVars, stop, fault>>

RanWrite(t) ==
  /\ rpc[t] = "write" /\ stop # "freed"
  /\ bytes' = bytes + Digits /\ wakeup' = TRUE
  /\ rpc' = [rpc EXCEPT ![t] = "idle"] /\ rid' = [rid EXCEPT ![t] = NoId]
  /\ UNCHANGED <<loopVars, indVars, setupVars, queue, toAgent, edge, toRic, ranSubs, events,
                 ricVars, stop, fault>>

-----------------------------------------------------------------------------
(* e2_free_agent, called by the RAN; a calm one has no event under way.     *)

StopAgent ==
  /\ stop = "no" /\ lpc # "start"
  /\ Calm => \A t \in RanThreads : rpc[t] = "idle"
  /\ stop' = "asked"
  /\ UNCHANGED <<loopVars, indVars, setupVars, pipeVars, toAgent, edge, toRic, ranVars,
                 ricVars, fault>>

FreeAgent ==
  /\ stop = "asked" /\ lpc = "stopped"
  /\ IF \E t \in RanThreads : rpc[t] # "idle" THEN Abort("use_after_free")
     ELSE /\ stop' = "freed"
          /\ ind' = {} /\ pend' = 0 /\ queue' = <<>>
          /\ UNCHANGED <<loopVars, made, transId, setups, bytes, wakeup, toAgent, edge,
                         toRic, ranVars, ricVars, fault>>

-----------------------------------------------------------------------------
(* The RIC.                                                                *)

Deliver(m) == toAgent' = Append(toAgent, m) /\ edge' = TRUE

\* It answers one setup request; a rough one every one.
RicSetsUp ==
  /\ Setup \in toRic
  /\ toRic' = toRic \ {Setup}
  /\ IF Calm /\ up THEN UNCHANGED <<toAgent, edge>> ELSE Deliver(Setup)
  /\ up' = TRUE
  /\ UNCHANGED <<loopVars, indVars, setupVars, pipeVars, ranVars, ric, lost, reqs, stop, fault>>

\* A calm RIC has one aperiodic subscription at most.
RicRequests(id) ==
  /\ up /\ ric[id] = "new" /\ reqs < MaxReqs
  /\ \E aper \in BOOLEAN, kind \in {"SUBS", "CTRL"} :
       /\ kind = "CTRL" => ~aper
       /\ Calm /\ aper => /\ ranSubs = {}
                          /\ \A i \in DOMAIN toAgent : ~toAgent[i].aper
       /\ Deliver([kind |-> kind, id |-> id, aper |-> aper])
  /\ ric' = [ric EXCEPT ![id] = "asked"] /\ reqs' = reqs + 1
  /\ UNCHANGED <<loopVars, indVars, setupVars, pipeVars, toRic, ranVars, up, lost, stop, fault>>

RicDeletes(id) ==
  /\ up /\ ric[id] = "served"
  /\ Deliver([kind |-> "DEL", id |-> id, aper |-> FALSE])
  /\ ric' = [ric EXCEPT ![id] = "ending"]
  /\ UNCHANGED <<loopVars, indVars, setupVars, pipeVars, toRic, ranVars, up, lost, reqs,
                 stop, fault>>

RicHears(m) ==
  /\ m \in toRic /\ m.kind # "SETUP"
  /\ toRic' = toRic \ {m}
  /\ ric' = CASE m.kind = "SUBS" -> [ric EXCEPT ![m.id] = "served"]
              [] m.kind \in {"DEL", "CTRL"} -> [ric EXCEPT ![m.id] = "ended"]
  /\ UNCHANGED <<loopVars, indVars, setupVars, pipeVars, toAgent, edge, ranVars, up, lost,
                 reqs, stop, fault>>

\* The RIC goes away, with nothing unread, and another takes its place, which
\* numbers its requests from the start.
RicLost ==
  /\ lost < MaxLost /\ setups < MaxSetups
  /\ up /\ pend = 0 /\ toAgent = <<>>
  /\ lost' = lost + 1
  /\ Deliver(Shutdown)
  /\ toRic' = {} /\ up' = FALSE
  /\ ric' = [id \in Ids |-> "new"]
  /\ UNCHANGED <<loopVars, indVars, setupVars, pipeVars, ranVars, reqs, stop, fault>>

-----------------------------------------------------------------------------
Init ==
  /\ lpc = "start" /\ lmsg = NoMsg /\ batch = <<>>
  /\ ind = {} /\ made = 1
  /\ pend = 0 /\ transId = 0 /\ setups = 0
  /\ queue = <<>> /\ bytes = 0 /\ wakeup = FALSE
  /\ toAgent = <<>> /\ edge = FALSE /\ toRic = {}
  /\ rpc = [t \in RanThreads |-> "idle"] /\ rid = [t \in RanThreads |-> NoId]
  /\ ranSubs = {} /\ events = 0
  /\ ric = [id \in Ids |-> "new"] /\ up = FALSE /\ lost = 0 /\ reqs = 0
  /\ stop = "no" /\ env \in Envs /\ fault = "none"

LoopReads == \E m \in Range(toAgent) :
  \/ LoopSetupResponse(m) \/ LoopShutdown(m) \/ LoopSubscribe(m)
  \/ LoopDelete(m) \/ LoopControl(m)
LoopOn == LoopStart \/ LoopRegister \/ LoopDrain \/ LoopStop
RanStep(t) == RanFind(t) \/ RanPush(t) \/ RanWrite(t)

Next ==
  /\ Running /\ UNCHANGED env
  /\ \/ LoopOn \/ LoopReads \/ LoopAperiodic \/ LoopSetupTimer
     \/ \E t \in RanThreads : RanStep(t) \/ \E id \in Ids : RanEvent(t, id)
     \/ StopAgent \/ FreeAgent
     \/ RicSetsUp \/ RicLost
     \/ \E id \in Ids : RicRequests(id) \/ RicDeletes(id)
     \/ \E m \in toRic : RicHears(m)

Spec == Init /\ [][Next]_vars
-----------------------------------------------------------------------------
(* Properties.                                                             *)

\* Type correctness of the agent, its RAN and its RIC.
TypeOK ==
  /\ lpc \in {"start", "idle", "register", "drain", "stopped"}
  /\ lmsg \in Request \union {NoMsg} /\ lpc = "register" => lmsg \in Request
  /\ batch \in Seq(Ids) /\ lpc = "drain" => batch # <<>>
  /\ ind \subseteq Entry /\ made \in Nat
  /\ pend \in 0 .. MaxLost + 1 /\ setups \in 0 .. MaxSetups /\ transId \in 0 .. setups
  /\ queue \in Seq(Ids) /\ bytes \in Nat /\ wakeup \in BOOLEAN
  /\ \A i \in DOMAIN toAgent : toAgent[i] \in Request \union {Setup, Shutdown}
  /\ edge \in BOOLEAN
  /\ toRic \subseteq Request \union {Setup}
  /\ rpc \in [RanThreads -> {"idle", "find", "push", "write"}]
  /\ rid \in [RanThreads -> Ids \union {NoId}]
  /\ ranSubs \subseteq Ids /\ events \in 0 .. MaxEvents
  /\ ric \in [Ids -> {"new", "asked", "served", "ending", "ended"}]
  /\ up \in BOOLEAN /\ lost \in 0 .. MaxLost /\ reqs \in 0 .. MaxReqs
  /\ stop \in {"no", "asked", "freed"} /\ env \in Envs

\* No assertion of the agent fails, in any interleaving of the loop and the
\* threads of the RAN, in a calm environment.
NoAbort == Calm => fault = "none"

Writing == Cardinality({t \in RanThreads : rpc[t] = "write"})

\* The pipe holds four bytes for each event that was pushed and announced and
\* is not yet drained, and the loop is told of what it holds: no event is left
\* in the queue and no read waits for bytes that never come.
PipeMatchesQueue ==
  stop # "freed" =>
    /\ bytes + 4 * Writing = 4 * (Len(queue) + Len(batch))
    /\ lpc = "idle" /\ bytes > 0 => wakeup

\* What the RIC was told is what the agent does: a subscription answered has its
\* entry, once, and one whose delete was answered has none.
StreamsAgree ==
  lost = 0 /\ stop # "freed" =>
    \A id \in Ids :
      /\ ric[id] = "served" => Cardinality(EntriesOf(id)) = 1
      /\ ric[id] \in {"new", "ended"} => EntriesOf(id) = {}

\* The RAN reports events for the aperiodic subscriptions of ind_event alone
\* (and the one about to be inserted): it is told of each start and each end.
RanInformed ==
  lost = 0 /\ stop # "freed" =>
    ranSubs = {e.id : e \in {x \in ind : x.aper}}
              \union (IF lpc = "register" /\ lmsg.aper THEN {lmsg.id} ELSE {})

-----------------------------------------------------------------------------
(* Liveness.  epoll reports what is ready in turn, the threads of the RAN   *)
(* run, a RIC is there in the end.                                         *)

Step(A) == Running /\ A /\ UNCHANGED env
Fairness ==
  /\ WF_vars(Step(LoopOn)) /\ WF_vars(Step(LoopReads))
  /\ WF_vars(Step(LoopAperiodic)) /\ WF_vars(Step(LoopSetupTimer))
  /\ \A t \in RanThreads : WF_vars(Step(RanStep(t)))
  /\ WF_vars(Step(FreeAgent)) /\ WF_vars(Step(RicSetsUp))

FairSpec == Spec /\ Fairness

\* Every event the RAN reports is sent to the RIC, unless the agent is stopped.
EventsSent ==
  Calm /\ queue # <<>> ~> (queue = <<>> /\ batch = <<>>) \/ stop # "no"

\* The setup is repeated until it is answered, also when a first request was
\* lost or the RIC went away.
SetupCompletes == Calm /\ pend > 0 ~> pend = 0 \/ stop # "no"
==============================================================================
