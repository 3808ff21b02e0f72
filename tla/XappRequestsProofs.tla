-------------------------- MODULE XappRequestsProofs --------------------------
(***************************************************************************)
(* Theorems about XappRequests, for any number of calls, indications and   *)
(* setup requests sent again, any set of RAN functions, and a RIC that     *)
(* answers early, late or never.                                           *)
(***************************************************************************)
EXTENDS XappRequests, TLAPS

-----------------------------------------------------------------------------
(* The inductive invariant.                                                *)

\* In a call of the API; its request is out; its pending event was added; the caller,
\* in its wait, was signalled; the loop is between the lookup and the signal.
Calling == pc \in {"pend", "send", "wait", "waiting", "remove"}
Sent == pc \in {"wait", "waiting"} \/ (pc = "pend" /\ call.kind # "SUBS")
Pended == pc \in {"wait", "waiting"} \/ (pc = "send" /\ call.kind = "SUBS")
Told == pc = "waiting" /\ flag
Handling == lpc \in {"unpend", "close", "signal"}
Queued == toRic \union toXapp

\* One message carries the call, and none an earlier one: it is on its way to the RIC,
\* on its way back, with the loop, or the caller was told.  A report is not removed
\* when its answer comes.
Dialogue ==
  /\ \A m \in Call : m \in Queued => Sent /\ m = call
  /\ \A m \in Call : ~(m \in toRic /\ m \in toXapp)
  /\ Handling => Sent /\ lmsg = call /\ call \notin Queued
  /\ Told => call \notin Queued /\ ~Handling
  /\ pc = "remove" => call.kind # "SUBS"

\* Pending events and timers are of the setup before the xApp is connected, and of the
\* call in hand after; a timer without event is the one the loop is about to close.
SetupPending == [ev |-> "SETUP", id |-> 0]
Alarms ==
  /\ lpc = "start" => ~connected
  /\ lpc = "stopped" => Stopped
  /\ ~connected => /\ pc = "idle"
                   /\ pending = timers
                   /\ pending = IF lpc = "start" THEN {} ELSE {SetupPending}
  /\ connected => \A p \in pending \union timers : Pended /\ ~Told /\ p = PendingOf(call)
  /\ lpc \in {"close", "signal"} => pc \in {"wait", "waiting"} /\ pending = {}
  /\ lpc = "close" => lfd = PendingOf(call)
  /\ lpc = "signal" => timers = {}
  /\ lpc # "close" => timers \subseteq pending

\* The registry holds the reports and the call in hand, each under a key of its own.
Registered ==
  /\ \A i \in Ids : ProcsOf(i) # {} <=> i \in handles \/ (Calling /\ i = call.id)
  /\ \A p \in reg : p.id < nextKey /\ \A q \in reg : p.id = q.id => p = q
  /\ Calling => /\ \E p \in reg : p.id = call.id /\ p.func = call.func
                /\ call.kind # "DEL" => call.id \notin handles

\* What the RIC serves is what the answers said.
Served ==
  /\ \A s \in active : s.id < nextKey /\ \A p \in reg : p.id = s.id => p.func = s.func
  /\ ~Stopped => \A s \in active : ProcsOf(s.id) # {}
  /\ Calling => CASE call.kind = "SUBS" ->
                       Sent /\ call \notin toRic => [id |-> call.id, func |-> call.func] \in active
                  [] call.kind = "DEL" ->
                       (pc # "send" /\ call \notin toRic) => \A s \in active : s.id # call.id
                  [] call.kind = "CTRL" -> \A s \in active : s.id # call.id

\* An indication on its way belongs to the procedure its key finds, if it finds one.
Indications ==
  /\ \A m \in toXapp : m.kind = "IND" =>
       m.id < nextKey /\ \A p \in reg : p.id = m.id => p.func = m.func
  /\ CallbackOwn

\* The pending event of the call is there while its answer is: from before the request
\* is sent for a report, from after it for the others, until the loop takes it out.
Outstanding ==
  /\ pc = "send" /\ call.kind = "SUBS" => PendingOf(call) \in pending
  /\ pc = "pend" /\ call.kind # "SUBS" => call \in Queued \/ lpc = "unpend"
  /\ pc \in {"wait", "waiting"} =>
       (PendingOf(call) \in pending <=> call \in Queued \/ lpc = "unpend")

\* With a RIC that answers in time: the loop handles an answer while the caller waits, and
\* the answer of a request that is out is under way until the caller is told.
Answering ==
  /\ Handling => pc = "waiting"
  /\ Sent /\ ~Told => call \in Queued \/ Handling
InTime == env = "timely" => Answering

Assertions == Outstanding /\ InTime /\ NoAbort

XappInv == /\ TypeOK /\ Dialogue /\ Alarms /\ Registered /\ Served /\ Indications

\* The fields of a call and of a pending event.
LEMMA CallFields ==
  ASSUME NEW c \in Call
  PROVE  /\ c.kind \in {"SUBS", "DEL", "CTRL"} /\ c.id \in Ids /\ c.func \in Funcs
         /\ PendingOf(c) \in Pending /\ c # NoCall
  BY BoundsAssumption, NoCallAssumption DEF Call, Kinds, PendingOf, Pending, Ids

\* A call never is, in the same set of messages, a setup or an indication.
LEMMA MessageKinds ==
  /\ \A m \in Setup : m.kind = "SETUP" /\ m \notin Call
  /\ \A m \in Call : m.kind # "SETUP" /\ m.kind # "IND"
  BY DEF Setup, Call, Kinds

\* A new key names no call so far.
LEMMA NewCall ==
  ASSUME TypeOK, nextKey <= MaxCalls, NEW f \in Funcs, NEW kind \in {"SUBS", "CTRL"}
  PROVE  /\ nextKey \in Ids /\ nextKey + 1 \in 1 .. MaxCalls + 1
         /\ [kind |-> kind, id |-> nextKey, func |-> f] \in Call
         /\ [type |-> kind, id |-> nextKey, func |-> f] \in Proc
  BY BoundsAssumption DEF TypeOK, Call, Proc, Ids, Kinds

\* Beginning a report or a control keeps the invariant.
LEMMA BeginCallStep ==
  ASSUME XappInv, UNCHANGED env, NEW kind, BeginCall(kind)
  PROVE  XappInv'
<1>0. PICK key : key = nextKey
  OBVIOUS
<1>1. PICK f \in Funcs : /\ call' = [kind |-> kind, id |-> key, func |-> f]
                         /\ reg' = reg \union {[type |-> kind, id |-> key, func |-> f]}
  BY <1>0 DEF BeginCall, NewKey
<1>2. /\ kind \in {"SUBS", "CTRL"} /\ nextKey <= MaxCalls
      /\ pc = "idle" /\ connected /\ nextKey = key /\ nextKey' = key + 1
      /\ pc' = IF kind = "SUBS" THEN "pend" ELSE "send"
      /\ UNCHANGED <<handles, flag, pending, timers, lpc, lmsg, lfd, connected, resent, queue, cb,
                     toRic, toXapp, active, inds>>
  BY <1>0 DEF BeginCall, After, pendVars, loopVars, conVars, dispVars, ricVars
<1>3. /\ call' \in Call /\ call'.kind = kind /\ call'.id = key /\ call'.func = f
      /\ key \in Ids /\ key + 1 \in 1 .. MaxCalls + 1 /\ key \in Nat
      /\ [type |-> kind, id |-> key, func |-> f] \in Proc
  <2>1. TypeOK
    BY DEF XappInv
  <2>2. /\ key \in Ids /\ key + 1 \in 1 .. MaxCalls + 1
        /\ [kind |-> kind, id |-> key, func |-> f] \in Call
        /\ [type |-> kind, id |-> key, func |-> f] \in Proc
    BY <1>0, <1>2, <2>1, NewCall
  <2>3. key \in Nat
    BY <1>0, BoundsAssumption, <2>1 DEF TypeOK
  <2> QED  BY <1>1, <2>2, <2>3
<1>4. /\ reg \subseteq Proc /\ \A p \in Proc : p.id \in Nat
      /\ \A s \in active : s.id \in Nat
  BY BoundsAssumption DEF XappInv, TypeOK, Proc, Ids
<1>5. TypeOK'
  BY <1>1, <1>2, <1>3 DEF XappInv, TypeOK
<1>6. Dialogue'
  BY <1>2, <1>3 DEF XappInv, TypeOK, Dialogue, Sent, Told, Handling, Queued
<1>7. Alarms'
  BY <1>2, <1>3 DEF XappInv, TypeOK, Alarms, Pended, Told, Stopped
<1>8. Registered'
  <2>1. \A i \in Ids \ {key} : ProcsOf(i)' = ProcsOf(i)
    BY <1>1, <1>3 DEF ProcsOf
  <2>2. ProcsOf(key)' # {} /\ \A p \in reg : p.id # key /\ p.id < key + 1
    <3>1. \A p \in reg : p.id \in Nat /\ p.id < key
      BY <1>2, <1>4 DEF XappInv, Registered
    <3>2. \A p \in reg : p.id # key /\ p.id < key + 1
      BY <1>3, <3>1
    <3>3. [type |-> kind, id |-> key, func |-> f] \in reg'
      BY <1>1
    <3> QED  BY <3>2, <3>3 DEF ProcsOf
  <2>3. key \notin handles
    BY <1>2, <1>3, <2>2 DEF XappInv, Registered, ProcsOf
  <2>4. ~Calling /\ Calling'
    BY <1>2 DEF Calling
  <2>5. \A i \in Ids : ProcsOf(i)' # {} <=> i \in handles \/ i = key
    BY <2>1, <2>2, <2>4 DEF XappInv, Registered
  <2>6. \A p \in reg' : /\ p.id < nextKey'
                        /\ \A q \in reg' : p.id = q.id => p = q
    <3>1. key < key + 1
      BY <1>3
    <3> QED  BY <1>1, <1>2, <2>2, <3>1 DEF XappInv, Registered
  <2>7. \E p \in reg' : p.id = key /\ p.func = f
    <3>1. PICK p : p = [type |-> kind, id |-> key, func |-> f]
      OBVIOUS
    <3> QED  BY <1>1, <3>1
  <2> QED  BY <1>2, <1>3, <2>3, <2>4, <2>5, <2>6, <2>7 DEF Registered
<1>9. Served'
  <2>1. \A s \in active : s.id # key /\ s.id < key + 1
    BY <1>2, <1>3, <1>4 DEF XappInv, Served
  <2>2. \A s \in active : ProcsOf(s.id) \subseteq ProcsOf(s.id)'
    BY <1>1 DEF ProcsOf
  <2>3. ~Sent' \/ kind = "CTRL"
    BY <1>2, <1>3 DEF Sent
  <2>4. \A s \in active, p \in reg' : p.id = s.id => p.func = s.func
    BY <1>1, <2>1 DEF XappInv, Served
  <2>5. \A s \in active : ProcsOf(s.id)' # {}
    BY <1>2, <2>2 DEF XappInv, Served, Stopped
  <2> QED  BY <1>2, <1>3, <2>1, <2>3, <2>4, <2>5 DEF Served
<1>10. Indications'
  <2>1. \A m \in toXapp : m.kind = "IND" => m.id # key /\ m.id < key + 1
    BY <1>2, <1>3, MessageKinds DEF XappInv, TypeOK, Indications, FromRic, Ids
  <2> QED  BY <1>1, <1>2, <1>3, <2>1 DEF XappInv, Indications, CallbackOwn
<1> QED  BY <1>5, <1>6, <1>7, <1>8, <1>9, <1>10 DEF XappInv

\* Adding the pending event keeps the invariant.
LEMMA AddPendingStep ==
  ASSUME XappInv, UNCHANGED env, AddPending
  PROVE  XappInv'
<1>1. TypeOK'
  BY CallFields DEF XappInv, TypeOK, AddPending, After, procVars, loopVars, conVars,
         dispVars, ricVars
<1>2. Dialogue'
  BY DEF XappInv, Dialogue, Sent, Told, Handling, Queued, AddPending, After, loopVars
<1>3. Alarms'
  BY DEF XappInv, Alarms, Pended, Told, PendingOf, Stopped, AddPending, After, loopVars,
         conVars
<1>4. Registered'
  BY DEF XappInv, Registered, Calling, ProcsOf, AddPending, After, procVars
<1>5. Served'
  BY DEF XappInv, Served, Sent, Calling, Stopped, ProcsOf, AddPending, After, procVars,
         loopVars, ricVars
<1>6. Indications'
  BY DEF XappInv, Indications, CallbackOwn, AddPending, procVars, dispVars
<1> QED  BY <1>1, <1>2, <1>3, <1>4, <1>5, <1>6 DEF XappInv

\* Sending a request keeps the invariant.
LEMMA SendStep ==
  ASSUME XappInv, UNCHANGED env, Send
  PROVE  XappInv'
<1>1. TypeOK'
  BY CallFields DEF XappInv, TypeOK, Send, After, procVars, pendVars, loopVars, conVars,
         dispVars, ricVars
<1>2. Dialogue'
  BY DEF XappInv, Dialogue, Sent, Told, Handling, Queued, Send, After, loopVars
<1>3. Alarms'
  BY DEF XappInv, Alarms, Pended, Told, PendingOf, Stopped, Send, After, pendVars, loopVars,
         conVars
<1>4. Registered'
  BY DEF XappInv, Registered, Calling, ProcsOf, Send, After, procVars
<1>5. Served'
  BY DEF XappInv, Served, Sent, Calling, Stopped, ProcsOf, Send, After, procVars, loopVars,
         ricVars
<1>6. Indications'
  BY DEF XappInv, Indications, CallbackOwn, Send, procVars, dispVars
<1> QED  BY <1>1, <1>2, <1>3, <1>4, <1>5, <1>6 DEF XappInv

\* Beginning to wait keeps the invariant.
LEMMA WaitStep ==
  ASSUME XappInv, UNCHANGED env, Wait
  PROVE  XappInv'
<1>1. TypeOK'
  BY DEF XappInv, TypeOK, Wait, FlagAtWait, procVars, pendVars, loopVars, conVars, dispVars,
         ricVars
<1>2. Dialogue'
  BY DEF XappInv, Dialogue, Sent, Told, Handling, Queued, Wait, FlagAtWait, loopVars
<1>3. Alarms'
  BY DEF XappInv, Alarms, Pended, Told, PendingOf, Stopped, Wait, FlagAtWait, pendVars,
         loopVars, conVars
<1>4. Registered'
  BY DEF XappInv, Registered, Calling, ProcsOf, Wait, FlagAtWait, procVars
<1>5. Served'
  BY DEF XappInv, Served, Sent, Calling, Stopped, ProcsOf, Wait, FlagAtWait, procVars,
         loopVars, ricVars
<1>6. Indications'
  BY DEF XappInv, Indications, CallbackOwn, Wait, procVars, dispVars
<1> QED  BY <1>1, <1>2, <1>3, <1>4, <1>5, <1>6 DEF XappInv

\* Waking up keeps the invariant.
LEMMA WokenStep ==
  ASSUME XappInv, UNCHANGED env, Woken
  PROVE  XappInv'
<1>1. TypeOK'
  BY CallFields DEF XappInv, TypeOK, Woken, EndsProc, procVars, pendVars, loopVars, conVars,
         dispVars, ricVars
<1>2. Dialogue'
  BY DEF XappInv, Dialogue, Sent, Told, Handling, Queued, Woken, EndsProc, loopVars
<1>3. Alarms'
  BY DEF XappInv, Dialogue, Handling, Alarms, Pended, Told, PendingOf, Stopped, Woken, EndsProc, pendVars,
         loopVars, conVars
<1>4. Registered'
  BY DEF XappInv, Registered, Calling, ProcsOf, Woken, EndsProc, procVars
<1>5. Served'
  <2>1. /\ pc = "waiting" /\ UNCHANGED <<active, toRic, reg, nextKey>>
        /\ ~Calling' \/ (pc' = "remove" /\ call' = call /\ call.kind # "SUBS")
    BY DEF Woken, EndsProc, Calling, procVars, ricVars
  <2>2. /\ Calling /\ call \in Call /\ ~Stopped /\ ~Stopped'
    BY <2>1 DEF XappInv, TypeOK, Calling, Stopped, Woken
  <2>3. \A i : ProcsOf(i)' = ProcsOf(i)
    BY <2>1 DEF ProcsOf
  <2>4. CASE pc' = "remove" /\ call' = call
    <3>1. call.kind = "DEL" \/ call.kind = "CTRL"
      BY <2>1, <2>2, <2>4, CallFields DEF Calling
    <3> QED  BY <2>1, <2>2, <2>3, <2>4, <3>1 DEF XappInv, Served
  <2> QED  BY <2>1, <2>2, <2>3, <2>4 DEF XappInv, Served
<1>6. Indications'
  BY DEF XappInv, Indications, CallbackOwn, Woken, procVars, dispVars
<1> QED  BY <1>1, <1>2, <1>3, <1>4, <1>5, <1>6 DEF XappInv

\* Stopping the API keeps the invariant.
LEMMA StopStep ==
  ASSUME XappInv, UNCHANGED env, Stop \/ StopDispatcher
  PROVE  XappInv'
<1>1. TypeOK'
  BY DEF XappInv, TypeOK, Stop, StopDispatcher, procVars, pendVars, loopVars, conVars,
         dispVars, ricVars
<1>2. Dialogue'
  BY DEF XappInv, Dialogue, Sent, Told, Handling, Queued, Stop, StopDispatcher, loopVars
<1>3. Alarms'
  BY DEF XappInv, Alarms, Pended, Told, PendingOf, Stopped, Stop, StopDispatcher, pendVars,
         loopVars, conVars
<1>4. Registered'
  BY DEF XappInv, Registered, Calling, ProcsOf, Stop, StopDispatcher, procVars
<1>5. Served'
  BY DEF XappInv, Served, Sent, Calling, Stopped, ProcsOf, Stop, StopDispatcher, procVars,
         loopVars, ricVars
<1>6. Indications'
  BY DEF XappInv, Indications, CallbackOwn, Stop, StopDispatcher, procVars, dispVars
<1> QED  BY <1>1, <1>2, <1>3, <1>4, <1>5, <1>6 DEF XappInv

\* Freeing the API keeps the invariant.
LEMMA FreedStep ==
  ASSUME XappInv, UNCHANGED env, Freed
  PROVE  XappInv'
<1>1. TypeOK'
  BY DEF XappInv, TypeOK, Freed, loopVars, conVars, ricVars
<1>2. Dialogue'
  BY DEF XappInv, Dialogue, Sent, Told, Handling, Queued, Freed, loopVars
<1>3. Alarms'
  BY DEF XappInv, Alarms, Pended, Told, PendingOf, Stopped, Freed, loopVars, conVars
<1>4. Registered'
  BY DEF XappInv, Registered, Calling, ProcsOf, Freed
<1>5. Served'
  BY DEF XappInv, Served, Sent, Calling, Stopped, ProcsOf, Freed, loopVars, ricVars
<1>6. Indications'
  BY DEF XappInv, Indications, CallbackOwn, Freed
<1> QED  BY <1>1, <1>2, <1>3, <1>4, <1>5, <1>6 DEF XappInv

\* Steps that touch neither the call in hand nor its message.
LEMMA OtherMessages ==
  ASSUME XappInv,
         UNCHANGED <<pc, call, flag, lmsg, handles, reg, nextKey, active>>,
         lpc' = lpc \/ (lpc = "start" /\ lpc' = "loop"),
         \A c \in Call : (c \in toRic' <=> c \in toRic) /\ (c \in toXapp' <=> c \in toXapp)
  PROVE  Dialogue' /\ Registered' /\ Served'
<1>1. Dialogue'
  BY DEF XappInv, TypeOK, Dialogue, Sent, Told, Handling, Queued
<1>2. Registered'
  BY DEF XappInv, Registered, Calling, ProcsOf
<1>3. Served'
  <2>1. \A i : ProcsOf(i)' = ProcsOf(i)
    BY DEF ProcsOf
  <2>2. Calling => call \in Call
    BY DEF XappInv, TypeOK, Calling
  <2> QED  BY <2>1, <2>2 DEF XappInv, Served, Calling, Sent, Stopped
<1> QED  BY <1>1, <1>2, <1>3

\* The setup request keeps the invariant.
LEMMA LoopStartStep ==
  ASSUME XappInv, UNCHANGED env, LoopStart
  PROVE  XappInv'
<1>1. PICK s, p : /\ s = [kind |-> "SETUP", id |-> 0, func |-> NoFunc]
                  /\ p = SetupPending
  OBVIOUS
<1>2. /\ toRic' = toRic \union {s} /\ s \in Setup /\ s \notin Call
      /\ pending' = pending \union {p} /\ timers' = timers \union {p} /\ p \in Pending
  <2>1. s \in Setup /\ p \in Pending
    BY <1>1, BoundsAssumption DEF Setup, SetupPending, Pending
  <2> QED  BY <1>1, <2>1, MessageKinds DEF LoopStart, SetupPending
<1>3. /\ lpc = "start" /\ lpc' = "loop"
      /\ UNCHANGED <<pc, call, handles, flag, reg, nextKey, lmsg, lfd, connected, resent, queue,
                     cb, toXapp, active, inds>>
  BY DEF LoopStart, userVars, procVars, conVars, dispVars, ricVars
<1>4. TypeOK'
  BY <1>2, <1>3 DEF XappInv, TypeOK
<1>5. Dialogue' /\ Registered' /\ Served'
  BY <1>2, <1>3, OtherMessages
<1>6. Alarms'
  BY <1>1, <1>2, <1>3 DEF XappInv, Alarms, SetupPending
<1>7. Indications'
  BY <1>3 DEF XappInv, Indications, CallbackOwn
<1> QED  BY <1>4, <1>5, <1>6, <1>7 DEF XappInv

\* A setup response keeps the invariant.
LEMMA LoopSetupStep ==
  ASSUME XappInv, UNCHANGED env, NEW m \in toXapp, LoopSetup(m)
  PROVE  XappInv'
<1>1. TypeOK'
  BY DEF XappInv, TypeOK, LoopSetup, userVars, procVars, pendVars, loopVars, dispVars,
         ricVars
<1>2. Dialogue'
  BY DEF XappInv, Dialogue, Sent, Told, Handling, Queued, LoopSetup, userVars, loopVars
<1>3. Alarms'
  <2>1. /\ lpc = "loop" /\ lpc' = lpc /\ UNCHANGED <<pc, call, flag, lfd>>
    BY DEF LoopSetup, userVars, loopVars
  <2>2. CASE connected
    <3>1. UNCHANGED <<pending, timers, connected>>
      BY <2>2 DEF LoopSetup, pendVars
    <3> QED  BY <2>1, <3>1 DEF XappInv, Alarms, Pended, Told, PendingOf, Stopped
  <2>3. CASE ~connected
    <3>1. PICK p \in pending : /\ pending' = pending \ {p} /\ timers' = timers \ {p}
                               /\ connected'
      BY <2>3 DEF LoopSetup, PendingOfType
    <3>2. pending' = {} /\ timers' = {} /\ connected'
      BY <2>1, <2>3, <3>1 DEF XappInv, Alarms
    <3> QED  BY <2>1, <3>2 DEF Alarms
  <2> QED  BY <2>2, <2>3
<1>4. Registered'
  BY DEF XappInv, Registered, Calling, ProcsOf, LoopSetup, userVars, procVars
<1>5. Served'
  BY DEF XappInv, Served, Sent, Calling, Stopped, ProcsOf, LoopSetup, userVars, procVars,
         loopVars, ricVars
<1>6. Indications'
  BY DEF XappInv, Indications, CallbackOwn, LoopSetup, procVars, dispVars
<1> QED  BY <1>1, <1>2, <1>3, <1>4, <1>5, <1>6 DEF XappInv

\* An indication keeps the invariant.
LEMMA LoopIndicationStep ==
  ASSUME XappInv, UNCHANGED env, NEW m \in toXapp, LoopIndication(m)
  PROVE  XappInv'
<1>1. TypeOK'
  <2>1. queue' \in Seq(Dispatch)
    <3>1. CASE ProcsOf(m.id) # {}
      <4>1. PICK p \in ProcsOf(m.id) :
              queue' = Append(queue, [func |-> m.func, cb |-> p.func])
        BY <3>1 DEF LoopIndication
      <4>2. m.func \in Funcs /\ p.func \in Funcs
        <5>1. m \in [kind : {"IND"}, id : Ids, func : Funcs]
          BY MessageKinds DEF LoopIndication, XappInv, TypeOK, FromRic
        <5>2. p \in Proc
          BY DEF XappInv, TypeOK, ProcsOf
        <5> QED  BY <5>1, <5>2 DEF Proc
      <4>3. [func |-> m.func, cb |-> p.func] \in Dispatch
        BY <4>2 DEF Dispatch
      <4> QED  BY <4>1, <4>3 DEF XappInv, TypeOK
    <3>2. CASE ProcsOf(m.id) = {}
      BY <3>2 DEF LoopIndication, XappInv, TypeOK
    <3> QED  BY <3>1, <3>2
  <2>2. /\ toXapp' \subseteq toXapp
        /\ UNCHANGED <<pc, call, handles, flag, reg, nextKey, pending, timers, lpc, lmsg, lfd,
                       connected, resent, cb, toRic, active, inds>>
    BY DEF LoopIndication, userVars, procVars, pendVars, loopVars, conVars, ricVars
  <2> QED  BY <2>1, <2>2 DEF XappInv, TypeOK
<1>2. Dialogue'
  BY DEF XappInv, Dialogue, Sent, Told, Handling, Queued, LoopIndication, userVars, loopVars
<1>3. Alarms'
  BY DEF XappInv, Alarms, Pended, Told, PendingOf, Stopped, LoopIndication, userVars,
         pendVars, loopVars, conVars
<1>4. Registered'
  BY DEF XappInv, Registered, Calling, ProcsOf, LoopIndication, userVars, procVars
<1>5. Served'
  BY DEF XappInv, Served, Sent, Calling, Stopped, ProcsOf, LoopIndication, userVars,
         procVars, loopVars, ricVars
<1>6. Indications'
  BY DEF XappInv, TypeOK, Indications, CallbackOwn, ProcsOf, LoopIndication, procVars
<1> QED  BY <1>1, <1>2, <1>3, <1>4, <1>5, <1>6 DEF XappInv

\* Closing the timer keeps the invariant.
LEMMA LoopCloseStep ==
  ASSUME XappInv, UNCHANGED env, LoopClose
  PROVE  XappInv'
<1>1. TypeOK'
  BY DEF XappInv, TypeOK, LoopClose, userVars, procVars, conVars, dispVars, ricVars
<1>2. Dialogue'
  BY DEF XappInv, Dialogue, Sent, Told, Handling, Queued, LoopClose, userVars
<1>3. Alarms'
  BY DEF XappInv, Alarms, Pended, Told, PendingOf, Stopped, LoopClose, userVars, conVars
<1>4. Registered'
  BY DEF XappInv, Registered, Calling, ProcsOf, LoopClose, userVars, procVars
<1>5. Served'
  BY DEF XappInv, Served, Sent, Calling, Stopped, ProcsOf, LoopClose, userVars, procVars,
         ricVars
<1>6. Indications'
  BY DEF XappInv, Indications, CallbackOwn, LoopClose, procVars, dispVars
<1> QED  BY <1>1, <1>2, <1>3, <1>4, <1>5, <1>6 DEF XappInv

\* The signal keeps the invariant.
LEMMA LoopSignalStep ==
  ASSUME XappInv, UNCHANGED env, LoopSignal
  PROVE  XappInv'
<1>1. TypeOK'
  BY DEF XappInv, TypeOK, LoopSignal, userVars, procVars, pendVars, conVars, dispVars,
         ricVars
<1>2. Dialogue'
  BY DEF XappInv, Dialogue, Sent, Told, Handling, Queued, LoopSignal, userVars
<1>3. Alarms'
  BY DEF XappInv, Alarms, Pended, Told, PendingOf, Stopped, LoopSignal, userVars, pendVars,
         conVars
<1>4. Registered'
  BY DEF XappInv, Registered, Calling, ProcsOf, LoopSignal, userVars, procVars
<1>5. Served'
  BY DEF XappInv, Served, Sent, Calling, Stopped, ProcsOf, LoopSignal, userVars, procVars,
         ricVars
<1>6. Indications'
  BY DEF XappInv, Indications, CallbackOwn, LoopSignal, procVars, dispVars
<1> QED  BY <1>1, <1>2, <1>3, <1>4, <1>5, <1>6 DEF XappInv

\* The end of the loop keeps the invariant.
LEMMA LoopStopStep ==
  ASSUME XappInv, UNCHANGED env, LoopStop
  PROVE  XappInv'
<1>1. TypeOK'
  BY DEF XappInv, TypeOK, LoopStop, userVars, procVars, pendVars, conVars, dispVars, ricVars
<1>2. Dialogue'
  BY DEF XappInv, Dialogue, Sent, Told, Handling, Queued, LoopStop, userVars
<1>3. Alarms'
  BY DEF XappInv, Alarms, Pended, Told, PendingOf, Stopped, LoopStop, userVars, pendVars,
         conVars
<1>4. Registered'
  BY DEF XappInv, Registered, Calling, ProcsOf, LoopStop, userVars, procVars
<1>5. Served'
  BY DEF XappInv, Served, Sent, Calling, Stopped, ProcsOf, LoopStop, userVars, procVars,
         ricVars
<1>6. Indications'
  BY DEF XappInv, Indications, CallbackOwn, LoopStop, procVars, dispVars
<1> QED  BY <1>1, <1>2, <1>3, <1>4, <1>5, <1>6 DEF XappInv

\* The dispatcher keeps the invariant.
LEMMA DispatchStep ==
  ASSUME XappInv, UNCHANGED env, DispatcherPop \/ CallbackReturns
  PROVE  XappInv'
<1>1. TypeOK'
  <2>1. /\ queue' \in Seq(Dispatch) /\ cb' \in Dispatch \union {NoCall}
    <3>1. queue # <<>> => Head(queue) \in Dispatch /\ Tail(queue) \in Seq(Dispatch)
      BY DEF XappInv, TypeOK
    <3> QED  BY <3>1 DEF XappInv, TypeOK, DispatcherPop, CallbackReturns
  <2>2. UNCHANGED <<pc, call, handles, flag, reg, nextKey, pending, timers, lpc, lmsg, lfd,
                    connected, resent, toRic, toXapp, active, inds>>
    BY DEF DispatcherPop, CallbackReturns, userVars, procVars, pendVars, loopVars, conVars,
       ricVars
  <2> QED  BY <2>1, <2>2 DEF XappInv, TypeOK
<1>2. Dialogue'
  BY DEF XappInv, Dialogue, Sent, Told, Handling, Queued, DispatcherPop, CallbackReturns,
         userVars, loopVars
<1>3. Alarms'
  BY DEF XappInv, Alarms, Pended, Told, PendingOf, Stopped, DispatcherPop, CallbackReturns,
         userVars, pendVars, loopVars, conVars
<1>4. Registered'
  BY DEF XappInv, Registered, Calling, ProcsOf, DispatcherPop, CallbackReturns, userVars,
         procVars
<1>5. Served'
  BY DEF XappInv, Served, Sent, Calling, Stopped, ProcsOf, DispatcherPop, CallbackReturns,
         userVars, procVars, loopVars, ricVars
<1>6. Indications'
  BY DEF XappInv, Indications, CallbackOwn, DispatcherPop, CallbackReturns, procVars
<1> QED  BY <1>1, <1>2, <1>3, <1>4, <1>5, <1>6 DEF XappInv

\* The RIC serving a request keeps the invariant.
LEMMA RicServesStep ==
  ASSUME XappInv, UNCHANGED env, NEW m \in toRic, RicServes(m)
  PROVE  XappInv'
<1>1. /\ toRic' = toRic \ {m} /\ toXapp' = toXapp \union {m}
      /\ UNCHANGED <<pc, call, handles, flag, reg, nextKey, pending, timers, lpc, lmsg, lfd,
                     connected, resent, queue, cb, inds>>
  BY DEF RicServes, userVars, procVars, pendVars, loopVars, conVars, dispVars
<1>2. m \in Call \/ m \in Setup
  BY DEF XappInv, TypeOK
<1>3. Alarms'
  BY <1>1 DEF XappInv, Alarms, Pended, Told, PendingOf, Stopped
<1>4. Indications'
  <2>1. m.kind # "IND"
    BY <1>2, MessageKinds
  <2> QED  BY <1>1, <2>1 DEF XappInv, Indications, CallbackOwn
<1>5. CASE m \in Setup
  <2>1. active' = active /\ m \notin Call
    BY <1>5, MessageKinds DEF RicServes
  <2>2. TypeOK'
    BY <1>1, <1>5, <2>1 DEF XappInv, TypeOK, FromRic
  <2>3. Dialogue' /\ Registered' /\ Served'
    BY <1>1, <2>1, OtherMessages
  <2> QED  BY <1>3, <1>4, <2>2, <2>3 DEF XappInv
<1>6. CASE m \in Call
  <2>1. /\ m = call /\ Sent /\ call \in Call /\ ~Handling /\ ~Told
    BY <1>6 DEF XappInv, Dialogue, Queued
  <2>2. Calling /\ ~Stopped
    BY <2>1 DEF Sent, Calling, Stopped
  <2>3. Dialogue'
    BY <1>1, <2>1 DEF XappInv, Dialogue, Sent, Told, Handling, Queued
  <2>4. Registered'
    BY <1>1 DEF XappInv, Registered, Calling, ProcsOf
  <2>5. /\ call.kind \in {"SUBS", "DEL", "CTRL"} /\ call.id \in Ids /\ call.func \in Funcs
    BY <2>1, CallFields
  <2>6. PICK p \in reg : /\ p.id = call.id /\ p.func = call.func /\ p.id < nextKey
                         /\ \A q \in reg : p.id = q.id => p = q
    BY <2>2 DEF XappInv, Registered
  <2>7. PICK s0 : s0 = [id |-> call.id, func |-> call.func]
    OBVIOUS
  <2>8. /\ s0 \in [id : Ids, func : Funcs] /\ s0.id = call.id /\ s0.func = call.func
    BY <2>5, <2>7
  <2>9. /\ call.kind = "SUBS" => active' = active \union {s0}
        /\ call.kind = "DEL" => active' = {s \in active : s.id # call.id}
        /\ call.kind = "CTRL" => active' = active
    BY <2>1, <2>7 DEF RicServes
  <2>10. TypeOK'
    <3>1. active' \subseteq [id : Ids, func : Funcs]
      BY <2>5, <2>8, <2>9 DEF XappInv, TypeOK
    <3> QED  BY <1>1, <1>6, <3>1 DEF XappInv, TypeOK, FromRic
  <2>11. Served'
    <3>1. \A s \in active' : s \in active \/ s = s0
      BY <2>5, <2>9
    <3>2. \A s \in active' : /\ s.id < nextKey /\ \A q \in reg : q.id = s.id => q.func = s.func
                             /\ ProcsOf(s.id) # {}
      BY <2>2, <2>6, <2>8, <3>1 DEF XappInv, Served, ProcsOf
    <3>3. \A i : ProcsOf(i)' = ProcsOf(i)
      BY <1>1 DEF ProcsOf
    <3>4. CASE call.kind = "SUBS"
      BY <1>1, <2>7, <2>9, <3>2, <3>3, <3>4 DEF Served
    <3>5. CASE call.kind = "DEL"
      BY <1>1, <2>9, <3>2, <3>3, <3>5 DEF Served
    <3>6. CASE call.kind = "CTRL"
      BY <1>1, <2>2, <2>9, <3>2, <3>3, <3>6 DEF XappInv, Served
    <3> QED  BY <2>5, <3>4, <3>5, <3>6
  <2> QED  BY <1>3, <1>4, <2>3, <2>4, <2>10, <2>11 DEF XappInv
<1> QED  BY <1>2, <1>5, <1>6

\* An indication of the RIC keeps the invariant.
LEMMA RicIndicatesStep ==
  ASSUME XappInv, UNCHANGED env, RicIndicates
  PROVE  XappInv'
<1>1. PICK s, i : /\ s \in active /\ i = [kind |-> "IND", id |-> s.id, func |-> s.func]
                  /\ toXapp' = toXapp \union {i}
  BY DEF RicIndicates
<1>2. /\ inds < MaxInds /\ inds' = inds + 1
      /\ UNCHANGED <<pc, call, handles, flag, reg, nextKey, pending, timers, lpc, lmsg, lfd,
                     connected, resent, queue, cb, toRic, active>>
  BY DEF RicIndicates, userVars, procVars, pendVars, loopVars, conVars, dispVars
<1>3. /\ i \in [kind : {"IND"}, id : Ids, func : Funcs] /\ i.kind = "IND"
      /\ i.id = s.id /\ i.func = s.func /\ i \notin Call
  BY <1>1, MessageKinds DEF XappInv, TypeOK
<1>4. TypeOK'
  <2>1. inds' \in 0 .. MaxInds
    BY <1>2, BoundsAssumption DEF XappInv, TypeOK
  <2> QED  BY <1>1, <1>2, <1>3, <2>1 DEF XappInv, TypeOK, FromRic
<1>5. Dialogue' /\ Registered' /\ Served'
  BY <1>1, <1>2, <1>3, OtherMessages
<1>6. Alarms'
  BY <1>2 DEF XappInv, Alarms, Pended, Told, PendingOf, Stopped
<1>7. Indications'
  BY <1>1, <1>2, <1>3 DEF XappInv, Served, Indications, CallbackOwn
<1> QED  BY <1>4, <1>5, <1>6, <1>7 DEF XappInv

\* A step that changes no data, an assertion that fails among them, keeps the invariant.
LEMMA NoDataStep ==
  ASSUME XappInv, UNCHANGED <<dataVars, env>>
  PROVE  XappInv'
<1>1. UNCHANGED <<pc, call, handles, flag, reg, nextKey, pending, timers, lpc, lmsg, lfd,
                  connected, resent, queue, cb, toRic, toXapp, active, inds, env>>
  BY DEF dataVars, userVars, procVars, pendVars, loopVars, conVars, dispVars, ricVars
<1>2. \A i : ProcsOf(i)' = ProcsOf(i)
  BY <1>1 DEF ProcsOf
<1>3. Sent' = Sent /\ Pended' = Pended /\ Told' = Told /\ Handling' = Handling
      /\ Queued' = Queued /\ Calling' = Calling /\ Stopped' = Stopped
  BY <1>1 DEF Sent, Pended, Told, Handling, Queued, Calling, Stopped
<1>4. TypeOK'
  BY <1>1 DEF XappInv, TypeOK
<1>5. Dialogue' /\ Registered'
  BY <1>1, <1>2, <1>3 DEF XappInv, Dialogue, Registered
<1>6. Alarms'
  BY <1>1, <1>3 DEF XappInv, Alarms, PendingOf
<1>7. Served'
  BY <1>1, <1>2, <1>3 DEF XappInv, Served
<1>8. Indications'
  BY <1>1 DEF XappInv, Indications, CallbackOwn
<1> QED  BY <1>4, <1>5, <1>6, <1>7, <1>8 DEF XappInv

\* Beginning to remove a report keeps the invariant; the report it finds is registered.
LEMMA BeginDeleteStep ==
  ASSUME XappInv, UNCHANGED env, BeginDelete
  PROVE  XappInv' /\ fault' = fault
<1>1. PICK h \in handles :
        IF ProcsOf(h) = {} THEN Abort("ric_req_id_not_registered")
        ELSE /\ call' = [kind |-> "DEL", id |-> h, func |-> (CHOOSE p \in ProcsOf(h) : TRUE).func]
             /\ pc' = After("DEL", "begin")
             /\ UNCHANGED <<handles, flag, procVars, pendVars, loopVars, conVars,
                            dispVars, toRic, toXapp, ricVars, fault>>
  BY DEF BeginDelete
<1>2. h \in Ids /\ ProcsOf(h) # {} /\ pc = "idle" /\ connected
  BY DEF BeginDelete, XappInv, TypeOK, Registered
<1>3. PICK p \in ProcsOf(h) : call' = [kind |-> "DEL", id |-> h, func |-> p.func]
  BY <1>1, <1>2
<1>4. /\ pc' = "send"
      /\ UNCHANGED <<handles, flag, reg, nextKey, pending, timers, lpc, lmsg, lfd, connected,
                     resent, queue, cb, toRic, toXapp, active, inds, fault>>
  BY <1>1, <1>2 DEF After, procVars, pendVars, loopVars, conVars, dispVars, ricVars
<1>5. /\ p \in reg /\ p.id = h /\ p.func \in Funcs
  BY DEF ProcsOf, XappInv, TypeOK, Proc
<1>6. call' \in Call /\ call'.kind = "DEL" /\ call'.id = h /\ call'.func = p.func
  BY <1>2, <1>3, <1>5 DEF Call, Kinds
<1>7. TypeOK'
  BY <1>4, <1>6 DEF XappInv, TypeOK
<1>8. Dialogue'
  BY <1>2, <1>4, <1>6 DEF XappInv, Dialogue, Sent, Told, Handling, Queued
<1>9. Alarms'
  BY <1>2, <1>4, <1>6 DEF XappInv, Alarms, Pended, Told, Stopped
<1>10. Registered'
  <2>1. \A i : ProcsOf(i)' = ProcsOf(i)
    BY <1>4 DEF ProcsOf
  <2>2. ~Calling /\ Calling'
    BY <1>2, <1>4 DEF Calling
  <2> QED  BY <1>4, <1>5, <1>6, <2>1, <2>2 DEF XappInv, Registered
<1>11. Served'
  <2>1. \A i : ProcsOf(i)' = ProcsOf(i)
    BY <1>4 DEF ProcsOf
  <2> QED  BY <1>2, <1>4, <1>6, <2>1 DEF XappInv, Served, Stopped
<1>12. Indications'
  BY <1>4 DEF XappInv, Indications, CallbackOwn
<1> QED  BY <1>4, <1>7, <1>8, <1>9, <1>10, <1>11, <1>12 DEF XappInv

\* Removing the procedure of a call that was answered keeps the invariant; it is there.
LEMMA RemoveProcStep ==
  ASSUME XappInv, UNCHANGED env, RemoveProc
  PROVE  XappInv' /\ fault' = fault
<1>1. PICK id : id = call.id
  OBVIOUS
<1>2. pc = "remove" /\ Calling /\ ~Stopped /\ call \in Call /\ id \in Ids
  BY <1>1, CallFields DEF RemoveProc, Calling, Stopped, XappInv, TypeOK
<1>3. ProcsOf(id) # {}
  BY <1>1, <1>2 DEF XappInv, Registered
<1>4. /\ reg' = {p \in reg : p.id # id} /\ handles' = handles \ {id}
      /\ pc' = "idle" /\ call' = NoCall /\ ~Stopped' /\ ~Calling'
      /\ UNCHANGED <<flag, nextKey, pending, timers, lpc, lmsg, lfd, connected,
                     resent, queue, cb, toRic, toXapp, active, inds, fault>>
  BY <1>1, <1>3 DEF RemoveProc, ProcsOf, Calling, Stopped, pendVars, loopVars, conVars,
     dispVars, ricVars
<1>5. TypeOK'
  BY <1>4 DEF XappInv, TypeOK
<1>6. Dialogue'
  BY <1>2, <1>4 DEF XappInv, Dialogue, Sent, Told, Handling, Queued
<1>7. Alarms'
  BY <1>2, <1>4 DEF XappInv, Alarms, Pended, Told, Stopped
<1>8. Registered'
  <2>1. \A i \in Ids : ProcsOf(i)' = IF i = id THEN {} ELSE ProcsOf(i)
    BY <1>4 DEF ProcsOf
  <2> QED  BY <1>1, <1>2, <1>4, <2>1 DEF XappInv, Registered
<1>9. Served'
  <2>1. \A s \in active : s.id # id
    <3>1. call.kind # "SUBS"
      BY <1>2 DEF XappInv, Dialogue
    <3>2. call \notin toRic
      BY <1>2 DEF XappInv, Dialogue, Queued, Sent
    <3> QED  BY <1>1, <1>2, <3>1, <3>2, CallFields DEF XappInv, Served
  <2>2. \A s \in active : ProcsOf(s.id)' = ProcsOf(s.id)
    BY <1>4, <2>1 DEF ProcsOf
  <2> QED  BY <1>2, <1>4, <2>2 DEF XappInv, Served
<1>10. Indications'
  BY <1>4 DEF XappInv, Indications, CallbackOwn
<1> QED  BY <1>4, <1>5, <1>6, <1>7, <1>8, <1>9, <1>10 DEF XappInv

\* Reading an answer keeps the invariant; its procedure is registered.
LEMMA LoopAnswerStep ==
  ASSUME XappInv, UNCHANGED env, NEW m \in toXapp, LoopAnswer(m)
  PROVE  XappInv' /\ fault' = fault
<1>1. m \in Call
  BY DEF LoopAnswer, XappInv, TypeOK, FromRic, Setup, Kinds
<1>2. /\ m = call /\ Sent /\ call \in Call /\ ~Handling /\ ~Told /\ m \notin toRic
  BY <1>1 DEF XappInv, Dialogue, Queued
<1>3. Calling
  BY <1>2 DEF Sent, Calling
<1>4. m.id \in Ids
  BY <1>1, CallFields
<1>5. ProcsOf(m.id) # {}
  BY <1>2, <1>3, <1>4 DEF XappInv, Registered
<1>6. /\ toXapp' = toXapp \ {m} /\ lmsg' = m /\ lpc = "loop" /\ lpc' = "unpend"
      /\ UNCHANGED <<pc, call, handles, flag, reg, nextKey, pending, timers, lfd, connected,
                     resent, queue, cb, toRic, active, inds, fault>>
  BY <1>5 DEF LoopAnswer, userVars, procVars, pendVars, conVars, dispVars, ricVars
<1>7. TypeOK'
  BY <1>1, <1>6 DEF XappInv, TypeOK
<1>8. Dialogue'
  BY <1>2, <1>6 DEF XappInv, Dialogue, Sent, Told, Handling, Queued
<1>9. Alarms'
  BY <1>6, <1>2 DEF XappInv, Alarms, Sent, Pended, Told, PendingOf, Stopped
<1>10. Registered' /\ Served'
  <2>1. \A i : ProcsOf(i)' = ProcsOf(i)
    BY <1>6 DEF ProcsOf
  <2> QED  BY <1>6, <2>1 DEF XappInv, Registered, Served, Calling, Sent, Stopped
<1>11. Indications'
  BY <1>6 DEF XappInv, Indications, CallbackOwn
<1> QED  BY <1>6, <1>7, <1>8, <1>9, <1>10, <1>11 DEF XappInv

\* Taking the pending event out keeps the invariant: it is the one of the call.
LEMMA LoopUnpendStep ==
  ASSUME XappInv, UNCHANGED env, LoopUnpend, PendingOfType(lmsg.kind) # {}
  PROVE  XappInv' /\ fault' = fault
<1>1. PICK p \in pending : /\ pending' = pending \ {p} /\ lfd' = p
                           /\ p.ev = lmsg.kind
  BY DEF LoopUnpend, PendingOfType
<1>2. /\ lpc = "unpend" /\ lpc' = "close"
      /\ UNCHANGED <<pc, call, handles, flag, reg, nextKey, timers, lmsg, connected, resent,
                     queue, cb, toRic, toXapp, active, inds, fault>>
  BY DEF LoopUnpend, userVars, procVars, conVars, dispVars, ricVars
<1>3. Handling /\ Sent /\ lmsg = call /\ call \in Call
  BY <1>2 DEF Handling, XappInv, Dialogue, TypeOK
<1>4. connected
  <2>1. pc # "idle"
    BY <1>3 DEF Sent
  <2> QED  BY <2>1 DEF XappInv, Alarms
<1>5. Pended /\ p = PendingOf(call) /\ \A q \in pending \union timers : q = p
  BY <1>1, <1>4 DEF XappInv, Alarms
<1>6. pc \in {"wait", "waiting"}
  BY <1>3, <1>5 DEF Sent, Pended
<1>7. pending' = {}
  BY <1>1, <1>5
<1>8. TypeOK'
  <2>1. p \in Pending
    BY DEF XappInv, TypeOK
  <2> QED  BY <1>1, <1>2, <1>3, <1>7, <2>1 DEF XappInv, TypeOK
<1>9. Dialogue'
  BY <1>2, <1>3 DEF XappInv, Dialogue, Sent, Told, Handling, Queued
<1>10. Alarms'
  BY <1>1, <1>2, <1>4, <1>5, <1>6, <1>7 DEF XappInv, Alarms, Pended, Told, PendingOf
<1>11. Registered' /\ Served'
  <2>1. \A i : ProcsOf(i)' = ProcsOf(i)
    BY <1>2 DEF ProcsOf
  <2> QED  BY <1>2, <2>1 DEF XappInv, Registered, Served, Calling, Sent, Stopped
<1>12. Indications'
  BY <1>2 DEF XappInv, Indications, CallbackOwn
<1> QED  BY <1>2, <1>8, <1>9, <1>10, <1>11, <1>12 DEF XappInv

\* A setup request sent again keeps the invariant.
LEMMA ResendStep ==
  ASSUME XappInv, UNCHANGED <<env, fault>>, fault = "none", NEW p \in timers, LoopTimer(p)
  PROVE  XappInv'
<1>1. /\ resent < MaxResend /\ resent' = resent + 1
      /\ toRic' = toRic \union {[kind |-> "SETUP", id |-> resent + 1, func |-> NoFunc]}
      /\ UNCHANGED <<pc, call, handles, flag, reg, nextKey, pending, timers, lpc, lmsg, lfd,
                     connected, queue, cb, toXapp, active, inds>>
  BY DEF LoopTimer, Abort, userVars, procVars, pendVars, loopVars, dispVars, ricVars
<1>2. PICK s : s = [kind |-> "SETUP", id |-> resent + 1, func |-> NoFunc]
  OBVIOUS
<1>3. s \in Setup /\ s \notin Call /\ resent + 1 \in 0 .. MaxResend
  <2>1. resent + 1 \in 0 .. MaxResend
    BY <1>1, BoundsAssumption DEF XappInv, TypeOK
  <2>2. s \in Setup
    BY <1>2, <2>1 DEF Setup
  <2> QED  BY <2>1, <2>2, MessageKinds
<1>4. TypeOK'
  BY <1>1, <1>2, <1>3 DEF XappInv, TypeOK
<1>5. Dialogue' /\ Registered' /\ Served'
  BY <1>1, <1>2, <1>3, OtherMessages
<1>6. Alarms'
  BY <1>1 DEF XappInv, Alarms, Pended, Told, PendingOf, Stopped
<1>7. Indications'
  BY <1>1 DEF XappInv, Indications, CallbackOwn
<1> QED  BY <1>4, <1>5, <1>6, <1>7 DEF XappInv

\* The invariant holds initially ...
LEMMA InitXapp ==
  ASSUME Init
  PROVE  XappInv
<1>1. TypeOK
  <2>1. nextKey \in 1 .. MaxCalls + 1 /\ resent \in 0 .. MaxResend /\ inds \in 0 .. MaxInds
    BY BoundsAssumption DEF Init
  <2>2. queue \in Seq(Dispatch)
    BY DEF Init
  <2> QED  BY <2>1, <2>2 DEF Init, TypeOK
<1>2. Dialogue /\ Alarms
  BY DEF Init, Dialogue, Alarms, Sent, Told, Handling, Queued
<1>3. Registered /\ Served /\ Indications
  BY DEF Init, Registered, Served, Indications, CallbackOwn, Calling, ProcsOf
<1> QED  BY <1>1, <1>2, <1>3 DEF XappInv

\* ... and every step keeps it.
LEMMA NextXapp ==
  ASSUME XappInv, [Next]_vars
  PROVE  XappInv'
<1>1. CASE UNCHANGED vars
  BY <1>1, NoDataStep DEF vars
<1>2. CASE Next
  <2>1. fault = "none" /\ UNCHANGED env
    BY <1>2 DEF Next, Running
  <2>2. CASE UserBegins
    BY <2>1, <2>2, BeginCallStep, BeginDeleteStep, StopStep DEF UserBegins
  <2>3. CASE UserStep
    <3>1. CASE SyncTimeout
      BY <2>1, <3>1, NoDataStep DEF SyncTimeout, Abort
    <3> QED  BY <2>1, <2>3, <3>1, AddPendingStep, SendStep, WaitStep, WokenStep, RemoveProcStep,
             StopStep, FreedStep DEF UserStep
  <2>4. CASE LoopStep
    <3>1. CASE LoopUnpend
      <4>1. CASE PendingOfType(lmsg.kind) = {}
        BY <2>1, <3>1, <4>1, NoDataStep DEF LoopUnpend, Abort
      <4> QED  BY <2>1, <3>1, <4>1, LoopUnpendStep
    <3>2. CASE \E m \in toXapp : LoopSetup(m) \/ LoopIndication(m) \/ LoopAnswer(m)
      BY <2>1, <3>2, LoopSetupStep, LoopIndicationStep, LoopAnswerStep
    <3> QED  BY <2>1, <2>4, <3>1, <3>2, LoopStartStep, LoopCloseStep, LoopSignalStep, LoopStopStep
             DEF LoopStep
  <2>5. CASE DispatcherStep
    BY <2>1, <2>5, DispatchStep DEF DispatcherStep
  <2>6. CASE \E p \in timers : LoopTimer(p)
    <3>1. PICK p \in timers : LoopTimer(p)
      BY <2>6
    <3>2. CASE fault' # "none"
      BY <2>1, <3>1, <3>2, NoDataStep DEF LoopTimer, Abort
    <3>3. CASE fault' = "none"
      BY <2>1, <3>1, <3>3, ResendStep
    <3> QED  BY <3>2, <3>3
  <2>7. CASE \E m \in toRic : RicServes(m)
    BY <2>1, <2>7, RicServesStep
  <2>8. CASE RicIndicates
    BY <2>1, <2>8, RicIndicatesStep
  <2> QED  BY <1>2, <2>2, <2>3, <2>4, <2>5, <2>6, <2>7, <2>8 DEF Next
<1> QED  BY <1>1, <1>2

-----------------------------------------------------------------------------
(* Theorems.                                                               *)

\* The inductive invariant holds in every reachable state, whenever the RIC answers.
THEOREM XappInvariant == Spec => []XappInv
<1> QED  BY InitXapp, NextXapp, PTL DEF Spec

\* Between calls nothing is left over, however early or late the RIC answers.
THEOREM NothingLeftOver == Spec => []IdleClean
<1>1. XappInv => IdleClean
  <2> SUFFICES ASSUME XappInv, pc = "idle", connected PROVE
        /\ pending = {} /\ timers = {} /\ lpc = "loop"
        /\ (toRic \union toXapp) \intersect Call = {}
        /\ {p.id : p \in reg} = handles
    BY DEF IdleClean
  <2>1. ~Sent /\ ~Pended /\ ~Calling /\ ~Stopped
    BY DEF Sent, Pended, Calling, Stopped
  <2>2. pending = {} /\ timers = {}
    BY <2>1 DEF XappInv, Alarms
  <2>3. lpc = "loop" /\ (toRic \union toXapp) \intersect Call = {}
    BY <2>1 DEF XappInv, TypeOK, Alarms, Dialogue, Handling, Queued
  <2>4. {p.id : p \in reg} = handles
    <3>1. handles \subseteq Ids /\ \A p \in reg : p.id \in Ids
      BY DEF XappInv, TypeOK, Proc
    <3> QED  BY <2>1, <3>1 DEF XappInv, Registered, ProcsOf
  <2> QED  BY <2>2, <2>3, <2>4
<1> QED  BY <1>1, XappInvariant, PTL

\* An indication only ever reaches the callback of its own report.
THEOREM CallbacksAreOwn == Spec => []CallbackOwn
<1>1. XappInv => CallbackOwn
  BY DEF XappInv, Indications
<1> QED  BY <1>1, XappInvariant, PTL

\* What the RIC serves, the xApp can dispatch, until it stops.
THEOREM StreamsAreRegistered == Spec => []StreamsRegistered
<1>1. XappInv => StreamsRegistered
  <2> SUFFICES ASSUME XappInv, ~Stopped, NEW s \in active
               PROVE  \E p \in reg : p.id = s.id /\ p.func = s.func
    BY DEF StreamsRegistered
  <2>1. PICK p : p \in ProcsOf(s.id)
    BY DEF XappInv, Served
  <2> QED  BY <2>1 DEF ProcsOf, XappInv, Served
<1> QED  BY <1>1, XappInvariant, PTL

-----------------------------------------------------------------------------
(* Which assertions fail, and why.                                         *)

\* Steps of the user's thread: its pending event is there while its answer is out; it
\* gives up only if the answer does not come in time, or came before the wait.
LEMMA UserExcused ==
  ASSUME XappInv, Outstanding, InTime, UNCHANGED env, UserBegins \/ UserStep
  PROVE  \/ Outstanding' /\ InTime' /\ fault' = fault
         \/ UNCHANGED dataVars /\ Excuse(fault')
<1>1. \A kind : BeginCall(kind) => Outstanding' /\ InTime' /\ fault' = fault
  <2> SUFFICES ASSUME NEW kind, BeginCall(kind)
               PROVE  Outstanding' /\ InTime' /\ fault' = fault
    OBVIOUS
  <2>1. /\ pc = "idle" /\ call'.kind = kind /\ lpc' = lpc /\ fault' = fault
        /\ pc' = IF kind = "SUBS" THEN "pend" ELSE "send"
    BY DEF BeginCall, After, loopVars
  <2>2. ~Handling
    BY <2>1 DEF XappInv, Dialogue, Sent
  <2> QED  BY <2>1, <2>2 DEF Outstanding, InTime, Answering, Handling, Sent, Told
<1>2. CASE BeginDelete
  <2>1. fault' = fault
    BY <1>2, BeginDeleteStep
  <2>2. PICK h \in handles :
          \/ Abort("ric_req_id_not_registered")
          \/ /\ call' = [kind |-> "DEL", id |-> h, func |-> (CHOOSE p \in ProcsOf(h) : TRUE).func]
             /\ pc' = "send" /\ lpc' = lpc
    BY <1>2 DEF BeginDelete, After, loopVars
  <2>3. pc = "idle" /\ ~Handling
    BY <1>2 DEF BeginDelete, XappInv, Dialogue, Sent
  <2>4. CASE Abort("ric_req_id_not_registered")
    BY <2>1, <2>3, <2>4 DEF Abort, dataVars, userVars, loopVars, Outstanding, InTime, Answering,
       Handling, Sent, Told
  <2>5. CASE call'.kind = "DEL" /\ pc' = "send" /\ lpc' = lpc
    BY <2>1, <2>3, <2>5 DEF Outstanding, InTime, Answering, Handling, Sent, Told
  <2> QED  BY <2>1, <2>2, <2>4, <2>5
<1>3. CASE Stop \/ StopDispatcher \/ Freed
  <2>1. /\ pc \notin {"pend", "send", "wait", "waiting"} /\ lpc' = lpc /\ fault' = fault
        /\ pc' \notin {"pend", "send", "wait", "waiting"}
    BY <1>3 DEF Stop, StopDispatcher, Freed, loopVars
  <2>2. ~Handling
    BY <2>1 DEF XappInv, Dialogue, Sent
  <2> QED  BY <2>1, <2>2 DEF Outstanding, InTime, Answering, Handling, Sent, Told
<1>4. CASE AddPending
  <2>1. /\ pc = "pend" /\ pc' = IF call.kind = "SUBS" THEN "send" ELSE "wait"
        /\ PendingOf(call) \in pending'
        /\ UNCHANGED <<call, flag, lpc, toRic, toXapp, fault>>
    BY <1>4 DEF AddPending, After, loopVars
  <2>2. Outstanding'
    BY <2>1 DEF Outstanding, Queued, PendingOf
  <2>3. InTime'
    BY <2>1 DEF InTime, Answering, Handling, Sent, Told, Queued
  <2> QED  BY <2>1, <2>2, <2>3
<1>5. CASE Send
  <2>1. /\ pc = "send" /\ pc' = IF call.kind = "SUBS" THEN "wait" ELSE "pend"
        /\ call \in toRic' /\ UNCHANGED <<call, flag, lpc, pending, fault>>
    BY <1>5 DEF Send, After, loopVars, pendVars
  <2>2. Outstanding'
    BY <2>1 DEF Outstanding, Queued, PendingOf
  <2>3. InTime'
    BY <2>1 DEF InTime, Answering, Handling, Sent, Told, Queued, XappInv, Dialogue
  <2> QED  BY <2>1, <2>2, <2>3
<1>6. CASE Wait
  <2>1. /\ pc = "wait" /\ pc' = "waiting"
        /\ UNCHANGED <<call, lpc, pending, toRic, toXapp, fault>>
    BY <1>6 DEF Wait, loopVars, pendVars
  <2>2. Outstanding'
    BY <2>1 DEF Outstanding, Queued, PendingOf
  <2>3. InTime'
    BY <2>1 DEF InTime, Answering, Handling, Sent, Told, Queued
  <2> QED  BY <2>1, <2>2, <2>3
<1>7. CASE Woken
  <2>1. Told /\ pc' \in {"idle", "remove"} /\ lpc' = lpc /\ fault' = fault
    BY <1>7 DEF Woken, Told, loopVars
  <2>2. ~Handling
    BY <2>1 DEF XappInv, Dialogue
  <2> QED  BY <2>1, <2>2 DEF Outstanding, InTime, Answering, Handling, Sent
<1>8. CASE RemoveProc
  <2>1. fault' = fault
    BY <1>8, RemoveProcStep
  <2>2. pc = "remove" /\ pc' \in {"remove", "idle"} /\ lpc' = lpc
    BY <1>8 DEF RemoveProc, Abort, dataVars, userVars, loopVars
  <2>3. ~Handling
    BY <2>2 DEF XappInv, Dialogue, Sent
  <2> QED  BY <2>1, <2>2, <2>3 DEF Outstanding, InTime, Answering, Handling, Sent
<1>9. CASE SyncTimeout
  <2>1. /\ pc = "waiting" /\ ~flag /\ (Silent \/ ~UnderWay)
        /\ PendingOf(call) \in timers => SyncMs < PendMs(call.kind)
        /\ fault' = "sync_timeout" /\ UNCHANGED dataVars
    BY <1>9 DEF SyncTimeout, Abort
  <2>2. ~Told /\ Sent
    BY <2>1 DEF Told, Sent
  <2>3. ~UnderWay => call \notin Queued /\ ~Handling
    BY <2>2 DEF UnderWay, Queued, XappInv, Dialogue, Handling
  <2>4. CASE PendingOf(call) \in timers
    <3>1. call.kind # "SUBS"
      BY <2>1, <2>4 DEF SyncMs, PendMs
    <3>2. UnderWay
      <4> SUFFICES ASSUME ~UnderWay PROVE FALSE
        OBVIOUS
      <4>1. lpc # "close" /\ PendingOf(call) \notin pending
        BY <2>1, <2>3 DEF Outstanding, Handling
      <4> QED  BY <2>4, <4>1 DEF XappInv, Alarms
    <3> QED  BY <2>1, <2>4, <3>1, <3>2 DEF Excuse
  <2>5. CASE PendingOf(call) \notin timers
    <3>1. env = "timely" => UnderWay /\ ~Silent
      BY <2>2, <2>3 DEF InTime, Answering, Silent
    <3>2. Prompt
      BY <2>1, <3>1 DEF Prompt
    <3> QED  BY <2>1, <2>5, <3>2 DEF Excuse
  <2> QED  BY <2>4, <2>5
<1> QED  BY <1>1, <1>2, <1>3, <1>4, <1>5, <1>6, <1>7, <1>8, <1>9 DEF UserBegins, UserStep

\* Steps of the loop: it finds the procedure of the answer, and its pending event unless
\* the answer came first; a timer fires only for a report that is not answered.
LEMMA LoopExcused ==
  ASSUME XappInv, Outstanding, InTime, UNCHANGED env,
         LoopStep \/ \E p \in timers : LoopTimer(p)
  PROVE  \/ Outstanding' /\ InTime' /\ fault' = fault
         \/ UNCHANGED dataVars /\ Excuse(fault')
<1>1. CASE LoopStart \/ LoopStop
  <2>1. /\ pc \notin {"pend", "send", "wait", "waiting"}
        /\ ~Handling' /\ pc' = pc /\ fault' = fault
    BY <1>1 DEF LoopStart, LoopStop, XappInv, Alarms, Handling, userVars
  <2> QED  BY <2>1 DEF Outstanding, InTime, Answering, Sent
<1>2. \A m \in toXapp : LoopSetup(m) \/ LoopIndication(m) =>
        Outstanding' /\ InTime' /\ fault' = fault
  <2> SUFFICES ASSUME NEW m \in toXapp, LoopSetup(m) \/ LoopIndication(m)
               PROVE  Outstanding' /\ InTime' /\ fault' = fault
    OBVIOUS
  <2>1. /\ m.kind \in {"SETUP", "IND"} /\ toXapp' = toXapp \ {m} /\ fault' = fault
        /\ connected => pending' = pending
        /\ UNCHANGED <<pc, call, flag, lpc, toRic>>
    BY DEF LoopSetup, LoopIndication, userVars, loopVars, pendVars
  <2>2. CASE connected
    <3>1. Calling => call \in Call
      BY DEF Calling, XappInv, TypeOK
    <3>2. Calling => m # call
      BY <2>1, <3>1, CallFields
    <3>3. Outstanding'
      BY <2>1, <2>2, <3>2 DEF Outstanding, Calling, Queued, PendingOf
    <3>4. InTime'
      BY <2>1, <2>2, <3>2 DEF InTime, Answering, Calling, Handling, Sent, Told, Queued
    <3> QED  BY <2>1, <3>3, <3>4
  <2>3. CASE ~connected
    <3>1. pc = "idle"
      BY <2>3 DEF XappInv, Alarms
    <3>2. ~Handling
      BY <3>1 DEF XappInv, Dialogue, Sent
    <3> QED  BY <2>1, <3>1, <3>2 DEF Outstanding, InTime, Answering, Handling, Sent
  <2> QED  BY <2>2, <2>3
<1>3. \A m \in toXapp : LoopAnswer(m) => Outstanding' /\ InTime' /\ fault' = fault
  <2> SUFFICES ASSUME NEW m \in toXapp, LoopAnswer(m)
               PROVE  Outstanding' /\ InTime' /\ fault' = fault
    OBVIOUS
  <2>1. fault' = fault
    BY LoopAnswerStep
  <2>2. m = call /\ Sent
    <3>1. m \in Call
      BY DEF LoopAnswer, XappInv, TypeOK, FromRic, Setup, Kinds
    <3> QED  BY <3>1 DEF XappInv, Dialogue, Queued
  <2>3. CASE Abort("answer_not_registered")
    <3>1. UNCHANGED <<pc, call, flag, lpc, pending, toRic, toXapp>>
      BY <2>3 DEF Abort, dataVars, userVars, pendVars, loopVars
    <3>2. Outstanding'
      BY <3>1 DEF Outstanding, Queued, PendingOf
    <3> QED  BY <2>1, <3>1, <3>2 DEF InTime, Answering, Handling, Sent, Told, Queued
  <2>4. CASE ~Abort("answer_not_registered")
    <3>1. /\ lpc = "loop" /\ lpc' = "unpend" /\ (Prompt \/ pc = "waiting")
          /\ UNCHANGED <<pc, call, flag, pending>>
      BY <2>4 DEF LoopAnswer, userVars, pendVars
    <3>2. call \in Queued
      BY <2>2 DEF Queued
    <3>3. Outstanding'
      BY <3>1, <3>2 DEF Outstanding, Queued, PendingOf
    <3>4. InTime'
      BY <3>1 DEF InTime, Answering, Handling, Sent, Prompt
    <3> QED  BY <2>1, <3>3, <3>4
  <2> QED  BY <2>3, <2>4
<1>4. CASE LoopUnpend
  <2>1. Handling /\ lpc = "unpend" /\ lmsg = call /\ Sent /\ call \in Call
    BY <1>4 DEF LoopUnpend, Handling, XappInv, Dialogue, TypeOK
  <2>2. CASE pc = "pend"
    <3>1. call.kind # "SUBS" /\ ~Pended /\ connected
      BY <2>1, <2>2 DEF Sent, Pended, XappInv, Alarms
    <3>2. PendingOfType(lmsg.kind) = {}
      BY <3>1 DEF XappInv, Alarms, PendingOfType
    <3>3. UNCHANGED dataVars /\ fault' = "extract_pending"
      BY <1>4, <3>2 DEF LoopUnpend, Abort
    <3>4. Prompt
      BY <2>1, <2>2 DEF InTime, Answering, Prompt
    <3> QED  BY <2>1, <2>2, <3>1, <3>3, <3>4 DEF Excuse
  <2>3. CASE pc # "pend"
    <3>1. pc \in {"wait", "waiting"} /\ PendingOf(call) \in pending
      BY <2>1, <2>3 DEF Sent, Outstanding
    <3>2. PendingOfType(lmsg.kind) # {}
      BY <2>1, <3>1 DEF PendingOfType, PendingOf
    <3>3. /\ fault' = fault /\ lpc' = "close" /\ \E p \in pending : pending' = pending \ {p}
          /\ UNCHANGED <<pc, call, flag, toRic, toXapp>>
      BY <1>4, <3>2 DEF LoopUnpend, PendingOfType, userVars
    <3>4. call \notin Queued
      BY <2>1 DEF XappInv, Dialogue
    <3>5. pending' = {}
      <4>1. connected
        BY <3>1 DEF XappInv, Alarms
      <4> QED  BY <3>3, <4>1 DEF XappInv, Alarms
    <3>6. Outstanding'
      BY <3>1, <3>3, <3>4, <3>5 DEF Outstanding, Queued
    <3>7. InTime'
      BY <2>1, <3>3 DEF InTime, Answering, Handling, Sent, Told
    <3> QED  BY <3>3, <3>6, <3>7
  <2> QED  BY <2>2, <2>3
<1>5. CASE LoopClose \/ LoopSignal
  <2>1. /\ lpc \in {"close", "signal"} /\ Handling /\ call \notin Queued
        /\ pc \in {"wait", "waiting"} /\ pending = {}
    BY <1>5 DEF LoopClose, LoopSignal, XappInv, Alarms, Dialogue, Handling
  <2>2. /\ lpc' # "unpend" /\ (lpc' = "signal" \/ flag')
        /\ UNCHANGED <<pc, call, pending, toRic, toXapp, fault>>
    BY <1>5 DEF LoopClose, LoopSignal, userVars, pendVars
  <2>3. Outstanding'
    BY <2>1, <2>2 DEF Outstanding, Queued
  <2>4. InTime'
    BY <2>1, <2>2 DEF InTime, Answering, Handling, Sent, Told
  <2> QED  BY <2>2, <2>3, <2>4
<1>6. ASSUME NEW p \in timers, LoopTimer(p)
      PROVE  \/ Outstanding' /\ InTime' /\ fault' = fault
             \/ UNCHANGED dataVars /\ Excuse(fault')
  <2>1. p \in pending
    BY <1>6 DEF LoopTimer, XappInv, Alarms
  <2>2. CASE p.ev = "SETUP"
    <3>1. /\ UNCHANGED <<pc, call, flag, lpc, pending, toXapp, fault>>
          /\ toRic' = toRic \union {[kind |-> "SETUP", id |-> resent + 1, func |-> NoFunc]}
      BY <1>6, <2>1, <2>2 DEF LoopTimer, userVars, loopVars, pendVars
    <3>2. Calling => call \in Call /\ call.kind # "SETUP"
      BY MessageKinds DEF Calling, XappInv, TypeOK
    <3>3. Calling => (call \in Queued' <=> call \in Queued)
      BY <3>1, <3>2 DEF Queued
    <3>4. Outstanding'
      BY <3>1, <3>3 DEF Outstanding, Calling, Queued, PendingOf
    <3>5. InTime'
      BY <3>1, <3>3 DEF InTime, Answering, Calling, Handling, Sent, Told, Queued
    <3> QED  BY <3>1, <3>4, <3>5
  <2>3. CASE p.ev # "SETUP"
    <3>1. /\ Silent /\ PendMs(p.ev) < SyncMs /\ fault' = "request_timeout" /\ UNCHANGED dataVars
      BY <1>6, <2>1, <2>3 DEF LoopTimer, Abort
    <3>2. p = PendingOf(call) /\ Pended
      <4>1. connected
        BY <2>1, <2>3 DEF XappInv, Alarms, SetupPending
      <4> QED  BY <4>1 DEF XappInv, Alarms
    <3>3. call.kind = "SUBS" /\ pc # "idle"
      <4>1. call \in Call /\ pc # "idle"
        BY <3>2 DEF Pended, XappInv, TypeOK
      <4>2. call.kind \in {"SUBS", "DEL", "CTRL"} /\ p.ev = call.kind
        BY <3>2, <4>1, CallFields DEF PendingOf
      <4> QED  BY <3>1, <4>1, <4>2 DEF PendMs, SyncMs
    <3> QED  BY <2>1, <3>1, <3>2, <3>3 DEF Excuse
  <2> QED  BY <2>2, <2>3
<1> QED  BY <1>1, <1>2, <1>3, <1>4, <1>5, <1>6 DEF LoopStep

\* Every step keeps what the assertions rest on, or is an assertion for its cause.
LEMMA NextExcused ==
  ASSUME XappInv, Assertions, [Next]_vars
  PROVE  Assertions'
<1>1. CASE UNCHANGED dataVars /\ Excuse(fault') /\ env' = env
  <2>1. /\ UNCHANGED <<pc, call, flag, lpc, lmsg, pending, timers, toRic, toXapp>>
    BY <1>1 DEF dataVars, userVars, loopVars, pendVars
  <2>2. Excuse(fault)'
    BY <1>1, <2>1 DEF Excuse, Prompt, Silent, PendingOf
  <2>3. Outstanding'
    BY <2>1 DEF Assertions, Outstanding, Queued, PendingOf
  <2>4. InTime'
    BY <1>1, <2>1 DEF Assertions, InTime, Answering, Handling, Sent, Told, Queued
  <2> QED  BY <2>2, <2>3, <2>4 DEF Assertions, NoAbort
<1>2. CASE UNCHANGED vars
  <2>1. /\ UNCHANGED <<pc, call, flag, lpc, lmsg, pending, timers, toRic, toXapp, env, fault>>
    BY <1>2 DEF vars, dataVars, userVars, loopVars, pendVars
  <2>2. NoAbort'
    BY <2>1 DEF Assertions, NoAbort, Running, Excuse, Prompt, Silent, PendingOf
  <2>3. Outstanding'
    BY <2>1 DEF Assertions, Outstanding, Queued, PendingOf
  <2>4. InTime'
    BY <2>1 DEF Assertions, InTime, Answering, Handling, Sent, Told, Queued
  <2> QED  BY <2>2, <2>3, <2>4 DEF Assertions
<1>3. CASE Next
  <2>1. fault = "none" /\ env' = env
    BY <1>3 DEF Next, Running
  <2>2. CASE UserBegins \/ UserStep
    BY <1>1, <2>1, <2>2, UserExcused DEF Assertions, NoAbort, Running
  <2>3. CASE LoopStep \/ \E p \in timers : LoopTimer(p)
    BY <1>1, <2>1, <2>3, LoopExcused DEF Assertions, NoAbort, Running
  <2>4. CASE DispatcherStep \/ RicIndicates \/ \E m \in toRic : RicServes(m)
    <3>1. /\ UNCHANGED <<pc, call, flag, lpc, pending, fault>>
      BY <2>4 DEF DispatcherStep, DispatcherPop, CallbackReturns, RicIndicates, RicServes,
         userVars, loopVars, pendVars
    <3>2. Calling => (call \in Queued' <=> call \in Queued)
      <4>1. CASE DispatcherStep \/ \E m \in toRic : RicServes(m)
        BY <4>1 DEF DispatcherStep, DispatcherPop, CallbackReturns, RicServes, Queued
      <4>2. CASE RicIndicates
        <5>1. Calling => call.kind # "IND"
          BY MessageKinds DEF Calling, XappInv, TypeOK
        <5>2. PICK s : toXapp' = toXapp \union {[kind |-> "IND", id |-> s.id, func |-> s.func]}
          BY <4>2 DEF RicIndicates
        <5> QED  BY <4>2, <5>1, <5>2 DEF RicIndicates, Queued
      <4> QED  BY <2>4, <4>1, <4>2
    <3>3. Outstanding'
      BY <3>1, <3>2 DEF Assertions, Outstanding, Calling, Queued, PendingOf
    <3>4. InTime'
      BY <2>1, <3>1, <3>2 DEF Assertions, InTime, Answering, Calling, Handling, Sent, Told, Queued
    <3> QED  BY <2>1, <3>1, <3>3, <3>4 DEF Assertions, NoAbort, Running
  <2> QED  BY <1>3, <2>2, <2>3, <2>4 DEF Next
<1> QED  BY <1>2, <1>3

\* An assertion of the xApp fails, in any order of the user's thread, the loop and the
\* dispatcher, and whether the RIC answers early, late or never, only for the causes
\* Excuse names: sync_ui.c:82 and the extraction of a pending event in an answer that
\* comes too early, sync_ui.c:82 and e42_xapp.c:297 in one that does not come in time.
THEOREM XappNeverAborts == Spec => []NoAbort
<1>1. Init => Assertions
  BY DEF Init, Assertions, Outstanding, InTime, Answering, Sent, Told, Handling, NoAbort, Running
<1>2. XappInv /\ Assertions /\ [Next]_vars => Assertions'
  BY NextExcused
<1>3. Assertions => NoAbort
  BY DEF Assertions
<1> QED  BY <1>1, <1>2, <1>3, XappInvariant, PTL DEF Spec

-----------------------------------------------------------------------------
(* The API implements the service.                                         *)

\* What the service sees of the state.
SameToService == UNCHANGED <<Asked, Streams>>

\* A request the service can see: of a call, and told from every other.
LEMMA RequestFields ==
  /\ \A c \in Call : LET r == ServiceRequest(c.kind, c.id, c.func)
                     IN  r \in ServiceRequests /\ r # NoCall /\ r.kind = c.kind /\ r.xapp = Self
  /\ \A c \in Call : Service!Subscription(ServiceRequest(c.kind, c.id, c.func))
                       = ServiceRequest("SUBS", c.id, c.func)
<1>1. ASSUME NEW c \in Call
      PROVE  LET r == ServiceRequest(c.kind, c.id, c.func)
             IN  r \in ServiceRequests /\ r # NoCall /\ r.kind = c.kind /\ r.xapp = Self
  BY ServiceAssumption DEF ServiceRequests, ServiceRequest
<1>2. ASSUME NEW c \in Call
      PROVE  Service!Subscription(ServiceRequest(c.kind, c.id, c.func))
               = ServiceRequest("SUBS", c.id, c.func)
  BY DEF Service!Subscription, ServiceRequest
<1> QED  BY <1>1, <1>2

\* Beginning a call asks.
LEMMA BeginAsks ==
  ASSUME XappInv, XappInv', pc = "idle", pc' \in {"pend", "send"}, active' = active
  PROVE  Service!Ask(Self)
<1>1. Asked = NoCall /\ Asked' = ServiceRequest(call.kind, call.id, call.func)'
  BY DEF Asked
<1>2. PICK c \in Call : c = call'
  BY DEF XappInv, TypeOK
<1>3. PICK r \in ServiceRequests : Asked' = r /\ r.xapp = Self
  BY <1>1, <1>2, RequestFields DEF ServiceRequest
<1>4. Streams' = Streams
  BY DEF Streams
<1> QED  BY <1>1, <1>3, <1>4 DEF Service!Ask

\* Waking up answers: the subscription is served, the deleted one is not.
LEMMA WokenAnswers ==
  ASSUME XappInv, Woken
  PROVE  Service!Answer(Self)
<1>1. /\ pc = "waiting" /\ Told /\ pc' \in {"idle", "remove"} /\ active' = active
      /\ call \in Call /\ Calling /\ Sent /\ call \notin toRic
  BY DEF Woken, Told, Calling, Sent, ricVars, XappInv, TypeOK, Dialogue, Queued
<1>2. PICK r : r = ServiceRequest(call.kind, call.id, call.func)
  OBVIOUS
<1>3. /\ Asked = r /\ Asked' = NoCall /\ Streams' = Streams
  BY <1>1, <1>2 DEF Asked, Streams
<1>4. r # NoCall /\ r.kind = call.kind
      /\ Service!Subscription(r) = ServiceRequest("SUBS", call.id, call.func)
  BY <1>1, <1>2, RequestFields
<1>5. r.kind = "SUBS" => r \in Streams
  BY <1>1, <1>2, <1>4 DEF XappInv, Served, Streams
<1>6. r.kind = "DEL" => Service!Subscription(r) \notin Streams
  <2>1. call.kind = "DEL" => \A s \in active : s.id # call.id
    BY <1>1 DEF XappInv, Served
  <2>2. \A s \in active : ServiceRequest("SUBS", s.id, s.func).id = s.id
    BY DEF ServiceRequest
  <2>3. ServiceRequest("SUBS", call.id, call.func).id = call.id
    BY DEF ServiceRequest
  <2> QED  BY <1>4, <2>1, <2>2, <2>3 DEF Streams
<1>7. [x \in {Self} |-> Asked]' = [[x \in {Self} |-> Asked] EXCEPT ![Self] = NoCall]
  BY <1>3
<1> QED  BY <1>3, <1>4, <1>5, <1>6, <1>7 DEF Service!Answer

\* The RIC starts and stops what the xApp asked for, and nothing else.
LEMMA RicServesStreams ==
  ASSUME XappInv, NEW m \in toRic, RicServes(m)
  PROVE  \/ Service!Start(Self)
         \/ \E s \in Streams : Service!Stop(s)
         \/ SameToService
<1>1. Asked' = Asked
  BY DEF RicServes, userVars, Asked
<1>2. CASE m \notin Call
  <2>1. active' = active
    BY <1>2, MessageKinds DEF RicServes, XappInv, TypeOK
  <2> QED  BY <1>1, <2>1 DEF SameToService, Streams
<1>3. CASE m \in Call
  <2>1. m = call /\ Sent /\ Calling /\ call \in Call
    BY <1>3 DEF XappInv, Dialogue, Queued, Sent, Calling
  <2>2. Asked = ServiceRequest(call.kind, call.id, call.func)
    BY <2>1 DEF Asked, Sent
  <2>3. PICK p \in reg : /\ p.id = call.id /\ p.func = call.func
                         /\ \A q \in reg : p.id = q.id => p = q
    BY <2>1 DEF XappInv, Registered
  <2>4. PICK s0 : s0 = [id |-> call.id, func |-> call.func]
    OBVIOUS
  <2>5. PICK r : r = ServiceRequest("SUBS", call.id, call.func)
    OBVIOUS
  <2>6. CASE call.kind = "SUBS"
    <3>1. active' = active \union {s0}
      BY <2>1, <2>4, <2>6 DEF RicServes
    <3>2. Streams' = Streams \union {r}
      BY <2>4, <2>5, <3>1 DEF Streams
    <3>3. Asked = r /\ r # NoCall /\ r.kind = "SUBS"
      BY <2>1, <2>2, <2>5, <2>6, RequestFields
    <3>4. Service!Start(Self)
      BY <1>1, <3>2, <3>3 DEF Service!Start
    <3> QED  BY <3>4
  <2>7. CASE call.kind = "DEL"
    <3>1. active' = {s \in active : s.id # call.id}
      BY <2>1, <2>7 DEF RicServes
    <3>2. \A s \in active : s.id = call.id => s.func = call.func
      <4>1. ~Stopped
        BY <2>1 DEF Sent, Stopped
      <4> QED  BY <2>3, <4>1 DEF XappInv, Served
    <3>3. \A s \in active : /\ ServiceRequest("SUBS", s.id, s.func).id = s.id
                            /\ s.id = call.id => ServiceRequest("SUBS", s.id, s.func) = r
      BY <2>5, <3>2 DEF ServiceRequest
    <3>4. r.id = call.id
      BY <2>5 DEF ServiceRequest
    <3>5. Streams' = Streams \ {r}
      BY <3>1, <3>3, <3>4 DEF Streams
    <3>6. Asked = [r EXCEPT !.kind = "DEL"] /\ r.xapp = Self
      BY <2>2, <2>5, <2>7 DEF ServiceRequest
    <3>7. CASE r \in Streams
      <4>1. Service!Stop(r)
        BY <1>1, <3>5, <3>6 DEF Service!Stop
      <4> QED  BY <3>7, <4>1
    <3>8. CASE r \notin Streams
      BY <1>1, <3>5, <3>8 DEF SameToService
    <3> QED  BY <3>7, <3>8
  <2>8. CASE call.kind = "CTRL"
    <3>1. active' = active
      BY <2>1, <2>8 DEF RicServes
    <3> QED  BY <1>1, <3>1 DEF SameToService, Streams
  <2> QED  BY <2>1, <2>6, <2>7, <2>8, CallFields
<1> QED  BY <1>2, <1>3

\* Every step of the xApp or of the RIC is a step of the service, or none.
LEMMA ServiceStep ==
  ASSUME XappInv, XappInv', [Next]_vars
  PROVE  \/ Service!Ask(Self) \/ Service!Start(Self) \/ Service!Answer(Self)
         \/ \E s \in Streams : Service!Stop(s)
         \/ SameToService
<1>1. CASE \E m \in toRic : RicServes(m)
  BY <1>1, RicServesStreams
<1>2. CASE Woken
  BY <1>2, WokenAnswers
<1>3. CASE (\E kind \in {"SUBS", "CTRL"} : BeginCall(kind)) \/ BeginDelete
  <2>1. CASE pc' \in {"pend", "send"}
    <3>1. pc = "idle" /\ active' = active
      BY <1>3 DEF BeginCall, BeginDelete, Abort, dataVars, ricVars
    <3> QED  BY <2>1, <3>1, BeginAsks
  <2>2. CASE pc' \notin {"pend", "send"}
    <3>1. /\ pc = "idle" /\ pc' = "idle" /\ active' = active
      BY <1>3, <2>2 DEF BeginCall, BeginDelete, After, Abort, dataVars, userVars, ricVars
    <3> QED  BY <3>1 DEF SameToService, Asked, Streams
  <2> QED  BY <2>1, <2>2
<1>4. CASE AddPending \/ Send \/ Wait
  <2>1. /\ pc \in {"pend", "send", "wait"} /\ pc' \in {"pend", "send", "wait", "waiting"}
        /\ UNCHANGED <<call, active>>
    <3>1. AddPending \/ Send => call.kind \in {"SUBS", "DEL", "CTRL"}
      BY CallFields DEF AddPending, Send, XappInv, TypeOK
    <3> QED  BY <1>4, <3>1 DEF AddPending, Send, Wait, After, ricVars
  <2> QED  BY <2>1 DEF SameToService, Asked, Streams
<1>5. CASE Stop \/ StopDispatcher \/ Freed \/ RemoveProc
  <2>1. /\ pc \notin {"pend", "send", "wait", "waiting"} /\ active' = active
        /\ pc' \notin {"pend", "send", "wait", "waiting"}
    BY <1>5 DEF Stop, StopDispatcher, Freed, RemoveProc, Abort, dataVars, userVars, ricVars
  <2> QED  BY <2>1 DEF SameToService, Asked, Streams
<1>6. CASE \/ SyncTimeout \/ LoopStep \/ DispatcherStep \/ RicIndicates
           \/ (\E p \in timers : LoopTimer(p)) \/ UNCHANGED vars
  <2>1. UNCHANGED <<pc, call, active>>
    BY <1>6 DEF SyncTimeout, LoopStep, LoopStart, LoopUnpend, LoopClose, LoopSignal, LoopStop,
       LoopSetup, LoopIndication, LoopAnswer, DispatcherStep, DispatcherPop, CallbackReturns,
       RicIndicates, LoopTimer, Abort, vars, dataVars, userVars, ricVars
  <2> QED  BY <2>1 DEF SameToService, Asked, Streams
<1> QED  BY <1>1, <1>2, <1>3, <1>4, <1>5, <1>6 DEF Next, UserBegins, UserStep

\* The API, with its threads, timers and messages, implements the service: a call
\* returns only after the RIC has carried it out, and nothing else starts or stops.
THEOREM ImplementsService == Spec => ServiceSpec
<1>1. Init => Service!Init
  <2> SUFFICES ASSUME Init PROVE Service!Init
    OBVIOUS
  <2>1. Asked = NoCall /\ Streams = {}
    BY DEF Init, Asked, Streams
  <2> QED  BY <2>1 DEF Service!Init
<1>2. XappInv /\ XappInv' /\ [Next]_vars => [Service!Next]_Service!vars
  <2> SUFFICES ASSUME XappInv, XappInv', [Next]_vars PROVE [Service!Next]_Service!vars
    OBVIOUS
  <2> QED  BY ServiceStep DEF Service!Next, Service!vars, SameToService
<1> QED  BY <1>1, <1>2, XappInvariant, PTL DEF Spec, ServiceSpec, Service!Spec
===============================================================================
