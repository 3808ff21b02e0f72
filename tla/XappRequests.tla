---------------------------- MODULE XappRequests ----------------------------
(***************************************************************************)
(* The xApp SDK: blocking calls of the user's thread (report, rm_report,   *)
(* control, stop), the event loop thread that reads E42 messages and the   *)
(* timers, and the dispatcher thread that runs the user's callbacks.       *)
(*                                                                         *)
(* They share the registry of active procedures (act_proc), the pending    *)
(* events with their timers, sync_ui (the condition variable the caller    *)
(* waits on) and the dispatcher's queue.  Each has its own lock; a step    *)
(* ends where a lock is released or a message is sent.  One user thread    *)
(* calls the API.  The RIC is the environment.  A false assert() is Abort. *)
(***************************************************************************)
EXTENDS Naturals, Sequences, FiniteSets

CONSTANTS
  Funcs,      \* RAN functions; the callback of a report is named by its function
  MaxCalls,   \* bound: report and control calls
  MaxInds,    \* bound: indications the RIC sends
  MaxResend,  \* bound: setup requests sent again after a timeout
  Envs,       \* the RICs considered: "timely", "prompt", "silent"
  NoCall, NoFunc, Self, Node  \* model values: no call, no function; this xApp, its node

ASSUME BoundsAssumption == MaxCalls \in Nat /\ MaxInds \in Nat /\ MaxResend \in Nat
ASSUME EnvAssumption == Envs \subseteq {"timely", "prompt", "silent"}

Kinds == {"SUBS", "DEL", "CTRL"}
Ids == 1 .. MaxCalls
Call == [kind : Kinds, id : Ids, func : Funcs]
Setup == [kind : {"SETUP"}, id : 0 .. MaxResend, func : {NoFunc}]
FromRic == Call \union Setup \union [kind : {"IND"}, id : Ids, func : Funcs]
Pending == [ev : Kinds \union {"SETUP"}, id : 0 .. MaxCalls]
Proc == [type : {"SUBS", "CTRL"}, id : Ids, func : Funcs]
Dispatch == [func : Funcs, cb : Funcs]

ASSUME NoCallAssumption == NoCall \notin Call \union Dispatch

\* Milliseconds: the pending timers, and the wait of the caller, which rounds
\* its 5000 ms up by a second.
PendMs(ev) == CASE ev = "SETUP" -> 1000 [] ev = "SUBS" -> 5000
                [] ev \in {"DEL", "CTRL"} -> 10000
SyncMs == 6000

VARIABLES
  pc, call,            \* user thread: position and the call it is in
  handles,             \* reports the user holds (the ids report returned)
  flag,                \* sync_ui_t.flag_sync
  reg, nextKey,        \* act_proc_t.reg and its next key
  pending, timers,     \* pending_event_xapp_ds_t; the timer fds in the epoll set
  lpc, lmsg, lfd,      \* event loop: position, message, timer it took out
  connected, resent,   \* e42_xapp_t.connected; setup requests sent again
  queue, cb,           \* dispatcher: its queue and the callback that runs
  toRic, toXapp,       \* E42 messages in flight
  active, inds,        \* RIC: subscriptions served; indications sent
  env,                 \* how the RIC answers; it stays the same
  fault                \* the assertion that failed, or "none"

userVars == <<pc, call, handles>>
procVars == <<reg, nextKey>>
pendVars == <<pending, timers>>
loopVars == <<lpc, lmsg, lfd>>
conVars  == <<connected, resent>>
dispVars == <<queue, cb>>
ricVars  == <<active, inds>>
dataVars == <<userVars, flag, procVars, pendVars, loopVars, conVars, dispVars,
              toRic, toXapp, ricVars>>
vars == <<dataVars, env, fault>>

\* May an answer overtake the caller on its way to the wait?  May it fail to come?
Prompt == env # "timely"
Silent == env = "silent"

Running == fault = "none"
Abort(a) == fault' = a /\ UNCHANGED dataVars

ProcsOf(id) == {p \in reg : p.id = id}
PendingOf(c) == [ev |-> c.kind, id |-> c.id]

\* The order of the steps of a call, per handler.  A subscription adds its
\* pending event before it is sent; a delete and a control after.
PendNever(kind, step) == IF step = "begin" THEN "send" ELSE "wait"
After(kind, step) ==
  CASE step = "begin" -> IF kind = "SUBS" THEN "pend" ELSE "send"
    [] step = "pend"  -> IF kind = "SUBS" THEN "send" ELSE "wait"
    [] step = "send"  -> IF kind = "SUBS" THEN "wait" ELSE "pend"

\* assoc_reg_push_back: keys only grow.
LowestFreeKey == CHOOSE k \in Ids : /\ ProcsOf(k) = {}
                                   /\ \A j \in Ids : ProcsOf(j) = {} => k <= j
NewKey == nextKey

\* The flag is cleared when the wait begins: an earlier signal is forgotten.
FlagKept == flag
FlagAtWait == FALSE

\* Calls whose procedure ends with the answer; a report stays active.
EveryCallEnds(kind) == TRUE
DeletesEnd(kind) == kind = "DEL"
EndsProc(kind) == kind # "SUBS"

\* The event of bi_map_extract_right: its key compares the type alone.
PendingOfType(ev) == {p \in pending : p.ev = ev}

-----------------------------------------------------------------------------
(* The user's thread.                                                      *)

\* report_sm_sync_xapp and control_sm_sync_xapp: add_act_proc.
BeginCall(kind) ==
  /\ pc = "idle" /\ connected /\ kind \in {"SUBS", "CTRL"} /\ nextKey <= MaxCalls
  /\ \E f \in Funcs :
       /\ call' = [kind |-> kind, id |-> NewKey, func |-> f]
       /\ reg' = reg \union {[type |-> kind, id |-> NewKey, func |-> f]}
  /\ nextKey' = nextKey + 1
  /\ pc' = After(kind, "begin")
  /\ UNCHANGED <<handles, flag, pendVars, loopVars, conVars, dispVars, toRic, toXapp,
                 ricVars, fault>>

\* rm_report_sm_sync_xapp: find_act_proc.
BeginDelete ==
  /\ pc = "idle" /\ connected
  /\ \E h \in handles :
       IF ProcsOf(h) = {} THEN Abort("ric_req_id_not_registered")
       ELSE /\ call' = [kind |-> "DEL", id |-> h,
                        func |-> (CHOOSE p \in ProcsOf(h) : TRUE).func]
            /\ pc' = After("DEL", "begin")
            /\ UNCHANGED <<handles, flag, procVars, pendVars, loopVars, conVars,
                           dispVars, toRic, toXapp, ricVars, fault>>

\* add_pending_event_xapp: the timer, then the pending event.
AddPending ==
  /\ pc = "pend"
  /\ pending' = pending \union {PendingOf(call)}
  /\ timers' = timers \union {PendingOf(call)}
  /\ pc' = After(call.kind, "pend")
  /\ UNCHANGED <<call, handles, flag, procVars, loopVars, conVars, dispVars, toRic,
                 toXapp, ricVars, fault>>

Send ==
  /\ pc = "send"
  /\ toRic' = toRic \union {call}
  /\ pc' = After(call.kind, "send")
  /\ UNCHANGED <<call, handles, flag, procVars, pendVars, loopVars, conVars, dispVars,
                 toXapp, ricVars, fault>>

\* cond_wait_sync_ui takes the lock and clears the flag, then blocks.
Wait ==
  /\ pc = "wait"
  /\ flag' = FlagAtWait
  /\ pc' = "waiting"
  /\ UNCHANGED <<call, handles, procVars, pendVars, loopVars, conVars, dispVars, toRic,
                 toXapp, ricVars, fault>>

Woken ==
  /\ pc = "waiting" /\ flag
  /\ handles' = IF call.kind = "SUBS" THEN handles \union {call.id} ELSE handles
  /\ \/ ~EndsProc(call.kind) /\ pc' = "idle" /\ call' = NoCall
     \/ EndsProc(call.kind) /\ pc' = "remove" /\ UNCHANGED call
  /\ UNCHANGED <<flag, procVars, pendVars, loopVars, conVars, dispVars, toRic, toXapp,
                 ricVars, fault>>

\* rm_act_proc after the answer of a delete or a control.
RemoveProc ==
  /\ pc = "remove"
  /\ IF ProcsOf(call.id) = {} THEN Abort("rm_act_proc")
     ELSE /\ reg' = reg \ ProcsOf(call.id)
          /\ handles' = handles \ {call.id}
          /\ pc' = "idle" /\ call' = NoCall
          /\ UNCHANGED <<flag, nextKey, pendVars, loopVars, conVars, dispVars, toRic,
                         toXapp, ricVars, fault>>

\* The answer of the call is on its way.
UnderWay == \/ call \in toRic \union toXapp
            \/ lpc # "loop" /\ lmsg.kind = call.kind /\ lmsg.id = call.id

\* The caller gives up: only if its pending timer, which the loop thread turns
\* into an assertion of its own, is not due before.
SyncTimeout ==
  /\ pc = "waiting" /\ ~flag
  /\ Silent \/ ~UnderWay
  /\ PendingOf(call) \in timers => SyncMs < PendMs(call.kind)
  /\ Abort("sync_timeout")

\* try_stop_xapp_api: nothing to dispatch, then free_e42_xapp sets the stop
\* token, waits for the loop and, in free_tsnq, for the dispatcher.
Stop ==
  /\ pc = "idle" /\ connected /\ queue = <<>>
  /\ pc' = "stopping"
  /\ UNCHANGED <<call, handles, flag, procVars, pendVars, loopVars, conVars, dispVars,
                 toRic, toXapp, ricVars, fault>>

StopDispatcher ==
  /\ pc = "stopping" /\ lpc = "stopped"
  /\ pc' = "joining"
  /\ UNCHANGED <<call, handles, flag, procVars, pendVars, loopVars, conVars, dispVars,
                 toRic, toXapp, ricVars, fault>>

Freed ==
  /\ pc = "joining" /\ cb = NoCall
  /\ pc' = "freed"
  /\ queue' = <<>> /\ reg' = {} /\ pending' = {} /\ handles' = {}
  /\ UNCHANGED <<call, flag, nextKey, timers, loopVars, conVars, cb, toRic, toXapp,
                 ricVars, fault>>

-----------------------------------------------------------------------------
(* The event loop thread.                                                  *)

\* e2ap_handle_e42_setup_request_xapp: send, then the pending event.
LoopStart ==
  /\ lpc = "start"
  /\ LET p == [ev |-> "SETUP", id |-> 0]
     IN  pending' = pending \union {p} /\ timers' = timers \union {p}
  /\ toRic' = toRic \union {[kind |-> "SETUP", id |-> 0, func |-> NoFunc]}
  /\ lpc' = "loop"
  /\ UNCHANGED <<userVars, flag, procVars, lmsg, lfd, conVars, dispVars, toXapp,
                 ricVars, fault>>

\* e2ap_handle_e42_setup_response_xapp: later responses are ignored.
LoopSetup(m) ==
  /\ lpc = "loop" /\ m.kind = "SETUP"
  /\ toXapp' = toXapp \ {m}
  /\ \/ connected /\ UNCHANGED <<pendVars, connected, fault>>
     \/ /\ ~connected
        /\ \E p \in PendingOfType("SETUP") :
             pending' = pending \ {p} /\ timers' = timers \ {p}
        /\ connected' = TRUE /\ UNCHANGED fault
  /\ UNCHANGED <<userVars, flag, procVars, loopVars, resent, dispVars, toRic, ricVars>>

\* e2ap_handle_indication_xapp: an indication without procedure is dropped.
LoopIndication(m) ==
  /\ lpc = "loop" /\ m.kind = "IND"
  /\ toXapp' = toXapp \ {m}
  /\ queue' = IF ProcsOf(m.id) = {} THEN queue
              ELSE Append(queue, [func |-> m.func,
                                  cb |-> (CHOOSE p \in ProcsOf(m.id) : TRUE).func])
  /\ UNCHANGED <<userVars, flag, procVars, pendVars, loopVars, conVars, cb, toRic,
                 ricVars, fault>>

\* An answer: find_act_proc ...
LoopAnswer(m) ==
  /\ lpc = "loop" /\ m.kind \in Kinds
  /\ Prompt \/ pc = "waiting"
  /\ IF ProcsOf(m.id) = {} THEN Abort("answer_not_registered")
     ELSE /\ toXapp' = toXapp \ {m}
          /\ lmsg' = m /\ lpc' = "unpend"
          /\ UNCHANGED <<userVars, flag, procVars, pendVars, lfd, conVars, dispVars,
                         toRic, ricVars, fault>>

\* ... rm_pending_event_ev ...
LoopUnpend ==
  /\ lpc = "unpend"
  /\ IF PendingOfType(lmsg.kind) = {} THEN Abort("extract_pending")
     ELSE /\ \E p \in PendingOfType(lmsg.kind) : pending' = pending \ {p} /\ lfd' = p
          /\ lpc' = "close"
          /\ UNCHANGED <<userVars, flag, procVars, timers, lmsg, conVars, dispVars,
                         toRic, toXapp, ricVars, fault>>

\* ... rm_fd_asio_xapp ...
LoopClose ==
  /\ lpc = "close"
  /\ timers' = timers \ {lfd}
  /\ lpc' = "signal"
  /\ UNCHANGED <<userVars, flag, procVars, pending, lmsg, lfd, conVars, dispVars, toRic,
                 toXapp, ricVars, fault>>

\* ... and signal_sync_ui.
LoopSignal ==
  /\ lpc = "signal"
  /\ flag' = TRUE
  /\ lpc' = "loop" /\ lmsg' = NoCall /\ lfd' = NoCall
  /\ UNCHANGED <<userVars, procVars, pendVars, conVars, dispVars, toRic, toXapp,
                 ricVars, fault>>

\* A pending timer: the setup request is sent again, the others are assertions.
LoopTimer(p) ==
  /\ lpc = "loop" /\ p \in timers
  /\ \/ p \notin pending /\ Abort("pend_event")
     \/ /\ p \in pending /\ p.ev = "SETUP" /\ resent < MaxResend
        /\ resent' = resent + 1
        /\ toRic' = toRic \union {[kind |-> "SETUP", id |-> resent + 1, func |-> NoFunc]}
        /\ UNCHANGED <<userVars, flag, procVars, pendVars, loopVars, connected, dispVars,
                       toXapp, ricVars, fault>>
     \/ /\ p \in pending /\ p.ev # "SETUP" /\ Silent /\ PendMs(p.ev) < SyncMs
        /\ Abort("request_timeout")

LoopStop ==
  /\ lpc = "loop" /\ pc = "stopping"
  /\ lpc' = "stopped"
  /\ UNCHANGED <<userVars, flag, procVars, pendVars, lmsg, lfd, conVars, dispVars, toRic,
                 toXapp, ricVars, fault>>

-----------------------------------------------------------------------------
(* The dispatcher thread: wait_and_pop_tsnq, then the callback.            *)

DispatcherPop ==
  /\ cb = NoCall /\ queue # <<>> /\ pc \notin {"joining", "freed"}
  /\ cb' = Head(queue) /\ queue' = Tail(queue)
  /\ UNCHANGED <<userVars, flag, procVars, pendVars, loopVars, conVars, toRic, toXapp,
                 ricVars, fault>>

CallbackReturns ==
  /\ cb # NoCall
  /\ cb' = NoCall
  /\ UNCHANGED <<userVars, flag, procVars, pendVars, loopVars, conVars, queue, toRic,
                 toXapp, ricVars, fault>>

-----------------------------------------------------------------------------
(* The RIC: it answers what it has carried out, and indicates.             *)

RicServes(m) ==
  /\ m \in toRic
  /\ toRic' = toRic \ {m}
  /\ toXapp' = toXapp \union {m}
  /\ active' = CASE m.kind = "SUBS" -> active \union {[id |-> m.id, func |-> m.func]}
                 [] m.kind = "DEL"  -> {s \in active : s.id # m.id}
                 [] m.kind \in {"CTRL", "SETUP"} -> active
  /\ UNCHANGED <<userVars, flag, procVars, pendVars, loopVars, conVars, dispVars, inds,
                 fault>>

RicIndicates ==
  /\ inds < MaxInds
  /\ inds' = inds + 1
  /\ \E s \in active : toXapp' = toXapp \union {[kind |-> "IND", id |-> s.id, func |-> s.func]}
  /\ UNCHANGED <<userVars, flag, procVars, pendVars, loopVars, conVars, dispVars, toRic,
                 active, fault>>

-----------------------------------------------------------------------------
Init ==
  /\ pc = "idle" /\ call = NoCall /\ handles = {} /\ flag = FALSE
  /\ reg = {} /\ nextKey = 1
  /\ pending = {} /\ timers = {}
  /\ lpc = "start" /\ lmsg = NoCall /\ lfd = NoCall
  /\ connected = FALSE /\ resent = 0
  /\ queue = <<>> /\ cb = NoCall
  /\ toRic = {} /\ toXapp = {} /\ active = {} /\ inds = 0
  /\ env \in Envs /\ fault = "none"

\* What the user decides to do, and the steps that follow from it.
UserBegins == (\E kind \in {"SUBS", "CTRL"} : BeginCall(kind)) \/ BeginDelete \/ Stop
UserStep == AddPending \/ Send \/ Wait \/ Woken \/ RemoveProc \/ SyncTimeout
            \/ StopDispatcher \/ Freed
LoopStep == \/ LoopStart \/ LoopUnpend \/ LoopClose \/ LoopSignal \/ LoopStop
            \/ \E m \in toXapp : LoopSetup(m) \/ LoopIndication(m) \/ LoopAnswer(m)
DispatcherStep == DispatcherPop \/ CallbackReturns

Next ==
  /\ Running /\ UNCHANGED env
  /\ \/ UserBegins \/ UserStep \/ LoopStep \/ DispatcherStep
     \/ \E p \in timers : LoopTimer(p)
     \/ \E m \in toRic : RicServes(m)
     \/ RicIndicates

Spec == Init /\ [][Next]_vars

-----------------------------------------------------------------------------
(* Properties.                                                             *)

\* Type correctness of the xApp's state.
TypeOK ==
  /\ env \in Envs
  /\ pc \in {"idle", "pend", "send", "wait", "waiting", "remove",
            "stopping", "joining", "freed"}
  /\ call \in Call \union {NoCall}
  /\ pc \in {"pend", "send", "wait", "waiting", "remove"} => call \in Call
  /\ handles \subseteq Ids /\ flag \in BOOLEAN
  /\ reg \subseteq Proc /\ nextKey \in 1 .. MaxCalls + 1
  /\ pending \subseteq Pending /\ timers \subseteq Pending
  /\ lpc \in {"start", "loop", "unpend", "close", "signal", "stopped"}
  /\ lmsg \in Call \union {NoCall} /\ lfd \in Pending \union {NoCall}
  /\ lpc \in {"unpend", "close", "signal"} => lmsg \in Call
  /\ lpc = "close" => lfd \in Pending
  /\ connected \in BOOLEAN /\ resent \in 0 .. MaxResend
  /\ queue \in Seq(Dispatch) /\ cb \in Dispatch \union {NoCall}
  /\ toRic \subseteq Call \union Setup /\ toXapp \subseteq FromRic
  /\ active \subseteq [id : Ids, func : Funcs] /\ inds \in 0 .. MaxInds

\* Why an assertion may fail at all: the answer came before the pending event it
\* ends was added; it came before the caller waited, so that the signal is
\* forgotten; or the RIC does not answer in time, where the first of the two
\* clocks to run out, 5 s or 6 s, depends on the call.
Excuse(a) ==
  CASE a = "extract_pending" ->
         Prompt /\ lpc = "unpend" /\ lmsg = call /\ pc = "pend" /\ call.kind # "SUBS"
    [] a = "sync_timeout" ->
         pc = "waiting" /\ IF PendingOf(call) \in timers
                           THEN Silent /\ call.kind # "SUBS" ELSE Prompt
    [] a = "request_timeout" ->
         Silent /\ pc # "idle" /\ call.kind = "SUBS" /\ PendingOf(call) \in pending
    [] OTHER -> FALSE

\* No assertion of the xApp fails, whatever the order in which the caller, the
\* event loop, the dispatcher and the RIC take their steps, but for these causes;
\* with a timely RIC, none at all.
NoAbort == Running \/ Excuse(fault)

Stopped == pc \in {"stopping", "joining", "freed"}

\* Between calls nothing is left over: no pending event, no timer, no message or
\* signal of a call on its way, and the registry holds the reports, no more.
IdleClean ==
  pc = "idle" /\ connected =>
    /\ pending = {} /\ timers = {} /\ lpc = "loop"
    /\ (toRic \union toXapp) \intersect Call = {}
    /\ {p.id : p \in reg} = handles

\* A callback gets the indications of its own report: also one of a report that
\* was removed meanwhile never reaches the callback of a later report.
CallbackOwn ==
  /\ \A i \in DOMAIN queue : queue[i].cb = queue[i].func
  /\ cb # NoCall => cb.cb = cb.func

\* While the RIC serves a report the xApp can dispatch it: the first indication
\* may come before the response, the last one before the delete returns.
StreamsRegistered ==
  ~Stopped => \A s \in active : \E p \in reg : p.id = s.id /\ p.func = s.func

\* sync_ui.c:82: the caller's wait never times out ("Unforeseen path").
WaitAnswered == fault # "sync_timeout"

-----------------------------------------------------------------------------
(* The API implements the service, for one xApp.                           *)

ServiceRequest(kind, id, func) ==
  [kind |-> kind, xapp |-> Self, id |-> id, func |-> func, node |-> Node]

ServiceRequests == {ServiceRequest(c.kind, c.id, c.func) : c \in Call}

ASSUME ServiceAssumption == NoCall \notin ServiceRequests

\* What the caller waits for, and what the RIC serves.
Asked == IF pc \in {"pend", "send", "wait", "waiting"}
         THEN ServiceRequest(call.kind, call.id, call.func) ELSE NoCall
Streams == {ServiceRequest("SUBS", s.id, s.func) : s \in active}

Service == INSTANCE RequestService
  WITH XApps <- {Self}, NoReq <- NoCall,
       Requests <- ServiceRequests,
       waiting <- [x \in {Self} |-> Asked], streams <- Streams,
       gone <- {}

\* A call returns only after the RIC has carried it out, whatever the order in
\* which the answer, the signal and the wait come.
ServiceSpec == Service!Spec

-----------------------------------------------------------------------------
(* Liveness: the threads run, the RIC answers.                             *)

Step(A) == Running /\ A /\ UNCHANGED env
Fairness ==
  /\ WF_vars(Step(UserStep))
  /\ WF_vars(Step(LoopStep))
  /\ WF_vars(Step(DispatcherStep))
  /\ WF_vars(Step(\E m \in toRic : RicServes(m)))

FairSpec == Spec /\ Fairness

\* Every call of the API returns, the stop included, if the RIC is timely; with any
\* other it returns or an assertion ends the wait: no caller hangs.
CallsReturn ==
  pc \notin {"idle", "freed"} ~> pc \in {"idle", "freed"} \/ (Prompt /\ ~Running)

=============================================================================
