------------------------------ MODULE RicRouting ------------------------------
(***************************************************************************)
(* The request path of the near-RT RIC: an xApp's request goes over E42 to *)
(* the iApp thread, which gives it a ric_req_id, records the route back in *)
(* map_ric_id, registers a pending event with its timer and forwards it to *)
(* the E2 node; the answer is handled by a task-manager thread, which      *)
(* clears the pending event and follows the route back to the xApp.        *)
(*                                                                         *)
(* Processes: the iApp thread (src/ric/iApp/e42_iapp.c), the worker        *)
(* threads (sctp_msg_arrived_event in src/ric/near_ric.c) and the RIC event*)
(* loop (only its timers here).  xApps and E2 nodes are the environment.   *)
(* A step ends where the code releases a lock or sends a message.          *)
(*                                                                         *)
(* The program runs with assertions on: a false assert() is the step       *)
(* Abort(a), which records a in "fault" and stops every thread.            *)
(***************************************************************************)
EXTENDS Naturals, FiniteSets

CONSTANTS
  XApps,        \* the xapp_id's of the xApps that completed the E42 setup
  Nodes,        \* the E2 nodes
  Funcs,        \* RAN function ids
  Uses,         \* Uses[x]: the RAN functions xApp x works with
  Workers,      \* the threads of the task manager
  FirstReqId,   \* initial value of near_ric_t.req_id (1021 in the code)
  ReqIdMod,     \* number of values of a ric_req_id (2^16 in the code)
  MaxLocal,     \* bound: requests an xApp makes
  MaxServed,    \* bound: requests the iApp gives a ric_req_id
  MaxInds,      \* bound: indications the nodes send
  SlowNodes,    \* may an E2 node answer after the 3 s of the pending timer?
  XAppsLeave,   \* may an xApp disconnect?
  NoReq, NoNode \* model values: no request outstanding; no record

ASSUME XAppsAssumption == XApps \subseteq Nat /\ Uses \in [XApps -> SUBSET Funcs]
ASSUME ReqIdAssumption ==
  /\ FirstReqId \in Nat /\ ReqIdMod \in Nat \ {0} /\ FirstReqId < ReqIdMod
  /\ MaxLocal \in Nat /\ MaxServed \in Nat /\ MaxInds \in Nat
ASSUME FaultAssumption == SlowNodes \in BOOLEAN /\ XAppsLeave \in BOOLEAN

Kinds == {"SUBS", "CTRL", "DEL"}          \* requests, and their answers
LocalIds == 1 .. MaxLocal                 \* keys an xApp's registry hands out
ReqIds == 0 .. ReqIdMod - 1
Request == [kind : Kinds, xapp : XApps, id : LocalIds, func : Funcs, node : Nodes]
Route == [kind : {"SUBS", "CTRL"}, req : ReqIds, node : Nodes,
          xapp : XApps, id : LocalIds, func : Funcs]
Pending == [kind : Kinds, req : ReqIds, func : Funcs]
ToNode == [kind : Kinds, req : ReqIds, func : Funcs, node : Nodes]
FromNode == [kind : Kinds \union {"IND"}, req : ReqIds, func : Funcs]
ToXapp == [kind : Kinds \union {"IND"}, xapp : XApps, id : LocalIds, func : Funcs]

ASSUME NoReqAssumption == NoReq \notin Request

VARIABLES
  xreq, lid, xsubs, alive,  \* xApps: outstanding request, next id, subscriptions
  failed,                   \* xApps a send to which failed: reports not read yet
  toIapp, toXapp,           \* E42 messages in flight
  edge,                     \* epoll has the iApp's socket to report
  ipc, imsg, newId,         \* iApp thread: position, request, id just given
  itodo, idel,              \* iApp thread: deletes to forward, the one being sent
  map,                      \* map_ric_id_t.bimap
  reqId, served,            \* near_ric_t.req_id; requests given an id so far
  pending, timers,          \* near_ric_t.pending; its timer fds in the epoll set
  toNode, rx,               \* E2AP messages to and from the nodes
  nodeEdge,                 \* nodes whose epoll has their socket to report
  active, inds,             \* subscriptions a node serves; indications sent so far
  wpc, wmsg, wdst,          \* worker threads: position, message, route found
  sockAddrs, regNodes,      \* e2ap_ep_ric_t.e2_nodes; e42_iapp_t.e2_nodes
  fault                     \* the assertion that failed, or "none"

xappVars == <<xreq, lid, xsubs, alive, failed>>
iappVars == <<ipc, imsg, newId, itodo, idel>>
idVars   == <<reqId, served>>
pendVars == <<pending, timers>>
nodeVars == <<toNode, nodeEdge, active, inds>>
workVars == <<wpc, wmsg, wdst>>
regVars  == <<sockAddrs, regNodes>>
dataVars == <<xappVars, toIapp, edge, toXapp, iappVars, map, idVars, pendVars,
              nodeVars, rx, workVars, regVars>>
vars == <<dataVars, fault>>

Running == fault = "none"
Abort(a) == fault' = a /\ UNCHANGED dataVars

-----------------------------------------------------------------------------
(* map_ric_id_t: what its functions look for.  The right tree is ordered by *)
(* xapp_id, then by the request; find_if returns the first match.          *)

PendingOf(m) == [kind |-> m.kind, req |-> m.req, func |-> m.func]

RoutesOfReq(req) == {r \in map : r.req = req}

\* eq_xapp_ric_gen_id compares m0->xapp_id with itself: only the id counts.
EqRequestNumberOnly(r, m) == r.id = m.id
EqFunctionOnly(r, m) == r.func = m.func
EqXappRicGenId(r, m) == r.id = m.id /\ r.func = m.func

RoutesOfXappReq(m) == {r \in map : EqXappRicGenId(r, m)}

FirstRoute(S) == CHOOSE r \in S : \A s \in S : r.xapp <= s.xapp

\* The key bi_map_extract_right compares: the xApp and its request.
RoutesOfFunction(d) == {r \in map : r.xapp = d.xapp /\ r.func = d.func}
RoutesOfXappKey(d) == {r \in map : r.xapp = d.xapp /\ r.id = d.id /\ r.func = d.func}

FirstSubOnly(x) ==
  LET S == {r \in map : r.xapp = x /\ r.kind = "SUBS"}
  IN  {r \in S : \A s \in S : r.id <= s.id}
SubsOfXapp(x) == {r \in map : r.xapp = x /\ r.kind = "SUBS"}

\* The iApp thread holds the write lock of the map while it forwards.
NeverLocked == FALSE
MapLocked == ipc \in {"forward", "addMap"}

\* ric->req_id++ on a uint16_t.
ReqIdKept == reqId
NextReqId == (reqId + 1) % ReqIdMod

\* Is the delete of route r pending already (eq_pending_event_ric)?
AnyDeletePending(r) == \E p \in pending : p.kind = "DEL"
NeverPending(r) == FALSE
DeletePending(r) == [kind |-> "DEL", req |-> r.req, func |-> r.func] \in pending

\* The answers after which a handler of the iApp removes the route.
DeletesEndRoute(m) == m.kind = "DEL"
EndsRoute(m) == m.kind \in {"DEL", "CTRL"}

-----------------------------------------------------------------------------
(* xApps.  One request is outstanding at a time (the SDK call blocks).      *)

XappRequest(x, kind) ==
  /\ x \in alive /\ xreq[x] = NoReq /\ lid[x] <= MaxLocal
  /\ \E f \in Uses[x], n \in Nodes :
       LET m == [kind |-> kind, xapp |-> x, id |-> lid[x], func |-> f, node |-> n]
       IN  xreq' = [xreq EXCEPT ![x] = m] /\ toIapp' = toIapp \union {m}
  /\ edge' = TRUE
  /\ lid' = [lid EXCEPT ![x] = @ + 1]
  /\ UNCHANGED <<xsubs, alive, failed, toXapp, iappVars, map, idVars, pendVars,
                 nodeVars, rx, workVars, regVars, fault>>

XappDelete(x) ==
  /\ x \in alive /\ xreq[x] = NoReq
  /\ \E s \in xsubs[x] :
       LET m == [s EXCEPT !.kind = "DEL"]
       IN  xreq' = [xreq EXCEPT ![x] = m] /\ toIapp' = toIapp \union {m}
  /\ edge' = TRUE
  /\ UNCHANGED <<lid, xsubs, alive, failed, toXapp, iappVars, map, idVars, pendVars,
                 nodeVars, rx, workVars, regVars, fault>>

\* m answers the outstanding request of its xApp.
Answers(m) == /\ xreq[m.xapp] # NoReq /\ m.kind = xreq[m.xapp].kind
              /\ m.id = xreq[m.xapp].id /\ m.func = xreq[m.xapp].func

XappAnswered(m) ==
  /\ m \in toXapp /\ m.kind \in Kinds /\ m.xapp \in alive /\ Answers(m)
  /\ toXapp' = toXapp \ {m}
  /\ xreq' = [xreq EXCEPT ![m.xapp] = NoReq]
  /\ xsubs' = [xsubs EXCEPT ![m.xapp] =
       CASE m.kind = "SUBS" -> @ \union {xreq[m.xapp]}
         [] m.kind = "DEL"  -> {s \in @ : s.id # m.id}
         [] m.kind = "CTRL" -> @]
  /\ UNCHANGED <<lid, alive, failed, toIapp, edge, iappVars, map, idVars, pendVars,
                 nodeVars, rx, workVars, regVars, fault>>

XappIndication(m) ==
  /\ m \in toXapp /\ m.kind = "IND"
  /\ toXapp' = toXapp \ {m}
  /\ UNCHANGED <<xappVars, toIapp, edge, iappVars, map, idVars, pendVars, nodeVars, rx,
                 workVars, regVars, fault>>

\* The iApp's socket reports sends that failed, and nothing else: the shutdown
\* of an association is not among the events it subscribes to.
SendFails(x) == failed' = failed \union {x} /\ edge' = TRUE
SendNoticed(x) == SendFails(x) \/ UNCHANGED <<failed, edge>>

\* An xApp ends; what is on its way to it is lost, with or without a report.
XappLeaves(x) ==
  /\ XAppsLeave /\ x \in alive
  /\ alive' = alive \ {x}
  /\ toXapp' = {m \in toXapp : m.xapp # x}
  /\ IF toXapp' = toXapp THEN UNCHANGED <<failed, edge>> ELSE SendNoticed(x)
  /\ UNCHANGED <<xreq, lid, xsubs, toIapp, iappVars, map, idVars, pendVars,
                 nodeVars, rx, workVars, regVars, fault>>

-----------------------------------------------------------------------------
(* The iApp thread: e2_event_loop_iapp and the handlers it calls.  Its     *)
(* socket is edge-triggered and each event reads one message: of messages  *)
(* that arrive together, all but one wait for the next arrival.            *)

\* Subscription and control requests; the E2 node must be registered.
IappReceive(m) ==
  /\ ipc = "idle" /\ edge /\ m \in toIapp /\ m.kind \in {"SUBS", "CTRL"}
  /\ served < MaxServed
  /\ IF m.node \in regNodes
     THEN /\ toIapp' = toIapp \ {m} /\ edge' = FALSE
          /\ ipc' = "allocate" /\ imsg' = m
          /\ UNCHANGED <<xappVars, toXapp, newId, itodo, idel, map, idVars, pendVars,
                         nodeVars, rx, workVars, regVars, fault>>
     ELSE Abort("valid_global_e2_node")

\* Lock the map; fwd_ric_*_request takes the id and inserts the pending event.
IappAllocate ==
  /\ ipc = "allocate"
  /\ LET p == [kind |-> imsg.kind, req |-> reqId, func |-> imsg.func]
     IN  pending' = pending \union {p} /\ timers' = timers \union {p}
  /\ newId' = reqId
  /\ reqId' = NextReqId
  /\ served' = served + 1
  /\ ipc' = "forward"
  /\ UNCHANGED <<xappVars, toIapp, edge, toXapp, imsg, itodo, idel, map, nodeVars, rx,
                 workVars, regVars, fault>>

IappForward ==
  /\ ipc = "forward"
  /\ IF imsg.node \in sockAddrs
     THEN /\ toNode' = toNode \union {[kind |-> imsg.kind, req |-> newId,
                                       func |-> imsg.func, node |-> imsg.node]}
          /\ nodeEdge' = nodeEdge \union {imsg.node}
          /\ ipc' = "addMap"
          /\ UNCHANGED <<xappVars, toIapp, edge, toXapp, imsg, newId, itodo, idel, map,
                         idVars, pendVars, active, inds, rx, workVars, regVars, fault>>
     ELSE Abort("find_map_e2_node_sad")

\* add_map_ric_id, then the lock is released.
IappAddMap ==
  /\ ipc = "addMap"
  /\ IF RoutesOfReq(newId) = {}
     THEN /\ map' = map \union {[kind |-> imsg.kind, req |-> newId, node |-> imsg.node,
                                 xapp |-> imsg.xapp, id |-> imsg.id, func |-> imsg.func]}
          /\ ipc' = "idle" /\ imsg' = NoReq /\ newId' = NoReq
          /\ UNCHANGED <<xappVars, toIapp, edge, toXapp, itodo, idel, idVars, pendVars,
                         nodeVars, rx, workVars, regVars, fault>>
     ELSE Abort("add_map_ric_id")

\* A delete request: the route is looked up by the xApp's own request id.
IappReceiveDelete(m) ==
  /\ ipc = "idle" /\ edge /\ m \in toIapp /\ m.kind = "DEL"
  /\ LET found == RoutesOfXappReq(m)
     IN  IF found = {} THEN Abort("find_ric_req_map_ric_id")
         ELSE IF FirstRoute(found).kind # "SUBS" THEN Abort("delete_not_subscription")
         ELSE /\ toIapp' = toIapp \ {m} /\ edge' = FALSE
              /\ imsg' = m
              /\ itodo' = {FirstRoute(found)}
              /\ ipc' = "delete"
              /\ UNCHANGED <<xappVars, toXapp, newId, idel, map, idVars, pendVars,
                             nodeVars, rx, workVars, regVars, fault>>

\* A failed send to an xApp is taken for its disconnection: rm_if_pending_subs.
\* The report is read after what the xApp sent before; every later send to it
\* fails again, as its entry in map_xapps_sockaddr stays.
IappXappGone(x) ==
  /\ ipc = "idle" /\ edge /\ x \in failed /\ \A m \in toIapp : m.xapp # x
  /\ failed' = failed \ {x} /\ edge' = FALSE
  /\ itodo' = SubsOfXapp(x)
  /\ ipc' = IF SubsOfXapp(x) = {} THEN "idle" ELSE "delete"
  /\ UNCHANGED <<xreq, lid, xsubs, alive, toIapp, toXapp, imsg, newId, idel, map,
                 idVars, pendVars, nodeVars, rx, workVars, regVars, fault>>

\* On to the next delete, or back to the event loop.
DeleteNext(r) ==
  /\ itodo' = itodo \ {r}
  /\ ipc' = IF itodo = {r} THEN "idle" ELSE "delete"
  /\ imsg' = IF itodo = {r} THEN NoReq ELSE imsg

\* fwd_ric_subscription_request_delete, under pend_mtx: nothing is sent when
\* the same delete is pending already.
IappDeletePend(r) ==
  /\ ipc = "delete" /\ r \in itodo
  /\ LET p == [kind |-> "DEL", req |-> r.req, func |-> r.func]
     IN  \/ /\ DeletePending(r)
            /\ DeleteNext(r)
            /\ UNCHANGED <<idel, pendVars>>
         \/ /\ ~DeletePending(r)
            /\ pending' = pending \union {p} /\ timers' = timers \union {p}
            /\ idel' = r /\ ipc' = "sendDelete"
            /\ UNCHANGED <<itodo, imsg>>
  /\ UNCHANGED <<xappVars, toIapp, edge, toXapp, newId, map, idVars, nodeVars, rx,
                 workVars, regVars, fault>>

IappSendDelete ==
  /\ ipc = "sendDelete"
  /\ IF idel.node \in sockAddrs
     THEN /\ toNode' = toNode \union {[kind |-> "DEL", req |-> idel.req,
                                       func |-> idel.func, node |-> idel.node]}
          /\ nodeEdge' = nodeEdge \union {idel.node}
          /\ DeleteNext(idel) /\ idel' = NoNode
          /\ UNCHANGED <<xappVars, toIapp, edge, toXapp, newId, map, idVars, pendVars,
                         active, inds, rx, workVars, regVars, fault>>
     ELSE Abort("find_map_e2_node_sad")

-----------------------------------------------------------------------------
(* E2 nodes.  One SCTP association keeps a subscription before its delete. *)
(* The socket of an agent is edge-triggered too, and each event reads one  *)
(* message: what is sent back to back may stay unread but for one message. *)

\* The report is used up, unless another message arrived between it and the read.
NodeReads(m) ==
  /\ m \in toNode /\ m.node \in nodeEdge
  /\ m.kind = "DEL" => [m EXCEPT !.kind = "SUBS"] \notin toNode
  /\ toNode' = toNode \ {m}
  /\ \/ nodeEdge' = nodeEdge \ {m.node}
     \/ (\E k \in toNode' : k.node = m.node) /\ UNCHANGED nodeEdge

NodeAnswers(m) ==
  /\ NodeReads(m)
  /\ rx' = rx \union {PendingOf(m)}
  /\ LET s == [req |-> m.req, func |-> m.func]
     IN  active' = [active EXCEPT ![m.node] = CASE m.kind = "SUBS" -> @ \union {s}
                                                [] m.kind = "DEL"  -> @ \ {s}
                                                [] m.kind = "CTRL" -> @]
  /\ UNCHANGED <<xappVars, toIapp, edge, toXapp, iappVars, map, idVars, pendVars, inds,
                 workVars, regVars, fault>>

NodeIndicates(n) ==
  /\ inds < MaxInds
  /\ inds' = inds + 1
  /\ \E s \in active[n] :
       rx' = rx \union {[kind |-> "IND", req |-> s.req, func |-> s.func]}
  /\ UNCHANGED <<xappVars, toIapp, edge, toXapp, iappVars, map, idVars, pendVars, toNode,
                 nodeEdge, active, workVars, regVars, fault>>

-----------------------------------------------------------------------------
(* The workers: e2ap_handle_*_ric and, on the same thread, the iApp's      *)
(* handlers through notify_msg_iapp_api.                                   *)

WorkerTake(w, m) ==
  /\ wpc[w] = "idle" /\ m \in rx
  /\ rx' = rx \ {m}
  /\ wmsg' = [wmsg EXCEPT ![w] = m]
  /\ wpc' = [wpc EXCEPT ![w] = IF m.kind = "IND" THEN "find" ELSE "stop"]
  /\ UNCHANGED <<xappVars, toIapp, edge, toXapp, iappVars, map, idVars, pendVars, nodeVars,
                 wdst, regVars, fault>>

\* stop_pending_event: extract under pend_mtx ...
WorkerStop(w) ==
  /\ wpc[w] = "stop"
  /\ IF PendingOf(wmsg[w]) \in pending
     THEN /\ pending' = pending \ {PendingOf(wmsg[w])}
          /\ wpc' = [wpc EXCEPT ![w] = "close"]
          /\ UNCHANGED <<xappVars, toIapp, edge, toXapp, iappVars, map, idVars, timers,
                         nodeVars, rx, wmsg, wdst, regVars, fault>>
     ELSE Abort("extract_pending")

\* ... and close the timer after the unlock.
WorkerClose(w) ==
  /\ wpc[w] = "close"
  /\ timers' = timers \ {PendingOf(wmsg[w])}
  /\ wpc' = [wpc EXCEPT ![w] = "find"]
  /\ UNCHANGED <<xappVars, toIapp, edge, toXapp, iappVars, map, idVars, pending, nodeVars,
                 rx, wmsg, wdst, regVars, fault>>

\* The handler returns: its locals are gone and the worker takes a new task.
TaskDone(w) ==
  /\ wpc' = [wpc EXCEPT ![w] = "idle"]
  /\ wmsg' = [wmsg EXCEPT ![w] = NoReq]
  /\ wdst' = [wdst EXCEPT ![w] = NoNode]

\* find_xapp_map_ric_id, then what each handler makes of "not found"; the route
\* is of the RAN function the message comes from.
WorkerFind(w) ==
  /\ wpc[w] = "find" /\ ~MapLocked
  /\ LET found == RoutesOfReq(wmsg[w].req)
     IN  IF wmsg[w].req = 0 THEN Abort("ric_req_id_zero")
         ELSE IF found = {} /\ wmsg[w].kind \in {"SUBS", "CTRL"}
              THEN Abort("find_xapp_map_ric_id")
         ELSE IF \E r \in found : r.func # wmsg[w].func THEN Abort("ran_func_id")
         ELSE /\ \/ found = {} /\ TaskDone(w)
                 \/ /\ found # {}
                    /\ wdst' = [wdst EXCEPT ![w] = CHOOSE r \in found : TRUE]
                    /\ wpc' = [wpc EXCEPT ![w] = "send"]
                    /\ UNCHANGED wmsg
              /\ UNCHANGED <<xappVars, toIapp, edge, toXapp, iappVars, map, idVars, pendVars,
                             nodeVars, rx, regVars, fault>>

\* To an xApp that is gone the send fails, at once or with a later report.
WorkerSend(w) ==
  /\ wpc[w] = "send"
  /\ LET d == wdst[w]
         m == [kind |-> wmsg[w].kind, xapp |-> d.xapp, id |-> d.id, func |-> d.func]
     IN  \/ /\ d.xapp \in alive
            /\ toXapp' = toXapp \union {m}
            /\ UNCHANGED <<failed, edge>>
         \/ /\ d.xapp \notin alive
            /\ SendNoticed(d.xapp)
            /\ UNCHANGED toXapp
  /\ \/ /\ EndsRoute(wmsg[w])
        /\ wpc' = [wpc EXCEPT ![w] = "remove"]
        /\ UNCHANGED <<wmsg, wdst>>
     \/ ~EndsRoute(wmsg[w]) /\ TaskDone(w)
  /\ UNCHANGED <<xreq, lid, xsubs, alive, toIapp, iappVars, map, idVars, pendVars,
                 nodeVars, rx, regVars, fault>>

\* rm_map_ric_id: extract by the xApp's id.
WorkerRemove(w) ==
  /\ wpc[w] = "remove" /\ ~MapLocked
  /\ LET found == RoutesOfXappKey(wdst[w])
     IN  IF found # {}
         THEN /\ map' = map \ found
              /\ TaskDone(w)
              /\ UNCHANGED <<xappVars, toIapp, edge, toXapp, iappVars, idVars, pendVars,
                             nodeVars, rx, regVars, fault>>
         ELSE Abort("rm_map_ric_id")

\* A pending timer fires.  next_asio_event_ric never sets the event's fd, so
\* consume_fd(0) fails; had a worker extracted it, pend_event fails first.
RicTimeout(t) ==
  /\ SlowNodes /\ t \in timers
  /\ IF t \in pending THEN Abort("consume_fd") ELSE Abort("pend_event")

-----------------------------------------------------------------------------
Init ==
  /\ xreq = [x \in XApps |-> NoReq] /\ lid = [x \in XApps |-> 1]
  /\ xsubs = [x \in XApps |-> {}] /\ alive = XApps /\ failed = {}
  /\ toIapp = {} /\ edge = FALSE /\ toXapp = {}
  /\ ipc = "idle" /\ imsg = NoReq /\ newId = NoReq /\ itodo = {} /\ idel = NoNode
  /\ map = {} /\ reqId = FirstReqId /\ served = 0
  /\ pending = {} /\ timers = {}
  /\ toNode = {} /\ nodeEdge = {} /\ active = [n \in Nodes |-> {}] /\ inds = 0 /\ rx = {}
  /\ wpc = [w \in Workers |-> "idle"] /\ wmsg = [w \in Workers |-> NoReq]
  /\ wdst = [w \in Workers |-> NoNode]
  /\ sockAddrs = Nodes /\ regNodes = Nodes
  /\ fault = "none"

XappStep(x) == \/ XappRequest(x, "SUBS") \/ XappRequest(x, "CTRL")
               \/ XappDelete(x) \/ XappLeaves(x)

IappStep == \/ \E m \in toIapp : IappReceive(m) \/ IappReceiveDelete(m)
            \/ IappAllocate \/ IappForward \/ IappAddMap
            \/ \E x \in failed : IappXappGone(x)
            \/ \E r \in itodo : IappDeletePend(r)
            \/ IappSendDelete

WorkerStep(w) == \/ WorkerStop(w) \/ WorkerClose(w) \/ WorkerFind(w)
                 \/ WorkerSend(w) \/ WorkerRemove(w)

Next ==
  /\ Running
  /\ \/ \E x \in XApps : XappStep(x)
     \/ \E m \in toXapp : XappAnswered(m) \/ XappIndication(m)
     \/ IappStep
     \/ \E m \in toNode : NodeAnswers(m)
     \/ \E n \in Nodes : NodeIndicates(n)
     \/ \E w \in Workers : WorkerStep(w) \/ (\E m \in rx : WorkerTake(w, m))
     \/ \E t \in timers : RicTimeout(t)

Spec == Init /\ [][Next]_vars

-----------------------------------------------------------------------------
(* Properties.                                                             *)

TypeXapps ==
  /\ xreq \in [XApps -> Request \union {NoReq}]
  /\ lid \in [XApps -> 1 .. MaxLocal + 1]
  /\ xsubs \in [XApps -> SUBSET Request]
  /\ alive \subseteq XApps /\ failed \subseteq XApps

TypeMessages ==
  /\ toIapp \subseteq Request /\ edge \in BOOLEAN /\ toXapp \subseteq ToXapp
  /\ toNode \subseteq ToNode /\ nodeEdge \subseteq Nodes /\ rx \subseteq FromNode

TypeIapp ==
  /\ ipc \in {"idle", "allocate", "forward", "addMap", "delete", "sendDelete"}
  /\ imsg \in Request \union {NoReq} /\ newId \in ReqIds \union {NoReq}
  /\ ipc \in {"allocate", "forward", "addMap"} => imsg \in Request /\ imsg.kind # "DEL"
  /\ ipc \in {"forward", "addMap"} => newId \in ReqIds
  /\ itodo \subseteq Route /\ idel \in Route \union {NoNode}
  /\ ipc = "sendDelete" => idel \in Route
  /\ ipc = "allocate" => served < MaxServed

TypeRic ==
  /\ map \subseteq Route /\ reqId \in ReqIds /\ served \in 0 .. MaxServed
  /\ pending \subseteq Pending /\ timers \subseteq Pending
  /\ sockAddrs \subseteq Nodes /\ regNodes \subseteq Nodes

TypeNodes ==
  /\ active \in [Nodes -> SUBSET [req : ReqIds, func : Funcs]]
  /\ inds \in 0 .. MaxInds

TypeWorkers ==
  /\ wpc \in [Workers -> {"idle", "stop", "close", "find", "send", "remove"}]
  /\ wmsg \in [Workers -> FromNode \union {NoReq}]
  /\ wdst \in [Workers -> Route \union {NoNode}]
  /\ \A w \in Workers : wpc[w] # "idle" => wmsg[w] \in FromNode
  /\ \A w \in Workers : wpc[w] \in {"send", "remove"} => wdst[w] \in Route

\* Type correctness of the request path.
TypeOK == /\ TypeXapps /\ TypeMessages /\ TypeIapp
          /\ TypeRic /\ TypeNodes /\ TypeWorkers

\* Why an assertion may fail at all: a timer (of a request, or of one whose
\* answer a worker is just handling); an xApp that left, when the answer to its
\* deletion overtakes another answer.
Excuse(a) ==
  CASE a = "consume_fd" -> SlowNodes
    [] a = "pend_event" -> SlowNodes /\ \E w \in Workers : wpc[w] = "close"
    [] a = "find_xapp_map_ric_id" ->
         alive # XApps /\ \E w \in Workers : wpc[w] = "find" /\ wmsg[w].kind = "SUBS"
    [] a = "rm_map_ric_id" ->
         alive # XApps /\ \E w \in Workers : wpc[w] = "remove" /\ wmsg[w].kind = "DEL"
    [] OTHER -> FALSE

\* No assertion of the RIC or the iApp fails, whatever the order in which the
\* iApp thread, the workers and the nodes take their steps, but for these causes;
\* with timely nodes and xApps that stay, none at all.
NoAbort == Running \/ Excuse(fault)

\* The routes of map_ric_id are one-to-one in both directions: a ric_req_id
\* leads to one xApp request and an xApp request to one ric_req_id, and the id
\* the iApp thread holds while it forwards is in no route yet.
RoutesOneToOne ==
  /\ \A r, s \in map : (r.req = s.req \/ (r.xapp = s.xapp /\ r.id = s.id)) => r = s
  /\ ipc \in {"forward", "addMap"} => RoutesOfReq(newId) = {}

\* An answer reaches an xApp only while that xApp waits for exactly it: a
\* lost, doubled or misrouted answer makes the SDK's own assertion fail.
AnswersExpected == \A m \in toXapp : m.kind \in Kinds => Answers(m)

\* The iApp forwards a delete only for a subscription of the xApp that asked.
DeletesOwnSubscription ==
  ipc \in {"delete", "sendDelete"} /\ imsg # NoReq /\ imsg.kind = "DEL"
     /\ imsg.xapp \in alive =>
  \A r \in itodo : r.xapp = imsg.xapp

\* A subscription its xApp has seen acknowledged, and has not asked to delete,
\* still has its route and is still served by its node; and a node streams only
\* for subscriptions the iApp can route (or is about to: its thread still holds
\* the map's lock).
SubscriptionsServed ==
  /\ \A x \in alive : \A s \in xsubs[x] :
       (xreq[x] = NoReq \/ xreq[x].id # s.id) =>
         \E r \in map : /\ r.xapp = x /\ r.id = s.id /\ r.func = s.func /\ r.node = s.node
                        /\ [req |-> r.req, func |-> r.func] \in active[r.node]
  /\ \A n \in Nodes : \A s \in active[n] :
       \/ \E r \in RoutesOfReq(s.req) : r.kind = "SUBS" /\ r.node = n
       \/ ipc \in {"forward", "addMap"} /\ newId = s.req

\* The worker that carries an answer for a ric_req_id.
Carried(kind, req) ==
  \E w \in Workers : wpc[w] # "idle" /\ wmsg[w].kind = kind /\ wmsg[w].req = req

\* No route leaks: a control route is in the map only while its answer is
\* outstanding, and a pending event only while its request has a route.
PendingRouted ==
  /\ \A r \in map : r.kind = "CTRL" =>
       (\E p \in pending : p.kind = "CTRL" /\ p.req = r.req) \/ Carried("CTRL", r.req)
  /\ \A p \in pending : p.kind # "DEL" =>
       \/ \E r \in RoutesOfReq(p.req) : r.kind = p.kind
       \/ ipc \in {"forward", "addMap"} /\ newId = p.req
  /\ \A t \in timers : t \in pending \/ Carried(t.kind, t.req)

-----------------------------------------------------------------------------
(* The service the routing implements.  A stream is a subscription a node  *)
(* serves, named by the xApp's request the node's ric_req_id stands for.   *)

RouteBeingAdded ==
  IF ipc = "addMap"
  THEN {[kind |-> imsg.kind, req |-> newId, node |-> imsg.node, xapp |-> imsg.xapp,
         id |-> imsg.id, func |-> imsg.func]}
  ELSE {}

Streams ==
  {[kind |-> "SUBS", xapp |-> r.xapp, id |-> r.id, func |-> r.func, node |-> r.node] :
     r \in {q \in map \union RouteBeingAdded :
              [req |-> q.req, func |-> q.func] \in active[q.node]}}

Service == INSTANCE RequestService
             WITH Requests <- Request, waiting <- xreq, streams <- Streams,
                  gone <- XApps \ alive

\* Every behaviour of the routing is one of the service: an answer follows its
\* effect, and a stream starts and stops for its own xApp alone.
ServiceSpec == Service!Spec

-----------------------------------------------------------------------------
(* Liveness.  The threads run until they block, the network delivers, and  *)
(* an agent reads one message of those its epoll reports: a message that   *)
(* has used no report up may stay unread for ever.                         *)

Fairness ==
  /\ WF_vars(Running /\ IappStep)
  /\ \A w \in Workers : WF_vars(Running /\ (WorkerStep(w) \/ \E m \in rx : WorkerTake(w, m)))
  /\ WF_vars(Running /\ \E m \in toNode : NodeAnswers(m))
  /\ WF_vars(Running /\ \E m \in toXapp : XappAnswered(m) \/ XappIndication(m))

FairSpec == Spec /\ Fairness

\* Every request the iApp has read is answered, if its xApp stays and the RIC
\* does not stop, as long as one xApp alone has requests out: one that is sent
\* to a node right after that of another xApp may stay unread there.
RequestsAnswered ==
  \A x \in XApps : xreq[x] # NoReq /\ xreq[x] \notin toIapp
                    ~> xreq[x] = NoReq \/ x \notin alive \/ ~Running

\* e42_xapp.c:297-299: every request is answered (in time), so the iApp reads it.
RequestsRead ==
  \A x \in XApps : xreq[x] # NoReq ~> xreq[x] = NoReq \/ x \notin alive

\* No route and no stream of x are left.
Forgotten(x) == (\A r \in map : r.xapp # x) /\ (\A s \in Streams : s.xapp # x)

\* The iApp has taken the disconnection of x up: it deletes subscriptions that
\* no request asks it to delete.
Reclaiming(x) == imsg = NoReq /\ \E r \in itodo : r.xapp = x

\* The request of route r, or its delete, waits at the node.
LeftUnread(r) == \E m \in toNode : m.req = r.req /\ m.node = r.node

\* Once the iApp has taken up that an xApp left, no route of the xApp stays, but
\* one with a message that its agent never reads: of the deletes the iApp sends
\* back to back all but one may be left.  The delete of the only route is read,
\* when no message waits before it, and then nothing of the xApp survives.
RoutesReclaimed ==
  \A x \in XApps :
    /\ Reclaiming(x) ~> ~Running \/ [](\A r \in map : r.xapp = x => LeftUnread(r))
    /\ Reclaiming(x) /\ (\A r \in map : r.xapp = x => itodo = {r}) /\ toNode = {}
         ~> ~Running \/ Forgotten(x)
===============================================================================
