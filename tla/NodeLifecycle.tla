---------------------------- MODULE NodeLifecycle ----------------------------
(***************************************************************************)
(* How E2 nodes come and go at the near-RT RIC.  The RIC keeps a node in   *)
(* three places: its socket address (e2ap_ep_ric_t.e2_nodes), the list of  *)
(* connected nodes and the registry of the iApp.  A worker fills them one  *)
(* by one when it handles the setup request; the event loop empties them   *)
(* when the association is shut down; the iApp thread looks nodes up for   *)
(* the xApps; the main thread in the end stops and frees everything.       *)
(* A false assert() is Abort.                                              *)
(*                                                                         *)
(* Nodes, xApps and the network are the environment.  A calm one does not  *)
(* repeat a setup request, keeps a node until its setup is answered and    *)
(* nobody uses it, and is quiet when the RIC is stopped; the others do one *)
(* of these.                                                               *)
(***************************************************************************)
EXTENDS Naturals, Sequences, FiniteSets

CONSTANTS
  Nodes,        \* global_e2_node_id_t of the nodes
  XApps,        \* the xApps
  Workers,      \* threads of the task manager
  MaxJoins,     \* bound: associations, each with an address of its own
  MaxResends,   \* bound: setup requests sent again
  MaxReqs,      \* bound: setup and subscription requests of xApps
  Envs,         \* the environments considered
  NoMsg         \* model value: no message in hand

ASSUME NodeAssumption ==
  /\ MaxJoins \in Nat /\ MaxResends \in Nat /\ MaxReqs \in Nat
  /\ Envs \subseteq {"calm", "repeats", "leaves", "hasty"}
  /\ IsFiniteSet(Workers)

\* A message of a node's association; k tells a request from its repetition.
NodeMsg == [kind : {"SETUP", "SHUTDOWN"}, node : Nodes, addr : 1 .. MaxJoins, k : 0 .. MaxResends]
XappMsg == [kind : {"SETUP", "SUBS", "DEL", "LEAVE"}, xapp : XApps, node : Nodes \union {NoMsg}]
Route == [xapp : XApps, node : Nodes, ending : BOOLEAN]

ASSUME NoMsgAssumption == NoMsg \notin Nodes \union NodeMsg \union XappMsg

VARIABLES
  rx,                     \* messages of the nodes, in the order they arrived
  lpc, lnode,             \* event loop: position, the node being removed
  tasks, wpc, wmsg,       \* setup requests queued; workers and theirs
  sads, conn, reg,        \* addresses; connected nodes; nodes of the iApp
  answers,                \* setup responses under way
  toIapp, ipc, imsg, idel,  \* iApp thread: requests, its position, request, routes to delete
  routes,                 \* map_ric_id: subscriptions
  view,                   \* xApp: nodes of its setup response
  mpc,                    \* main thread: how far the stop has come
  xapp, node, addr,       \* environment: xApps, nodes and the nodes' addresses
  joins, resends, reqs,   \* ... and what has been counted
  env, fault              \* the environment; the assertion that failed, or "none"

loopVars == <<rx, lpc, lnode>>
workVars == <<tasks, wpc, wmsg, answers>>
regVars  == <<sads, conn, reg>>
iappVars == <<toIapp, ipc, imsg, idel, routes>>
xappVars == <<view, xapp, reqs>>
nodeVars == <<node, addr, joins, resends>>
dataVars == <<loopVars, workVars, regVars, iappVars, xappVars, mpc, nodeVars>>
vars == <<dataVars, env, fault>>

Running == fault = "none"
Abort(a) == fault' = a /\ UNCHANGED dataVars
\* What the environment does not do.
Patient == env # "repeats"   \* send a setup request again
Orderly == env # "leaves"    \* let a node leave that is in use or not set up, or crash
Quiet == env # "hasty"       \* stop the RIC while xApps talk to it

\* Memory of the RIC is freed before the iApp's thread is stopped.
RicFreed == mpc \in {"freeing", "freed"}

AddressesOf(n) == {m \in sads : m.node = n}
RoutesTo(n) == {r \in routes : r.node = n}
RoutesOf(x) == {r \in routes : r.xapp = x}

\* What the event loop hands to the workers.
IsSetup(m) == m.kind = "SETUP"

\* A worker registers a node in three steps before it answers.
NeverAnswers(s) ==
  CASE s = "register" -> "connect" [] s = "connect" -> "idle" [] s = "answer" -> "idle"
AnswersOnAndOn(s) ==
  CASE s = "register" -> "connect" [] s = "connect" -> "answer" [] s = "answer" -> "answer"
AnswerFirst(s) ==
  CASE s = "register" -> "answer" [] s = "answer" -> "connect" [] s = "connect" -> "idle"
StepAfter(s) ==
  CASE s = "register" -> "connect" [] s = "connect" -> "answer" [] s = "answer" -> "idle"

\* notification_handle_ric forgets it in three steps.
ForgetsNotInIapp(s) == CASE s = "unconn" -> "idle" [] s = "unreg" -> "idle"
ForgetsNext(s) == CASE s = "unconn" -> "unreg" [] s = "unreg" -> "idle"

\* The entries of a node in conn_e2_nodes.
ConnOf(n) == {m \in conn : m.node = n}

\* free_task_manager joins the workers.
WorkersJoined == \A w \in Workers : wpc[w] = "idle"

-----------------------------------------------------------------------------
(* The event loop: next_asio_event_ric, e2_event_loop_ric.                 *)

\* A payload becomes a task of the workers.
LoopTask ==
  /\ lpc = "idle" /\ rx # <<>> /\ IsSetup(Head(rx))
  /\ rx' = Tail(rx)
  /\ tasks' = tasks \union {Head(rx)}
  /\ UNCHANGED <<lpc, lnode, wpc, wmsg, answers, regVars, iappVars, xappVars, mpc,
                 nodeVars, fault>>

\* notification_handle_ric: bi_map_extract_right takes the address out of one
\* tree and then its node out of the other ...
LoopShutdown ==
  /\ lpc = "idle" /\ rx # <<>> /\ Head(rx).kind = "SHUTDOWN"
  /\ LET found == {m \in sads : m.addr = Head(rx).addr}
     IN  IF found = {} THEN Abort("rm_map_sad_e2_node")
         ELSE \E e \in found : \E z \in AddressesOf(e.node) :
                IF z.addr # e.addr THEN Abort("bi_map_extract_right")
                ELSE /\ sads' = sads \ {e} /\ lnode' = e.node
                     /\ rx' = Tail(rx) /\ lpc' = "unconn"
                     /\ UNCHANGED <<workVars, conn, reg, iappVars, xappVars, mpc,
                                    nodeVars, fault>>

\* ... then the node is erased under conn_e2_nodes_mtx ...
LoopUnconnect ==
  /\ lpc = "unconn"
  /\ IF ConnOf(lnode) = {} THEN Abort("notification_handle_ric")
     ELSE /\ \E c \in ConnOf(lnode) : conn' = conn \ {c}
          /\ lpc' = ForgetsNext(lpc)
          /\ UNCHANGED <<rx, lnode, workVars, sads, reg, iappVars, xappVars, mpc,
                         nodeVars, fault>>

\* ... and removed from the iApp's registry.
LoopUnregister ==
  /\ lpc = "unreg"
  /\ IF lnode \notin reg THEN Abort("rm_reg_e2_node")
     ELSE /\ reg' = reg \ {lnode}
          /\ lpc' = ForgetsNext(lpc)
          /\ UNCHANGED <<rx, lnode, workVars, sads, conn, iappVars, xappVars, mpc,
                         nodeVars, fault>>

\* stop_token is seen between two rounds of events; then server_stopped.
LoopStop ==
  /\ lpc = "idle" /\ mpc = "stopping"
  /\ lpc' = "stopped"
  /\ UNCHANGED <<rx, lnode, workVars, regVars, iappVars, xappVars, mpc, nodeVars, fault>>

-----------------------------------------------------------------------------
(* The workers: sctp_msg_arrived_event with a setup request.               *)

GoesOn(w) ==
  LET next == StepAfter(wpc[w])
  IN  /\ wpc' = [wpc EXCEPT ![w] = next]
      /\ wmsg' = [wmsg EXCEPT ![w] = IF next = "idle" THEN NoMsg ELSE @]

\* A task is taken, and its address added, whether or not it is there.
WorkerAddress(w) ==
  /\ wpc[w] = "idle" /\ mpc \in {"serving", "stopping"}
  /\ \E m \in tasks :
       /\ tasks' = tasks \ {m}
       /\ sads' = sads \union {m}
       /\ wmsg' = [wmsg EXCEPT ![w] = m]
  /\ wpc' = [wpc EXCEPT ![w] = "register"]
  /\ UNCHANGED <<loopVars, answers, conn, reg, iappVars, xappVars, mpc, nodeVars, fault>>

\* add_reg_e2_node
WorkerRegister(w) ==
  /\ wpc[w] = "register"
  /\ IF wmsg[w].node \in reg THEN Abort("add_reg_e2_node")
     ELSE /\ reg' = reg \union {wmsg[w].node}
          /\ GoesOn(w)
          /\ UNCHANGED <<loopVars, tasks, answers, sads, conn, iappVars, xappVars,
                         mpc, nodeVars, fault>>

\* conn_e2_nodes under its mutex ...
WorkerConnect(w) ==
  /\ wpc[w] = "connect"
  /\ conn' = conn \union {wmsg[w]}
  /\ GoesOn(w)
  /\ UNCHANGED <<loopVars, tasks, answers, sads, reg, iappVars, xappVars, mpc,
                 nodeVars, fault>>

\* ... and the response goes where the request came from.
WorkerAnswer(w) ==
  /\ wpc[w] = "answer"
  /\ answers' = answers \union {wmsg[w]}
  /\ GoesOn(w)
  /\ UNCHANGED <<loopVars, tasks, regVars, iappVars, xappVars, mpc, nodeVars, fault>>

-----------------------------------------------------------------------------
(* The iApp's thread: lookups of nodes for the xApps.                       *)

IappReads(kind) == ipc = "idle" /\ toIapp # <<>> /\ Head(toIapp).kind = kind

\* e2ap_handle_e42_setup_request_iapp: a copy of the registry.
IappSetup ==
  /\ IappReads("SETUP")
  /\ toIapp' = Tail(toIapp)
  /\ view' = [view EXCEPT ![Head(toIapp).xapp] = reg]
  /\ UNCHANGED <<loopVars, workVars, regVars, ipc, imsg, idel, routes, xapp, reqs, mpc,
                 nodeVars, fault>>

\* e2ap_handle_e42_ric_subscription_request_iapp: the node is looked up in the
\* registry ...
IappCheck ==
  /\ IappReads("SUBS")
  /\ IF Head(toIapp).node \notin reg THEN Abort("valid_global_e2_node")
     ELSE /\ toIapp' = Tail(toIapp)
          /\ imsg' = Head(toIapp) /\ ipc' = "send"
          /\ UNCHANGED <<loopVars, workVars, regVars, idel, routes, xappVars, mpc,
                         nodeVars, fault>>

\* ... and its address when the request is forwarded; then the route is added.
IappSend ==
  /\ ipc = "send"
  /\ IF RicFreed THEN Abort("use_after_free")
     ELSE IF AddressesOf(imsg.node) = {} THEN Abort("find_map_e2_node_sad")
     ELSE /\ routes' = routes \union
                       {[xapp |-> imsg.xapp, node |-> imsg.node, ending |-> FALSE]}
          /\ ipc' = "idle" /\ imsg' = NoMsg
          /\ UNCHANGED <<loopVars, workVars, regVars, toIapp, idel, xappVars, mpc,
                         nodeVars, fault>>

\* A delete, or the end of the xApp's association: routes to delete.
IappDelete ==
  /\ IappReads("DEL") \/ IappReads("LEAVE")
  /\ toIapp' = Tail(toIapp)
  /\ LET m == Head(toIapp)
         todo == {r \in routes : r.xapp = m.xapp /\ (m.kind = "DEL" => r.node = m.node)}
     IN  idel' = todo /\ ipc' = IF todo = {} THEN "idle" ELSE "delete"
  /\ UNCHANGED <<loopVars, workVars, regVars, imsg, routes, xappVars, mpc, nodeVars, fault>>

\* fwd_ric_subscription_request_delete, unless one is pending already.
IappForwardDelete(r) ==
  /\ ipc = "delete" /\ r \in idel
  /\ LET asked == [r EXCEPT !.ending = TRUE]
     IN  IF RicFreed THEN Abort("use_after_free")
         ELSE IF asked \notin routes /\ AddressesOf(r.node) = {}
         THEN Abort("find_map_e2_node_sad")
         ELSE /\ routes' = IF r \in routes THEN (routes \ {r}) \union {asked} ELSE routes
              /\ idel' = idel \ {r}
              /\ ipc' = IF idel = {r} THEN "idle" ELSE "delete"
              /\ UNCHANGED <<loopVars, workVars, regVars, toIapp, imsg, xappVars, mpc,
                             nodeVars, fault>>

\* The loop of the iApp sees its stop_token.
IappStop ==
  /\ ipc = "idle" /\ mpc = "freeing"
  /\ ipc' = "stopped"
  /\ UNCHANGED <<loopVars, workVars, regVars, toIapp, imsg, idel, routes, xappVars,
                 mpc, nodeVars, fault>>

-----------------------------------------------------------------------------
(* The main thread.                                                         *)

\* free_near_ric: stop_token; ... (A bound: only where the nodes behave.)
MainStop ==
  /\ mpc = "serving" /\ Patient /\ Orderly
  /\ Quiet => toIapp = <<>> /\ ipc = "idle"
  /\ mpc' = "stopping"
  /\ UNCHANGED <<loopVars, workVars, regVars, iappVars, xappVars, nodeVars, fault>>

\* ... the event loop has ended and the workers are joined; ...
MainJoin ==
  /\ mpc = "stopping" /\ lpc = "stopped" /\ WorkersJoined
  /\ mpc' = "joined"
  /\ UNCHANGED <<loopVars, workVars, regVars, iappVars, xappVars, nodeVars, fault>>

\* ... endpoint, nodes and pending events are freed, the iApp is told; ...
MainFree ==
  /\ mpc = "joined"
  /\ mpc' = "freeing"
  /\ sads' = {} /\ conn' = {} /\ tasks' = {}
  /\ UNCHANGED <<loopVars, wpc, wmsg, answers, reg, iappVars, xappVars, nodeVars, fault>>

\* ... it has stopped, and its registry and its routes are freed.
MainFreeIapp ==
  /\ mpc = "freeing" /\ ipc = "stopped"
  /\ mpc' = "freed"
  /\ reg' = {} /\ routes' = {}
  /\ UNCHANGED <<loopVars, workVars, sads, conn, toIapp, ipc, imsg, idel, xappVars, nodeVars, fault>>

-----------------------------------------------------------------------------
(* The nodes.                                                              *)

Request(n) == [kind |-> "SETUP", node |-> n, addr |-> addr[n], k |-> 0]

\* A process starts, with a socket of its own, and asks for the setup.
NodeJoins(n) ==
  /\ node[n] = "out" /\ ~RicFreed /\ joins < MaxJoins
  /\ joins' = joins + 1
  /\ addr' = [addr EXCEPT ![n] = joins + 1]
  /\ node' = [node EXCEPT ![n] = "asked"]
  /\ rx' = Append(rx, [Request(n) EXCEPT !.addr = joins + 1])
  /\ UNCHANGED <<lpc, lnode, workVars, regVars, iappVars, xappVars, mpc, resends, fault>>

\* Not answered within 3 s, it asks again.
NodeResends(n) ==
  /\ ~Patient /\ ~RicFreed /\ node[n] = "asked" /\ resends < MaxResends
  /\ resends' = resends + 1
  /\ rx' = Append(rx, [Request(n) EXCEPT !.k = resends + 1])
  /\ UNCHANGED <<lpc, lnode, workVars, regVars, iappVars, xappVars, mpc, node, addr,
                 joins, fault>>

NodeHears(m) ==
  /\ m \in answers /\ ~RicFreed
  /\ answers' = answers \ {m}
  /\ node' = [node EXCEPT ![m.node] = IF @ = "asked" /\ addr[m.node] = m.addr THEN "up" ELSE @]
  /\ UNCHANGED <<loopVars, tasks, wpc, wmsg, regVars, iappVars, xappVars, mpc, addr,
                 joins, resends, fault>>

Used(n) ==
  \/ RoutesTo(n) # {}
  \/ imsg # NoMsg /\ imsg.node = n
  \/ \E r \in idel : r.node = n
  \/ \E i \in DOMAIN toIapp : toIapp[i].node = n

\* Its process ends and the association is shut down; a node that crashes or
\* is cut off sends no shutdown.
NodeLeaves(n) ==
  /\ node[n] # "out" /\ ~RicFreed
  /\ Orderly => node[n] = "up" /\ ~Used(n)
  /\ node' = [node EXCEPT ![n] = "out"]
  /\ \/ rx' = Append(rx, [Request(n) EXCEPT !.kind = "SHUTDOWN"])
     \/ ~Orderly /\ rx' = rx
  /\ UNCHANGED <<lpc, lnode, workVars, regVars, iappVars, xappVars, mpc, addr, joins,
                 resends, fault>>

\* The node's answer to a delete ends the route.
NodeDeletes(r) ==
  /\ r \in routes /\ r.ending /\ node[r.node] = "up" /\ ~RicFreed
  /\ routes' = routes \ {r}
  /\ UNCHANGED <<loopVars, workVars, regVars, toIapp, ipc, imsg, idel, xappVars, mpc,
                 nodeVars, fault>>

-----------------------------------------------------------------------------
(* The xApps.                                                              *)

XappSends(kind, x, n) ==
  /\ mpc = "serving" \/ (~Quiet /\ mpc # "freed")
  /\ toIapp' = Append(toIapp, [kind |-> kind, xapp |-> x, node |-> n])
  /\ UNCHANGED <<loopVars, workVars, regVars, ipc, imsg, idel, routes, view, mpc,
                 nodeVars, fault>>

\* An xApp waits for the iApp before it asks again.
Waits(x) ==
  \/ \E i \in DOMAIN toIapp : toIapp[i].xapp = x
  \/ imsg # NoMsg /\ imsg.xapp = x
  \/ \E r \in idel : r.xapp = x

XappSetup(x) ==
  /\ xapp[x] = "new" /\ xapp' = [xapp EXCEPT ![x] = "running"]
  /\ UNCHANGED reqs
  /\ XappSends("SETUP", x, NoMsg)

\* report_sm_xapp_api: to a node of the setup response, one subscription each.
XappSubscribes(x, n) ==
  /\ xapp[x] = "running" /\ ~Waits(x) /\ n \in view[x] /\ RoutesTo(n) \cap RoutesOf(x) = {}
  /\ Orderly => node[n] = "up"
  /\ reqs < MaxReqs /\ reqs' = reqs + 1 /\ UNCHANGED xapp
  /\ XappSends("SUBS", x, n)

\* rm_report_sm_xapp_api
XappUnsubscribes(x, n) ==
  /\ xapp[x] = "running" /\ ~Waits(x)
  /\ \E r \in RoutesTo(n) \cap RoutesOf(x) : ~r.ending
  /\ UNCHANGED <<xapp, reqs>>
  /\ XappSends("DEL", x, n)

\* The xApp's process ends, whatever it waits for; the iApp is not told.
XappLeaves(x) ==
  /\ xapp[x] = "running" /\ xapp' = [xapp EXCEPT ![x] = "gone"]
  /\ UNCHANGED <<loopVars, workVars, regVars, iappVars, view, reqs, mpc, nodeVars, fault>>

\* An answer or an indication was sent to an xApp that is gone: the failed send is
\* reported to the iApp some time later, perhaps once more for another one.
SendReported(x) ==
  /\ xapp[x] = "gone" /\ RoutesOf(x) # {} /\ ~Waits(x)
  /\ UNCHANGED <<xapp, reqs>>
  /\ XappSends("LEAVE", x, NoMsg)

-----------------------------------------------------------------------------
Init ==
  /\ rx = <<>> /\ lpc = "idle" /\ lnode = NoMsg
  /\ tasks = {} /\ wpc = [w \in Workers |-> "idle"] /\ wmsg = [w \in Workers |-> NoMsg]
  /\ answers = {}
  /\ sads = {} /\ conn = {} /\ reg = {}
  /\ toIapp = <<>> /\ ipc = "idle" /\ imsg = NoMsg /\ idel = {} /\ routes = {}
  /\ view = [x \in XApps |-> {}] /\ xapp = [x \in XApps |-> "new"] /\ reqs = 0
  /\ mpc = "serving"
  /\ node = [n \in Nodes |-> "out"] /\ addr = [n \in Nodes |-> 0] /\ joins = 0 /\ resends = 0
  /\ env \in Envs /\ fault = "none"

Loop == LoopTask \/ LoopShutdown \/ LoopUnconnect \/ LoopUnregister \/ LoopStop
Worker(w) == WorkerAddress(w) \/ WorkerRegister(w) \/ WorkerConnect(w) \/ WorkerAnswer(w)
Iapp ==
  \/ IappSetup \/ IappCheck \/ IappSend \/ IappDelete \/ IappStop
  \/ \E r \in idel : IappForwardDelete(r)
MainFrees == MainJoin \/ MainFree \/ MainFreeIapp

Next ==
  /\ Running /\ UNCHANGED env
  /\ \/ Loop \/ Iapp \/ \E w \in Workers : Worker(w)
     \/ MainStop \/ MainFrees
     \/ \E n \in Nodes : NodeJoins(n) \/ NodeResends(n) \/ NodeLeaves(n)
     \/ \E m \in answers : NodeHears(m)
     \/ \E r \in routes : NodeDeletes(r)
     \/ \E x \in XApps : XappSetup(x) \/ XappLeaves(x) \/ SendReported(x)
     \/ \E x \in XApps, n \in Nodes : XappSubscribes(x, n) \/ XappUnsubscribes(x, n)

Spec == Init /\ [][Next]_vars

-----------------------------------------------------------------------------
(* Properties.                                                             *)

\* Type correctness of the RIC's registries and of its threads.
TypeOK ==
  /\ \A i \in DOMAIN rx : rx[i] \in NodeMsg
  /\ lpc \in {"idle", "unconn", "unreg", "stopped"} /\ lnode \in Nodes \union {NoMsg}
  /\ tasks \subseteq {m \in NodeMsg : m.kind = "SETUP"} /\ answers \subseteq NodeMsg
  /\ wpc \in [Workers -> {"idle", "register", "connect", "answer"}]
  /\ \A w \in Workers : wmsg[w] \in IF wpc[w] = "idle" THEN {NoMsg} ELSE NodeMsg
  /\ sads \subseteq NodeMsg /\ conn \subseteq NodeMsg /\ reg \subseteq Nodes
  /\ \A i \in DOMAIN toIapp : toIapp[i] \in XappMsg
  /\ ipc \in {"idle", "send", "delete", "stopped"} /\ imsg \in XappMsg \union {NoMsg}
  /\ idel \subseteq Route /\ routes \subseteq Route /\ (ipc = "delete" <=> idel # {})
  /\ view \in [XApps -> SUBSET Nodes] /\ xapp \in [XApps -> {"new", "running", "gone"}]
  /\ mpc \in {"serving", "stopping", "joined", "freeing", "freed"}
  /\ node \in [Nodes -> {"out", "asked", "up"}] /\ addr \in [Nodes -> 0 .. MaxJoins]
  /\ joins \in 0 .. MaxJoins /\ resends \in 0 .. MaxResends
  /\ reqs \in 0 .. MaxReqs /\ env \in Envs

\* What may fail in an environment that is not calm.
Excused ==
  CASE env = "repeats" -> {"add_reg_e2_node", "bi_map_extract_right"}
    [] env = "hasty" -> {"use_after_free"}
    [] env = "leaves" -> {"rm_map_sad_e2_node", "bi_map_extract_right", "notification_handle_ric",
                          "add_reg_e2_node", "valid_global_e2_node", "find_map_e2_node_sad"}
    [] env = "calm" -> {}

\* No assertion of the RIC fails and no thread uses what another has freed, in
\* any order of the event loop, the workers, the iApp and the main thread, but
\* for what the environment brings about.
NoAbort == fault \in {"none"} \union Excused

Serving == mpc \notin {"freeing", "freed"}
BeingRegistered(n) == \E w \in Workers : wmsg[w] # NoMsg /\ wmsg[w].node = n
BeingForgotten(n) == lpc \in {"unconn", "unreg"} /\ lnode = n

\* The three registries hold the same nodes, but for a node whose setup or
\* shutdown is being handled.
RegistriesAgree ==
  Serving => \A n \in Nodes : ~BeingRegistered(n) /\ ~BeingForgotten(n) =>
    /\ n \in reg <=> AddressesOf(n) # {}
    /\ n \in reg <=> ConnOf(n) # {}

\* A node that has its setup response can be reached: it is in all three, with
\* the address it has now, whatever was left of its earlier associations.
AnsweredIsReachable ==
  Serving => \A n \in Nodes : node[n] = "up" =>
    /\ n \in reg
    /\ \E m \in sads : m.node = n /\ m.addr = addr[n]
    /\ \E m \in conn : m.node = n /\ m.addr = addr[n]

\* What map_e2_node_sockaddr.c asserts: "E2 Node not found in the tree".
LookupsFound == fault # "find_map_e2_node_sad"

-----------------------------------------------------------------------------
(* Liveness: every thread runs, and responses are delivered.               *)

Step(A) == Running /\ A /\ UNCHANGED env
Fairness ==
  /\ WF_vars(Step(Loop)) /\ WF_vars(Step(Iapp)) /\ WF_vars(Step(MainFrees))
  /\ \A w \in Workers : WF_vars(Step(Worker(w)))
  /\ WF_vars(Step(\E m \in answers : NodeHears(m)))

FairSpec == Spec /\ Fairness

Open == mpc = "serving"

Unknown(n) == n \notin reg /\ AddressesOf(n) = {} /\ ConnOf(n) = {}

\* A node that asks is set up, also when it comes back, and one that is gone is
\* forgotten by all three registries.
NodesSettle ==
  \A n \in Nodes :
    /\ node[n] = "asked" ~> node[n] # "asked" \/ ~Open \/ ~Running
    /\ node[n] = "out" /\ n \in reg /\ Orderly /\ Patient
         ~> node[n] # "out" \/ Unknown(n) \/ ~Open \/ ~Running

\* free_near_ric returns.
StopCompletes == mpc = "stopping" ~> mpc = "freed" \/ ~Running
==============================================================================
