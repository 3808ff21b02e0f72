------------------------- MODULE NodeLifecycleProofs -------------------------
(***************************************************************************)
(* Theorems about NodeLifecycle, for any number of nodes, xApps, workers,  *)
(* associations and requests, in each of its environments.                 *)
(***************************************************************************)
EXTENDS NodeLifecycle, FiniteSetTheorems, TLAPS

-----------------------------------------------------------------------------
(* The inductive invariant.                                                *)

NodeTypes ==
  /\ rx \in Seq(NodeMsg)
  /\ lpc \in {"idle", "unconn", "unreg", "stopped"} /\ lnode \in Nodes \union {NoMsg}
  /\ lpc \in {"unconn", "unreg"} => lnode \in Nodes
  /\ tasks \subseteq NodeMsg /\ answers \subseteq NodeMsg
  /\ wpc \in [Workers -> {"idle", "register", "connect", "answer"}]
  /\ wmsg \in [Workers -> NodeMsg \union {NoMsg}]
  /\ \A w \in Workers : wpc[w] = "idle" <=> wmsg[w] = NoMsg
  /\ sads \subseteq NodeMsg /\ conn \subseteq NodeMsg /\ reg \subseteq Nodes
  /\ \A m \in tasks \union sads : m.kind = "SETUP"
  /\ mpc \in {"serving", "stopping", "joined", "freeing", "freed"}
  /\ node \in [Nodes -> {"out", "asked", "up"}] /\ addr \in [Nodes -> 0 .. MaxJoins]
  /\ joins \in 0 .. MaxJoins /\ resends \in 0 .. MaxResends

IappTypes ==
  /\ toIapp \in Seq(XappMsg)
  /\ ipc \in {"idle", "send", "delete", "stopped"} /\ imsg \in XappMsg \union {NoMsg}
  /\ ipc = "send" <=> imsg # NoMsg
  /\ imsg # NoMsg => imsg.kind = "SUBS" /\ imsg.node \in Nodes
  /\ \A i \in 1 .. Len(toIapp) : toIapp[i].kind = "SUBS" => toIapp[i].node \in Nodes
  /\ idel \subseteq Route /\ routes \subseteq Route /\ (ipc = "delete" <=> idel # {})
  /\ view \in [XApps -> SUBSET Nodes] /\ xapp \in [XApps -> {"new", "running", "gone"}]
  /\ reqs \in 0 .. MaxReqs

Types == NodeTypes /\ IappTypes /\ env \in Envs

\* The order of the stop: event loop and workers end before memory is freed, the
\* iApp's thread after.
StopOrder ==
  /\ mpc \in {"joined", "freeing", "freed"} => lpc = "stopped" /\ WorkersJoined
  /\ lpc = "stopped" => mpc # "serving"
  /\ mpc = "freed" => ipc = "stopped"
  /\ Quiet /\ mpc # "serving" => toIapp = <<>> /\ ipc \in {"idle", "stopped"}

\* Where a message of a node is: in the queue of the event loop, or further.
InRx(m) == \E i \in 1 .. Len(rx) : rx[i] = m
AtWorker(m) == \E w \in Workers : wpc[w] # "idle" /\ wmsg[w] = m
Handled(m) == m \in tasks \union sads \union conn \union answers \/ AtWorker(m)
Known(m) == InRx(m) \/ Handled(m)

\* An address is of one node, the latest is the largest.
Addresses ==
  /\ \A m, z \in NodeMsg : Known(m) /\ Known(z) /\ m.addr = z.addr => m.node = z.node
  /\ \A m \in NodeMsg : Known(m) => /\ m.addr <= joins /\ m.k <= resends
                                    /\ \A n \in Nodes : m.addr = addr[n] => m.node = n
  /\ \A n \in Nodes : /\ addr[n] <= joins /\ (node[n] # "out" => addr[n] # 0)
                      /\ \A o \in Nodes : addr[n] = addr[o] /\ addr[n] # 0 => n = o

\* A request is handled once.
Once ==
  /\ \A i, j \in 1 .. Len(rx) : rx[i].kind = "SETUP" /\ rx[i] = rx[j] => i = j
  /\ \A i \in 1 .. Len(rx) : rx[i].kind = "SETUP" => rx[i] \notin tasks \union sads
  /\ \A m \in tasks : m \notin sads

\* The addresses of a node: one for each worker about to register it, and one if it is
\* registered, unless it is being forgotten.
Registering(n) == {w \in Workers : wpc[w] = "register" /\ wmsg[w].node = n}
One(p) == IF p THEN 1 ELSE 0
Balance ==
  /\ IsFiniteSet(sads)
  /\ Serving => \A n \in Nodes :
       Cardinality(AddressesOf(n)) + One(BeingForgotten(n))
         = Cardinality(Registering(n)) + One(n \in reg)

\* A registered node is about to be connected, or connected, or just disconnected, and
\* connected once.
Connecting(w, n) == wpc[w] = "connect" /\ wmsg[w].node = n
Forgotten(n) == lpc = "unreg" /\ lnode = n
OneStage ==
  Serving => \A n \in Nodes :
    /\ n \in reg <=> \/ ConnOf(n) # {} \/ Forgotten(n)
                     \/ \E w \in Workers : Connecting(w, n)
    /\ Forgotten(n) => ConnOf(n) = {}
    /\ \A c, d \in ConnOf(n) : c = d
    /\ \A w \in Workers : Connecting(w, n) =>
         ConnOf(n) = {} /\ ~Forgotten(n) /\ \A v \in Workers : Connecting(v, n) => v = w

\* Of a node that is back, nothing is handled before what is left of its earlier
\* associations.
Shuts(i, n) == rx[i].kind = "SHUTDOWN" /\ rx[i].node = n
Current(m, n) == m.node = n /\ m.addr = addr[n]
Ordered(n, r) ==
  /\ \A i \in 1 .. Len(rx) : Shuts(i, n) => \E j \in i + 1 .. Len(rx) : rx[j] = r
  /\ BeingForgotten(n) => \E i \in 1 .. Len(rx) : rx[i] = r
  /\ (\E i \in 1 .. Len(rx) : rx[i] = r) =>
       node[n] = "asked" /\ \A m \in NodeMsg : Current(m, n) => ~Handled(m)
  /\ \A i, j \in 1 .. Len(rx) :
       rx[i] = r /\ rx[j].kind = "SETUP" /\ Current(rx[j], n) => i <= j
InOrder == \A n \in Nodes : node[n] # "out" => Ordered(n, Request(n))

\* What was done for the association a node has now.
Answered(n) == \/ node[n] = "up" \/ \E m \in answers : Current(m, n)
               \/ \E w \in Workers : wpc[w] = "answer" /\ Current(wmsg[w], n)
AtStage(n, stages) == \E w \in Workers : wpc[w] \in stages /\ Current(wmsg[w], n)
Reachable ==
  \A n \in Nodes : node[n] # "out" =>
    /\ Serving /\ (Answered(n) \/ AtStage(n, {"register", "connect", "answer"})) =>
         \E s \in sads : Current(s, n)
    /\ mpc # "freed" /\ (Answered(n) \/ AtStage(n, {"connect"})) => n \in reg
    /\ Serving /\ Answered(n) => \E c \in conn : Current(c, n)

\* Nodes that leave only when they are up and unused: a shutdown finds all three
\* registries filled, and what the iApp works on is up.
InUse == Orderly => \A n \in Nodes : Used(n) => node[n] = "up"
Leaving ==
  Orderly => \A n \in Nodes :
    /\ lpc = "unconn" /\ lnode = n => ConnOf(n) # {}
    /\ Serving => \A i \in 1 .. Len(rx) : Shuts(i, n) =>
         /\ ~BeingForgotten(n) /\ ConnOf(n) # {}
         /\ \E s \in sads : s.node = n /\ s.addr = rx[i].addr
         /\ \A j \in 1 .. Len(rx) : Shuts(j, n) => j = i

\* Nodes that, besides, ask once: a request is current and in one place, and a node is
\* registered because it is up, being set up, or leaving.
Asking(m) == m = Request(m.node) /\ node[m.node] = "asked"
AskedOnce ==
  /\ Patient => resends = 0
  /\ Patient /\ Orderly =>
       /\ \A i \in 1 .. Len(rx) : rx[i].kind = "SETUP" => Asking(rx[i])
       /\ \A m \in NodeMsg : m \in tasks \/ m \in answers \/ AtWorker(m) => Asking(m)
       /\ \A m \in tasks : m \notin answers /\ ~AtWorker(m)
       /\ \A m \in answers : ~AtWorker(m)
       /\ \A v, w \in Workers : wpc[v] # "idle" /\ wmsg[v] = wmsg[w] => v = w
WhyRegistered(n) ==
  \/ node[n] = "up" \/ BeingForgotten(n)
  \/ \E m \in answers : m.node = n
  \/ \E w \in Workers : wpc[w] \in {"connect", "answer"} /\ wmsg[w].node = n
  \/ \E i \in 1 .. Len(rx) : Shuts(i, n)
Accounted == Patient /\ Orderly /\ mpc # "freed" => \A n \in reg : WhyRegistered(n)

-----------------------------------------------------------------------------
(* What a step does to the variables of the nodes' side: the queue of the  *)
(* event loop, loop and workers, the registries, and the nodes.            *)

NodeSide == <<rx, lpc, lnode, tasks, wpc, wmsg, answers, sads, conn, reg, mpc,
              node, addr, joins, resends>>
IappSide == <<toIapp, ipc, imsg, idel, routes, view, xapp, reqs>>

Takes ==
  /\ lpc = "idle" /\ rx # <<>> /\ rx[1].kind = "SETUP"
  /\ rx' = Tail(rx) /\ tasks' = tasks \union {rx[1]}
  /\ UNCHANGED <<lpc, lnode, wpc, wmsg, answers, sads, conn, reg, mpc, node, addr, joins, resends>>
Shuttles(e) ==
  /\ lpc = "idle" /\ rx # <<>> /\ rx[1].kind = "SHUTDOWN"
  /\ e \in sads /\ e.addr = rx[1].addr
  /\ rx' = Tail(rx) /\ sads' = sads \ {e} /\ lnode' = e.node /\ lpc' = "unconn"
  /\ UNCHANGED <<tasks, wpc, wmsg, answers, conn, reg, mpc, node, addr, joins, resends>>
Unconnects ==
  /\ lpc = "unconn" /\ lpc' = "unreg" /\ \E c \in ConnOf(lnode) : conn' = conn \ {c}
  /\ UNCHANGED <<rx, lnode, tasks, wpc, wmsg, answers, sads, reg, mpc, node, addr, joins, resends>>
Unregisters ==
  /\ lpc = "unreg" /\ lpc' = "idle" /\ lnode \in reg /\ reg' = reg \ {lnode}
  /\ UNCHANGED <<rx, lnode, tasks, wpc, wmsg, answers, sads, conn, mpc, node, addr, joins, resends>>
Adds(w, m) ==
  /\ wpc[w] = "idle" /\ mpc \in {"serving", "stopping"} /\ m \in tasks
  /\ tasks' = tasks \ {m} /\ sads' = sads \union {m}
  /\ wmsg' = [wmsg EXCEPT ![w] = m] /\ wpc' = [wpc EXCEPT ![w] = "register"]
  /\ UNCHANGED <<rx, lpc, lnode, answers, conn, reg, mpc, node, addr, joins, resends>>
Registers(w) ==
  /\ wpc[w] = "register" /\ wmsg[w].node \notin reg /\ reg' = reg \union {wmsg[w].node}
  /\ wpc' = [wpc EXCEPT ![w] = "connect"] /\ wmsg' = [wmsg EXCEPT ![w] = @]
  /\ UNCHANGED <<rx, lpc, lnode, tasks, answers, sads, conn, mpc, node, addr, joins, resends>>
Connects(w) ==
  /\ wpc[w] = "connect" /\ conn' = conn \union {wmsg[w]}
  /\ wpc' = [wpc EXCEPT ![w] = "answer"] /\ wmsg' = [wmsg EXCEPT ![w] = @]
  /\ UNCHANGED <<rx, lpc, lnode, tasks, answers, sads, reg, mpc, node, addr, joins, resends>>
Answers(w) ==
  /\ wpc[w] = "answer" /\ answers' = answers \union {wmsg[w]}
  /\ wpc' = [wpc EXCEPT ![w] = "idle"] /\ wmsg' = [wmsg EXCEPT ![w] = NoMsg]
  /\ UNCHANGED <<rx, lpc, lnode, tasks, sads, conn, reg, mpc, node, addr, joins, resends>>

\* The stop, in its five steps.
Stops ==
  /\ \/ lpc = "idle" /\ mpc = "stopping" /\ lpc' = "stopped" /\ mpc' = mpc
     \/ /\ mpc = "serving" /\ mpc' = "stopping" /\ lpc' = lpc
        /\ Quiet => toIapp = <<>> /\ ipc = "idle"
     \/ mpc = "stopping" /\ mpc' = "joined" /\ lpc = "stopped" /\ WorkersJoined /\ lpc' = lpc
  /\ UNCHANGED <<rx, lnode, tasks, wpc, wmsg, answers, sads, conn, reg, node, addr, joins, resends>>
Frees ==
  /\ mpc = "joined" /\ mpc' = "freeing" /\ sads' = {} /\ conn' = {} /\ tasks' = {}
  /\ UNCHANGED <<rx, lpc, lnode, wpc, wmsg, answers, reg, node, addr, joins, resends>>
FreesIapp ==
  /\ mpc = "freeing" /\ mpc' = "freed" /\ reg' = {} /\ ipc = "stopped"
  /\ UNCHANGED <<rx, lpc, lnode, tasks, wpc, wmsg, answers, sads, conn, node, addr, joins, resends>>

Joins(n) ==
  /\ node[n] = "out" /\ joins < MaxJoins /\ joins' = joins + 1
  /\ addr' = [addr EXCEPT ![n] = joins + 1] /\ node' = [node EXCEPT ![n] = "asked"]
  /\ rx' = Append(rx, [kind |-> "SETUP", node |-> n, addr |-> joins + 1, k |-> 0])
  /\ UNCHANGED <<lpc, lnode, tasks, wpc, wmsg, answers, sads, conn, reg, mpc, resends>>
Resends(n) ==
  /\ ~Patient /\ node[n] = "asked" /\ resends < MaxResends /\ resends' = resends + 1
  /\ rx' = Append(rx, [kind |-> "SETUP", node |-> n, addr |-> addr[n], k |-> resends + 1])
  /\ UNCHANGED <<lpc, lnode, tasks, wpc, wmsg, answers, sads, conn, reg, mpc, node, addr, joins>>
Hears(m) ==
  /\ m \in answers /\ answers' = answers \ {m}
  /\ node' = [node EXCEPT ![m.node] = IF @ = "asked" /\ addr[m.node] = m.addr THEN "up" ELSE @]
  /\ UNCHANGED <<rx, lpc, lnode, tasks, wpc, wmsg, sads, conn, reg, mpc, addr, joins, resends>>
Leaves(n) ==
  /\ node[n] # "out" /\ Serving /\ (Orderly => node[n] = "up" /\ ~Used(n))
  /\ node' = [node EXCEPT ![n] = "out"]
  /\ \/ rx' = Append(rx, [kind |-> "SHUTDOWN", node |-> n, addr |-> addr[n], k |-> 0])
     \/ ~Orderly /\ rx' = rx
  /\ UNCHANGED <<lpc, lnode, tasks, wpc, wmsg, answers, sads, conn, reg, mpc, addr, joins, resends>>

LoopMoves == Takes \/ (\E e \in sads : Shuttles(e)) \/ Unconnects \/ Unregisters
WorkerMoves(w) == (\E m \in tasks : Adds(w, m)) \/ Registers(w) \/ Connects(w) \/ Answers(w)
NodeMoves(n) == Joins(n) \/ Resends(n) \/ Leaves(n)
NodeSideMoves ==
  \/ LoopMoves \/ Stops \/ Frees \/ FreesIapp
  \/ \E w \in Workers : WorkerMoves(w)
  \/ \E n \in Nodes : NodeMoves(n)
  \/ \E m \in answers : Hears(m)

\* ... and to those of the iApp's thread and the xApps.
Copies ==
  /\ ipc = "idle" /\ toIapp # <<>> /\ toIapp[1].kind = "SETUP" /\ toIapp' = Tail(toIapp)
  /\ view' = [view EXCEPT ![toIapp[1].xapp] = reg]
  /\ UNCHANGED <<ipc, imsg, idel, routes, xapp, reqs>>
Checks ==
  /\ ipc = "idle" /\ toIapp # <<>> /\ toIapp[1].kind = "SUBS" /\ toIapp' = Tail(toIapp)
  /\ imsg' = toIapp[1] /\ ipc' = "send"
  /\ UNCHANGED <<idel, routes, view, xapp, reqs>>
Forwards ==
  /\ ipc = "send" /\ ipc' = "idle" /\ imsg' = NoMsg
  /\ routes' = routes \union {[xapp |-> imsg.xapp, node |-> imsg.node, ending |-> FALSE]}
  /\ UNCHANGED <<toIapp, idel, view, xapp, reqs>>
Selects ==
  /\ ipc = "idle" /\ toIapp # <<>> /\ toIapp[1].kind # "SUBS" /\ toIapp' = Tail(toIapp)
  /\ idel' \subseteq routes /\ ipc' = IF idel' = {} THEN "idle" ELSE "delete"
  /\ UNCHANGED <<imsg, routes, view, xapp, reqs>>
Deletes(r) ==
  /\ ipc = "delete" /\ r \in idel /\ idel' = idel \ {r}
  /\ routes' = IF r \in routes THEN (routes \ {r}) \union {[r EXCEPT !.ending = TRUE]} ELSE routes
  /\ ipc' = IF idel = {r} THEN "idle" ELSE "delete"
  /\ UNCHANGED <<toIapp, imsg, view, xapp, reqs>>
IappEnds ==
  /\ ipc = "idle" /\ mpc = "freeing" /\ ipc' = "stopped"
  /\ UNCHANGED <<toIapp, imsg, idel, routes, view, xapp, reqs>>
Drops == routes' \subseteq routes /\ UNCHANGED <<toIapp, ipc, imsg, idel, view, xapp, reqs>>
Sends(kind, x, n) ==
  /\ mpc = "serving" \/ (~Quiet /\ mpc # "freed")
  /\ \/ kind \in {"SETUP", "LEAVE"} /\ n = NoMsg
     \/ kind = "SUBS" /\ n \in Nodes /\ (Orderly => node[n] = "up")
     \/ kind = "DEL" /\ n \in Nodes /\ RoutesTo(n) # {}
  /\ toIapp' = Append(toIapp, [kind |-> kind, xapp |-> x, node |-> n])
  /\ xapp' \in [XApps -> {"new", "running", "gone"}] /\ reqs' \in 0 .. MaxReqs
  /\ UNCHANGED <<ipc, imsg, idel, routes, view>>
Ends(x) ==
  /\ xapp' = [xapp EXCEPT ![x] = "gone"]
  /\ UNCHANGED <<toIapp, ipc, imsg, idel, routes, view, reqs>>

IappMoves ==
  \/ Copies \/ Checks \/ Forwards \/ Selects \/ IappEnds \/ Drops
  \/ \E r \in idel : Deletes(r)
  \/ \E x \in XApps : Ends(x)
  \/ \E kind, n : \E x \in XApps : Sends(kind, x, n)

-----------------------------------------------------------------------------
(* The steps of the system are these.                                      *)

\* The first of a sequence of messages is its head; the others move up.
LEMMA Popped ==
  ASSUME NEW S, NEW s \in Seq(S), s # <<>>
  PROVE  /\ Len(s) \in Nat \ {0} /\ Head(s) = s[1] /\ s[1] \in S
         /\ Tail(s) \in Seq(S) /\ Len(Tail(s)) = Len(s) - 1
         /\ \A i \in 1 .. Len(s) - 1 : Tail(s)[i] = s[i + 1] /\ i + 1 \in 1 .. Len(s)
OBVIOUS

\* A message appended comes last.
LEMMA Pushed ==
  ASSUME NEW S, NEW s \in Seq(S), NEW m \in S
  PROVE  /\ Append(s, m) \in Seq(S) /\ Len(s) \in Nat /\ Len(Append(s, m)) = Len(s) + 1
         /\ Append(s, m)[Len(s) + 1] = m
         /\ \A i \in 1 .. Len(s) : Append(s, m)[i] = s[i] /\ i \in 1 .. Len(s) + 1
OBVIOUS

\* A failed assertion changes nothing.
LEMMA AbortSteps ==
  ASSUME UNCHANGED dataVars
  PROVE  UNCHANGED NodeSide /\ UNCHANGED IappSide
BY DEF dataVars, loopVars, workVars, regVars, iappVars, xappVars, nodeVars, NodeSide, IappSide

\* The event loop.
LEMMA LoopSteps ==
  ASSUME NodeTypes, Loop
  PROVE  UNCHANGED IappSide /\ (UNCHANGED NodeSide \/ LoopMoves \/ Stops)
<1>1. CASE LoopTask
  <2>1. /\ lpc = "idle" /\ rx # <<>> /\ Head(rx).kind = "SETUP" /\ Head(rx) = rx[1]
    BY <1>1, Popped DEF LoopTask, IsSetup, NodeTypes
  <2> QED  BY <1>1, <2>1 DEF LoopTask, LoopMoves, Takes, regVars, iappVars, xappVars, nodeVars, IappSide
<1>2. CASE LoopShutdown
  <2>1. CASE UNCHANGED dataVars
    BY <2>1, AbortSteps
  <2>2. CASE ~UNCHANGED dataVars
    <3>1. lpc = "idle" /\ rx # <<>> /\ Head(rx) = rx[1] /\ Head(rx).kind = "SHUTDOWN"
      BY <1>2, Popped DEF LoopShutdown, NodeTypes
    <3>2. PICK e : /\ e \in {m \in sads : m.addr = Head(rx).addr}
                   /\ sads' = sads \ {e} /\ lnode' = e.node
                   /\ rx' = Tail(rx) /\ lpc' = "unconn"
                   /\ UNCHANGED <<workVars, conn, reg, iappVars, xappVars, mpc, nodeVars>>
      BY <1>2, <2>2 DEF LoopShutdown, Abort
    <3>3. Shuttles(e) /\ e \in sads
      BY <3>1, <3>2 DEF Shuttles, workVars, nodeVars
    <3> QED  BY <3>2, <3>3 DEF LoopMoves, iappVars, xappVars, IappSide
  <2> QED  BY <2>1, <2>2
<1>3. CASE LoopUnconnect
  <2>1. CASE UNCHANGED dataVars
    BY <2>1, AbortSteps
  <2>2. CASE ~UNCHANGED dataVars
    BY <1>3, <2>2 DEF LoopUnconnect, Abort, ForgetsNext, LoopMoves, Unconnects, workVars,
       iappVars, xappVars, nodeVars, IappSide
  <2> QED  BY <2>1, <2>2
<1>4. CASE LoopUnregister
  <2>1. CASE UNCHANGED dataVars
    BY <2>1, AbortSteps
  <2>2. CASE ~UNCHANGED dataVars
    BY <1>4, <2>2 DEF LoopUnregister, Abort, ForgetsNext, LoopMoves, Unregisters, workVars,
       iappVars, xappVars, nodeVars, IappSide
  <2> QED  BY <2>1, <2>2
<1>5. CASE LoopStop
  BY <1>5 DEF LoopStop, Stops, workVars, regVars, iappVars, xappVars, nodeVars, IappSide
<1> QED  BY <1>1, <1>2, <1>3, <1>4, <1>5 DEF Loop

\* The workers.
LEMMA WorkerSteps ==
  ASSUME NodeTypes, NEW w \in Workers, Worker(w)
  PROVE  UNCHANGED IappSide /\ (UNCHANGED NodeSide \/ WorkerMoves(w))
<1>1. CASE WorkerAddress(w)
  <2>1. PICK m \in tasks : tasks' = tasks \ {m} /\ sads' = sads \union {m}
                           /\ wmsg' = [wmsg EXCEPT ![w] = m]
    BY <1>1 DEF WorkerAddress
  <2>2. Adds(w, m) /\ UNCHANGED IappSide
    BY <1>1, <2>1 DEF WorkerAddress, Adds, loopVars, iappVars, xappVars, nodeVars, IappSide
  <2> QED  BY <2>2 DEF WorkerMoves
<1>2. CASE WorkerRegister(w)
  <2>1. CASE UNCHANGED dataVars
    BY <2>1, AbortSteps
  <2>2. CASE ~UNCHANGED dataVars
    BY <1>2, <2>2 DEF WorkerRegister, Abort, GoesOn, StepAfter, WorkerMoves, Registers, loopVars,
       iappVars, xappVars, nodeVars, IappSide
  <2> QED  BY <2>1, <2>2
<1>3. CASE WorkerConnect(w)
  BY <1>3 DEF WorkerConnect, GoesOn, StepAfter, WorkerMoves, Connects, loopVars,
     iappVars, xappVars, nodeVars, IappSide
<1>4. CASE WorkerAnswer(w)
  BY <1>4 DEF WorkerAnswer, GoesOn, StepAfter, WorkerMoves, Answers, loopVars, regVars,
     iappVars, xappVars, nodeVars, IappSide
<1> QED  BY <1>1, <1>2, <1>3, <1>4 DEF Worker

\* The main thread.
LEMMA MainSteps ==
  ASSUME MainStop \/ MainFrees
  PROVE  \/ UNCHANGED IappSide /\ (Stops \/ Frees)
         \/ FreesIapp /\ routes' = {} /\ Drops
<1>1. CASE MainStop
  BY <1>1 DEF MainStop, Stops, loopVars, workVars, regVars, iappVars, xappVars, nodeVars, IappSide
<1>2. CASE MainJoin
  BY <1>2 DEF MainJoin, Stops, loopVars, workVars, regVars, iappVars, xappVars, nodeVars, IappSide
<1>3. CASE MainFree
  BY <1>3 DEF MainFree, Frees, loopVars, iappVars, xappVars, nodeVars, IappSide
<1>4. CASE MainFreeIapp
  BY <1>4 DEF MainFreeIapp, FreesIapp, Drops, loopVars, workVars, xappVars, nodeVars
<1> QED  BY <1>1, <1>2, <1>3, <1>4 DEF MainFrees

\* The nodes, and the answers they get.
LEMMA NodeSteps ==
  ASSUME NodeTypes
  PROVE  /\ \A n \in Nodes : NodeJoins(n) \/ NodeResends(n) \/ NodeLeaves(n) =>
              UNCHANGED IappSide /\ NodeMoves(n)
         /\ \A m \in answers : NodeHears(m) => UNCHANGED IappSide /\ Hears(m)
<1>1. ASSUME NEW n \in Nodes, NodeJoins(n)
      PROVE  UNCHANGED IappSide /\ NodeMoves(n)
  <2>1. [Request(n) EXCEPT !.addr = joins + 1]
          = [kind |-> "SETUP", node |-> n, addr |-> joins + 1, k |-> 0]
    BY DEF Request
  <2> QED  BY <1>1, <2>1 DEF NodeJoins, NodeMoves, Joins, workVars, regVars, iappVars, xappVars, IappSide
<1>2. ASSUME NEW n \in Nodes, NodeResends(n)
      PROVE  UNCHANGED IappSide /\ NodeMoves(n)
  <2>1. [Request(n) EXCEPT !.k = resends + 1]
          = [kind |-> "SETUP", node |-> n, addr |-> addr[n], k |-> resends + 1]
    BY DEF Request
  <2> QED  BY <1>2, <2>1 DEF NodeResends, NodeMoves, Resends, workVars, regVars, iappVars, xappVars, IappSide
<1>3. ASSUME NEW n \in Nodes, NodeLeaves(n)
      PROVE  UNCHANGED IappSide /\ NodeMoves(n)
  <2>1. [Request(n) EXCEPT !.kind = "SHUTDOWN"]
          = [kind |-> "SHUTDOWN", node |-> n, addr |-> addr[n], k |-> 0]
    BY DEF Request
  <2> QED  BY <1>3, <2>1 DEF NodeLeaves, NodeMoves, Leaves, RicFreed, Serving,
             workVars, regVars, iappVars, xappVars, IappSide
<1>4. ASSUME NEW m \in answers, NodeHears(m)
      PROVE  UNCHANGED IappSide /\ Hears(m)
  BY <1>4 DEF NodeHears, Hears, loopVars, regVars, iappVars, xappVars, IappSide
<1> QED  BY <1>1, <1>2, <1>3, <1>4

\* The iApp's thread.
LEMMA IappSteps ==
  ASSUME IappTypes, Iapp
  PROVE  UNCHANGED NodeSide /\ (UNCHANGED IappSide \/ IappMoves)
<1>0. toIapp # <<>> => Head(toIapp) = toIapp[1]
  BY Popped DEF IappTypes
<1>1. CASE IappSetup
  BY <1>0, <1>1 DEF IappSetup, IappReads, IappMoves, Copies, loopVars, workVars, regVars, nodeVars, NodeSide
<1>2. CASE IappCheck
  <2>1. CASE UNCHANGED dataVars
    BY <2>1, AbortSteps
  <2>2. CASE ~UNCHANGED dataVars
    BY <1>0, <1>2, <2>2 DEF IappCheck, IappReads, Abort, IappMoves, Checks, loopVars, workVars, regVars,
       xappVars, nodeVars, NodeSide
  <2> QED  BY <2>1, <2>2
<1>3. CASE IappSend
  <2>1. CASE UNCHANGED dataVars
    BY <2>1, AbortSteps
  <2>2. CASE ~UNCHANGED dataVars
    BY <1>3, <2>2 DEF IappSend, Abort, IappMoves, Forwards, loopVars, workVars, regVars,
       xappVars, nodeVars, NodeSide
  <2> QED  BY <2>1, <2>2
<1>4. CASE IappDelete
  <2>1. PICK todo : /\ todo = {r \in routes : /\ r.xapp = Head(toIapp).xapp
                                              /\ Head(toIapp).kind = "DEL" => r.node = Head(toIapp).node}
                    /\ idel' = todo /\ ipc' = IF todo = {} THEN "idle" ELSE "delete"
    BY <1>4 DEF IappDelete
  <2>2. /\ UNCHANGED NodeSide /\ ipc = "idle" /\ toIapp # <<>> /\ toIapp' = Tail(toIapp)
        /\ Head(toIapp).kind # "SUBS" /\ UNCHANGED <<imsg, routes, view, xapp, reqs>>
    BY <1>4 DEF IappDelete, IappReads, loopVars, workVars, regVars, xappVars, nodeVars, NodeSide
  <2> QED  BY <1>0, <2>1, <2>2 DEF IappMoves, Selects
<1>5. CASE IappStop
  BY <1>5 DEF IappStop, IappMoves, IappEnds, loopVars, workVars, regVars, xappVars, nodeVars, NodeSide
<1>6. CASE \E r \in idel : IappForwardDelete(r)
  <2>1. PICK r \in idel : IappForwardDelete(r)
    BY <1>6
  <2>2. CASE UNCHANGED dataVars
    BY <2>2, AbortSteps
  <2>3. CASE ~UNCHANGED dataVars
    BY <2>1, <2>3 DEF IappForwardDelete, Abort, IappMoves, Deletes, loopVars, workVars, regVars,
       xappVars, nodeVars, NodeSide
  <2> QED  BY <2>2, <2>3
<1> QED  BY <1>1, <1>2, <1>3, <1>4, <1>5, <1>6 DEF Iapp

\* The xApps, and the node's answer to a delete.
LEMMA XappSteps ==
  ASSUME Types
  PROVE  /\ \A x \in XApps : XappSetup(x) \/ XappLeaves(x) \/ SendReported(x) =>
              UNCHANGED NodeSide /\ IappMoves
         /\ \A x \in XApps, n \in Nodes : XappSubscribes(x, n) \/ XappUnsubscribes(x, n) =>
              UNCHANGED NodeSide /\ IappMoves
         /\ \A r \in routes : NodeDeletes(r) => UNCHANGED NodeSide /\ IappMoves
<1>1. ASSUME NEW x \in XApps, XappLeaves(x)
      PROVE  UNCHANGED NodeSide /\ IappMoves
  BY <1>1 DEF XappLeaves, IappMoves, Ends, loopVars, workVars, regVars, iappVars, nodeVars, NodeSide
<1>2. ASSUME NEW kind, NEW x \in XApps, NEW n, XappSends(kind, x, n),
             xapp' \in [XApps -> {"new", "running", "gone"}], reqs' \in 0 .. MaxReqs,
             \/ kind \in {"SETUP", "LEAVE"} /\ n = NoMsg
             \/ kind = "SUBS" /\ n \in Nodes /\ (Orderly => node[n] = "up")
             \/ kind = "DEL" /\ n \in Nodes /\ RoutesTo(n) # {}
      PROVE  UNCHANGED NodeSide /\ IappMoves
  <2>1. UNCHANGED NodeSide /\ Sends(kind, x, n)
    BY <1>2 DEF XappSends, Sends, loopVars, workVars, regVars, nodeVars, NodeSide
  <2> QED  BY <2>1 DEF IappMoves
<1>3. ASSUME NEW x \in XApps, XappSetup(x) \/ SendReported(x)
      PROVE  UNCHANGED NodeSide /\ IappMoves
  <2>1. xapp' \in [XApps -> {"new", "running", "gone"}] /\ reqs' \in 0 .. MaxReqs
    BY <1>3 DEF XappSetup, SendReported, Types, IappTypes
  <2> QED  BY <1>2, <1>3, <2>1 DEF XappSetup, SendReported
<1>4. ASSUME NEW x \in XApps, NEW n \in Nodes, XappSubscribes(x, n)
      PROVE  UNCHANGED NodeSide /\ IappMoves
  <2>1. xapp' \in [XApps -> {"new", "running", "gone"}] /\ reqs' \in 0 .. MaxReqs
    BY <1>4, NodeAssumption DEF XappSubscribes, Types, IappTypes
  <2> QED  BY <1>2, <1>4, <2>1 DEF XappSubscribes
<1>5. ASSUME NEW x \in XApps, NEW n \in Nodes, XappUnsubscribes(x, n)
      PROVE  UNCHANGED NodeSide /\ IappMoves
  <2>1. xapp' \in [XApps -> {"new", "running", "gone"}] /\ reqs' \in 0 .. MaxReqs
    BY <1>5 DEF XappUnsubscribes, Types, IappTypes
  <2>2. RoutesTo(n) # {}
    BY <1>5 DEF XappUnsubscribes
  <2> QED  BY <1>2, <1>5, <2>1, <2>2 DEF XappUnsubscribes
<1>6. ASSUME NEW r \in routes, NodeDeletes(r)
      PROVE  UNCHANGED NodeSide /\ IappMoves
  BY <1>6 DEF NodeDeletes, IappMoves, Drops, loopVars, workVars, regVars, xappVars, nodeVars, NodeSide
<1> QED  BY <1>1, <1>3, <1>4, <1>5, <1>6

\* Every step of the system is one of these moves.
LEMMA Steps ==
  ASSUME Types, [Next]_vars
  PROVE  /\ env' = env
         /\ \/ UNCHANGED IappSide /\ (UNCHANGED NodeSide \/ NodeSideMoves)
            \/ UNCHANGED NodeSide /\ IappMoves
            \/ FreesIapp /\ routes' = {} /\ Drops
<1>1. CASE UNCHANGED vars
  BY <1>1, AbortSteps DEF vars
<1>2. CASE Next
  <2>1. CASE Loop
    BY <2>1, <1>2, LoopSteps DEF Types, Next, NodeSideMoves
  <2>2. CASE Iapp
    BY <2>2, <1>2, IappSteps DEF Types, Next
  <2>3. CASE \E w \in Workers : Worker(w)
    BY <2>3, <1>2, WorkerSteps DEF Types, Next, NodeSideMoves
  <2>4. CASE MainStop \/ MainFrees
    BY <2>4, <1>2, MainSteps DEF Next, NodeSideMoves
  <2>5. CASE \/ \E n \in Nodes : NodeJoins(n) \/ NodeResends(n) \/ NodeLeaves(n)
             \/ \E m \in answers : NodeHears(m)
    BY <2>5, <1>2, NodeSteps DEF Types, Next, NodeSideMoves
  <2>6. CASE \/ \E r \in routes : NodeDeletes(r)
             \/ \E x \in XApps : XappSetup(x) \/ XappLeaves(x) \/ SendReported(x)
             \/ \E x \in XApps, n \in Nodes : XappSubscribes(x, n) \/ XappUnsubscribes(x, n)
    BY <2>6, <1>2, XappSteps DEF Next
  <2> QED  BY <1>2, <2>1, <2>2, <2>3, <2>4, <2>5, <2>6 DEF Next
<1> QED  BY <1>1, <1>2

-----------------------------------------------------------------------------
(* Types.                                                                  *)

\* The messages the nodes put into the queue.
LEMMA NewMessages ==
  ASSUME NodeTypes, NEW n \in Nodes
  PROVE  /\ Joins(n) => /\ joins + 1 \in 1 .. MaxJoins
                        /\ [kind |-> "SETUP", node |-> n, addr |-> joins + 1, k |-> 0] \in NodeMsg
         /\ addr[n] # 0 => /\ [kind |-> "SHUTDOWN", node |-> n, addr |-> addr[n], k |-> 0] \in NodeMsg
                           /\ Request(n) \in NodeMsg
         /\ Resends(n) /\ addr[n] # 0 =>
              [kind |-> "SETUP", node |-> n, addr |-> addr[n], k |-> resends + 1] \in NodeMsg
<1>1. /\ MaxJoins \in Nat /\ MaxResends \in Nat /\ 0 \in 0 .. MaxResends
      /\ addr[n] \in 0 .. MaxJoins /\ (addr[n] # 0 => addr[n] \in 1 .. MaxJoins)
  BY NodeAssumption DEF NodeTypes
<1>2. Joins(n) => joins + 1 \in 1 .. MaxJoins
  BY <1>1 DEF Joins, NodeTypes
<1>3. Resends(n) => resends + 1 \in 0 .. MaxResends
  BY <1>1 DEF Resends, NodeTypes
<1> QED  BY <1>1, <1>2, <1>3 DEF NodeMsg, Request

\* The types of the nodes' side are kept by the event loop.
LEMMA LoopTypes ==
  ASSUME NodeTypes, LoopMoves
  PROVE  NodeTypes'
<1>0. rx # <<>> => rx[1] \in NodeMsg /\ Tail(rx) \in Seq(NodeMsg)
  BY Popped DEF NodeTypes
<1>1. CASE Takes
  BY <1>0, <1>1 DEF Takes, NodeTypes
<1>2. CASE \E e \in sads : Shuttles(e)
  <2>1. PICK e \in sads : Shuttles(e)
    BY <1>2
  <2>2. e.node \in Nodes
    BY DEF NodeTypes, NodeMsg
  <2> QED  BY <1>0, <2>1, <2>2 DEF Shuttles, NodeTypes
<1>3. CASE Unconnects
  BY <1>3 DEF Unconnects, NodeTypes
<1>4. CASE Unregisters
  BY <1>4 DEF Unregisters, NodeTypes
<1> QED  BY <1>1, <1>2, <1>3, <1>4 DEF LoopMoves

\* A worker that is not idle has a message, of a node.
LEMMA WorkerHas ==
  ASSUME NodeTypes, NEW w \in Workers, wpc[w] # "idle"
  PROVE  wmsg[w] \in NodeMsg /\ wmsg[w].node \in Nodes
BY DEF NodeTypes, NodeMsg

\* They are kept by the workers.
LEMMA WorkerTypes ==
  ASSUME NodeTypes, NEW w \in Workers, WorkerMoves(w)
  PROVE  NodeTypes'
<1>1. CASE \E m \in tasks : Adds(w, m)
  <2>1. PICK m \in tasks : Adds(w, m)
    BY <1>1
  <2>2. m \in NodeMsg /\ m # NoMsg /\ m.kind = "SETUP"
    BY NoMsgAssumption DEF NodeTypes
  <2>3. \A v \in Workers : wpc'[v] = "idle" <=> wmsg'[v] = NoMsg
    BY <2>1, <2>2 DEF Adds, NodeTypes
  <2> QED  BY <2>1, <2>2, <2>3 DEF Adds, NodeTypes
<1>2. CASE Registers(w)
  <2>1. wmsg[w].node \in Nodes
    BY <1>2, WorkerHas DEF Registers
  <2>2. \A v \in Workers : wpc'[v] = "idle" <=> wmsg'[v] = NoMsg
    BY <1>2 DEF Registers, NodeTypes
  <2> QED  BY <1>2, <2>1, <2>2 DEF Registers, NodeTypes
<1>3. CASE Connects(w)
  <2>1. wmsg[w] \in NodeMsg
    BY <1>3, WorkerHas DEF Connects
  <2>2. \A v \in Workers : wpc'[v] = "idle" <=> wmsg'[v] = NoMsg
    BY <1>3 DEF Connects, NodeTypes
  <2> QED  BY <1>3, <2>1, <2>2 DEF Connects, NodeTypes
<1>4. CASE Answers(w)
  <2>1. wmsg[w] \in NodeMsg
    BY <1>4, WorkerHas DEF Answers
  <2>2. \A v \in Workers : wpc'[v] = "idle" <=> wmsg'[v] = NoMsg
    BY <1>4 DEF Answers, NodeTypes
  <2> QED  BY <1>4, <2>1, <2>2 DEF Answers, NodeTypes
<1> QED  BY <1>1, <1>2, <1>3, <1>4 DEF WorkerMoves

\* They are kept by the nodes, and by the main thread.
LEMMA OtherTypes ==
  ASSUME NodeTypes, \A n \in Nodes : node[n] # "out" => addr[n] # 0,
         \/ Stops \/ Frees \/ FreesIapp \/ (\E n \in Nodes : NodeMoves(n))
         \/ \E m \in answers : Hears(m)
  PROVE  NodeTypes'
<1>1. CASE Stops
  BY <1>1 DEF Stops, NodeTypes
<1>2. CASE Frees \/ FreesIapp
  BY <1>2 DEF Frees, FreesIapp, NodeTypes
<1>3. ASSUME NEW n \in Nodes, Joins(n)
      PROVE  NodeTypes'
  <2>1. /\ rx' \in Seq(NodeMsg) /\ joins' \in 0 .. MaxJoins
        /\ joins + 1 \in 0 .. MaxJoins
    <3>1. PICK m : m = [kind |-> "SETUP", node |-> n, addr |-> joins + 1, k |-> 0]
      OBVIOUS
    <3>2. m \in NodeMsg /\ joins + 1 \in 1 .. MaxJoins
      BY <1>3, <3>1, NewMessages
    <3>3. rx' = Append(rx, m) /\ joins' = joins + 1
      BY <1>3, <3>1 DEF Joins
    <3> QED  BY <3>2, <3>3, Pushed, NodeAssumption DEF NodeTypes
  <2> QED  BY <1>3, <2>1 DEF Joins, NodeTypes
<1>4. ASSUME NEW n \in Nodes, Resends(n)
      PROVE  NodeTypes'
  <2>1. addr[n] # 0
    BY <1>4 DEF Resends
  <2>2. rx' \in Seq(NodeMsg)
    BY <1>4, <2>1, NewMessages, Pushed DEF Resends, NodeTypes
  <2>3. resends' \in 0 .. MaxResends
    BY <1>4, NodeAssumption DEF Resends, NodeTypes
  <2> QED  BY <1>4, <2>2, <2>3 DEF Resends, NodeTypes
<1>5. ASSUME NEW n \in Nodes, Leaves(n)
      PROVE  NodeTypes'
  <2>1. addr[n] # 0
    BY <1>5 DEF Leaves
  <2>2. rx' \in Seq(NodeMsg)
    <3>1. PICK m : m = [kind |-> "SHUTDOWN", node |-> n, addr |-> addr[n], k |-> 0]
      OBVIOUS
    <3>2. m \in NodeMsg
      BY <2>1, <3>1, NewMessages
    <3>3. rx' = Append(rx, m) \/ rx' = rx
      BY <1>5, <3>1 DEF Leaves
    <3>4. rx \in Seq(NodeMsg)
      BY DEF NodeTypes
    <3>5. Append(rx, m) \in Seq(NodeMsg)
      BY <3>2, <3>4
    <3> QED  BY <3>3, <3>4, <3>5
  <2> QED  BY <1>5, <2>2 DEF Leaves, NodeTypes
<1>6. ASSUME NEW m \in answers, Hears(m)
      PROVE  NodeTypes'
  BY <1>6 DEF Hears, NodeTypes
<1> QED  BY <1>1, <1>2, <1>3, <1>4, <1>5, <1>6 DEF NodeMoves

\* The types of the iApp's side.
LEMMA IappKeepsTypes ==
  ASSUME Types, IappMoves
  PROVE  IappTypes'
<1>0. toIapp # <<>> => /\ toIapp[1] \in XappMsg /\ Tail(toIapp) \in Seq(XappMsg)
                       /\ toIapp[1] # NoMsg
                       /\ \A i \in 1 .. Len(Tail(toIapp)) :
                            Tail(toIapp)[i].kind = "SUBS" => Tail(toIapp)[i].node \in Nodes
                       /\ toIapp[1].kind = "SUBS" => toIapp[1].node \in Nodes
  <2> SUFFICES ASSUME toIapp # <<>>
               PROVE  /\ toIapp[1] \in XappMsg /\ Tail(toIapp) \in Seq(XappMsg)
                      /\ toIapp[1] # NoMsg
                      /\ \A i \in 1 .. Len(Tail(toIapp)) :
                           Tail(toIapp)[i].kind = "SUBS" => Tail(toIapp)[i].node \in Nodes
                      /\ toIapp[1].kind = "SUBS" => toIapp[1].node \in Nodes
    OBVIOUS
  <2>1. toIapp \in Seq(XappMsg)
    BY DEF Types, IappTypes
  <2>2. /\ Len(toIapp) \in Nat \ {0} /\ toIapp[1] \in XappMsg
        /\ Tail(toIapp) \in Seq(XappMsg) /\ Len(Tail(toIapp)) = Len(toIapp) - 1
        /\ \A i \in 1 .. Len(toIapp) - 1 : Tail(toIapp)[i] = toIapp[i + 1] /\ i + 1 \in 1 .. Len(toIapp)
    BY <2>1, Popped
  <2>3. 1 \in 1 .. Len(toIapp)
    BY <2>2
  <2> QED  BY <2>2, <2>3, NoMsgAssumption DEF Types, IappTypes
<1>1. CASE Copies
  <2>1. view' \in [XApps -> SUBSET Nodes]
    BY <1>1 DEF Copies, Types, NodeTypes, IappTypes
  <2> QED  BY <1>0, <1>1, <2>1 DEF Copies, Types, IappTypes
<1>2. CASE Checks
  BY <1>0, <1>2 DEF Checks, Types, IappTypes
<1>3. CASE Forwards
  <2>1. imsg \in XappMsg /\ imsg.node \in Nodes /\ imsg.xapp \in XApps
    BY <1>3 DEF Forwards, Types, IappTypes, XappMsg
  <2>2. PICK r \in Route : routes' = routes \union {r}
    <3>1. [xapp |-> imsg.xapp, node |-> imsg.node, ending |-> FALSE] \in Route
      BY <2>1 DEF Route
    <3> QED  BY <1>3, <3>1 DEF Forwards
  <2> QED  BY <1>3, <2>2 DEF Forwards, Types, IappTypes
<1>4. CASE Selects
  BY <1>0, <1>4 DEF Selects, Types, IappTypes
<1>5. CASE IappEnds \/ Drops
  BY <1>5 DEF IappEnds, Drops, Types, IappTypes
<1>6. ASSUME NEW r \in idel, Deletes(r)
      PROVE  IappTypes'
  <2>1. [r EXCEPT !.ending = TRUE] \in Route
    BY DEF Types, IappTypes, Route
  <2> QED  BY <1>6, <2>1 DEF Deletes, Types, IappTypes
<1>7. ASSUME NEW x \in XApps, Ends(x)
      PROVE  IappTypes'
  BY <1>7 DEF Ends, Types, IappTypes
<1>8. ASSUME NEW kind, NEW n, NEW x \in XApps, Sends(kind, x, n)
      PROVE  IappTypes'
  <2>1. PICK m : m = [kind |-> kind, xapp |-> x, node |-> n]
    OBVIOUS
  <2>2. m \in XappMsg /\ (m.kind = "SUBS" => m.node \in Nodes) /\ toIapp' = Append(toIapp, m)
    BY <1>8, <2>1 DEF Sends, XappMsg
  <2>3. /\ toIapp' \in Seq(XappMsg)
        /\ \A i \in 1 .. Len(toIapp') : toIapp'[i].kind = "SUBS" => toIapp'[i].node \in Nodes
    BY <2>2, Pushed DEF Types, IappTypes
  <2> QED  BY <1>8, <2>3 DEF Sends, Types, IappTypes
<1> QED  BY <1>1, <1>2, <1>3, <1>4, <1>5, <1>6, <1>7, <1>8 DEF IappMoves

\* Types is kept by every step, where a node that is not out has an address.
LEMMA NextTypes ==
  ASSUME Types, \A n \in Nodes : node[n] # "out" => addr[n] # 0, [Next]_vars
  PROVE  Types'
<1>1. /\ env' = env
      /\ \/ UNCHANGED IappSide /\ (UNCHANGED NodeSide \/ NodeSideMoves)
         \/ UNCHANGED NodeSide /\ IappMoves
         \/ FreesIapp /\ routes' = {} /\ Drops
  BY Steps
<1>2. UNCHANGED NodeSide => NodeTypes'
  BY DEF Types, NodeTypes, NodeSide
<1>3. UNCHANGED IappSide => IappTypes'
  BY DEF Types, IappTypes, IappSide
<1>4. NodeSideMoves \/ FreesIapp => NodeTypes'
  BY LoopTypes, WorkerTypes, OtherTypes DEF Types, NodeSideMoves
<1>5. IappMoves \/ Drops => IappTypes'
  BY IappKeepsTypes DEF IappMoves
<1> QED  BY <1>1, <1>2, <1>3, <1>4, <1>5 DEF Types

\* The order of the stop is kept.
LEMMA NextStopOrder ==
  ASSUME Types, StopOrder, [Next]_vars
  PROVE  StopOrder'
<1>1. /\ env' = env
      /\ \/ UNCHANGED IappSide /\ (UNCHANGED NodeSide \/ NodeSideMoves)
         \/ UNCHANGED NodeSide /\ IappMoves
         \/ FreesIapp /\ routes' = {} /\ Drops
  BY Steps
<1>2. Quiet' = Quiet
  BY <1>1 DEF Quiet
<1>3. CASE UNCHANGED IappSide /\ UNCHANGED NodeSide
  BY <1>2, <1>3 DEF StopOrder, WorkersJoined, NodeSide, IappSide
<1>4. CASE UNCHANGED IappSide /\ NodeSideMoves
  <2>1. UNCHANGED <<toIapp, ipc>>
    BY <1>4 DEF IappSide
  <2>2. CASE LoopMoves
    <3>1. lpc \in {"idle", "unconn", "unreg"} /\ lpc' \in {"idle", "unconn", "unreg"} /\ mpc' = mpc
      BY <2>2 DEF LoopMoves, Takes, Shuttles, Unconnects, Unregisters
    <3> QED  BY <1>2, <2>1, <3>1 DEF StopOrder, Types, NodeTypes
  <2>3. ASSUME NEW w \in Workers, WorkerMoves(w)
        PROVE  StopOrder'
    <3>1. mpc \notin {"joined", "freeing", "freed"} /\ mpc' = mpc /\ lpc' = lpc
      BY <2>3 DEF WorkerMoves, Adds, Registers, Connects, Answers, StopOrder, WorkersJoined
    <3> QED  BY <1>2, <2>1, <3>1 DEF StopOrder
  <2>4. CASE Stops \/ Frees \/ FreesIapp
    BY <1>2, <2>1, <2>4 DEF Stops, Frees, FreesIapp, StopOrder, WorkersJoined
  <2>5. CASE (\E n \in Nodes : NodeMoves(n)) \/ \E m \in answers : Hears(m)
    <3>1. UNCHANGED <<mpc, lpc, wpc>>
      BY <2>5 DEF NodeMoves, Joins, Resends, Leaves, Hears
    <3> QED  BY <1>2, <2>1, <3>1 DEF StopOrder, WorkersJoined
  <2> QED  BY <1>4, <2>2, <2>3, <2>4, <2>5 DEF NodeSideMoves
<1>5. CASE UNCHANGED NodeSide /\ IappMoves
  <2>1. UNCHANGED <<mpc, lpc, wpc>>
    BY <1>5 DEF NodeSide
  <2>2. mpc = "freed" => ipc' = "stopped"
    BY <1>5 DEF IappMoves, Copies, Checks, Forwards, Selects, IappEnds, Drops, Deletes, Ends, Sends,
       StopOrder
  <2>3. Quiet /\ mpc # "serving" => toIapp' = <<>> /\ ipc' \in {"idle", "stopped"}
    BY <1>5 DEF IappMoves, Copies, Checks, Forwards, Selects, IappEnds, Drops, Deletes, Ends, Sends,
       StopOrder
  <2> QED  BY <1>2, <2>1, <2>2, <2>3 DEF StopOrder, WorkersJoined
<1>6. CASE FreesIapp /\ Drops
  BY <1>2, <1>6 DEF FreesIapp, Drops, StopOrder, WorkersJoined
<1> QED  BY <1>1, <1>3, <1>4, <1>5, <1>6

-----------------------------------------------------------------------------
(* The messages of the nodes.                                              *)

\* The event loop takes the first message of its queue.
LEMMA RxPopped ==
  ASSUME NodeTypes, rx # <<>>, rx' = Tail(rx)
  PROVE  /\ Len(rx) \in Nat \ {0} /\ Len(rx') = Len(rx) - 1 /\ 1 \in 1 .. Len(rx)
         /\ rx[1] \in NodeMsg
         /\ \A i \in 1 .. Len(rx') : rx'[i] = rx[i + 1] /\ i + 1 \in 2 .. Len(rx)
         /\ \A i \in 2 .. Len(rx) : i - 1 \in 1 .. Len(rx') /\ rx'[i - 1] = rx[i]
         /\ \A m : InRx(m)' => InRx(m)
         /\ \A m : InRx(m) => InRx(m)' \/ m = rx[1]
<1>1. /\ Len(rx) \in Nat \ {0} /\ Len(rx') = Len(rx) - 1 /\ rx[1] \in NodeMsg
      /\ \A i \in 1 .. Len(rx) - 1 : rx'[i] = rx[i + 1] /\ i + 1 \in 1 .. Len(rx)
  BY Popped DEF NodeTypes
<1>2. \A i \in 1 .. Len(rx') : rx'[i] = rx[i + 1] /\ i + 1 \in 2 .. Len(rx)
  BY <1>1
<1>3. \A i \in 2 .. Len(rx) : i - 1 \in 1 .. Len(rx') /\ rx'[i - 1] = rx[i]
  BY <1>1
<1>4. \A m : InRx(m)' => InRx(m)
  BY <1>1, <1>2 DEF InRx
<1>5. ASSUME NEW m, InRx(m)
      PROVE  InRx(m)' \/ m = rx[1]
  <2>1. PICK i \in 1 .. Len(rx) : rx[i] = m
    BY <1>5 DEF InRx
  <2>2. CASE i = 1
    BY <2>1, <2>2
  <2>3. CASE i \in 2 .. Len(rx)
    <3>1. i - 1 \in 1 .. Len(rx') /\ rx'[i - 1] = m
      BY <1>3, <2>1, <2>3
    <3> QED  BY <3>1 DEF InRx
  <2> QED  BY <1>1, <2>2, <2>3
<1> QED  BY <1>1, <1>2, <1>3, <1>4, <1>5

\* A node appends to it.
LEMMA RxPushed ==
  ASSUME NodeTypes, NEW m \in NodeMsg, rx' = Append(rx, m)
  PROVE  /\ Len(rx) \in Nat /\ Len(rx') = Len(rx) + 1 /\ rx'[Len(rx) + 1] = m
         /\ \A i \in 1 .. Len(rx) : rx'[i] = rx[i] /\ i \in 1 .. Len(rx')
         /\ \A i \in 1 .. Len(rx') : i \in 1 .. Len(rx) \/ i = Len(rx) + 1
         /\ \A z : InRx(z)' <=> InRx(z) \/ z = m
<1>1. /\ Len(rx) \in Nat /\ Len(rx') = Len(rx) + 1 /\ rx'[Len(rx) + 1] = m
      /\ \A i \in 1 .. Len(rx) : rx'[i] = rx[i] /\ i \in 1 .. Len(rx')
  BY Pushed DEF NodeTypes
<1>2. /\ \A i \in 1 .. Len(rx') : i \in 1 .. Len(rx) \/ i = Len(rx) + 1
      /\ Len(rx) + 1 \in 1 .. Len(rx')
  BY <1>1
<1>3. \A z : InRx(z)' <=> InRx(z) \/ z = m
  BY <1>1, <1>2 DEF InRx
<1> QED  BY <1>1, <1>2, <1>3

\* A message is handled when the event loop has taken it.
LEMMA HandledMoves ==
  ASSUME NodeTypes, NodeSideMoves, NEW m \in NodeMsg, Handled(m)'
  PROVE  Handled(m) \/ (Takes /\ m = rx[1])
<1>1. CASE LoopMoves
  BY <1>1 DEF LoopMoves, Takes, Shuttles, Unconnects, Unregisters, Handled, AtWorker
<1>2. CASE Stops \/ Frees \/ FreesIapp
  BY <1>2 DEF Stops, Frees, FreesIapp, Handled, AtWorker
<1>3. ASSUME NEW w \in Workers, WorkerMoves(w)
      PROVE  Handled(m)
  <2>1. CASE \E z \in tasks : Adds(w, z)
    <3>1. PICK z \in tasks : Adds(w, z)
      BY <2>1
    <3>2. \A v \in Workers : v # w => wpc'[v] = wpc[v] /\ wmsg'[v] = wmsg[v]
      BY <3>1 DEF Adds, NodeTypes
    <3>3. wmsg'[w] = z
      BY <3>1 DEF Adds, NodeTypes
    <3> QED  BY <3>1, <3>2, <3>3 DEF Adds, Handled, AtWorker
  <2>2. CASE Registers(w)
    BY <2>2 DEF Registers, Handled, AtWorker, NodeTypes
  <2>3. CASE Connects(w)
    BY <2>3 DEF Connects, Handled, AtWorker, NodeTypes
  <2>4. CASE Answers(w)
    BY <2>4 DEF Answers, Handled, AtWorker, NodeTypes
  <2> QED  BY <1>3, <2>1, <2>2, <2>3, <2>4 DEF WorkerMoves
<1>4. CASE (\E n \in Nodes : NodeMoves(n)) \/ \E z \in answers : Hears(z)
  BY <1>4 DEF NodeMoves, Joins, Resends, Leaves, Hears, Handled, AtWorker
<1> QED  BY <1>1, <1>2, <1>3, <1>4 DEF NodeSideMoves

\* What a node sends has its name and the address it has then.
LEMMA Sent ==
  ASSUME NodeTypes, NEW n \in Nodes, NodeMoves(n), node[n] # "out" => addr[n] # 0
  PROVE  \/ rx' = rx /\ Leaves(n)
         \/ \E m \in NodeMsg : /\ rx' = Append(rx, m) /\ m.node = n /\ m.addr = addr'[n]
                               /\ m.k <= resends'
                               /\ Joins(n) => m.kind = "SETUP" /\ m = Request(n)'
                               /\ Resends(n) => m.kind = "SETUP" /\ m.k = resends + 1
                               /\ Leaves(n) => m.kind = "SHUTDOWN"
<1>0. resends \in Nat /\ joins \in Nat
  BY NodeAssumption DEF NodeTypes
<1>1. CASE Joins(n)
  <2>1. PICK m : m = [kind |-> "SETUP", node |-> n, addr |-> joins + 1, k |-> 0]
    OBVIOUS
  <2>2. m \in NodeMsg /\ rx' = Append(rx, m) /\ m.node = n /\ m.k = 0 /\ m.kind = "SETUP"
    BY <1>1, <2>1, NewMessages DEF Joins
  <2>3. addr'[n] = joins + 1 /\ resends' = resends
    BY <1>1 DEF Joins, NodeTypes
  <2>4. m = Request(n)' /\ m.addr = joins + 1
    BY <2>1, <2>3 DEF Request
  <2>5. ~Resends(n) /\ ~Leaves(n)
    BY <1>1 DEF Joins, Resends, Leaves
  <2> QED  BY <1>0, <2>2, <2>3, <2>4, <2>5
<1>2. CASE Resends(n)
  <2>1. PICK m : m = [kind |-> "SETUP", node |-> n, addr |-> addr[n], k |-> resends + 1]
    OBVIOUS
  <2>2. addr[n] # 0
    BY <1>2 DEF Resends
  <2>3. /\ m \in NodeMsg /\ rx' = Append(rx, m) /\ m.node = n /\ m.k = resends + 1
        /\ m.kind = "SETUP" /\ m.addr = addr[n] /\ addr' = addr /\ resends' = resends + 1
    BY <1>2, <2>1, <2>2, NewMessages DEF Resends
  <2>4. ~Joins(n) /\ ~Leaves(n)
    BY <1>2 DEF Joins, Resends, Leaves
  <2> QED  BY <1>0, <2>3, <2>4
<1>3. CASE Leaves(n)
  <2>1. PICK m : m = [kind |-> "SHUTDOWN", node |-> n, addr |-> addr[n], k |-> 0]
    OBVIOUS
  <2>2. addr[n] # 0
    BY <1>3 DEF Leaves
  <2>3. /\ m \in NodeMsg /\ m.node = n /\ m.k = 0 /\ m.kind = "SHUTDOWN" /\ m.addr = addr[n]
        /\ addr' = addr /\ resends' = resends
        /\ rx' = Append(rx, m) \/ rx' = rx
    BY <1>3, <2>1, <2>2, NewMessages DEF Leaves
  <2>4. ~Joins(n) /\ ~Resends(n)
    BY <1>3 DEF Joins, Resends, Leaves
  <2> QED  BY <1>0, <1>3, <2>3, <2>4
<1> QED  BY <1>1, <1>2, <1>3 DEF NodeMoves

\* A message that becomes known was sent by a node, under its name and address.
LEMMA NewlyKnown ==
  ASSUME NodeTypes, \A n \in Nodes : node[n] # "out" => addr[n] # 0,
         NodeSideMoves, NEW m \in NodeMsg, Known(m)'
  PROVE  \/ Known(m)
         \/ \E n \in Nodes : NodeMoves(n) /\ m.node = n /\ m.addr = addr'[n] /\ m.k <= resends'
<1>1. CASE Handled(m)'
  <2>1. Takes /\ m = rx[1] => InRx(m)
    BY RxPopped DEF Takes, InRx
  <2> QED  BY <1>1, <2>1, HandledMoves DEF Known
<1>2. CASE InRx(m)'
  <2>1. CASE LoopMoves
    <3>1. rx' = rx \/ (rx # <<>> /\ rx' = Tail(rx))
      BY <2>1 DEF LoopMoves, Takes, Shuttles, Unconnects, Unregisters
    <3>2. CASE rx' = rx
      BY <1>2, <3>2 DEF InRx, Known
    <3>3. CASE rx # <<>> /\ rx' = Tail(rx)
      BY <1>2, <3>3, RxPopped DEF Known
    <3> QED  BY <3>1, <3>2, <3>3
  <2>2. ASSUME NEW n \in Nodes, NodeMoves(n)
        PROVE  Known(m) \/ (m.node = n /\ m.addr = addr'[n] /\ m.k <= resends')
    <3>1. CASE rx' = rx
      BY <1>2, <3>1 DEF InRx, Known
    <3>2. CASE rx' # rx
      <4>1. PICK z \in NodeMsg : rx' = Append(rx, z) /\ z.node = n /\ z.addr = addr'[n] /\ z.k <= resends'
        BY <2>2, <3>2, Sent
      <4>2. InRx(m) \/ m = z
        BY <1>2, <4>1, RxPushed
      <4> QED  BY <4>1, <4>2 DEF Known
    <3> QED  BY <3>1, <3>2
  <2>3. CASE Stops \/ Frees \/ FreesIapp \/ (\E w \in Workers : WorkerMoves(w)) \/ \E z \in answers : Hears(z)
    <3>1. rx' = rx
      BY <2>3 DEF Stops, Frees, FreesIapp, WorkerMoves, Adds, Registers, Connects, Answers, Hears
    <3> QED  BY <1>2, <3>1 DEF InRx, Known
  <2> QED  BY <2>1, <2>2, <2>3 DEF NodeSideMoves
<1> QED  BY <1>1, <1>2 DEF Known

\* Names and addresses of messages agree in every step.
LEMMA NextAddresses ==
  ASSUME NodeTypes, Addresses, NodeSideMoves
  PROVE  Addresses'
<1>0. /\ joins \in Nat /\ resends \in Nat /\ \A n \in Nodes : addr[n] \in Nat
      /\ \A m \in NodeMsg : m.addr \in Nat \ {0} /\ m.k \in Nat /\ m.node \in Nodes
  BY NodeAssumption DEF NodeTypes, NodeMsg
<1>1. \A n \in Nodes : addr[n] <= joins /\ (node[n] # "out" => addr[n] # 0)
  BY DEF Addresses
<1>2. \A m \in NodeMsg : Known(m)' =>
        \/ Known(m)
        \/ \E n \in Nodes : NodeMoves(n) /\ m.node = n /\ m.addr = addr'[n] /\ m.k <= resends'
  BY <1>1, NewlyKnown
<1>3. /\ \A m, z \in NodeMsg : Known(m) /\ Known(z) /\ m.addr = z.addr => m.node = z.node
      /\ \A m \in NodeMsg : Known(m) => /\ m.addr <= joins /\ m.k <= resends
                                        /\ \A n \in Nodes : m.addr = addr[n] => m.node = n
      /\ \A n, o \in Nodes : addr[n] = addr[o] /\ addr[n] # 0 => n = o
  BY DEF Addresses
<1>4. CASE \E n \in Nodes : Joins(n)
  <2>1. PICK n \in Nodes : Joins(n)
    BY <1>4
  <2>2. /\ joins' = joins + 1 /\ addr'[n] = joins + 1 /\ resends' = resends
        /\ \A o \in Nodes : o # n => addr'[o] = addr[o] /\ node'[o] = node[o]
    BY <2>1 DEF Joins, NodeTypes
  <2>3. \A o \in Nodes : NodeMoves(o) => o = n
    BY <2>1, <2>2, <1>0 DEF NodeMoves, Joins, Resends, Leaves, NodeTypes
  <2>4. \A m \in NodeMsg : Known(m)' => Known(m) \/ (m.node = n /\ m.addr = joins + 1 /\ m.k <= resends)
    BY <1>2, <2>2, <2>3
  <2>5. \A m, z \in NodeMsg : Known(m)' /\ Known(z)' /\ m.addr = z.addr => m.node = z.node
    BY <1>0, <1>3, <2>4
  <2>6. \A m \in NodeMsg : Known(m)' => /\ m.addr <= joins' /\ m.k <= resends'
                                        /\ \A o \in Nodes : m.addr = addr'[o] => m.node = o
    BY <1>0, <1>1, <1>3, <2>2, <2>4
  <2>7. \A o \in Nodes : /\ addr'[o] <= joins' /\ (node'[o] # "out" => addr'[o] # 0)
                         /\ \A u \in Nodes : addr'[o] = addr'[u] /\ addr'[o] # 0 => o = u
    BY <1>0, <1>1, <1>3, <2>2
  <2> QED  BY <2>5, <2>6, <2>7 DEF Addresses
<1>5. CASE \A n \in Nodes : ~Joins(n)
  <2>1. /\ addr' = addr /\ joins' = joins /\ resends' \in Nat /\ resends <= resends'
        /\ \A n \in Nodes : node'[n] # "out" => node[n] # "out"
        /\ \A n \in Nodes : NodeMoves(n) => node[n] # "out"
    <3>1. CASE \E n \in Nodes : NodeMoves(n)
      <4>1. PICK n \in Nodes : Resends(n) \/ Leaves(n)
        BY <1>5, <3>1 DEF NodeMoves
      <4>2. /\ addr' = addr /\ joins' = joins /\ resends' \in {resends, resends + 1}
            /\ \A o \in Nodes : node'[o] # "out" => node[o] # "out"
        BY <4>1 DEF Resends, Leaves, NodeTypes
      <4>3. \A o \in Nodes : NodeMoves(o) => node[o] # "out"
        BY <1>5 DEF NodeMoves, Resends, Leaves
      <4> QED  BY <1>0, <4>2, <4>3
    <3>2. CASE ~\E n \in Nodes : NodeMoves(n)
      <4>1. addr' = addr /\ joins' = joins /\ resends' = resends
        BY <3>2 DEF NodeSideMoves, LoopMoves, Takes, Shuttles, Unconnects, Unregisters, Stops, Frees, FreesIapp,
           WorkerMoves, Adds, Registers, Connects, Answers, Hears
      <4>2. node' = node \/ \E m \in answers : Hears(m)
        BY <3>2 DEF NodeSideMoves, LoopMoves, Takes, Shuttles, Unconnects, Unregisters, Stops, Frees, FreesIapp,
           WorkerMoves, Adds, Registers, Connects, Answers
      <4>3. \A n \in Nodes : node'[n] # "out" => node[n] # "out"
        BY <4>2 DEF Hears, NodeTypes
      <4> QED  BY <1>0, <3>2, <4>1, <4>3
    <3> QED  BY <3>1, <3>2
  <2>2. \A m \in NodeMsg : Known(m)' =>
          Known(m) \/ \E n \in Nodes : m.node = n /\ m.addr = addr[n] /\ addr[n] # 0 /\ m.k <= resends'
    BY <1>1, <1>2, <2>1
  <2>3. \A m, z \in NodeMsg : Known(m)' /\ Known(z)' /\ m.addr = z.addr => m.node = z.node
    BY <1>3, <2>2
  <2>4. \A m \in NodeMsg : Known(m)' => /\ m.addr <= joins' /\ m.k <= resends'
                                        /\ \A n \in Nodes : m.addr = addr'[n] => m.node = n
    BY <1>0, <1>1, <1>3, <2>1, <2>2
  <2>5. \A n \in Nodes : /\ addr'[n] <= joins' /\ (node'[n] # "out" => addr'[n] # 0)
                         /\ \A o \in Nodes : addr'[n] = addr'[o] /\ addr'[n] # 0 => n = o
    BY <1>1, <1>3, <2>1
  <2> QED  BY <2>3, <2>4, <2>5 DEF Addresses
<1> QED  BY <1>4, <1>5

\* A request that is sent is not known before.
LEMMA FreshRequest ==
  ASSUME NodeTypes, Addresses, NEW n \in Nodes, NEW m \in NodeMsg,
         \/ Joins(n) /\ m.addr = addr'[n]
         \/ Resends(n) /\ m.k = resends + 1
  PROVE  ~Known(m)
<1>1. joins \in Nat /\ resends \in Nat
  BY NodeAssumption DEF NodeTypes
<1>2. Known(m) => m.addr <= joins /\ m.k <= resends
  BY DEF Addresses
<1>3. Joins(n) => addr'[n] = joins + 1
  BY DEF Joins, NodeTypes
<1> QED  BY <1>1, <1>2, <1>3

-----------------------------------------------------------------------------
(* The registries agree.                                                   *)

\* A request stays in one place.
LEMMA NextOnce ==
  ASSUME NodeTypes, Addresses, Once, NodeSideMoves
  PROVE  Once'
<1>1. CASE Takes
  <2>1. /\ rx # <<>> /\ rx' = Tail(rx) /\ rx[1].kind = "SETUP"
        /\ tasks' = tasks \union {rx[1]} /\ sads' = sads
    BY <1>1 DEF Takes
  <2>2. /\ Len(rx) \in Nat /\ 1 \in 1 .. Len(rx)
        /\ \A i \in 1 .. Len(rx') : /\ rx'[i] = rx[i + 1] /\ i + 1 \in 1 .. Len(rx) /\ i + 1 # 1
                                    /\ \A j \in 1 .. Len(rx') : i + 1 = j + 1 => i = j
    BY <2>1, RxPopped
  <2>3. \A i, j \in 1 .. Len(rx') : rx'[i].kind = "SETUP" /\ rx'[i] = rx'[j] => i = j
    BY <2>2 DEF Once
  <2>4. \A i \in 1 .. Len(rx') : rx'[i].kind = "SETUP" => rx'[i] \notin tasks' \union sads'
    BY <2>1, <2>2 DEF Once
  <2>5. \A m \in tasks' : m \notin sads'
    BY <2>1, <2>2 DEF Once
  <2> QED  BY <2>3, <2>4, <2>5 DEF Once
<1>2. CASE \E e \in sads : Shuttles(e)
  <2>1. /\ rx # <<>> /\ rx' = Tail(rx) /\ tasks' = tasks /\ sads' \subseteq sads
    BY <1>2 DEF Shuttles
  <2>2. \A i \in 1 .. Len(rx') : /\ rx'[i] = rx[i + 1] /\ i + 1 \in 1 .. Len(rx)
                                 /\ \A j \in 1 .. Len(rx') : i + 1 = j + 1 => i = j
    BY <2>1, RxPopped
  <2> QED  BY <2>1, <2>2 DEF Once
<1>3. ASSUME NEW w \in Workers, NEW m \in tasks, Adds(w, m)
      PROVE  Once'
  BY <1>3 DEF Adds, Once
<1>4. ASSUME NEW n \in Nodes, NodeMoves(n)
      PROVE  Once'
  <2>1. tasks' = tasks /\ sads' = sads
    BY <1>4 DEF NodeMoves, Joins, Resends, Leaves
  <2>2. CASE rx' = rx
    BY <2>1, <2>2 DEF Once
  <2>3. CASE rx' # rx
    <3>0. node[n] # "out" => addr[n] # 0
      BY DEF Addresses
    <3>1. PICK m \in NodeMsg :
            /\ rx' = Append(rx, m) /\ m.node = n /\ m.addr = addr'[n]
            /\ Resends(n) => m.kind = "SETUP" /\ m.k = resends + 1
            /\ Leaves(n) => m.kind = "SHUTDOWN"
      BY <1>4, <2>3, <3>0, Sent
    <3>2. m.kind = "SETUP" => ~Known(m)
      BY <1>4, <3>1, FreshRequest DEF NodeMoves
    <3>3. /\ Len(rx) \in Nat /\ rx'[Len(rx) + 1] = m
          /\ \A i \in 1 .. Len(rx) : rx'[i] = rx[i]
          /\ \A i \in 1 .. Len(rx') : i \in 1 .. Len(rx) \/ i = Len(rx) + 1
      BY <3>1, RxPushed
    <3>4. m.kind = "SETUP" => m \notin tasks \union sads /\ \A i \in 1 .. Len(rx) : rx[i] # m
      BY <3>2 DEF Known, Handled, InRx
    <3>5. \A i, j \in 1 .. Len(rx') : rx'[i].kind = "SETUP" /\ rx'[i] = rx'[j] => i = j
      BY <3>3, <3>4 DEF Once
    <3>6. \A i \in 1 .. Len(rx') : rx'[i].kind = "SETUP" => rx'[i] \notin tasks' \union sads'
      BY <2>1, <3>3, <3>4 DEF Once
    <3> QED  BY <2>1, <3>5, <3>6 DEF Once
  <2> QED  BY <2>2, <2>3
<1>5. CASE rx' = rx /\ tasks' \subseteq tasks /\ sads' \subseteq sads
  BY <1>5 DEF Once
<1>6. Unconnects \/ Unregisters \/ Stops \/ Frees \/ FreesIapp \/ (\E m \in answers : Hears(m))
      \/ (\E w \in Workers : Registers(w) \/ Connects(w) \/ Answers(w))
      => rx' = rx /\ tasks' \subseteq tasks /\ sads' \subseteq sads
  BY DEF Unconnects, Unregisters, Stops, Frees, FreesIapp, Hears, Registers, Connects, Answers
<1> QED  BY <1>1, <1>2, <1>3, <1>4, <1>5, <1>6 DEF NodeSideMoves, LoopMoves, WorkerMoves

\* Numbers of elements when one is added, or taken away.
LEMMA Counts ==
  ASSUME NEW S, IsFiniteSet(S), NEW x
  PROVE  /\ Cardinality(S) \in Nat
         /\ x \notin S => Cardinality(S \union {x}) = Cardinality(S) + 1
         /\ x \in S => Cardinality(S \ {x}) = Cardinality(S) - 1
BY FS_CardinalityType, FS_AddElement, FS_RemoveElement

\* The registrations and the addresses of a node are finitely many.
LEMMA FinitelyMany ==
  ASSUME IsFiniteSet(sads), NEW n
  PROVE  IsFiniteSet(AddressesOf(n)) /\ IsFiniteSet(Registering(n))
<1>1. AddressesOf(n) \subseteq sads /\ Registering(n) \subseteq Workers
  BY DEF AddressesOf, Registering
<1> QED  BY <1>1, FS_Subset, NodeAssumption

\* The number of addresses of a node is that of its registrations.
LEMMA NextBalance ==
  ASSUME NodeTypes, Once, Balance, NodeSideMoves
  PROVE  Balance'
<1>0. IsFiniteSet(sads)
  BY DEF Balance
<1>1. IsFiniteSet(sads')
  <2>1. sads' \subseteq sads \/ \E m : sads' = sads \union {m}
    BY DEF NodeSideMoves, LoopMoves, Takes, Shuttles, Unconnects, Unregisters, Stops, Frees, FreesIapp,
       WorkerMoves, Adds, Registers, Connects, Answers, NodeMoves, Joins, Resends, Leaves, Hears
  <2> QED  BY <1>0, <2>1, FS_Subset, FS_AddElement
<1>2. SUFFICES ASSUME Serving', NEW n \in Nodes
               PROVE  Cardinality(AddressesOf(n)') + One(BeingForgotten(n)')
                        = Cardinality(Registering(n)') + One((n \in reg)')
  BY <1>1 DEF Balance, One
<1>3. ~Frees /\ ~FreesIapp
  BY <1>2 DEF Frees, FreesIapp, Serving
<1>4. Serving
  BY <1>2, <1>3 DEF NodeSideMoves, LoopMoves, Takes, Shuttles, Unconnects, Unregisters, Stops, WorkerMoves,
     Adds, Registers, Connects, Answers, NodeMoves, Joins, Resends, Leaves, Hears, Serving
<1>5. Cardinality(AddressesOf(n)) + One(BeingForgotten(n)) = Cardinality(Registering(n)) + One(n \in reg)
  BY <1>4 DEF Balance
<1>6. /\ IsFiniteSet(AddressesOf(n)) /\ IsFiniteSet(Registering(n))
      /\ Cardinality(AddressesOf(n)) \in Nat /\ Cardinality(Registering(n)) \in Nat
  BY <1>0, FinitelyMany, Counts
<1>7. CASE UNCHANGED <<sads, reg>> /\ BeingForgotten(n)' = BeingForgotten(n) /\ Registering(n)' = Registering(n)
  BY <1>5, <1>7 DEF AddressesOf
<1>8. ASSUME NEW e \in sads, Shuttles(e)
      PROVE  Cardinality(AddressesOf(n)') + One(BeingForgotten(n)')
               = Cardinality(Registering(n)') + One((n \in reg)')
  <2>1. /\ sads' = sads \ {e} /\ lnode' = e.node /\ lpc' = "unconn" /\ lpc = "idle"
        /\ UNCHANGED <<wpc, wmsg, reg>>
    BY <1>8 DEF Shuttles
  <2>2. Registering(n)' = Registering(n) /\ ~BeingForgotten(n)
    BY <2>1 DEF Registering, BeingForgotten
  <2>3. CASE e.node = n
    <3>1. AddressesOf(n)' = AddressesOf(n) \ {e} /\ e \in AddressesOf(n) /\ BeingForgotten(n)'
      BY <2>1, <2>3 DEF AddressesOf, BeingForgotten
    <3>2. Cardinality(AddressesOf(n)') = Cardinality(AddressesOf(n)) - 1
      BY <1>6, <3>1, Counts
    <3> QED  BY <1>5, <1>6, <2>1, <2>2, <3>1, <3>2 DEF One
  <2>4. CASE e.node # n
    <3>1. AddressesOf(n)' = AddressesOf(n) /\ ~BeingForgotten(n)'
      BY <2>1, <2>4 DEF AddressesOf, BeingForgotten
    <3> QED  BY <1>5, <2>1, <2>2, <3>1 DEF One
  <2> QED  BY <2>3, <2>4
<1>9. CASE Unregisters
  <2>1. /\ lpc = "unreg" /\ lpc' = "idle" /\ lnode \in reg /\ reg' = reg \ {lnode}
        /\ UNCHANGED <<sads, wpc, wmsg>>
    BY <1>9 DEF Unregisters
  <2>2. AddressesOf(n)' = AddressesOf(n) /\ Registering(n)' = Registering(n) /\ ~BeingForgotten(n)'
    BY <2>1 DEF AddressesOf, Registering, BeingForgotten
  <2>3. BeingForgotten(n) <=> lnode = n
    BY <2>1 DEF BeingForgotten
  <2> QED  BY <1>5, <1>6, <2>1, <2>2, <2>3 DEF One
<1>10. ASSUME NEW w \in Workers, NEW m \in tasks, Adds(w, m)
       PROVE  Cardinality(AddressesOf(n)') + One(BeingForgotten(n)')
                = Cardinality(Registering(n)') + One((n \in reg)')
  <2>1. /\ sads' = sads \union {m} /\ m \notin sads
        /\ UNCHANGED <<lpc, lnode, reg>>
    BY <1>10 DEF Adds, Once
  <2>2. /\ wpc[w] = "idle" /\ wpc'[w] = "register" /\ wmsg'[w] = m
        /\ \A v \in Workers : v # w => wpc'[v] = wpc[v] /\ wmsg'[v] = wmsg[v]
    BY <1>10 DEF Adds, NodeTypes
  <2>3. BeingForgotten(n)' = BeingForgotten(n)
    BY <2>1 DEF BeingForgotten
  <2>4. CASE m.node = n
    <3>1. /\ AddressesOf(n)' = AddressesOf(n) \union {m} /\ m \notin AddressesOf(n)
          /\ Registering(n)' = Registering(n) \union {w} /\ w \notin Registering(n)
      BY <2>1, <2>2, <2>4 DEF AddressesOf, Registering
    <3>2. /\ Cardinality(AddressesOf(n)') = Cardinality(AddressesOf(n)) + 1
          /\ Cardinality(Registering(n)') = Cardinality(Registering(n)) + 1
      BY <1>6, <3>1, Counts
    <3> QED  BY <1>5, <1>6, <2>1, <2>3, <3>2 DEF One
  <2>5. CASE m.node # n
    <3>1. AddressesOf(n)' = AddressesOf(n) /\ Registering(n)' = Registering(n)
      BY <2>1, <2>2, <2>5 DEF AddressesOf, Registering
    <3> QED  BY <1>5, <2>1, <2>3, <3>1 DEF One
  <2> QED  BY <2>4, <2>5
<1>11. ASSUME NEW w \in Workers, Registers(w)
       PROVE  Cardinality(AddressesOf(n)') + One(BeingForgotten(n)')
                = Cardinality(Registering(n)') + One((n \in reg)')
  <2>1. /\ wmsg[w].node \notin reg /\ reg' = reg \union {wmsg[w].node}
        /\ UNCHANGED <<lpc, lnode, sads>>
    BY <1>11 DEF Registers
  <2>2. /\ wpc[w] = "register" /\ wpc'[w] = "connect" /\ wmsg' = wmsg
        /\ \A v \in Workers : v # w => wpc'[v] = wpc[v]
    BY <1>11 DEF Registers, NodeTypes
  <2>3. BeingForgotten(n)' = BeingForgotten(n) /\ AddressesOf(n)' = AddressesOf(n)
    BY <2>1 DEF BeingForgotten, AddressesOf
  <2>4. CASE wmsg[w].node = n
    <3>1. Registering(n)' = Registering(n) \ {w} /\ w \in Registering(n)
      BY <2>2, <2>4 DEF Registering
    <3>2. Cardinality(Registering(n)') = Cardinality(Registering(n)) - 1
      BY <1>6, <3>1, Counts
    <3> QED  BY <1>5, <1>6, <2>1, <2>3, <2>4, <3>2 DEF One
  <2>5. CASE wmsg[w].node # n
    <3>1. Registering(n)' = Registering(n)
      BY <2>2, <2>5 DEF Registering
    <3> QED  BY <1>5, <2>1, <2>3, <2>5, <3>1 DEF One
  <2> QED  BY <2>4, <2>5
<1>12. Takes \/ Unconnects \/ Stops \/ (\E o \in Nodes : NodeMoves(o)) \/ (\E m \in answers : Hears(m))
       => UNCHANGED <<sads, reg>> /\ BeingForgotten(n)' = BeingForgotten(n) /\ Registering(n)' = Registering(n)
  BY DEF Takes, Unconnects, Stops, NodeMoves, Joins, Resends, Leaves, Hears, BeingForgotten, Registering
<1>13. ASSUME NEW w \in Workers, Connects(w) \/ Answers(w)
       PROVE  UNCHANGED <<sads, reg>> /\ BeingForgotten(n)' = BeingForgotten(n) /\ Registering(n)' = Registering(n)
  <2>1. /\ wpc[w] # "register" /\ wpc'[w] # "register" /\ UNCHANGED <<sads, reg, lpc, lnode>>
        /\ \A v \in Workers : v # w => wpc'[v] = wpc[v] /\ wmsg'[v] = wmsg[v]
    BY <1>13 DEF Connects, Answers, NodeTypes
  <2> QED  BY <2>1 DEF BeingForgotten, Registering
<1> QED  BY <1>3, <1>7, <1>8, <1>9, <1>10, <1>11, <1>12, <1>13 DEF NodeSideMoves, LoopMoves, WorkerMoves

\* The stage at which a registered node is.
LEMMA NextOneStage ==
  ASSUME NodeTypes, OneStage, StopOrder, NodeSideMoves
  PROVE  OneStage'
<1>1. SUFFICES ASSUME Serving', NEW n \in Nodes
               PROVE  /\ n \in reg' <=> \/ ConnOf(n)' # {} \/ Forgotten(n)'
                                        \/ \E w \in Workers : Connecting(w, n)'
                      /\ Forgotten(n)' => ConnOf(n)' = {}
                      /\ \A c, d \in ConnOf(n)' : c = d
                      /\ \A w \in Workers : Connecting(w, n)' =>
                           /\ ConnOf(n)' = {} /\ ~Forgotten(n)'
                           /\ \A v \in Workers : Connecting(v, n)' => v = w
  BY DEF OneStage
<1>2. ~Frees /\ ~FreesIapp
  BY <1>1 DEF Frees, FreesIapp, Serving
<1>3. Serving
  BY <1>1, <1>2 DEF NodeSideMoves, LoopMoves, Takes, Shuttles, Unconnects, Unregisters, Stops, WorkerMoves,
     Adds, Registers, Connects, Answers, NodeMoves, Joins, Resends, Leaves, Hears, Serving
<1>4. /\ n \in reg <=> \/ ConnOf(n) # {} \/ Forgotten(n)
                       \/ \E w \in Workers : Connecting(w, n)
      /\ Forgotten(n) => ConnOf(n) = {}
      /\ \A c, d \in ConnOf(n) : c = d
      /\ \A w \in Workers : Connecting(w, n) =>
           /\ ConnOf(n) = {} /\ ~Forgotten(n)
           /\ \A v \in Workers : Connecting(v, n) => v = w
  BY <1>3 DEF OneStage
<1>5. CASE /\ reg' = reg /\ conn' = conn /\ Forgotten(n)' = Forgotten(n)
           /\ \A w \in Workers : Connecting(w, n)' = Connecting(w, n)
  BY <1>4, <1>5 DEF ConnOf
<1>6. CASE Unconnects
  <2>1. /\ lpc = "unconn" /\ lpc' = "unreg" /\ (\E c \in ConnOf(lnode) : conn' = conn \ {c})
        /\ UNCHANGED <<lnode, wpc, wmsg, reg>>
    BY <1>6 DEF Unconnects
  <2>2. \A w \in Workers : Connecting(w, n)' = Connecting(w, n)
    BY <2>1 DEF Connecting
  <2>3. ~Forgotten(n) /\ (Forgotten(n)' <=> n = lnode)
    BY <2>1 DEF Forgotten
  <2>4. CASE n = lnode
    <3>1. ConnOf(n) # {} /\ ConnOf(n)' = {}
      BY <1>4, <2>1, <2>4 DEF ConnOf
    <3> QED  BY <1>4, <2>1, <2>2, <2>3, <2>4, <3>1
  <2>5. CASE n # lnode
    <3>1. ConnOf(n)' = ConnOf(n)
      BY <2>1, <2>5 DEF ConnOf
    <3> QED  BY <1>4, <2>1, <2>2, <2>3, <2>5, <3>1
  <2> QED  BY <2>4, <2>5
<1>7. CASE Unregisters
  <2>1. /\ lpc = "unreg" /\ lpc' = "idle" /\ lnode \in reg /\ reg' = reg \ {lnode}
        /\ UNCHANGED <<conn, lnode, wpc, wmsg>>
    BY <1>7 DEF Unregisters
  <2>2. \A w \in Workers : Connecting(w, n)' = Connecting(w, n)
    BY <2>1 DEF Connecting
  <2>3. ~Forgotten(n)' /\ (Forgotten(n) <=> n = lnode) /\ ConnOf(n)' = ConnOf(n)
    BY <2>1 DEF Forgotten, ConnOf
  <2> QED  BY <1>4, <2>1, <2>2, <2>3
<1>8. ASSUME NEW w \in Workers, Registers(w)
      PROVE  /\ n \in reg' <=> \/ ConnOf(n)' # {} \/ Forgotten(n)'
                               \/ \E v \in Workers : Connecting(v, n)'
             /\ Forgotten(n)' => ConnOf(n)' = {}
             /\ \A c, d \in ConnOf(n)' : c = d
             /\ \A v \in Workers : Connecting(v, n)' =>
                  /\ ConnOf(n)' = {} /\ ~Forgotten(n)'
                  /\ \A u \in Workers : Connecting(u, n)' => u = v
  <2>1. /\ wmsg[w].node \notin reg /\ reg' = reg \union {wmsg[w].node}
        /\ UNCHANGED <<conn, lpc, lnode>>
    BY <1>8 DEF Registers
  <2>2. /\ wpc[w] = "register" /\ wpc'[w] = "connect" /\ wmsg' = wmsg
        /\ \A v \in Workers : v # w => wpc'[v] = wpc[v]
    BY <1>8 DEF Registers, NodeTypes
  <2>3. Forgotten(n)' = Forgotten(n) /\ ConnOf(n)' = ConnOf(n)
    BY <2>1 DEF Forgotten, ConnOf
  <2>4. /\ \A v \in Workers : v # w => Connecting(v, n)' = Connecting(v, n)
        /\ Connecting(w, n)' <=> wmsg[w].node = n
        /\ ~Connecting(w, n)
    BY <2>2 DEF Connecting
  <2> QED  BY <1>4, <2>1, <2>3, <2>4
<1>9. ASSUME NEW w \in Workers, Connects(w)
      PROVE  /\ n \in reg' <=> \/ ConnOf(n)' # {} \/ Forgotten(n)'
                               \/ \E v \in Workers : Connecting(v, n)'
             /\ Forgotten(n)' => ConnOf(n)' = {}
             /\ \A c, d \in ConnOf(n)' : c = d
             /\ \A v \in Workers : Connecting(v, n)' =>
                  /\ ConnOf(n)' = {} /\ ~Forgotten(n)'
                  /\ \A u \in Workers : Connecting(u, n)' => u = v
  <2>1. conn' = conn \union {wmsg[w]} /\ UNCHANGED <<reg, lpc, lnode>>
    BY <1>9 DEF Connects
  <2>2. /\ wpc[w] = "connect" /\ wpc'[w] = "answer" /\ wmsg' = wmsg
        /\ \A v \in Workers : v # w => wpc'[v] = wpc[v]
    BY <1>9 DEF Connects, NodeTypes
  <2>3. Forgotten(n)' = Forgotten(n)
    BY <2>1 DEF Forgotten
  <2>4. /\ \A v \in Workers : v # w => Connecting(v, n)' = Connecting(v, n)
        /\ Connecting(w, n) <=> wmsg[w].node = n
        /\ ~Connecting(w, n)'
    BY <2>2 DEF Connecting
  <2>5. CASE wmsg[w].node = n
    <3>1. ConnOf(n)' = {wmsg[w]}
      <4>1. ConnOf(n) = {}
        BY <1>4, <2>4, <2>5
      <4> QED  BY <2>1, <2>5, <4>1 DEF ConnOf
    <3> QED  BY <1>4, <2>1, <2>3, <2>4, <2>5, <3>1
  <2>6. CASE wmsg[w].node # n
    <3>1. ConnOf(n)' = ConnOf(n)
      BY <2>1, <2>6 DEF ConnOf
    <3> QED  BY <1>4, <2>1, <2>3, <2>4, <2>6, <3>1
  <2> QED  BY <2>5, <2>6
<1>10. Takes \/ (\E e \in sads : Shuttles(e)) \/ Stops \/ (\E o \in Nodes : NodeMoves(o))
       \/ (\E m \in answers : Hears(m))
       => /\ reg' = reg /\ conn' = conn /\ Forgotten(n)' = Forgotten(n)
          /\ \A w \in Workers : Connecting(w, n)' = Connecting(w, n)
  BY DEF Takes, Shuttles, Stops, NodeMoves, Joins, Resends, Leaves, Hears, Forgotten, Connecting
<1>11. ASSUME NEW w \in Workers, (\E m \in tasks : Adds(w, m)) \/ Answers(w)
       PROVE  /\ reg' = reg /\ conn' = conn /\ Forgotten(n)' = Forgotten(n)
              /\ \A v \in Workers : Connecting(v, n)' = Connecting(v, n)
  <2>1. /\ wpc[w] # "connect" /\ wpc'[w] # "connect" /\ UNCHANGED <<reg, conn, lpc, lnode>>
        /\ \A v \in Workers : v # w => wpc'[v] = wpc[v] /\ wmsg'[v] = wmsg[v]
    BY <1>11 DEF Adds, Answers, NodeTypes
  <2> QED  BY <2>1 DEF Forgotten, Connecting
<1> QED  BY <1>2, <1>5, <1>6, <1>7, <1>8, <1>9, <1>10, <1>11 DEF NodeSideMoves, LoopMoves, WorkerMoves

-----------------------------------------------------------------------------
(* A node that has its answer can be reached.                              *)

\* A request of the association a node has now that is unread was not handled.
LEMMA Unhandled ==
  ASSUME InOrder, NEW n \in Nodes, node[n] # "out", InRx(Request(n))
  PROVE  /\ node[n] = "asked" /\ \A m \in NodeMsg : Current(m, n) => ~Handled(m)
BY DEF InOrder, Ordered, InRx

\* The node to be forgotten is that of the shutdown.
LEMMA ShutNode ==
  ASSUME NodeTypes, Addresses, NEW e \in sads, Shuttles(e)
  PROVE  /\ e \in NodeMsg /\ rx[1] \in NodeMsg /\ 1 \in 1 .. Len(rx)
         /\ e.node = rx[1].node /\ e.addr = rx[1].addr /\ Shuts(1, e.node)
<1>1. rx # <<>> /\ rx[1].kind = "SHUTDOWN" /\ e.addr = rx[1].addr /\ rx' = Tail(rx)
  BY DEF Shuttles
<1>2. rx[1] \in NodeMsg /\ 1 \in 1 .. Len(rx) /\ e \in NodeMsg
  BY <1>1, RxPopped DEF NodeTypes
<1>3. Known(rx[1]) /\ Known(e)
  BY <1>2 DEF Known, Handled, InRx
<1>4. e.node = rx[1].node
  BY <1>1, <1>2, <1>3 DEF Addresses
<1> QED  BY <1>1, <1>2, <1>4 DEF Shuts

\* What is current for a node stays so until the node joins again.
LEMMA CurrentStays ==
  ASSUME NodeTypes, NodeSideMoves, NEW n \in Nodes, ~Joins(n)
  PROVE  /\ addr'[n] = addr[n] /\ Request(n)' = Request(n)
         /\ \A m : Current(m, n)' = Current(m, n)
         /\ node'[n] # "out" => node[n] # "out"
<1>1. addr'[n] = addr[n] /\ (node'[n] # "out" => node[n] # "out")
  <2>1. CASE \E o \in Nodes : NodeMoves(o)
    BY <2>1 DEF NodeMoves, Joins, Resends, Leaves, NodeTypes
  <2>2. CASE \E m \in answers : Hears(m)
    BY <2>2 DEF Hears, NodeTypes
  <2>3. CASE LoopMoves \/ Stops \/ Frees \/ FreesIapp \/ \E w \in Workers : WorkerMoves(w)
    BY <2>3 DEF LoopMoves, Takes, Shuttles, Unconnects, Unregisters, Stops, Frees, FreesIapp,
       WorkerMoves, Adds, Registers, Connects, Answers
  <2> QED  BY <2>1, <2>2, <2>3 DEF NodeSideMoves
<1> QED  BY <1>1 DEF Request, Current

\* What is left of a node's earlier associations stays before its latest request.
LEMMA NextInOrder ==
  ASSUME NodeTypes, Addresses, InOrder, NodeSideMoves
  PROVE  InOrder'
<1> SUFFICES ASSUME NEW n \in Nodes, node'[n] # "out", NEW r, r = Request(n)'
             PROVE  Ordered(n, r)'
  BY DEF InOrder
<1>0. /\ joins \in Nat /\ resends \in Nat /\ Len(rx) \in Nat
      /\ \A o \in Nodes : node[o] # "out" => addr[o] # 0
  BY NodeAssumption DEF NodeTypes, Addresses
<1>1. CASE Joins(n)
  <2>1. PICK z \in NodeMsg : /\ rx' = Append(rx, z) /\ z.node = n /\ z.addr = addr'[n]
                             /\ z.kind = "SETUP" /\ z = r
    BY <1>0, <1>1, Sent DEF NodeMoves, Leaves, Joins
  <2>2. /\ Len(rx') = Len(rx) + 1 /\ rx'[Len(rx) + 1] = z
        /\ \A i \in 1 .. Len(rx) : rx'[i] = rx[i]
        /\ \A i \in 1 .. Len(rx') : i \in 1 .. Len(rx) \/ i = Len(rx) + 1
        /\ \A y : InRx(y)' <=> InRx(y) \/ y = z
    BY <2>1, RxPushed
  <2>3. node'[n] = "asked" /\ addr'[n] = joins + 1
    BY <1>1 DEF Joins, NodeTypes
  <2>4. \A m \in NodeMsg : m.addr = addr'[n] => ~Known(m)
    <3>1. \A m \in NodeMsg : Known(m) => m.addr <= joins
      BY DEF Addresses
    <3> QED  BY <1>0, <2>3, <3>1
  <2>5. \A m \in NodeMsg : Current(m, n)' => ~Handled(m)'
    <3>1. \A m \in NodeMsg : Handled(m)' => Handled(m)
      BY <1>1 DEF Joins, Handled, AtWorker
    <3> QED  BY <2>4, <3>1 DEF Known, Current
  <2>6. \A i \in 1 .. Len(rx) : rx[i] \in NodeMsg /\ Known(rx[i])
    <3>1. \A i \in 1 .. Len(rx) : rx[i] \in NodeMsg
      BY DEF NodeTypes
    <3> QED  BY <3>1 DEF Known, InRx
  <2>7. ASSUME NEW i \in 1 .. Len(rx'), Shuts(i, n)'
        PROVE  \E j \in i + 1 .. Len(rx') : rx'[j] = r
    <3>1. i # Len(rx) + 1
      BY <2>1, <2>2, <2>7 DEF Shuts
    <3>2. i \in 1 .. Len(rx) /\ Len(rx) + 1 \in i + 1 .. Len(rx')
      BY <1>0, <2>2, <3>1
    <3> QED  BY <2>1, <2>2, <3>2
  <2>8. \E i \in 1 .. Len(rx') : rx'[i] = r
    BY <1>0, <2>1, <2>2
  <2>9. ASSUME NEW i \in 1 .. Len(rx'), NEW j \in 1 .. Len(rx'), rx'[j].addr = addr'[n]
        PROVE  i <= j
    <3>1. ASSUME j \in 1 .. Len(rx) PROVE FALSE
      <4>1. rx'[j] = rx[j] /\ rx[j] \in NodeMsg /\ Known(rx[j])
        BY <2>2, <2>6, <3>1
      <4> QED  BY <2>4, <2>9, <4>1
    <3> QED  BY <1>0, <2>2, <3>1
  <2> QED  BY <2>3, <2>5, <2>7, <2>8, <2>9 DEF Ordered, Current
<1>2. CASE ~Joins(n)
  <2>1. /\ addr'[n] = addr[n] /\ node[n] # "out"
        /\ \A m : Current(m, n)' = Current(m, n)
    BY <1>2, CurrentStays
  <2>2. r = Request(n)
    BY <1>2, CurrentStays
  <2>3. /\ \A i \in 1 .. Len(rx) : Shuts(i, n) => \E j \in i + 1 .. Len(rx) : rx[j] = r
        /\ BeingForgotten(n) => InRx(r)
        /\ InRx(r) => node[n] = "asked" /\ \A m \in NodeMsg : Current(m, n) => ~Handled(m)
        /\ \A i, j \in 1 .. Len(rx) :
             rx[i] = r /\ rx[j].kind = "SETUP" /\ Current(rx[j], n) => i <= j
    BY <2>1, <2>2 DEF InOrder, Ordered, InRx
  <2>4. \A m \in NodeMsg : Handled(m)' => Handled(m) \/ (Takes /\ m = rx[1])
    BY HandledMoves
  <2> SUFFICES /\ \A i \in 1 .. Len(rx') : Shuts(i, n)' => \E j \in i + 1 .. Len(rx') : rx'[j] = r
               /\ BeingForgotten(n)' => \E i \in 1 .. Len(rx') : rx'[i] = r
               /\ (\E i \in 1 .. Len(rx') : rx'[i] = r) =>
                    node'[n] = "asked" /\ \A m \in NodeMsg : Current(m, n) => ~Handled(m)'
               /\ \A i, j \in 1 .. Len(rx') :
                    rx'[i] = r /\ rx'[j].kind = "SETUP" /\ Current(rx'[j], n) => i <= j
    <3>1. \A m : Current(m, n)' <=> Current(m, n)
      BY <2>1
    <3> QED  BY <3>1 DEF Ordered
  <2>6. CASE rx' = rx
    <3>1. BeingForgotten(n)' => BeingForgotten(n)
      <4>1. \A e \in sads : ~Shuttles(e)
        <5>1. ASSUME NEW e \in sads, Shuttles(e) PROVE FALSE
          BY <2>6, <5>1, RxPopped DEF Shuttles
        <5> QED  BY <5>1
      <4> QED  BY <4>1 DEF NodeSideMoves, LoopMoves, Takes, Unconnects, Unregisters, Stops, Frees,
            FreesIapp, WorkerMoves, Adds, Registers, Connects, Answers, NodeMoves, Joins, Resends, Leaves, Hears,
            BeingForgotten
    <3>2. ~Takes
      BY <2>6, RxPopped DEF Takes
    <3>3. InRx(r) => node'[n] = node[n]
      <4>1. CASE \E m \in answers : Hears(m)
        <5>1. PICK m \in answers : Hears(m)
          BY <4>1
        <5>2. m \in NodeMsg /\ Handled(m)
          BY <5>1 DEF NodeTypes, Handled
        <5>3. InRx(r) => ~Current(m, n)
          BY <2>3, <5>2
        <5> QED  BY <5>1, <5>3 DEF Hears, NodeTypes, Current
      <4>2. CASE \E o \in Nodes : NodeMoves(o)
        BY <1>2, <4>2 DEF NodeMoves, Joins, Resends, Leaves, NodeTypes
      <4>3. CASE LoopMoves \/ Stops \/ Frees \/ FreesIapp \/ \E w \in Workers : WorkerMoves(w)
        BY <4>3 DEF LoopMoves, Takes, Shuttles, Unconnects, Unregisters, Stops, Frees, FreesIapp,
           WorkerMoves, Adds, Registers, Connects, Answers
      <4> QED  BY <4>1, <4>2, <4>3 DEF NodeSideMoves
    <3> QED  BY <2>3, <2>4, <2>6, <3>1, <3>2, <3>3 DEF InRx, Shuts
  <2>7. CASE rx # <<>> /\ rx' = Tail(rx)
    <3>1. /\ Len(rx') = Len(rx) - 1 /\ 1 \in 1 .. Len(rx) /\ rx[1] \in NodeMsg
          /\ \A i \in 1 .. Len(rx') : rx'[i] = rx[i + 1] /\ i + 1 \in 2 .. Len(rx)
          /\ \A i \in 2 .. Len(rx) : i - 1 \in 1 .. Len(rx') /\ rx'[i - 1] = rx[i]
      BY <2>7, RxPopped
    <3>2. LoopMoves /\ (Takes \/ \E e \in sads : Shuttles(e))
      <4>1. Len(rx') # Len(rx)
        BY <1>0, <3>1
      <4>2. rx' # rx
        BY <4>1
      <4>3. ~\E o \in Nodes : NodeMoves(o)
        <5>1. ASSUME NEW o \in Nodes, NodeMoves(o) PROVE FALSE
          <6>1. PICK z \in NodeMsg : rx' = Append(rx, z)
            BY <1>0, <4>2, <5>1, Sent
          <6>2. Len(rx') = Len(rx) + 1
            BY <6>1, RxPushed
          <6> QED  BY <1>0, <3>1, <6>2
        <5> QED  BY <5>1
      <4> QED  BY <4>2, <4>3 DEF NodeSideMoves, LoopMoves, Unconnects, Unregisters, Stops, Frees, FreesIapp,
              WorkerMoves, Adds, Registers, Connects, Answers, Hears
    <3>3. UNCHANGED node
      BY <3>2 DEF Takes, Shuttles
    <3>4. ASSUME NEW i \in 1 .. Len(rx'), Shuts(i, n)'
          PROVE  \E j \in i + 1 .. Len(rx') : rx'[j] = r
      <4>1. Shuts(i + 1, n) /\ i + 1 \in 1 .. Len(rx)
        BY <1>0, <3>1, <3>4 DEF Shuts
      <4>2. PICK j \in i + 2 .. Len(rx) : rx[j] = r
        BY <2>3, <4>1
      <4>3. j - 1 \in i + 1 .. Len(rx') /\ rx'[j - 1] = r
        BY <1>0, <3>1, <4>2
      <4> QED  BY <4>3
    <3>5. ASSUME NEW i \in 1 .. Len(rx'), NEW j \in 1 .. Len(rx'),
                 rx'[i] = r, rx'[j].kind = "SETUP", Current(rx'[j], n)
          PROVE  i <= j
      <4>1. i + 1 \in 1 .. Len(rx) /\ j + 1 \in 1 .. Len(rx) /\ rx[i + 1] = r
            /\ rx[j + 1].kind = "SETUP" /\ Current(rx[j + 1], n)
        BY <1>0, <3>1, <3>5
      <4>2. i + 1 <= j + 1
        BY <2>3, <4>1
      <4> QED  BY <1>0, <3>1, <4>2
    <3>6. (\E i \in 1 .. Len(rx') : rx'[i] = r) => InRx(r)
      BY <3>1, <1>0 DEF InRx
    <3>7. CASE Takes
      <4>1. ~BeingForgotten(n)'
        BY <3>7 DEF Takes, BeingForgotten
      <4>2. ASSUME NEW i \in 1 .. Len(rx'), rx'[i] = r, NEW m \in NodeMsg, Current(m, n), Handled(m)'
            PROVE  FALSE
        <5>1. m = rx[1] /\ rx[1].kind = "SETUP"
          BY <2>3, <2>4, <3>6, <3>7, <4>2 DEF Takes
        <5>2. rx[i + 1] = r /\ i + 1 \in 1 .. Len(rx)
          BY <1>0, <3>1, <4>2
        <5>3. i + 1 <= 1
          BY <2>3, <3>1, <4>2, <5>1, <5>2
        <5> QED  BY <5>3, <1>0, <3>1
      <4> QED  BY <2>3, <3>3, <3>4, <3>5, <3>6, <4>1, <4>2
    <3>8. ASSUME NEW e \in sads, Shuttles(e)
          PROVE  /\ BeingForgotten(n)' => \E i \in 1 .. Len(rx') : rx'[i] = r
                 /\ ~Takes
      <4>1. /\ e.node = rx[1].node /\ Shuts(1, e.node)
        BY <3>8, ShutNode
      <4>2. BeingForgotten(n)' => e.node = n
        BY <3>8 DEF Shuttles, BeingForgotten
      <4>3. ASSUME e.node = n
            PROVE  \E i \in 1 .. Len(rx') : rx'[i] = r
        <5>1. PICK j \in 2 .. Len(rx) : rx[j] = r
          BY <2>3, <3>1, <4>1, <4>3
        <5> QED  BY <3>1, <5>1
      <4>4. ~Takes
        BY <3>8 DEF Shuttles, Takes
      <4> QED  BY <4>2, <4>3, <4>4
    <3> QED  BY <2>3, <2>4, <3>2, <3>3, <3>4, <3>5, <3>6, <3>7, <3>8
  <2>8. ASSUME NEW o \in Nodes, NodeMoves(o), rx' # rx
        PROVE  /\ \A i \in 1 .. Len(rx') : Shuts(i, n)' => \E j \in i + 1 .. Len(rx') : rx'[j] = r
               /\ BeingForgotten(n)' => \E i \in 1 .. Len(rx') : rx'[i] = r
               /\ (\E i \in 1 .. Len(rx') : rx'[i] = r) =>
                    node'[n] = "asked" /\ \A m \in NodeMsg : Current(m, n) => ~Handled(m)'
               /\ \A i, j \in 1 .. Len(rx') :
                    rx'[i] = r /\ rx'[j].kind = "SETUP" /\ Current(rx'[j], n) => i <= j
    <3>1. PICK z \in NodeMsg : /\ rx' = Append(rx, z) /\ z.node = o
                               /\ Resends(o) => z.kind = "SETUP" /\ z.k = resends + 1
      BY <1>0, <2>8, Sent
    <3>2. /\ Len(rx') = Len(rx) + 1 /\ rx'[Len(rx) + 1] = z
          /\ \A i \in 1 .. Len(rx) : rx'[i] = rx[i] /\ i \in 1 .. Len(rx')
          /\ \A i \in 1 .. Len(rx') : i \in 1 .. Len(rx) \/ i = Len(rx) + 1
      BY <3>1, RxPushed
    <3>3. node'[n] = node[n] /\ ~Takes /\ UNCHANGED <<lpc, lnode>>
      <4>1. ~Takes
        <5>1. Takes => Len(rx') = Len(rx) - 1
          BY RxPopped DEF Takes
        <5> QED  BY <1>0, <3>2, <5>1
      <4> QED  BY <1>2, <2>8, <4>1 DEF NodeMoves, Joins, Resends, Leaves, NodeTypes
    <3>4. z # r /\ (z.node = n => z.kind = "SETUP")
      <4>1. CASE o = n
        <5>1. Resends(n)
          BY <1>2, <2>8, <4>1 DEF NodeMoves, Leaves, NodeTypes
        <5>2. z.k # 0 /\ r.k = 0
          BY <1>0, <2>2, <3>1, <4>1, <5>1 DEF Request
        <5> QED  BY <3>1, <4>1, <5>1, <5>2
      <4>2. CASE o # n
        BY <2>2, <3>1, <4>2 DEF Request
      <4> QED  BY <4>1, <4>2
    <3>5. (\E i \in 1 .. Len(rx') : rx'[i] = r) <=> InRx(r)
      BY <3>2, <3>4 DEF InRx
    <3>6. ASSUME NEW i \in 1 .. Len(rx'), Shuts(i, n)'
          PROVE  \E j \in i + 1 .. Len(rx') : rx'[j] = r
      <4>1. i \in 1 .. Len(rx) /\ Shuts(i, n)
        BY <3>2, <3>4, <3>6 DEF Shuts
      <4>2. PICK j \in i + 1 .. Len(rx) : rx[j] = r
        BY <2>3, <4>1
      <4>3. j \in i + 1 .. Len(rx') /\ rx'[j] = r
        BY <1>0, <3>2, <4>1, <4>2
      <4> QED  BY <4>3
    <3>7. ASSUME NEW i \in 1 .. Len(rx'), NEW j \in 1 .. Len(rx'),
                 rx'[i] = r, rx'[j].kind = "SETUP", Current(rx'[j], n)
          PROVE  i <= j
      <4>1. i \in 1 .. Len(rx) /\ rx[i] = r
        BY <3>2, <3>4, <3>7
      <4>2. CASE j \in 1 .. Len(rx)
        BY <2>3, <3>2, <3>7, <4>1, <4>2
      <4>3. CASE j = Len(rx) + 1
        BY <1>0, <4>1, <4>3
      <4> QED  BY <3>2, <4>2, <4>3
    <3>8. BeingForgotten(n)' => BeingForgotten(n)
      BY <3>3 DEF BeingForgotten
    <3> QED  BY <2>3, <2>4, <3>3, <3>5, <3>6, <3>7, <3>8
  <2>9. rx' = rx \/ (rx # <<>> /\ rx' = Tail(rx)) \/ \E o \in Nodes : NodeMoves(o)
    BY DEF NodeSideMoves, LoopMoves, Takes, Shuttles, Unconnects, Unregisters, Stops, Frees, FreesIapp,
       WorkerMoves, Adds, Registers, Connects, Answers, Hears
  <2> QED  BY <2>6, <2>7, <2>8, <2>9
<1> QED  BY <1>1, <1>2

\* While the request of a node is unread, nothing was done for it.
LEMMA NotUnread ==
  ASSUME NodeTypes, InOrder, NEW n \in Nodes, node[n] # "out",
         \/ Answered(n) \/ AtStage(n, {"register", "connect", "answer"})
         \/ \E m \in sads \union conn \union tasks : Current(m, n)
  PROVE  ~InRx(Request(n)) /\ ~BeingForgotten(n) /\ \A i \in 1 .. Len(rx) : ~Shuts(i, n)
<1>1. node[n] = "up" \/ \E m \in NodeMsg : Current(m, n) /\ Handled(m)
  <2>1. CASE node[n] = "up"
    BY <2>1
  <2>2. CASE \E m \in answers \union sads \union conn \union tasks : Current(m, n)
    BY <2>2 DEF Handled, NodeTypes
  <2>3. CASE \E w \in Workers : wpc[w] # "idle" /\ Current(wmsg[w], n)
    <3>1. PICK w \in Workers : wpc[w] # "idle" /\ Current(wmsg[w], n)
      BY <2>3
    <3>2. wmsg[w] \in NodeMsg /\ AtWorker(wmsg[w])
      BY <3>1, WorkerHas DEF AtWorker
    <3> QED  BY <3>1, <3>2 DEF Handled
  <2> QED  BY <2>1, <2>2, <2>3 DEF Answered, AtStage
<1>2. ~InRx(Request(n))
  BY <1>1, Unhandled
<1>3. Len(rx) \in Nat
  BY DEF NodeTypes
<1>4. ASSUME NEW i \in 1 .. Len(rx), Shuts(i, n)
      PROVE  InRx(Request(n))
  <2>1. PICK j \in i + 1 .. Len(rx) : rx[j] = Request(n)
    BY <1>4 DEF InOrder, Ordered
  <2> QED  BY <1>3, <2>1 DEF InRx
<1>5. BeingForgotten(n) => InRx(Request(n))
  BY DEF InOrder, Ordered, InRx
<1> QED  BY <1>2, <1>4, <1>5

\* Nothing was done yet for a node that joins.
LEMMA JoinsUnhandled ==
  ASSUME NodeTypes, Addresses, NEW n \in Nodes, Joins(n)
  PROVE  ~Answered(n)' /\ \A stages : "idle" \notin stages => ~AtStage(n, stages)'
<1>1. /\ addr'[n] = joins + 1 /\ node'[n] = "asked" /\ answers' = answers
      /\ wpc' = wpc /\ wmsg' = wmsg /\ joins \in Nat
  BY NodeAssumption DEF Joins, NodeTypes
<1>2. \A m \in NodeMsg : Handled(m) => m.addr # joins + 1
  <2>1. \A m \in NodeMsg : Known(m) => m.addr <= joins
    BY DEF Addresses
  <2> QED  BY <1>1, <2>1 DEF Known, NodeMsg
<1>3. \A m \in answers : m.addr # joins + 1
  BY <1>2 DEF NodeTypes, Handled
<1>4. \A w \in Workers : wpc[w] # "idle" => wmsg[w].addr # joins + 1
  <2>1. \A w \in Workers : wpc[w] # "idle" => wmsg[w] \in NodeMsg /\ Handled(wmsg[w])
    BY WorkerHas DEF Handled, AtWorker
  <2> QED  BY <1>2, <2>1
<1> QED  BY <1>1, <1>3, <1>4 DEF Answered, AtStage, Current

\* What was done for a node, after a step of a worker.
LEMMA StagesMove ==
  ASSUME NodeTypes, NEW w \in Workers, WorkerMoves(w), NEW n \in Nodes
  PROVE  /\ Adds(w, wmsg'[w]) =>
              /\ Answered(n)' <=> Answered(n)
              /\ AtStage(n, {"connect"})' <=> AtStage(n, {"connect"})
              /\ AtStage(n, {"register", "connect", "answer"})' =>
                   AtStage(n, {"register", "connect", "answer"}) \/ Current(wmsg'[w], n)
         /\ Registers(w) =>
              /\ Answered(n)' <=> Answered(n)
              /\ AtStage(n, {"connect"})' => AtStage(n, {"connect"}) \/ Current(wmsg[w], n)
              /\ AtStage(n, {"register", "connect", "answer"})' =>
                   AtStage(n, {"register", "connect", "answer"})
         /\ Connects(w) =>
              /\ Answered(n)' => \/ Answered(n)
                                 \/ Current(wmsg[w], n) /\ AtStage(n, {"connect"})
              /\ AtStage(n, {"connect"})' => AtStage(n, {"connect"})
              /\ AtStage(n, {"register", "connect", "answer"})' =>
                   AtStage(n, {"register", "connect", "answer"})
         /\ Answers(w) =>
              /\ Answered(n)' => Answered(n)
              /\ AtStage(n, {"connect"})' => AtStage(n, {"connect"})
              /\ AtStage(n, {"register", "connect", "answer"})' =>
                   AtStage(n, {"register", "connect", "answer"})
<1>1. addr' = addr /\ node' = node
  BY DEF WorkerMoves, Adds, Registers, Connects, Answers
<1>2. \A v \in Workers : v # w => wpc'[v] = wpc[v] /\ wmsg'[v] = wmsg[v]
  BY DEF WorkerMoves, Adds, Registers, Connects, Answers, NodeTypes
<1>3. CASE Adds(w, wmsg'[w])
  <2>1. wpc[w] = "idle" /\ wpc'[w] = "register" /\ answers' = answers
    BY <1>3 DEF Adds, NodeTypes
  <2>2. ~Registers(w) /\ ~Connects(w) /\ ~Answers(w)
    BY <2>1 DEF Registers, Connects, Answers
  <2>3. Answered(n)' <=> Answered(n)
    BY <1>1, <1>2, <2>1 DEF Answered, Current
  <2>4. AtStage(n, {"connect"})' <=> AtStage(n, {"connect"})
    BY <1>1, <1>2, <2>1 DEF AtStage, Current
  <2>5. AtStage(n, {"register", "connect", "answer"})' =>
          AtStage(n, {"register", "connect", "answer"}) \/ Current(wmsg'[w], n)
    BY <1>1, <1>2, <2>1 DEF AtStage, Current
  <2> QED  BY <2>2, <2>3, <2>4, <2>5
<1>4. CASE Registers(w)
  <2>1. wpc[w] = "register" /\ wpc'[w] = "connect" /\ answers' = answers /\ wmsg'[w] = wmsg[w]
    BY <1>4 DEF Registers, NodeTypes
  <2>2. ~Adds(w, wmsg'[w]) /\ ~Connects(w) /\ ~Answers(w)
    BY <2>1 DEF Adds, Connects, Answers
  <2>3. Answered(n)' <=> Answered(n)
    BY <1>1, <1>2, <2>1 DEF Answered, Current
  <2>4. AtStage(n, {"connect"})' => AtStage(n, {"connect"}) \/ Current(wmsg[w], n)
    BY <1>1, <1>2, <2>1 DEF AtStage, Current
  <2>5. AtStage(n, {"register", "connect", "answer"})' => AtStage(n, {"register", "connect", "answer"})
    BY <1>1, <1>2, <2>1 DEF AtStage, Current
  <2> QED  BY <2>2, <2>3, <2>4, <2>5
<1>5. CASE Connects(w)
  <2>1. wpc[w] = "connect" /\ wpc'[w] = "answer" /\ answers' = answers /\ wmsg'[w] = wmsg[w]
    BY <1>5 DEF Connects, NodeTypes
  <2>2. ~Adds(w, wmsg'[w]) /\ ~Registers(w) /\ ~Answers(w)
    BY <2>1 DEF Adds, Registers, Answers
  <2>3. Answered(n)' => Answered(n) \/ (Current(wmsg[w], n) /\ AtStage(n, {"connect"}))
    BY <1>1, <1>2, <2>1 DEF Answered, AtStage, Current
  <2>4. AtStage(n, {"connect"})' => AtStage(n, {"connect"})
    BY <1>1, <1>2, <2>1 DEF AtStage, Current
  <2>5. AtStage(n, {"register", "connect", "answer"})' => AtStage(n, {"register", "connect", "answer"})
    BY <1>1, <1>2, <2>1 DEF AtStage, Current
  <2> QED  BY <2>2, <2>3, <2>4, <2>5
<1>6. CASE Answers(w)
  <2>1. wpc[w] = "answer" /\ wpc'[w] = "idle" /\ answers' = answers \union {wmsg[w]}
    BY <1>6 DEF Answers, NodeTypes
  <2>2. ~Adds(w, wmsg'[w]) /\ ~Registers(w) /\ ~Connects(w)
    BY <2>1 DEF Adds, Registers, Connects
  <2>3. Answered(n)' => Answered(n)
    BY <1>1, <1>2, <2>1 DEF Answered, Current
  <2>4. AtStage(n, {"connect"})' => AtStage(n, {"connect"})
    BY <1>1, <1>2, <2>1 DEF AtStage, Current
  <2>5. AtStage(n, {"register", "connect", "answer"})' => AtStage(n, {"register", "connect", "answer"})
    BY <1>1, <1>2, <2>1 DEF AtStage, Current
  <2> QED  BY <2>2, <2>3, <2>4, <2>5
<1>7. ASSUME NEW m \in tasks, Adds(w, m)
      PROVE  Adds(w, wmsg'[w])
  <2>1. wmsg'[w] = m
    BY <1>7 DEF Adds, NodeTypes
  <2> QED  BY <1>7, <2>1
<1> QED  BY <1>3, <1>4, <1>5, <1>6, <1>7 DEF WorkerMoves

\* A node that has its answer stays in all three registries.
LEMMA NextReachable ==
  ASSUME NodeTypes, Addresses, InOrder, Reachable, NodeSideMoves
  PROVE  Reachable'
<1> DEFINE Any == {"register", "connect", "answer"}
<1> SUFFICES ASSUME NEW n \in Nodes, node'[n] # "out"
             PROVE  /\ Serving' /\ (Answered(n)' \/ AtStage(n, Any)') => \E s \in sads' : Current(s, n)'
                    /\ mpc' # "freed" /\ (Answered(n)' \/ AtStage(n, {"connect"})') => n \in reg'
                    /\ Serving' /\ Answered(n)' => \E c \in conn' : Current(c, n)'
  BY DEF Reachable
<1>1. CASE Joins(n)
  BY <1>1, JoinsUnhandled
<1>2. CASE ~Joins(n)
  <2>1. /\ addr'[n] = addr[n] /\ node[n] # "out"
        /\ \A m : Current(m, n)' <=> Current(m, n)
    BY <1>2, CurrentStays
  <2>2. /\ Serving /\ (Answered(n) \/ AtStage(n, Any)) => \E s \in sads : Current(s, n)
        /\ mpc # "freed" /\ (Answered(n) \/ AtStage(n, {"connect"})) => n \in reg
        /\ Serving /\ Answered(n) => \E c \in conn : Current(c, n)
    BY <2>1 DEF Reachable
  <2> SUFFICES /\ Serving' /\ (Answered(n)' \/ AtStage(n, Any)') => \E s \in sads' : Current(s, n)
               /\ mpc' # "freed" /\ (Answered(n)' \/ AtStage(n, {"connect"})') => n \in reg'
               /\ Serving' /\ Answered(n)' => \E c \in conn' : Current(c, n)
    BY <2>1
  <2>3. ASSUME /\ Answered(n)' => Answered(n)
               /\ AtStage(n, {"connect"})' => AtStage(n, {"connect"})
               /\ AtStage(n, Any)' => AtStage(n, Any)
               /\ sads \subseteq sads' /\ reg \subseteq reg' /\ conn \subseteq conn'
               /\ Serving' => Serving
               /\ mpc' # "freed" => mpc # "freed"
        PROVE  /\ Serving' /\ (Answered(n)' \/ AtStage(n, Any)') => \E s \in sads' : Current(s, n)
               /\ mpc' # "freed" /\ (Answered(n)' \/ AtStage(n, {"connect"})') => n \in reg'
               /\ Serving' /\ Answered(n)' => \E c \in conn' : Current(c, n)
    BY <2>2, <2>3
  <2>4. ASSUME UNCHANGED <<answers, wpc, wmsg>>, node'[n] = node[n]
        PROVE  /\ Answered(n)' <=> Answered(n)
               /\ AtStage(n, {"connect"})' <=> AtStage(n, {"connect"})
               /\ AtStage(n, Any)' <=> AtStage(n, Any)
    BY <2>1, <2>4 DEF Answered, AtStage, Current
  <2>5. CASE Takes \/ (\E o \in Nodes : NodeMoves(o)) \/ Stops
    <3>1. UNCHANGED <<answers, wpc, wmsg, sads, reg, conn>> /\ node'[n] = node[n]
      BY <1>2, <2>5 DEF Takes, NodeMoves, Joins, Resends, Leaves, Stops, NodeTypes
    <3>2. (Serving' => Serving) /\ (mpc' # "freed" => mpc # "freed")
      BY <2>5 DEF Takes, NodeMoves, Joins, Resends, Leaves, Stops, Serving
    <3> QED  BY <2>3, <2>4, <3>1, <3>2
  <2>6. ASSUME NEW e \in sads, Shuttles(e)
        PROVE  /\ Serving' /\ (Answered(n)' \/ AtStage(n, Any)') => \E s \in sads' : Current(s, n)
               /\ mpc' # "freed" /\ (Answered(n)' \/ AtStage(n, {"connect"})') => n \in reg'
               /\ Serving' /\ Answered(n)' => \E c \in conn' : Current(c, n)
    <3>1. /\ UNCHANGED <<answers, wpc, wmsg, node, reg, conn, mpc>> /\ sads' = sads \ {e}
      BY <2>6 DEF Shuttles
    <3>2. ~Current(e, n)
      <4>1. 1 \in 1 .. Len(rx) /\ Shuts(1, e.node)
        BY <2>6, ShutNode
      <4> QED  BY <2>1, <4>1, NotUnread DEF Current
    <3>3. Serving' <=> Serving
      BY <3>1 DEF Serving
    <3> QED  BY <2>2, <2>4, <3>1, <3>2, <3>3
  <2>7. CASE Unconnects
    <3>1. /\ UNCHANGED <<answers, wpc, wmsg, node, reg, sads, mpc>> /\ BeingForgotten(lnode)
          /\ \E c \in ConnOf(lnode) : conn' = conn \ {c}
      BY <2>7 DEF Unconnects, BeingForgotten
    <3>2. ASSUME Answered(n), NEW c \in conn, Current(c, n)
          PROVE  c \in conn'
      <4>1. lnode # n
        BY <2>1, <3>1, <3>2, NotUnread
      <4> QED  BY <3>1, <3>2, <4>1 DEF ConnOf, Current
    <3>3. Serving' <=> Serving
      BY <3>1 DEF Serving
    <3> QED  BY <2>2, <2>4, <3>1, <3>2, <3>3
  <2>8. CASE Unregisters
    <3>1. /\ UNCHANGED <<answers, wpc, wmsg, node, conn, sads, mpc>> /\ reg' = reg \ {lnode}
          /\ BeingForgotten(lnode)
      BY <2>8 DEF Unregisters, BeingForgotten
    <3>2. ASSUME Answered(n) \/ AtStage(n, {"connect"})
          PROVE  lnode # n
      <4>1. AtStage(n, {"connect"}) => AtStage(n, Any)
        BY DEF AtStage
      <4> QED  BY <2>1, <3>1, <3>2, <4>1, NotUnread
    <3>3. Serving' <=> Serving
      BY <3>1 DEF Serving
    <3> QED  BY <2>2, <2>4, <3>1, <3>2, <3>3
  <2>9. ASSUME NEW w \in Workers, NEW m \in tasks, Adds(w, m)
        PROVE  /\ Serving' /\ (Answered(n)' \/ AtStage(n, Any)') => \E s \in sads' : Current(s, n)
               /\ mpc' # "freed" /\ (Answered(n)' \/ AtStage(n, {"connect"})') => n \in reg'
               /\ Serving' /\ Answered(n)' => \E c \in conn' : Current(c, n)
    <3>1. /\ UNCHANGED <<reg, conn, mpc>> /\ sads' = sads \union {m} /\ wmsg'[w] = m
      BY <2>9 DEF Adds, NodeTypes
    <3>2. Adds(w, wmsg'[w]) /\ WorkerMoves(w)
      BY <2>9, <3>1 DEF WorkerMoves
    <3>3. /\ Answered(n)' <=> Answered(n)
          /\ AtStage(n, {"connect"})' <=> AtStage(n, {"connect"})
          /\ AtStage(n, Any)' => AtStage(n, Any) \/ Current(m, n)
      BY <3>1, <3>2, StagesMove
    <3>4. Serving' <=> Serving
      BY <3>1 DEF Serving
    <3> QED  BY <2>2, <3>1, <3>3, <3>4
  <2>10. ASSUME NEW w \in Workers, Registers(w)
         PROVE  /\ Serving' /\ (Answered(n)' \/ AtStage(n, Any)') => \E s \in sads' : Current(s, n)
                /\ mpc' # "freed" /\ (Answered(n)' \/ AtStage(n, {"connect"})') => n \in reg'
                /\ Serving' /\ Answered(n)' => \E c \in conn' : Current(c, n)
    <3>1. /\ UNCHANGED <<sads, conn, mpc>> /\ reg' = reg \union {wmsg[w].node}
      BY <2>10 DEF Registers
    <3>2. WorkerMoves(w)
      BY <2>10 DEF WorkerMoves
    <3>3. /\ Answered(n)' <=> Answered(n)
          /\ AtStage(n, {"connect"})' => AtStage(n, {"connect"}) \/ Current(wmsg[w], n)
          /\ AtStage(n, Any)' => AtStage(n, Any)
      BY <2>10, <3>2, StagesMove
    <3>4. Current(wmsg[w], n) => n \in reg'
      BY <3>1 DEF Current
    <3>5. Serving' <=> Serving
      BY <3>1 DEF Serving
    <3> QED  BY <2>2, <3>1, <3>3, <3>4, <3>5
  <2>11. ASSUME NEW w \in Workers, Connects(w)
         PROVE  /\ Serving' /\ (Answered(n)' \/ AtStage(n, Any)') => \E s \in sads' : Current(s, n)
                /\ mpc' # "freed" /\ (Answered(n)' \/ AtStage(n, {"connect"})') => n \in reg'
                /\ Serving' /\ Answered(n)' => \E c \in conn' : Current(c, n)
    <3>1. /\ UNCHANGED <<sads, reg, mpc>> /\ conn' = conn \union {wmsg[w]}
      BY <2>11 DEF Connects
    <3>2. WorkerMoves(w)
      BY <2>11 DEF WorkerMoves
    <3>3. /\ Answered(n)' => Answered(n) \/ (Current(wmsg[w], n) /\ AtStage(n, {"connect"}))
          /\ AtStage(n, {"connect"})' => AtStage(n, {"connect"})
          /\ AtStage(n, Any)' => AtStage(n, Any)
          /\ AtStage(n, {"connect"}) => AtStage(n, Any)
      BY <2>11, <3>2, StagesMove DEF AtStage
    <3>4. Serving' <=> Serving
      BY <3>1 DEF Serving
    <3> QED  BY <2>2, <3>1, <3>3, <3>4
  <2>12. ASSUME NEW w \in Workers, Answers(w)
         PROVE  /\ Serving' /\ (Answered(n)' \/ AtStage(n, Any)') => \E s \in sads' : Current(s, n)
                /\ mpc' # "freed" /\ (Answered(n)' \/ AtStage(n, {"connect"})') => n \in reg'
                /\ Serving' /\ Answered(n)' => \E c \in conn' : Current(c, n)
    <3>1. UNCHANGED <<sads, reg, conn, mpc>>
      BY <2>12 DEF Answers
    <3>2. WorkerMoves(w)
      BY <2>12 DEF WorkerMoves
    <3>3. /\ Answered(n)' => Answered(n)
          /\ AtStage(n, {"connect"})' => AtStage(n, {"connect"})
          /\ AtStage(n, Any)' => AtStage(n, Any)
      BY <2>12, <3>2, StagesMove
    <3>4. Serving' <=> Serving
      BY <3>1 DEF Serving
    <3> QED  BY <2>3, <3>1, <3>3, <3>4
  <2>13. CASE Frees \/ FreesIapp
    <3>1. UNCHANGED <<answers, wpc, wmsg, node>> /\ ~Serving'
      BY <2>13 DEF Frees, FreesIapp, Serving
    <3>2. mpc' # "freed" => reg' = reg /\ mpc # "freed"
      BY <2>13 DEF Frees, FreesIapp
    <3> QED  BY <2>2, <2>4, <3>1, <3>2
  <2>14. ASSUME NEW m \in answers, Hears(m)
         PROVE  /\ Serving' /\ (Answered(n)' \/ AtStage(n, Any)') => \E s \in sads' : Current(s, n)
                /\ mpc' # "freed" /\ (Answered(n)' \/ AtStage(n, {"connect"})') => n \in reg'
                /\ Serving' /\ Answered(n)' => \E c \in conn' : Current(c, n)
    <3>1. UNCHANGED <<wpc, wmsg, sads, reg, conn, mpc>> /\ answers' \subseteq answers
      BY <2>14 DEF Hears
    <3>2. node'[n] = "up" => node[n] = "up" \/ Current(m, n)
      BY <2>14 DEF Hears, NodeTypes, Current
    <3>3. Answered(n)' => Answered(n)
      BY <2>1, <2>14, <3>1, <3>2 DEF Answered, Current
    <3>4. /\ AtStage(n, {"connect"})' <=> AtStage(n, {"connect"})
          /\ AtStage(n, Any)' <=> AtStage(n, Any)
      BY <2>1, <3>1 DEF AtStage, Current
    <3>5. Serving' <=> Serving
      BY <3>1 DEF Serving
    <3> QED  BY <2>3, <3>1, <3>3, <3>4, <3>5
  <2> QED  BY <2>5, <2>6, <2>7, <2>8, <2>9, <2>10, <2>11, <2>12, <2>13, <2>14
           DEF NodeSideMoves, LoopMoves, WorkerMoves
<1> QED  BY <1>1, <1>2

-----------------------------------------------------------------------------
(* The theorems about the registries, in every environment.                *)

RegistryInv == /\ Types /\ StopOrder /\ Addresses /\ Once /\ Balance /\ OneStage
               /\ InOrder /\ Reachable

\* The invariant holds at the start.
LEMMA InitRegistries ==
  ASSUME Init
  PROVE  RegistryInv
<1>1. /\ rx = <<>> /\ Len(rx) = 0 /\ tasks = {} /\ sads = {} /\ conn = {} /\ reg = {} /\ answers = {}
      /\ lpc = "idle" /\ wpc = [w \in Workers |-> "idle"] /\ mpc = "serving"
      /\ node = [n \in Nodes |-> "out"] /\ addr = [n \in Nodes |-> 0] /\ joins = 0 /\ resends = 0
      /\ toIapp = <<>> /\ Len(toIapp) = 0 /\ ipc = "idle"
  BY DEF Init
<1>2. Types
  <2>1. NodeTypes
    BY <1>1, NodeAssumption DEF Init, NodeTypes
  <2>2. IappTypes
    BY <1>1, NodeAssumption DEF Init, IappTypes
  <2> QED  BY <2>1, <2>2 DEF Types, Init
<1>3. StopOrder
  BY <1>1 DEF StopOrder
<1>4. \A m : ~Known(m)
  BY <1>1 DEF Known, InRx, Handled, AtWorker
<1>5. Addresses
  BY <1>1, <1>4, NodeAssumption DEF Addresses
<1>6. Once
  BY <1>1 DEF Once
<1>7. Balance
  <2>1. IsFiniteSet(sads) /\ \A n : AddressesOf(n) = {} /\ Registering(n) = {}
    BY <1>1, FS_EmptySet DEF AddressesOf, Registering
  <2> QED  BY <1>1, <2>1, FS_EmptySet DEF Balance, BeingForgotten, One
<1>8. OneStage
  BY <1>1 DEF OneStage, ConnOf, Forgotten, Connecting
<1>9. InOrder /\ Reachable
  BY <1>1 DEF InOrder, Reachable
<1> QED  BY <1>2, <1>3, <1>5, <1>6, <1>7, <1>8, <1>9 DEF RegistryInv

\* Every step keeps it.
LEMMA NextRegistries ==
  ASSUME RegistryInv, [Next]_vars
  PROVE  RegistryInv'
<1>1. NodeTypes /\ \A n \in Nodes : node[n] # "out" => addr[n] # 0
  BY DEF RegistryInv, Types, Addresses
<1>2. Types' /\ StopOrder'
  BY <1>1, NextTypes, NextStopOrder DEF RegistryInv
<1>3. UNCHANGED NodeSide \/ NodeSideMoves
  BY Steps DEF RegistryInv, NodeSideMoves
<1>4. CASE UNCHANGED NodeSide
  <2>1. UNCHANGED <<rx, lpc, lnode, tasks, wpc, wmsg, answers, sads, conn, reg, mpc, node, addr, joins, resends>>
    BY <1>4 DEF NodeSide
  <2>2. Addresses' /\ Once'
    BY <2>1 DEF RegistryInv, Addresses, Known, InRx, Handled, AtWorker, Once
  <2>3. Balance' /\ OneStage'
    BY <2>1 DEF RegistryInv, Balance, OneStage, Serving, AddressesOf, BeingForgotten, Registering, One,
       ConnOf, Forgotten, Connecting
  <2>4. InOrder'
    BY <2>1 DEF RegistryInv, InOrder, Ordered, Request, Shuts, BeingForgotten, Current, Handled, AtWorker
  <2>5. Reachable'
    BY <2>1 DEF RegistryInv, Reachable, Answered, AtStage, Current, Serving
  <2> QED  BY <1>2, <2>2, <2>3, <2>4, <2>5 DEF RegistryInv
<1>5. CASE NodeSideMoves
  BY <1>1, <1>2, <1>5, NextAddresses, NextOnce, NextBalance, NextOneStage, NextInOrder, NextReachable
     DEF RegistryInv
<1> QED  BY <1>3, <1>4, <1>5

\* The inductive invariant of the registries, with the types of all variables.
THEOREM RegistryInvariant == Spec => []RegistryInv
BY InitRegistries, NextRegistries, PTL DEF Spec

\* The types that the module names.
THEOREM TypeCorrect == Spec => []TypeOK
<1>1. RegistryInv => TypeOK
  <2> SUFFICES ASSUME RegistryInv PROVE TypeOK
    OBVIOUS
  <2>1. /\ \A i \in DOMAIN rx : rx[i] \in NodeMsg
        /\ \A i \in DOMAIN toIapp : toIapp[i] \in XappMsg
    BY DEF RegistryInv, Types, NodeTypes, IappTypes
  <2>2. \A w \in Workers : wmsg[w] \in IF wpc[w] = "idle" THEN {NoMsg} ELSE NodeMsg
    BY WorkerHas DEF RegistryInv, Types, NodeTypes
  <2> QED  BY <2>1, <2>2 DEF TypeOK, RegistryInv, Types, NodeTypes, IappTypes
<1> QED  BY <1>1, RegistryInvariant, PTL

\* The addresses, the connected nodes and the iApp's registry hold the same nodes, but for
\* one whose setup or shutdown is being handled.
THEOREM RegistriesHoldTheSame == Spec => []RegistriesAgree
<1>1. RegistryInv => RegistriesAgree
  <2> SUFFICES ASSUME RegistryInv, Serving, NEW n \in Nodes,
                      ~BeingRegistered(n), ~BeingForgotten(n)
               PROVE  /\ n \in reg <=> AddressesOf(n) # {}
                      /\ n \in reg <=> ConnOf(n) # {}
    BY DEF RegistriesAgree
  <2>1. \A w \in Workers : wpc[w] # "idle" => wmsg[w].node # n
    BY DEF RegistryInv, Types, NodeTypes, BeingRegistered
  <2>2. Registering(n) = {} /\ (\A w \in Workers : ~Connecting(w, n)) /\ ~Forgotten(n)
    BY <2>1 DEF Registering, Connecting, Forgotten, BeingForgotten
  <2>3. n \in reg <=> ConnOf(n) # {}
    BY <2>2 DEF RegistryInv, OneStage
  <2>4. Cardinality(AddressesOf(n)) = One(n \in reg)
    <3>1. /\ Cardinality(AddressesOf(n)) + One(BeingForgotten(n)) = Cardinality(Registering(n)) + One(n \in reg)
          /\ IsFiniteSet(AddressesOf(n))
      BY FinitelyMany DEF RegistryInv, Balance
    <3>2. Cardinality(AddressesOf(n)) \in Nat /\ Cardinality({}) = 0
      BY <3>1, Counts, FS_EmptySet
    <3> QED  BY <2>2, <3>1, <3>2 DEF One
  <2>5. AddressesOf(n) = {} <=> Cardinality(AddressesOf(n)) = 0
    BY FinitelyMany, FS_EmptySet DEF RegistryInv, Balance
  <2> QED  BY <2>3, <2>4, <2>5 DEF One
<1> QED  BY <1>1, RegistryInvariant, PTL

\* A node that was answered is found under the address it has now, in all three.
THEOREM AnsweredNodesReachable == Spec => []AnsweredIsReachable
<1>1. RegistryInv => AnsweredIsReachable
  <2> SUFFICES ASSUME RegistryInv, Serving, NEW n \in Nodes, node[n] = "up"
               PROVE  /\ n \in reg
                      /\ \E m \in sads : m.node = n /\ m.addr = addr[n]
                      /\ \E m \in conn : m.node = n /\ m.addr = addr[n]
    BY DEF AnsweredIsReachable
  <2>1. Answered(n) /\ mpc # "freed"
    BY DEF Answered, Serving
  <2> QED  BY <2>1 DEF RegistryInv, Reachable, Current
<1> QED  BY <1>1, RegistryInvariant, PTL

-----------------------------------------------------------------------------
(* No assertion fails but for what the environment brings about.           *)

\* Who works on a node, after the iApp or an xApp has gone on.
LEMMA UsedMoves ==
  ASSUME IappTypes, IappMoves, NEW n \in Nodes, Used(n)'
  PROVE  Used(n) \/ (Orderly => node[n] = "up")
<1>0. n # NoMsg
  BY NoMsgAssumption
<1>1. \A i \in DOMAIN toIapp : toIapp[i].node = n => Used(n)
  BY DEF Used
<1>2. (imsg # NoMsg /\ imsg.node = n) \/ (\E r \in idel \union routes : r.node = n) => Used(n)
  BY DEF Used, RoutesTo
<1>3. Used(n)' => \/ \E r \in idel' \union routes' : r.node = n
                  \/ imsg' # NoMsg /\ imsg'.node = n
                  \/ \E i \in 1 .. Len(toIapp') : toIapp'[i].node = n
  <2>1. toIapp' \in Seq(XappMsg)
    <3>1. toIapp' = toIapp \/ (toIapp # <<>> /\ toIapp' = Tail(toIapp)) \/ \E m \in XappMsg : toIapp' = Append(toIapp, m)
      BY DEF IappMoves, Copies, Checks, Forwards, Selects, Deletes, IappEnds, Drops, Sends, Ends, XappMsg
    <3>2. toIapp \in Seq(XappMsg)
      BY DEF IappTypes
    <3>3. CASE toIapp # <<>> /\ toIapp' = Tail(toIapp)
      BY <3>2, <3>3, Popped
    <3>4. ASSUME NEW m \in XappMsg, toIapp' = Append(toIapp, m)
          PROVE  toIapp' \in Seq(XappMsg)
      BY <3>2, <3>4, Pushed
    <3> QED  BY <3>1, <3>2, <3>3, <3>4
  <2> QED  BY <2>1 DEF Used, RoutesTo
<1>4. ASSUME toIapp # <<>>, toIapp' = Tail(toIapp), NEW i \in 1 .. Len(toIapp'), toIapp'[i].node = n
      PROVE  Used(n)
  <2>1. toIapp'[i] = toIapp[i + 1] /\ i + 1 \in DOMAIN toIapp
    BY <1>4, Popped DEF IappTypes
  <2> QED  BY <1>1, <1>4, <2>1
<1>5. toIapp # <<>> => 1 \in DOMAIN toIapp
  BY Popped DEF IappTypes
<1>6. ASSUME toIapp' = toIapp, NEW i \in 1 .. Len(toIapp'), toIapp'[i].node = n
      PROVE  Used(n)
  BY <1>1, <1>6 DEF IappTypes
<1>7. CASE Copies
  BY <1>2, <1>3, <1>4, <1>7 DEF Copies
<1>8. CASE Checks
  BY <1>1, <1>2, <1>3, <1>4, <1>5, <1>8 DEF Checks
<1>9. CASE Forwards
  <2>1. imsg # NoMsg
    BY <1>9 DEF Forwards, IappTypes
  <2>2. toIapp' = toIapp /\ imsg' = NoMsg /\ idel' = idel
        /\ \A r \in routes' : r \in routes \/ r.node = imsg.node
    BY <1>9 DEF Forwards
  <2> QED  BY <1>2, <1>3, <1>6, <2>1, <2>2
<1>10. CASE Selects
  BY <1>2, <1>3, <1>4, <1>10 DEF Selects
<1>11. CASE IappEnds \/ Drops \/ \E x \in XApps : Ends(x)
  <2>1. /\ toIapp' = toIapp /\ imsg' = imsg /\ idel' = idel /\ routes' \subseteq routes
    BY <1>11 DEF IappEnds, Drops, Ends
  <2> QED  BY <1>2, <1>3, <1>6, <2>1
<1>12. ASSUME NEW r \in idel, Deletes(r)
       PROVE  Used(n)
  <2>1. /\ toIapp' = toIapp /\ imsg' = imsg /\ idel' \subseteq idel
        /\ \A s \in routes' : s \in routes \/ s.node = r.node
    BY <1>12 DEF Deletes, IappTypes, Route
  <2> QED  BY <1>2, <1>3, <1>6, <2>1
<1>13. ASSUME NEW kind, NEW o, NEW x \in XApps, Sends(kind, x, o)
       PROVE  Used(n) \/ (Orderly => node[n] = "up")
  <2>1. PICK m : m = [kind |-> kind, xapp |-> x, node |-> o]
    OBVIOUS
  <2>2. m \in XappMsg /\ m.node = o /\ toIapp' = Append(toIapp, m)
    BY <1>13, <2>1 DEF Sends, XappMsg
  <2>3. /\ Len(toIapp) \in Nat /\ toIapp'[Len(toIapp) + 1] = m /\ Len(toIapp') = Len(toIapp) + 1
        /\ \A i \in 1 .. Len(toIapp) : toIapp'[i] = toIapp[i] /\ i \in DOMAIN toIapp
    BY <2>2, Pushed DEF IappTypes
  <2>4. ASSUME NEW i \in 1 .. Len(toIapp'), toIapp'[i].node = n
        PROVE  Used(n) \/ o = n
    <3>1. i \in 1 .. Len(toIapp) \/ i = Len(toIapp) + 1
      BY <2>3
    <3> QED  BY <1>1, <2>2, <2>3, <2>4, <3>1
  <2>5. UNCHANGED <<imsg, idel, routes>>
    BY <1>13 DEF Sends
  <2>6. Used(n) \/ o = n
    BY <1>2, <1>3, <2>4, <2>5
  <2>7. o = n => (Orderly => node[n] = "up") \/ RoutesTo(n) # {}
    BY <1>0, <1>13 DEF Sends
  <2> QED  BY <2>6, <2>7 DEF Used
<1> QED  BY <1>7, <1>8, <1>9, <1>10, <1>11, <1>12, <1>13 DEF IappMoves

\* What the iApp works on stays up.
LEMMA NextInUse ==
  ASSUME Types, InUse, [Next]_vars
  PROVE  InUse'
<1>1. /\ env' = env
      /\ \/ UNCHANGED IappSide /\ (UNCHANGED NodeSide \/ NodeSideMoves)
         \/ UNCHANGED NodeSide /\ IappMoves
         \/ FreesIapp /\ routes' = {} /\ Drops
  BY Steps
<1> SUFFICES ASSUME Orderly', NEW n \in Nodes, Used(n)'
             PROVE  node'[n] = "up"
  BY DEF InUse
<1>2. Orderly /\ (Used(n) => node[n] = "up")
  BY <1>1 DEF Orderly, InUse
<1>3. CASE UNCHANGED IappSide /\ UNCHANGED NodeSide
  <2>1. UNCHANGED <<toIapp, imsg, idel, routes, node>>
    BY <1>3 DEF IappSide, NodeSide
  <2> QED  BY <1>2, <2>1 DEF Used, RoutesTo
<1>4. CASE UNCHANGED IappSide /\ NodeSideMoves
  <2>1. UNCHANGED <<toIapp, imsg, idel, routes>>
    BY <1>4 DEF IappSide
  <2>2. Used(n) /\ node[n] = "up"
    BY <1>2, <2>1 DEF Used, RoutesTo
  <2>3. CASE \E o \in Nodes : NodeMoves(o)
    BY <1>2, <2>2, <2>3 DEF NodeMoves, Joins, Resends, Leaves, Types, NodeTypes
  <2>4. CASE \E m \in answers : Hears(m)
    BY <2>2, <2>4 DEF Hears, Types, NodeTypes
  <2>5. CASE LoopMoves \/ Stops \/ Frees \/ FreesIapp \/ \E w \in Workers : WorkerMoves(w)
    BY <2>2, <2>5 DEF LoopMoves, Takes, Shuttles, Unconnects, Unregisters, Stops, Frees, FreesIapp,
       WorkerMoves, Adds, Registers, Connects, Answers
  <2> QED  BY <1>4, <2>3, <2>4, <2>5 DEF NodeSideMoves
<1>5. CASE UNCHANGED NodeSide /\ IappMoves
  <2>1. node' = node
    BY <1>5 DEF NodeSide
  <2> QED  BY <1>2, <1>5, <2>1, UsedMoves DEF Types
<1>6. CASE FreesIapp /\ routes' = {} /\ Drops
  <2>1. node' = node /\ (Used(n)' => Used(n))
    BY <1>6 DEF FreesIapp, Drops, Used, RoutesTo
  <2> QED  BY <1>2, <2>1
<1> QED  BY <1>1, <1>3, <1>4, <1>5, <1>6

\* A shutdown finds its node in all three registries.
LEMMA NextLeaving ==
  ASSUME NodeTypes, Addresses, StopOrder, InOrder, Reachable, Leaving, NodeSideMoves, env' = env
  PROVE  Leaving'
<1> SUFFICES ASSUME Orderly', NEW n \in Nodes
             PROVE  /\ lpc' = "unconn" /\ lnode' = n => ConnOf(n)' # {}
                    /\ Serving' => \A i \in 1 .. Len(rx') : Shuts(i, n)' =>
                         /\ ~BeingForgotten(n)' /\ ConnOf(n)' # {}
                         /\ \E s \in sads' : s.node = n /\ s.addr = rx'[i].addr
                         /\ \A j \in 1 .. Len(rx') : Shuts(j, n)' => j = i
  BY DEF Leaving
<1>1. /\ Orderly /\ Len(rx) \in Nat
      /\ lpc = "unconn" /\ lnode = n => ConnOf(n) # {}
      /\ \A o \in Nodes : node[o] # "out" => addr[o] # 0
  BY DEF Orderly, Leaving, NodeTypes, Addresses
<1>2. ASSUME Serving, NEW i \in 1 .. Len(rx), Shuts(i, n)
      PROVE  /\ ~BeingForgotten(n) /\ ConnOf(n) # {}
             /\ \E s \in sads : s.node = n /\ s.addr = rx[i].addr
             /\ \A j \in 1 .. Len(rx) : Shuts(j, n) => j = i
  BY <1>1, <1>2 DEF Leaving
<1>3. CASE Takes
  <2>1. /\ \A i \in 1 .. Len(rx') : /\ rx'[i] = rx[i + 1] /\ i + 1 \in 1 .. Len(rx)
                                    /\ \A j \in 1 .. Len(rx') : i + 1 = j + 1 => i = j
    BY <1>3, RxPopped DEF Takes
  <2>2. UNCHANGED <<lpc, lnode, conn, sads, mpc>>
    BY <1>3 DEF Takes
  <2>3. ASSUME NEW i \in 1 .. Len(rx'), Shuts(i, n)'
        PROVE  Shuts(i + 1, n) /\ i + 1 \in 1 .. Len(rx) /\ rx[i + 1] = rx'[i]
    BY <2>1, <2>3 DEF Shuts
  <2> QED  BY <1>1, <1>2, <2>1, <2>2, <2>3 DEF ConnOf, BeingForgotten, Serving
<1>4. ASSUME NEW e \in sads, Shuttles(e)
      PROVE  /\ lpc' = "unconn" /\ lnode' = n => ConnOf(n)' # {}
             /\ \A i \in 1 .. Len(rx') : Shuts(i, n)' =>
                  /\ ~BeingForgotten(n)' /\ ConnOf(n)' # {}
                  /\ \E s \in sads' : s.node = n /\ s.addr = rx'[i].addr
                  /\ \A j \in 1 .. Len(rx') : Shuts(j, n)' => j = i
  <2>1. 1 \in 1 .. Len(rx) /\ Shuts(1, e.node)
    BY <1>4, ShutNode
  <2>2. /\ lpc = "idle" /\ rx # <<>> /\ rx' = Tail(rx) /\ sads' = sads \ {e} /\ lnode' = e.node
        /\ UNCHANGED <<conn, mpc>>
    BY <1>4 DEF Shuttles
  <2>3. Serving
    BY <2>2 DEF StopOrder, Serving
  <2>4. e.node = n => ConnOf(n) # {} /\ \A j \in 1 .. Len(rx) : Shuts(j, n) => j = 1
    BY <1>2, <2>1, <2>3
  <2>5. /\ Len(rx') \in Nat
        /\ \A i \in 1 .. Len(rx') : /\ rx'[i] = rx[i + 1] /\ i + 1 \in 2 .. Len(rx)
                                    /\ \A j \in 1 .. Len(rx') : i + 1 = j + 1 => i = j
    BY <2>2, RxPopped
  <2>6. ConnOf(n)' = ConnOf(n)
    BY <2>2 DEF ConnOf
  <2>7. ASSUME NEW i \in 1 .. Len(rx'), Shuts(i, n)'
        PROVE  /\ ~BeingForgotten(n)' /\ ConnOf(n)' # {}
               /\ \E s \in sads' : s.node = n /\ s.addr = rx'[i].addr
               /\ \A j \in 1 .. Len(rx') : Shuts(j, n)' => j = i
    <3>1. rx'[i] = rx[i + 1] /\ i + 1 \in 1 .. Len(rx) /\ i + 1 # 1 /\ Shuts(i + 1, n)
      BY <1>1, <2>5, <2>7 DEF Shuts
    <3>2. e.node # n
      BY <2>4, <3>1
    <3>3. /\ ConnOf(n) # {}
          /\ \E s \in sads : s.node = n /\ s.addr = rx[i + 1].addr
          /\ \A j \in 1 .. Len(rx) : Shuts(j, n) => j = i + 1
      BY <1>2, <2>3, <3>1
    <3>4. \A j \in 1 .. Len(rx') : Shuts(j, n)' => j = i
      BY <1>1, <2>5, <3>3 DEF Shuts
    <3> QED  BY <2>2, <2>6, <3>1, <3>2, <3>3, <3>4 DEF BeingForgotten
  <2> QED  BY <2>2, <2>4, <2>6, <2>7
<1>5. CASE Unconnects
  <2>1. /\ lpc' = "unreg" /\ BeingForgotten(lnode)
        /\ \E c \in ConnOf(lnode) : conn' = conn \ {c}
        /\ UNCHANGED <<rx, lnode, sads, mpc>>
    BY <1>5 DEF Unconnects, BeingForgotten
  <2>2. lnode # n => ConnOf(n)' = ConnOf(n) /\ ~BeingForgotten(n)'
    BY <2>1 DEF ConnOf, BeingForgotten
  <2> QED  BY <1>2, <2>1, <2>2 DEF Serving, Shuts
<1>6. CASE /\ rx' = rx /\ conn \subseteq conn' /\ sads \subseteq sads' /\ (Serving' => Serving)
           /\ lpc' = "unconn" /\ lnode' = n => lpc = "unconn" /\ lnode = n
           /\ BeingForgotten(n)' => BeingForgotten(n)
  <2>1. ConnOf(n) \subseteq ConnOf(n)'
    BY <1>6 DEF ConnOf
  <2> QED  BY <1>1, <1>2, <1>6, <2>1 DEF Shuts
<1>7. Unregisters \/ Stops \/ (\E m \in answers : Hears(m)) \/ (\E w \in Workers : WorkerMoves(w))
      => /\ rx' = rx /\ conn \subseteq conn' /\ sads \subseteq sads' /\ (Serving' => Serving)
         /\ lpc' = "unconn" /\ lnode' = n => lpc = "unconn" /\ lnode = n
         /\ BeingForgotten(n)' => BeingForgotten(n)
  BY DEF Unregisters, Stops, Hears, WorkerMoves, Adds, Registers, Connects, Answers, Serving, BeingForgotten
<1>8. CASE Frees \/ FreesIapp
  <2>1. ~Serving' /\ lpc' # "unconn"
    BY <1>8 DEF Frees, FreesIapp, Serving, StopOrder
  <2> QED  BY <2>1
<1>9. ASSUME NEW o \in Nodes, NodeMoves(o)
      PROVE  /\ lpc' = "unconn" /\ lnode' = n => ConnOf(n)' # {}
             /\ Serving => \A i \in 1 .. Len(rx') : Shuts(i, n)' =>
                  /\ ~BeingForgotten(n)' /\ ConnOf(n)' # {}
                  /\ \E s \in sads' : s.node = n /\ s.addr = rx'[i].addr
                  /\ \A j \in 1 .. Len(rx') : Shuts(j, n)' => j = i
  <2>1. UNCHANGED <<lpc, lnode, conn, sads, mpc>>
    BY <1>9 DEF NodeMoves, Joins, Resends, Leaves
  <2>2. Leaves(o) => rx' # rx
    <3>1. Leaves(o) => rx' = Append(rx, [kind |-> "SHUTDOWN", node |-> o, addr |-> addr[o], k |-> 0])
      BY <1>1 DEF Leaves
    <3>2. Leaves(o) => [kind |-> "SHUTDOWN", node |-> o, addr |-> addr[o], k |-> 0] \in NodeMsg
      BY <1>1, NewMessages DEF Leaves
    <3> QED  BY <1>1, <3>1, <3>2, RxPushed
  <2>3. PICK z \in NodeMsg : /\ rx' = Append(rx, z) /\ z.node = o /\ z.addr = addr'[o]
                             /\ Joins(o) \/ Resends(o) => z.kind = "SETUP"
                             /\ Leaves(o) => z.kind = "SHUTDOWN"
    BY <1>1, <1>9, <2>2, Sent
  <2>4. /\ rx'[Len(rx) + 1] = z /\ \A i \in 1 .. Len(rx) : rx'[i] = rx[i] /\ i \in 1 .. Len(rx')
        /\ \A i \in 1 .. Len(rx') : i \in 1 .. Len(rx) \/ i = Len(rx) + 1
    BY <2>3, RxPushed
  <2>5. ConnOf(n)' = ConnOf(n) /\ BeingForgotten(n)' = BeingForgotten(n)
    BY <2>1 DEF ConnOf, BeingForgotten
  <2>6. CASE Leaves(o) /\ o = n
    <3>1. node[n] = "up" /\ Answered(n) /\ addr' = addr /\ node[n] # "out" /\ Serving
      BY <1>1, <2>6 DEF Leaves, Answered
    <3>2. ~BeingForgotten(n) /\ \A i \in 1 .. Len(rx) : ~Shuts(i, n)
      BY <3>1, NotUnread
    <3>3. (\E s \in sads : Current(s, n)) /\ \E c \in conn : Current(c, n)
      BY <3>1 DEF Reachable
    <3>4. \A i \in 1 .. Len(rx') : Shuts(i, n)' => i = Len(rx) + 1
      BY <2>4, <3>2 DEF Shuts
    <3>5. ConnOf(n) # {} /\ \E s \in sads : s.node = n /\ s.addr = z.addr
      BY <2>3, <2>6, <3>1, <3>3 DEF ConnOf, Current
    <3> QED  BY <1>1, <2>1, <2>4, <2>5, <3>2, <3>4, <3>5
  <2>7. CASE ~(Leaves(o) /\ o = n)
    <3>1. \A i \in 1 .. Len(rx') : Shuts(i, n)' => i \in 1 .. Len(rx) /\ Shuts(i, n)
      BY <1>9, <2>3, <2>4, <2>7 DEF Shuts, NodeMoves
    <3> QED  BY <1>1, <1>2, <2>1, <2>4, <2>5, <3>1
  <2> QED  BY <2>6, <2>7
<1>10. (\E o \in Nodes : NodeMoves(o)) => (Serving' => Serving)
  BY DEF NodeMoves, Joins, Resends, Leaves, Serving
<1> QED  BY <1>3, <1>4, <1>5, <1>6, <1>7, <1>8, <1>9, <1>10 DEF NodeSideMoves, LoopMoves

\* Who asks goes on until the answer is heard.
LEMMA AskingStays ==
  ASSUME NodeTypes, Addresses, Patient, Orderly, \A z \in answers : Asking(z), NodeSideMoves,
         NEW m \in NodeMsg, Asking(m), ~Hears(m)
  PROVE  Asking(m)'
<1>1. /\ m.node \in Nodes /\ m = Request(m.node) /\ node[m.node] = "asked"
      /\ \A o \in Nodes : node[o] # "out" => addr[o] # 0
  BY DEF NodeMsg, Asking, Addresses
<1>2. ~Joins(m.node)
  BY <1>1 DEF Joins
<1>3. Request(m.node)' = Request(m.node)
  BY <1>1, <1>2, CurrentStays
<1>4. node'[m.node] = "asked"
  <2>1. CASE \E z \in answers : Hears(z)
    <3>1. PICK z \in answers : Hears(z)
      BY <2>1
    <3>2. z = Request(z.node) /\ z # m /\ z.node \in Nodes
      BY <3>1 DEF Asking, NodeTypes, NodeMsg
    <3>3. z.node # m.node
      BY <1>1, <3>2
    <3> QED  BY <1>1, <3>1, <3>2, <3>3 DEF Hears, NodeTypes
  <2>2. CASE \E o \in Nodes : NodeMoves(o)
    BY <1>1, <1>2, <2>2 DEF NodeMoves, Joins, Resends, Leaves, NodeTypes
  <2>3. CASE LoopMoves \/ Stops \/ Frees \/ FreesIapp \/ \E w \in Workers : WorkerMoves(w)
    BY <1>1, <2>3 DEF LoopMoves, Takes, Shuttles, Unconnects, Unregisters, Stops, Frees, FreesIapp,
       WorkerMoves, Adds, Registers, Connects, Answers
  <2> QED  BY <2>1, <2>2, <2>3 DEF NodeSideMoves
<1> QED  BY <1>3, <1>4 DEF Asking

\* A request is at a worker, after one has moved.
LEMMA AtWorkerMoves ==
  ASSUME NodeTypes, NEW w \in Workers, WorkerMoves(w), NEW m \in NodeMsg
  PROVE  /\ AtWorker(m)' => AtWorker(m) \/ Adds(w, m)
         /\ \A z \in tasks : Adds(w, z) => wmsg'[w] = z
<1>1. \A v \in Workers : v # w => wpc'[v] = wpc[v] /\ wmsg'[v] = wmsg[v]
  BY DEF WorkerMoves, Adds, Registers, Connects, Answers, NodeTypes
<1>2. \A z \in tasks : Adds(w, z) => wmsg'[w] = z
  BY DEF Adds, NodeTypes
<1>3. ASSUME wpc'[w] # "idle", wmsg'[w] = m
      PROVE  AtWorker(m) \/ Adds(w, m)
  <2>1. CASE \E z \in tasks : Adds(w, z)
    BY <1>2, <1>3, <2>1
  <2>2. CASE Registers(w) \/ Connects(w) \/ Answers(w)
    <3>1. wpc[w] # "idle" /\ (wpc'[w] = "idle" \/ wmsg'[w] = wmsg[w])
      BY <2>2 DEF Registers, Connects, Answers, NodeTypes
    <3> QED  BY <1>3, <3>1 DEF AtWorker
  <2> QED  BY <2>1, <2>2 DEF WorkerMoves
<1> QED  BY <1>1, <1>2, <1>3 DEF AtWorker

\* A request is asked once, and in one place until its answer is heard.
LEMMA NextAskedOnce ==
  ASSUME NodeTypes, Addresses, InOrder, AskedOnce, NodeSideMoves, env' = env
  PROVE  AskedOnce'
<1> DEFINE AsksOn(m) == /\ m = [kind |-> "SETUP", node |-> m.node, addr |-> addr'[m.node], k |-> 0]
                        /\ node'[m.node] = "asked"
           NowAsking == /\ \A i \in 1 .. Len(rx') : rx'[i].kind = "SETUP" => AsksOn(rx'[i])
                        /\ \A m \in NodeMsg : m \in tasks' \/ m \in answers' \/ AtWorker(m)' => AsksOn(m)
           NowOnce == /\ \A m \in tasks' : m \notin answers' /\ ~AtWorker(m)'
                      /\ \A m \in answers' : ~AtWorker(m)'
                      /\ \A v, w \in Workers : wpc'[v] # "idle" /\ wmsg'[v] = wmsg'[w] => v = w
<1>1. Patient' = Patient /\ Orderly' = Orderly
  BY DEF Patient, Orderly
<1>2. Patient => resends' = 0
  <2>1. CASE \E n \in Nodes : NodeMoves(n)
    BY <2>1 DEF AskedOnce, NodeMoves, Joins, Resends, Leaves
  <2>2. CASE ~\E n \in Nodes : NodeMoves(n)
    <3>1. resends' = resends
      BY <2>2 DEF NodeSideMoves, LoopMoves, Takes, Shuttles, Unconnects, Unregisters, Stops, Frees, FreesIapp,
         WorkerMoves, Adds, Registers, Connects, Answers, Hears
    <3> QED  BY <3>1 DEF AskedOnce
  <2> QED  BY <2>1, <2>2
<1>3. SUFFICES ASSUME Patient, Orderly
               PROVE  NowAsking /\ NowOnce
  BY <1>1, <1>2 DEF AskedOnce, Asking, Request
<1>4. /\ \A i \in 1 .. Len(rx) : rx[i].kind = "SETUP" => Asking(rx[i])
      /\ \A m \in NodeMsg : m \in tasks \/ m \in answers \/ AtWorker(m) => Asking(m)
      /\ \A m \in tasks : m \notin answers /\ ~AtWorker(m)
      /\ \A m \in answers : ~AtWorker(m)
      /\ \A v, w \in Workers : wpc[v] # "idle" /\ wmsg[v] = wmsg[w] => v = w
  BY <1>3 DEF AskedOnce
<1>5. /\ tasks \subseteq NodeMsg /\ answers \subseteq NodeMsg /\ Len(rx) \in Nat
      /\ \A i \in 1 .. Len(rx) : rx[i] \in NodeMsg
      /\ \A n \in Nodes : node[n] # "out" => addr[n] # 0
  BY DEF NodeTypes, Addresses
<1>6. ASSUME NEW m \in NodeMsg, Asking(m), ~Hears(m)
      PROVE  AsksOn(m)
  <2>1. \A z \in answers : Asking(z)
    BY <1>4, <1>5
  <2>2. Asking(m)'
    BY <1>3, <1>6, <2>1, AskingStays
  <2> QED  BY <2>2 DEF Asking, Request
<1>7. ASSUME NEW m \in NodeMsg, Asking(m), Handled(m)
      PROVE  ~InRx(m)
  <2>1. m.node \in Nodes /\ m = Request(m.node) /\ node[m.node] # "out" /\ Current(m, m.node)
    BY <1>7 DEF NodeMsg, Asking, Request, Current
  <2> QED  BY <1>7, <2>1, Unhandled
<1>8. ASSUME NEW i \in 1 .. Len(rx), rx[i].kind = "SETUP"
      PROVE  /\ AsksOn(rx[i]) /\ rx[i] \in NodeMsg /\ rx[i] \notin answers /\ ~AtWorker(rx[i])
  <2>1. Asking(rx[i]) /\ rx[i] \in NodeMsg /\ InRx(rx[i])
    BY <1>4, <1>5, <1>8 DEF InRx
  <2>2. rx[i] \notin answers /\ ~AtWorker(rx[i])
    BY <1>7, <2>1 DEF Handled
  <2>3. ~Hears(rx[i])
    BY <2>2 DEF Hears
  <2> QED  BY <1>6, <2>1, <2>2, <2>3
\* What is unread is still asked.
<1>9. ASSUME NEW i \in 1 .. Len(rx'), rx'[i].kind = "SETUP"
      PROVE  AsksOn(rx'[i])
  <2>1. CASE rx' = rx
    BY <1>8, <1>9, <2>1
  <2>2. CASE rx # <<>> /\ rx' = Tail(rx)
    <3>1. i + 1 \in 1 .. Len(rx) /\ rx'[i] = rx[i + 1]
      <4>1. i + 1 \in 2 .. Len(rx) /\ rx'[i] = rx[i + 1]
        BY <2>2, RxPopped
      <4> QED  BY <1>5, <4>1
    <3> QED  BY <1>8, <1>9, <3>1
  <2>3. ASSUME NEW o \in Nodes, NodeMoves(o), rx' # rx
        PROVE  AsksOn(rx'[i])
    <3>1. PICK z \in NodeMsg : /\ rx' = Append(rx, z) /\ z.node = o
                               /\ Joins(o) => z.kind = "SETUP" /\ z = Request(o)'
                               /\ Leaves(o) => z.kind = "SHUTDOWN"
      BY <1>5, <2>3, Sent
    <3>2. /\ rx'[Len(rx) + 1] = z /\ \A j \in 1 .. Len(rx) : rx'[j] = rx[j]
          /\ i \in 1 .. Len(rx) \/ i = Len(rx) + 1
      BY <3>1, RxPushed
    <3>3. CASE i \in 1 .. Len(rx)
      BY <1>8, <1>9, <3>2, <3>3
    <3>4. CASE i = Len(rx) + 1
      <4>1. Joins(o)
        BY <1>3, <1>9, <2>3, <3>1, <3>2, <3>4 DEF NodeMoves, Resends
      <4>2. node'[o] = "asked" /\ z = [kind |-> "SETUP", node |-> o, addr |-> addr'[o], k |-> 0]
        BY <3>1, <4>1 DEF Joins, Request, NodeTypes
      <4> QED  BY <3>1, <3>2, <3>4, <4>2
    <3> QED  BY <3>2, <3>3, <3>4
  <2>4. rx' = rx \/ (rx # <<>> /\ rx' = Tail(rx)) \/ \E o \in Nodes : NodeMoves(o)
    BY DEF NodeSideMoves, LoopMoves, Takes, Shuttles, Unconnects, Unregisters, Stops, Frees, FreesIapp,
       WorkerMoves, Adds, Registers, Connects, Answers, Hears
  <2> QED  BY <2>1, <2>2, <2>3, <2>4
<1>10. CASE Takes
  <2>1. /\ rx # <<>> /\ rx[1].kind = "SETUP" /\ rx' = Tail(rx) /\ tasks' = tasks \union {rx[1]}
        /\ UNCHANGED <<wpc, wmsg, answers>>
    BY <1>10 DEF Takes
  <2>2. 1 \in 1 .. Len(rx)
    BY <2>1, RxPopped
  <2>3. AsksOn(rx[1]) /\ rx[1] \notin answers /\ ~AtWorker(rx[1])
    BY <1>8, <2>1, <2>2
  <2>4. \A m : AtWorker(m)' <=> AtWorker(m)
    BY <2>1 DEF AtWorker
  <2>5. \A m : ~Hears(m)
    <3>1. Len(rx') = Len(rx) - 1
      BY <2>1, RxPopped
    <3>2. rx' # rx
      BY <1>5, <3>1
    <3> QED  BY <3>2 DEF Hears
  <2>6. NowAsking
    BY <1>4, <1>6, <1>9, <2>1, <2>3, <2>4, <2>5
  <2>7. NowOnce
    BY <1>4, <2>1, <2>3, <2>4
  <2> QED  BY <2>6, <2>7
<1>11. CASE tasks' \subseteq tasks /\ answers' \subseteq answers /\ UNCHANGED <<wpc, wmsg>>
  <2>1. \A m : AtWorker(m)' <=> AtWorker(m)
    BY <1>11 DEF AtWorker
  <2>2. ASSUME NEW m \in NodeMsg, m \in tasks' \/ m \in answers' \/ AtWorker(m)'
        PROVE  AsksOn(m)
    <3>1. Asking(m)
      BY <1>4, <1>11, <2>1, <2>2
    <3>2. ~Hears(m)
      <4>1. Hears(m) => m \in answers /\ m \notin answers'
        BY DEF Hears
      <4> QED  BY <1>4, <1>11, <2>1, <2>2, <4>1
    <3> QED  BY <1>6, <3>1, <3>2
  <2>3. NowOnce
    BY <1>4, <1>11, <2>1
  <2> QED  BY <1>9, <2>2, <2>3
<1>12. ASSUME NEW w \in Workers, WorkerMoves(w)
       PROVE  NowAsking /\ NowOnce
  <2>1. \A m \in NodeMsg : AtWorker(m)' => AtWorker(m) \/ (m \in tasks /\ Adds(w, m))
    BY <1>12, AtWorkerMoves DEF Adds
  <2>2. \A m : ~Hears(m)
    <3>1. wpc'[w] # wpc[w]
      BY <1>12 DEF WorkerMoves, Adds, Registers, Connects, Answers, NodeTypes
    <3> QED  BY <3>1 DEF Hears
  <2>3. /\ tasks' \subseteq tasks
        /\ \A m \in answers' : m \in answers \/ (Answers(w) /\ m = wmsg[w])
    BY <1>12 DEF WorkerMoves, Adds, Registers, Connects, Answers
  <2>4. Answers(w) => wmsg[w] \in NodeMsg /\ AtWorker(wmsg[w])
    BY WorkerHas DEF Answers, AtWorker
  <2>5. \A m \in NodeMsg : m \in tasks' \/ m \in answers' \/ AtWorker(m)' => AsksOn(m)
    BY <1>4, <1>6, <2>1, <2>2, <2>3, <2>4
  <2>6. \A v \in Workers : v # w => wpc'[v] = wpc[v] /\ wmsg'[v] = wmsg[v]
    BY <1>12 DEF WorkerMoves, Adds, Registers, Connects, Answers, NodeTypes
  <2>7. ASSUME NEW z \in tasks, Adds(w, z)
        PROVE  NowOnce
    <3>1. /\ tasks' = tasks \ {z} /\ answers' = answers /\ wmsg'[w] = z /\ wpc'[w] = "register"
          /\ wpc[w] = "idle" /\ z \in NodeMsg
      BY <1>5, <2>7 DEF Adds, NodeTypes
    <3>2. \A m : AtWorker(m)' => AtWorker(m) \/ m = z
      BY <2>6, <3>1 DEF AtWorker
    <3>3. \A v \in Workers : v # w => wmsg[v] # z
      <4>1. z # NoMsg /\ ~AtWorker(z)
        BY <1>4, <3>1, NoMsgAssumption
      <4>2. \A v \in Workers : wpc[v] = "idle" => wmsg[v] # z
        BY <4>1 DEF NodeTypes
      <4> QED  BY <4>1, <4>2 DEF AtWorker
    <3>4. \A u, v \in Workers : wpc'[u] # "idle" /\ wmsg'[u] = wmsg'[v] => u = v
      BY <1>4, <2>6, <3>1, <3>3
    <3> QED  BY <1>4, <3>1, <3>2, <3>4
  <2>8. ASSUME Registers(w) \/ Connects(w)
        PROVE  NowOnce
    <3>1. /\ UNCHANGED <<tasks, answers>> /\ wmsg'[w] = wmsg[w] /\ wpc[w] # "idle"
      BY <2>8 DEF Registers, Connects, NodeTypes
    <3>2. \A m : AtWorker(m)' => AtWorker(m)
      BY <2>6, <3>1 DEF AtWorker
    <3>3. \A u, v \in Workers : wpc'[u] # "idle" /\ wmsg'[u] = wmsg'[v] => u = v
      BY <1>4, <2>6, <3>1
    <3>4. tasks' = tasks /\ answers' = answers
      BY <3>1
    <3>5. (\A m \in tasks' : m \notin answers' /\ ~AtWorker(m)') /\ \A m \in answers' : ~AtWorker(m)'
      BY <1>4, <3>2, <3>4
    <3> QED  BY <3>3, <3>5
  <2>9. ASSUME Answers(w)
        PROVE  NowOnce
    <3>1. /\ tasks' = tasks /\ answers' = answers \union {wmsg[w]}
          /\ wpc[w] = "answer" /\ wpc'[w] = "idle" /\ wmsg'[w] = NoMsg
      BY <2>9 DEF Answers, NodeTypes
    <3>2. \A m : AtWorker(m)' => AtWorker(m) /\ m # wmsg[w]
      BY <1>4, <2>6, <3>1 DEF AtWorker
    <3>3. wmsg[w] \notin tasks
      BY <1>4, <2>4, <2>9
    <3>4. ASSUME NEW u \in Workers, NEW v \in Workers, wpc'[u] # "idle", wmsg'[u] = wmsg'[v]
          PROVE  u = v
      <4>1. u # w /\ wpc[u] # "idle" /\ wmsg'[u] = wmsg[u] /\ wmsg[u] # NoMsg
        BY <2>6, <3>1, <3>4 DEF NodeTypes
      <4>2. v # w
        BY <3>1, <3>4, <4>1
      <4> QED  BY <1>4, <2>6, <3>4, <4>1, <4>2
    <3>5. (\A m \in tasks' : m \notin answers' /\ ~AtWorker(m)') /\ \A m \in answers' : ~AtWorker(m)'
      BY <1>4, <3>1, <3>2, <3>3
    <3> QED  BY <3>4, <3>5
  <2> QED  BY <1>9, <1>12, <2>5, <2>7, <2>8, <2>9 DEF WorkerMoves
<1>13. LoopMoves \/ Stops \/ Frees \/ FreesIapp \/ (\E n \in Nodes : NodeMoves(n)) \/ (\E m \in answers : Hears(m))
       => Takes \/ (tasks' \subseteq tasks /\ answers' \subseteq answers /\ UNCHANGED <<wpc, wmsg>>)
  BY DEF LoopMoves, Shuttles, Unconnects, Unregisters, Stops, Frees, FreesIapp, NodeMoves,
     Joins, Resends, Leaves, Hears
<1> QED  BY <1>10, <1>11, <1>12, <1>13 DEF NodeSideMoves

\* The reason why a node is registered goes over into another one.
LEMMA NextAccounted ==
  ASSUME NodeTypes, Addresses, AskedOnce, Accounted, NodeSideMoves, env' = env
  PROVE  Accounted'
<1> SUFFICES ASSUME Patient', Orderly', mpc' # "freed", NEW n \in reg'
             PROVE  WhyRegistered(n)'
  BY DEF Accounted
<1>1. /\ Patient /\ Orderly /\ Len(rx) \in Nat
      /\ \A o \in Nodes : node[o] # "out" => addr[o] # 0
  BY DEF Patient, Orderly, NodeTypes, Addresses
<1>2. mpc # "freed" /\ ~FreesIapp
  BY DEF NodeSideMoves, LoopMoves, Takes, Shuttles, Unconnects, Unregisters, Stops, Frees, FreesIapp,
     WorkerMoves, Adds, Registers, Connects, Answers, NodeMoves, Joins, Resends, Leaves, Hears
<1>3. n \in reg => WhyRegistered(n)
  BY <1>1, <1>2 DEF Accounted
<1>4. CASE /\ reg' = reg /\ rx' = rx /\ node' = node /\ answers' = answers /\ wpc' = wpc /\ wmsg' = wmsg
           /\ BeingForgotten(n) => BeingForgotten(n)'
  BY <1>3, <1>4 DEF WhyRegistered, Shuts
<1>5. Unconnects \/ Stops \/ Frees
      => /\ reg' = reg /\ rx' = rx /\ node' = node /\ answers' = answers /\ wpc' = wpc /\ wmsg' = wmsg
         /\ BeingForgotten(n) => BeingForgotten(n)'
  BY DEF Unconnects, Stops, Frees, BeingForgotten
<1>6. CASE Takes \/ \E e \in sads : Shuttles(e)
  <2>1. /\ rx # <<>> /\ rx' = Tail(rx) /\ lpc = "idle" /\ UNCHANGED <<reg, node, answers, wpc, wmsg>>
    BY <1>6 DEF Takes, Shuttles
  <2>2. ~BeingForgotten(n)
    BY <2>1 DEF BeingForgotten
  <2>3. ASSUME NEW i \in 1 .. Len(rx), Shuts(i, n)
        PROVE  WhyRegistered(n)'
    <3>1. CASE i = 1
      <4>1. PICK e \in sads : Shuttles(e)
        BY <1>6, <2>3, <3>1 DEF Takes, Shuts
      <4>2. e.node = n
        BY <2>3, <3>1, <4>1, ShutNode DEF Shuts
      <4>3. BeingForgotten(n)'
        BY <4>1, <4>2 DEF Shuttles, BeingForgotten
      <4> QED  BY <4>3 DEF WhyRegistered
    <3>2. CASE i # 1
      <4>1. i \in 2 .. Len(rx)
        BY <1>1, <3>2
      <4>2. i - 1 \in 1 .. Len(rx') /\ rx'[i - 1] = rx[i]
        BY <2>1, <4>1, RxPopped
      <4> QED  BY <2>3, <4>2 DEF WhyRegistered, Shuts
    <3> QED  BY <3>1, <3>2
  <2> QED  BY <1>3, <2>1, <2>2, <2>3 DEF WhyRegistered
<1>7. CASE Unregisters
  <2>1. /\ n \in reg /\ n # lnode /\ lpc' = "idle"
        /\ UNCHANGED <<rx, node, answers, wpc, wmsg, lnode>>
    BY <1>7 DEF Unregisters
  <2>2. ~BeingForgotten(n)
    BY <2>1 DEF BeingForgotten
  <2> QED  BY <1>3, <2>1, <2>2 DEF WhyRegistered, Shuts
<1>8. ASSUME NEW w \in Workers, WorkerMoves(w)
      PROVE  WhyRegistered(n)'
  <2>1. /\ UNCHANGED <<rx, node, lpc, lnode>> /\ answers \subseteq answers'
        /\ \A v \in Workers : v # w => wpc'[v] = wpc[v] /\ wmsg'[v] = wmsg[v]
    BY <1>8 DEF WorkerMoves, Adds, Registers, Connects, Answers, NodeTypes
  <2>2. wpc[w] = "connect" => wpc'[w] = "answer" /\ wmsg'[w] = wmsg[w]
    BY <1>8 DEF WorkerMoves, Adds, Registers, Connects, Answers, NodeTypes
  <2>3. wpc[w] = "answer" => wmsg[w] \in answers'
    BY <1>8 DEF WorkerMoves, Adds, Registers, Connects, Answers
  <2>4. CASE n \in reg
    <3>1. CASE \E v \in Workers : wpc[v] \in {"connect", "answer"} /\ wmsg[v].node = n
      <4>1. PICK v \in Workers : wpc[v] \in {"connect", "answer"} /\ wmsg[v].node = n
        BY <3>1
      <4>2. CASE v # w
        BY <2>1, <4>1, <4>2 DEF WhyRegistered
      <4>3. CASE v = w /\ wpc[w] = "connect"
        BY <2>2, <4>1, <4>3 DEF WhyRegistered
      <4>4. CASE v = w /\ wpc[w] = "answer"
        BY <2>3, <4>1, <4>4 DEF WhyRegistered
      <4> QED  BY <4>1, <4>2, <4>3, <4>4
    <3>2. CASE ~\E v \in Workers : wpc[v] \in {"connect", "answer"} /\ wmsg[v].node = n
      <4>1. \/ node[n] = "up" \/ BeingForgotten(n) \/ (\E m \in answers : m.node = n)
            \/ \E i \in 1 .. Len(rx) : Shuts(i, n)
        BY <1>3, <2>4, <3>2 DEF WhyRegistered
      <4>2. BeingForgotten(n)' = BeingForgotten(n)
        BY <2>1 DEF BeingForgotten
      <4> QED  BY <2>1, <4>1, <4>2 DEF WhyRegistered, Shuts
    <3> QED  BY <3>1, <3>2
  <2>5. CASE n \notin reg
    <3>1. Registers(w) /\ wmsg[w].node = n
      BY <1>8, <2>5 DEF WorkerMoves, Adds, Registers, Connects, Answers
    <3>2. wpc'[w] = "connect" /\ wmsg'[w] = wmsg[w]
      BY <3>1 DEF Registers, NodeTypes
    <3> QED  BY <3>1, <3>2 DEF WhyRegistered
  <2> QED  BY <2>4, <2>5
<1>9. ASSUME NEW o \in Nodes, NodeMoves(o)
      PROVE  WhyRegistered(n)'
  <2>1. UNCHANGED <<lpc, lnode, answers, wpc, wmsg, reg>>
    BY <1>9 DEF NodeMoves, Joins, Resends, Leaves
  <2>2. ~Resends(o) /\ (Leaves(o) => rx' = Append(rx, [kind |-> "SHUTDOWN", node |-> o, addr |-> addr[o], k |-> 0]))
    BY <1>1 DEF Resends, Leaves
  <2>3. PICK z \in NodeMsg : rx' = Append(rx, z) /\ (Leaves(o) => z.kind = "SHUTDOWN" /\ z.node = o)
    <3>1. CASE Joins(o)
      <4>1. ~Leaves(o)
        BY <3>1 DEF Joins, Leaves
      <4> QED  BY <3>1, <4>1, NewMessages DEF Joins
    <3>2. CASE Leaves(o)
      <4>1. [kind |-> "SHUTDOWN", node |-> o, addr |-> addr[o], k |-> 0] \in NodeMsg
        BY <1>1, <3>2, NewMessages DEF Leaves
      <4> QED  BY <2>2, <3>2, <4>1
    <3> QED  BY <1>9, <2>2, <3>1, <3>2 DEF NodeMoves
  <2>4. /\ rx'[Len(rx) + 1] = z /\ Len(rx) + 1 \in 1 .. Len(rx')
        /\ \A i \in 1 .. Len(rx) : rx'[i] = rx[i] /\ i \in 1 .. Len(rx')
    <3>1. /\ rx'[Len(rx) + 1] = z /\ Len(rx') = Len(rx) + 1
          /\ \A i \in 1 .. Len(rx) : rx'[i] = rx[i] /\ i \in 1 .. Len(rx')
      BY <2>3, RxPushed
    <3> QED  BY <1>1, <3>1
  <2>5. CASE Leaves(o) /\ o = n
    BY <2>3, <2>4, <2>5 DEF WhyRegistered, Shuts
  <2>6. CASE ~(Leaves(o) /\ o = n)
    <3>1. node[n] = "up" => node'[n] = "up"
      BY <1>9, <2>2, <2>6 DEF NodeMoves, Joins, Leaves, NodeTypes
    <3>2. BeingForgotten(n)' = BeingForgotten(n)
      BY <2>1 DEF BeingForgotten
    <3> QED  BY <1>3, <2>1, <2>4, <3>1, <3>2 DEF WhyRegistered, Shuts
  <2> QED  BY <2>5, <2>6
<1>10. ASSUME NEW m \in answers, Hears(m)
       PROVE  WhyRegistered(n)'
  <2>1. /\ m \in NodeMsg /\ m.node \in Nodes
        /\ UNCHANGED <<rx, lpc, lnode, wpc, wmsg, reg>> /\ answers' = answers \ {m}
    BY <1>10 DEF Hears, NodeTypes, NodeMsg
  <2>2. m = Request(m.node) /\ node[m.node] = "asked"
    BY <1>1, <2>1 DEF AskedOnce, Asking
  <2>3. node'[m.node] = "up"
    BY <1>10, <2>1, <2>2 DEF Hears, NodeTypes, Request
  <2>4. node[n] = "up" => node'[n] = "up"
    BY <1>10, <2>1, <2>2 DEF Hears, NodeTypes
  <2>5. BeingForgotten(n)' = BeingForgotten(n)
    BY <2>1 DEF BeingForgotten
  <2> QED  BY <1>3, <2>1, <2>3, <2>4, <2>5 DEF WhyRegistered, Shuts
<1> QED  BY <1>2, <1>4, <1>5, <1>6, <1>7, <1>8, <1>9, <1>10 DEF NodeSideMoves, LoopMoves

NodesInv == RegistryInv /\ InUse /\ Leaving /\ AskedOnce /\ Accounted

\* What each environment brings about.
LEMMA Excuses ==
  ASSUME Types
  PROVE  /\ ~Patient => {"add_reg_e2_node", "bi_map_extract_right"} \subseteq Excused
         /\ ~Orderly => {"rm_map_sad_e2_node", "bi_map_extract_right", "notification_handle_ric",
                         "add_reg_e2_node", "valid_global_e2_node", "find_map_e2_node_sad"} \subseteq Excused
         /\ ~Quiet => "use_after_free" \in Excused
<1>1. env \in {"calm", "repeats", "leaves", "hasty"}
  BY NodeAssumption DEF Types
<1> QED  BY <1>1 DEF Excused, Patient, Orderly, Quiet

\* A node that is up is found by the iApp.
LEMMA UpIsFound ==
  ASSUME NodesInv, Orderly, NEW n \in Nodes, Used(n)
  PROVE  (mpc # "freed" => n \in reg) /\ (Serving => AddressesOf(n) # {})
<1>1. node[n] = "up" /\ Answered(n) /\ node[n] # "out"
  BY DEF NodesInv, InUse, Answered
<1>2. /\ mpc # "freed" => n \in reg
      /\ Serving => \E s \in sads : Current(s, n)
  BY <1>1 DEF NodesInv, RegistryInv, Reachable
<1> QED  BY <1>2 DEF AddressesOf, Current

\* Only one address of a node is known when its shutdown is handled.
LEMMA OneAddress ==
  ASSUME NodesInv, Patient, Orderly, lpc = "idle", NEW n \in Nodes,
         NEW i \in 1 .. Len(rx), Shuts(i, n), NEW e \in AddressesOf(n), NEW z \in AddressesOf(n)
  PROVE  z = e
<1>1. Serving /\ ~BeingForgotten(n) /\ ConnOf(n) # {} /\ n \in reg /\ Len(rx) \in Nat
  BY DEF NodesInv, RegistryInv, Types, NodeTypes, StopOrder, Serving, BeingForgotten, Leaving, OneStage
<1>2. Registering(n) = {}
  <2>1. ASSUME NEW w \in Workers, wpc[w] = "register", wmsg[w].node = n
        PROVE  FALSE
    <3>1. wmsg[w] \in NodeMsg /\ AtWorker(wmsg[w])
      BY <2>1, WorkerHas DEF NodesInv, RegistryInv, Types, AtWorker
    <3>2. Asking(wmsg[w])
      BY <3>1 DEF NodesInv, AskedOnce
    <3>3. wmsg[w] = Request(n) /\ node[n] # "out"
      BY <2>1, <3>2 DEF Asking
    <3>4. AtStage(n, {"register", "connect", "answer"})
      BY <2>1, <3>3 DEF AtStage, Current, Request
    <3> QED  BY <3>3, <3>4, NotUnread DEF NodesInv, RegistryInv, Types
  <2> QED  BY <2>1 DEF Registering
<1>3. Cardinality(AddressesOf(n)) = 1 /\ IsFiniteSet(AddressesOf(n))
  <2>1. /\ IsFiniteSet(AddressesOf(n))
        /\ Cardinality(AddressesOf(n)) + One(BeingForgotten(n)) = Cardinality(Registering(n)) + One(n \in reg)
    BY <1>1, FinitelyMany DEF NodesInv, RegistryInv, Balance
  <2>2. Cardinality(Registering(n)) = 0 /\ Cardinality(AddressesOf(n)) \in Nat
    BY <1>2, <2>1, FS_EmptySet, Counts
  <2> QED  BY <1>1, <2>1, <2>2 DEF One
<1>4. Cardinality(AddressesOf(n) \ {e}) = 0 /\ IsFiniteSet(AddressesOf(n) \ {e})
  BY <1>3, Counts, FS_RemoveElement
<1>5. AddressesOf(n) \ {e} = {}
  BY <1>4, FS_EmptySet
<1> QED  BY <1>5

\* The assertions of the event loop hold.
LEMMA LoopFails ==
  ASSUME NodesInv, fault = "none", Loop
  PROVE  fault' \in {"none"} \union Excused
<1>1. Types /\ NodeTypes
  BY DEF NodesInv, RegistryInv, Types
<1>2. lpc # "stopped" => Serving
  BY DEF NodesInv, RegistryInv, StopOrder, Serving
<1>3. CASE LoopShutdown /\ ~UNCHANGED fault
  <2>1. lpc = "idle" /\ rx # <<>> /\ Head(rx).kind = "SHUTDOWN" /\ Head(rx) = rx[1] /\ 1 \in 1 .. Len(rx)
        /\ rx[1] \in NodeMsg
    BY <1>1, <1>3, Popped DEF LoopShutdown, NodeTypes
  <2>2. rx[1].node \in Nodes /\ Shuts(1, rx[1].node)
    BY <2>1 DEF NodeMsg, Shuts
  <2>3. CASE {m \in sads : m.addr = Head(rx).addr} = {}
    <3>1. fault' = "rm_map_sad_e2_node"
      BY <1>3, <2>3 DEF LoopShutdown, Abort
    <3>2. ~Orderly
      <4>1. Orderly => \E s \in sads : s.addr = rx[1].addr
        BY <1>2, <2>1, <2>2 DEF NodesInv, Leaving
      <4> QED  BY <2>1, <2>3, <4>1
    <3> QED  BY <1>1, <3>1, <3>2, Excuses
  <2>4. CASE {m \in sads : m.addr = Head(rx).addr} # {}
    <3>0. PICK e \in sads :
            /\ e.addr = rx[1].addr
            /\ \E z \in AddressesOf(e.node) : z.addr # e.addr /\ fault' = "bi_map_extract_right"
      BY <1>3, <2>1, <2>4 DEF LoopShutdown, Abort
    <3>1. PICK z \in AddressesOf(e.node) : z.addr # e.addr /\ fault' = "bi_map_extract_right"
      BY <3>0
    <3>2. e.node = rx[1].node
      <4>1. e \in NodeMsg /\ Known(e) /\ Known(rx[1])
        BY <1>1, <2>1 DEF Known, Handled, InRx, NodeTypes
      <4> QED  BY <2>1, <3>0, <4>1 DEF NodesInv, RegistryInv, Addresses
    <3>3. ~Patient \/ ~Orderly
      <4>1. e \in AddressesOf(rx[1].node) /\ z \in AddressesOf(rx[1].node) /\ z # e
        BY <3>1, <3>2 DEF AddressesOf
      <4> QED  BY <2>1, <2>2, <4>1, OneAddress
    <3> QED  BY <1>1, <3>1, <3>3, Excuses
  <2> QED  BY <2>3, <2>4
<1>4. CASE LoopUnconnect /\ ~UNCHANGED fault
  <2>1. lpc = "unconn" /\ ConnOf(lnode) = {} /\ fault' = "notification_handle_ric"
    BY <1>4 DEF LoopUnconnect, Abort
  <2>2. ~Orderly
    BY <1>1, <2>1 DEF NodesInv, Leaving, NodeTypes
  <2> QED  BY <1>1, <2>1, <2>2, Excuses
<1>5. CASE LoopUnregister /\ ~UNCHANGED fault
  <2>1. lpc = "unreg" /\ lnode \notin reg /\ lnode \in Nodes
    BY <1>1, <1>5 DEF LoopUnregister, NodeTypes
  <2>2. Forgotten(lnode) /\ Serving
    BY <1>2, <2>1 DEF Forgotten
  <2> QED  BY <2>1, <2>2 DEF NodesInv, RegistryInv, OneStage
<1>6. LoopTask \/ LoopStop => UNCHANGED fault
  BY DEF LoopTask, LoopStop
<1> QED  BY <1>3, <1>4, <1>5, <1>6 DEF Loop

\* Those of the workers.
LEMMA WorkerFails ==
  ASSUME NodesInv, fault = "none", NEW w \in Workers, Worker(w)
  PROVE  fault' \in {"none"} \union Excused
<1>1. Types /\ NodeTypes
  BY DEF NodesInv, RegistryInv, Types
<1>2. CASE WorkerRegister(w) /\ ~UNCHANGED fault
  <2>1. wpc[w] = "register" /\ wmsg[w].node \in reg /\ fault' = "add_reg_e2_node"
    BY <1>2 DEF WorkerRegister, Abort
  <2>2. wmsg[w] \in NodeMsg /\ wmsg[w].node \in Nodes /\ AtWorker(wmsg[w])
    BY <1>1, <2>1, WorkerHas DEF AtWorker
  <2>3. ASSUME Patient, Orderly
        PROVE  FALSE
    <3>1. PICK n \in Nodes : n = wmsg[w].node
      BY <2>2
    <3>2. wmsg[w] = Request(n) /\ node[n] = "asked"
      BY <2>2, <2>3, <3>1 DEF NodesInv, AskedOnce, Asking
    <3>3. ~BeingForgotten(n) /\ \A i \in 1 .. Len(rx) : ~Shuts(i, n)
      <4>1. AtStage(n, {"register", "connect", "answer"})
        BY <2>1, <3>2 DEF AtStage, Current, Request
      <4> QED  BY <1>1, <3>2, <4>1, NotUnread DEF NodesInv, RegistryInv
    <3>4. \A m \in answers : m.node # n
      <4>1. ASSUME NEW m \in answers, m.node = n
            PROVE  FALSE
        <5>1. m = Request(n)
          BY <1>1, <2>3, <4>1 DEF NodesInv, AskedOnce, Asking, NodeTypes
        <5> QED  BY <2>2, <2>3, <3>2, <5>1 DEF NodesInv, AskedOnce
      <4> QED  BY <4>1
    <3>5. \A v \in Workers : ~(wpc[v] \in {"connect", "answer"} /\ wmsg[v].node = n)
      <4>1. ASSUME NEW v \in Workers, wpc[v] \in {"connect", "answer"}, wmsg[v].node = n
            PROVE  FALSE
        <5>1. wmsg[v] \in NodeMsg /\ AtWorker(wmsg[v])
          BY <1>1, <4>1, WorkerHas DEF AtWorker
        <5>2. wmsg[v] = wmsg[w]
          BY <2>3, <3>2, <4>1, <5>1 DEF NodesInv, AskedOnce, Asking
        <5>3. v = w
          BY <2>3, <4>1, <5>2 DEF NodesInv, AskedOnce
        <5> QED  BY <2>1, <4>1, <5>3
      <4> QED  BY <4>1
    <3>6. mpc # "freed"
      BY <2>1 DEF NodesInv, RegistryInv, StopOrder, WorkersJoined
    <3> QED  BY <2>1, <2>3, <3>1, <3>2, <3>3, <3>4, <3>5, <3>6 DEF NodesInv, Accounted, WhyRegistered
  <2> QED  BY <1>1, <2>1, <2>3, Excuses
<1>3. WorkerAddress(w) \/ WorkerConnect(w) \/ WorkerAnswer(w) => UNCHANGED fault
  BY DEF WorkerAddress, WorkerConnect, WorkerAnswer
<1> QED  BY <1>2, <1>3 DEF Worker

\* Those of the iApp's thread, which uses nothing that was freed.
LEMMA IappFails ==
  ASSUME NodesInv, fault = "none", Iapp
  PROVE  fault' \in {"none"} \union Excused
<1>1. Types /\ IappTypes
  BY DEF NodesInv, RegistryInv, Types
<1>2. ~RicFreed => Serving
  BY DEF RicFreed, Serving
<1>3. Quiet /\ RicFreed => ipc \in {"idle", "stopped"}
  BY DEF NodesInv, RegistryInv, StopOrder, RicFreed
<1>4. CASE IappCheck /\ ~UNCHANGED fault
  <2>1. /\ ipc = "idle" /\ toIapp # <<>> /\ Head(toIapp).kind = "SUBS"
        /\ Head(toIapp).node \notin reg /\ fault' = "valid_global_e2_node"
    BY <1>4 DEF IappCheck, IappReads, Abort
  <2>2. Head(toIapp) = toIapp[1] /\ 1 \in DOMAIN toIapp /\ 1 \in 1 .. Len(toIapp)
    BY <1>1, <2>1, Popped DEF IappTypes
  <2>3. toIapp[1].node \in Nodes /\ Used(toIapp[1].node)
    BY <1>1, <2>1, <2>2 DEF IappTypes, Used
  <2>4. mpc # "freed"
    BY <2>1 DEF NodesInv, RegistryInv, StopOrder
  <2>5. ~Orderly
    BY <2>1, <2>2, <2>3, <2>4, UpIsFound
  <2> QED  BY <1>1, <2>1, <2>5, Excuses
<1>5. CASE IappSend /\ ~UNCHANGED fault
  <2>1. /\ ipc = "send"
        /\ \/ RicFreed /\ fault' = "use_after_free"
           \/ ~RicFreed /\ AddressesOf(imsg.node) = {} /\ fault' = "find_map_e2_node_sad"
    BY <1>5 DEF IappSend, Abort
  <2>2. imsg.node \in Nodes /\ Used(imsg.node)
    BY <1>1, <2>1 DEF IappTypes, Used
  <2>3. RicFreed => ~Quiet
    BY <1>3, <2>1
  <2>4. ~RicFreed => ~Orderly
    BY <1>2, <2>1, <2>2, UpIsFound
  <2> QED  BY <1>1, <2>1, <2>3, <2>4, Excuses
<1>6. ASSUME NEW r \in idel, IappForwardDelete(r), ~UNCHANGED fault
      PROVE  fault' \in Excused
  <2>1. /\ ipc = "delete"
        /\ \/ RicFreed /\ fault' = "use_after_free"
           \/ ~RicFreed /\ AddressesOf(r.node) = {} /\ fault' = "find_map_e2_node_sad"
    BY <1>6 DEF IappForwardDelete, Abort
  <2>2. r.node \in Nodes /\ Used(r.node)
    BY <1>1 DEF IappTypes, Used, Route
  <2>3. RicFreed => ~Quiet
    BY <1>3, <2>1
  <2>4. ~RicFreed => ~Orderly
    BY <1>2, <2>1, <2>2, UpIsFound
  <2> QED  BY <1>1, <2>1, <2>3, <2>4, Excuses
<1>7. IappSetup \/ IappDelete \/ IappStop => UNCHANGED fault
  BY DEF IappSetup, IappDelete, IappStop
<1> QED  BY <1>4, <1>5, <1>6, <1>7 DEF Iapp

\* Every step keeps the invariant, and no assertion fails but those excused.
LEMMA NextNodes ==
  ASSUME NodesInv, NoAbort, [Next]_vars
  PROVE  NodesInv' /\ NoAbort'
<1>1. /\ env' = env /\ (UNCHANGED NodeSide \/ NodeSideMoves)
  BY Steps DEF NodesInv, RegistryInv, NodeSideMoves
<1>2. RegistryInv' /\ InUse'
  BY NextRegistries, NextInUse DEF NodesInv, RegistryInv
<1>3. ASSUME UNCHANGED NodeSide
      PROVE  NodesInv'
  <2>1. UNCHANGED <<rx, lpc, lnode, tasks, wpc, wmsg, answers, sads, conn, reg, mpc, node, addr, joins, resends, env>>
    BY <1>1, <1>3 DEF NodeSide
  <2>2. Leaving'
    BY <2>1 DEF NodesInv, Leaving, Orderly, ConnOf, Serving, Shuts, BeingForgotten
  <2>3. AskedOnce'
    BY <2>1 DEF NodesInv, AskedOnce, Patient, Orderly, Asking, Request, AtWorker
  <2>4. Accounted'
    BY <2>1 DEF NodesInv, Accounted, Patient, Orderly, WhyRegistered, BeingForgotten, Shuts
  <2> QED  BY <1>2, <2>2, <2>3, <2>4 DEF NodesInv
<1>4. ASSUME NodeSideMoves
      PROVE  NodesInv'
  BY <1>1, <1>2, <1>4, NextLeaving, NextAskedOnce, NextAccounted DEF NodesInv, RegistryInv, Types
<1>5. Excused' = Excused
  BY <1>1 DEF Excused
<1>6. ASSUME UNCHANGED vars
      PROVE  NoAbort'
  BY <1>5, <1>6 DEF NoAbort, vars
<1>7. ASSUME Next
      PROVE  NoAbort'
  <2>1. fault = "none"
    BY <1>7 DEF Next, Running
  <2>2. CASE Loop \/ Iapp \/ \E w \in Workers : Worker(w)
    BY <1>5, <2>1, <2>2, LoopFails, WorkerFails, IappFails DEF NoAbort
  <2>3. CASE MainStop \/ MainFrees
    BY <2>1, <2>3 DEF NoAbort, MainStop, MainFrees, MainJoin, MainFree, MainFreeIapp
  <2>4. CASE \/ \E n \in Nodes : NodeJoins(n) \/ NodeResends(n) \/ NodeLeaves(n)
             \/ \E m \in answers : NodeHears(m)
             \/ \E r \in routes : NodeDeletes(r)
    BY <2>1, <2>4 DEF NoAbort, NodeJoins, NodeResends, NodeLeaves, NodeHears, NodeDeletes
  <2>5. CASE \/ \E x \in XApps : XappSetup(x) \/ XappLeaves(x) \/ SendReported(x)
             \/ \E x \in XApps, n \in Nodes : XappSubscribes(x, n) \/ XappUnsubscribes(x, n)
    BY <2>1, <2>5 DEF NoAbort, XappSetup, XappLeaves, SendReported, XappSubscribes, XappUnsubscribes, XappSends
  <2> QED  BY <1>7, <2>2, <2>3, <2>4, <2>5 DEF Next
<1> QED  BY <1>3, <1>4, <1>1, <1>6, <1>7

\* No assertion fails and nothing freed is used, but for what each environment
\* brings about; in a calm one, none at all.
THEOREM NodesNeverAbort == Spec => []NoAbort
<1>1. Init => NodesInv /\ NoAbort
  <2> SUFFICES ASSUME Init PROVE NodesInv /\ NoAbort
    OBVIOUS
  <2>1. /\ Len(rx) = 0 /\ Len(toIapp) = 0 /\ tasks = {} /\ answers = {} /\ reg = {} /\ resends = 0
        /\ DOMAIN toIapp = {} /\ imsg = NoMsg /\ idel = {} /\ routes = {} /\ lpc = "idle"
        /\ wpc = [w \in Workers |-> "idle"] /\ fault = "none"
    BY DEF Init
  <2>2. InUse
    BY <2>1 DEF InUse, Used, RoutesTo
  <2>3. Leaving
    BY <2>1 DEF Leaving
  <2>4. AskedOnce
    BY <2>1 DEF AskedOnce, AtWorker
  <2>5. Accounted
    BY <2>1 DEF Accounted
  <2> QED  BY <2>1, <2>2, <2>3, <2>4, <2>5, InitRegistries DEF NodesInv, NoAbort
<1>2. NodesInv /\ NoAbort /\ [Next]_vars => (NodesInv /\ NoAbort)'
  BY NextNodes
<1> QED  BY <1>1, <1>2, PTL DEF Spec
============================================================================
