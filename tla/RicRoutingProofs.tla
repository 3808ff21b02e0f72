--------------------------- MODULE RicRoutingProofs ---------------------------
(***************************************************************************)
(* Theorems about RicRouting, for every set of xApps, nodes, functions and *)
(* workers and every value of the bounds.                                  *)
(***************************************************************************)
EXTENDS RicRouting, WellFoundedInduction, TLAPS

-----------------------------------------------------------------------------
(* Lemmas about the operators of the map.                                  *)

\* A nonempty set of naturals has a least element.
LEMMA LeastNatural ==
  ASSUME NEW S \in SUBSET Nat, S # {}
  PROVE  \E n \in S : \A k \in S : n <= k
<1> DEFINE R == OpToRel(<, Nat)
<1>1. \E x \in S : \A y \in S : ~(<<y, x>> \in R)
  <2>1. IsWellFoundedOn(R, Nat)
    BY NatLessThanWellFounded
  <2> HIDE DEF R
  <2> QED  BY <2>1, WFMin
<1>2. PICK n \in S : \A y \in S : ~(<<y, n>> \in R)
  BY <1>1
<1>3. \A y \in S : n <= y
  <2> SUFFICES ASSUME NEW y \in S PROVE n <= y
    OBVIOUS
  <2>1. y \in Nat /\ n \in Nat
    OBVIOUS
  <2>2. ~(y < n)
    BY <1>2, <2>1, Zenon DEF OpToRel
  <2> QED  BY <2>1, <2>2
<1> QED  BY <1>3

\* find_if on the right tree: a nonempty result has a first route, in it.
LEMMA FirstRouteFound ==
  ASSUME NEW S \in SUBSET Route, S # {}
  PROVE  FirstRoute(S) \in S
<1> DEFINE X == {r.xapp : r \in S}
<1>1. X \subseteq Nat /\ X # {}
  BY XAppsAssumption DEF Route
<1>2. PICK n \in X : \A k \in X : n <= k
  <2> HIDE DEF X
  <2> QED  BY <1>1, LeastNatural
<1>3. \E r \in S : \A s \in S : r.xapp <= s.xapp
  BY <1>2
<1> QED  BY <1>3 DEF FirstRoute

-----------------------------------------------------------------------------
(* Type correctness: the parts a step leaves alone, then what it changes.    *)

\* TypeXapps depends on the variables of the xApps only.
LEMMA SameXapps == TypeXapps /\ UNCHANGED xappVars => TypeXapps'
BY DEF TypeXapps, xappVars

\* TypeMessages depends on the messages only.
LEMMA SameMessages ==
  TypeMessages /\ UNCHANGED <<toIapp, edge, toXapp, toNode, nodeEdge, rx>>
    => TypeMessages'
BY DEF TypeMessages

\* TypeIapp depends on the variables of the iApp only.
LEMMA SameIapp == TypeIapp /\ UNCHANGED <<iappVars, served>> => TypeIapp'
BY DEF TypeIapp, iappVars

\* TypeRic depends on the RIC's registries only.
LEMMA SameRic == TypeRic /\ UNCHANGED <<map, idVars, pendVars, regVars>> => TypeRic'
BY DEF TypeRic, idVars, pendVars, regVars

\* TypeNodes depends on what the nodes hold only.
LEMMA SameNodes == TypeNodes /\ UNCHANGED <<active, inds>> => TypeNodes'
BY DEF TypeNodes

\* TypeWorkers depends on the variables of the workers only.
LEMMA SameWorkers == TypeWorkers /\ UNCHANGED workVars => TypeWorkers'
BY DEF TypeWorkers, workVars

\* The initial states are well typed.
LEMMA TypeInit ==
  ASSUME Init
  PROVE  TypeOK
<1>1. TypeMessages
  BY DEF Init, TypeMessages
<1>2. TypeXapps /\ TypeIapp /\ TypeRic /\ TypeNodes /\ TypeWorkers
  BY ReqIdAssumption DEF Init, TypeXapps, TypeIapp, TypeRic, TypeNodes, TypeWorkers, ReqIds
<1> QED  BY <1>1, <1>2 DEF TypeOK

\* A step that changes no data keeps the types.
LEMMA TypeStutter ==
  ASSUME TypeOK, UNCHANGED dataVars
  PROVE  TypeOK'
BY SameXapps, SameMessages, SameIapp, SameRic, SameNodes, SameWorkers
   DEF TypeOK, dataVars, nodeVars, idVars

\* A request an xApp makes now is well formed.
LEMMA NewRequest ==
  ASSUME TypeXapps, NEW x \in XApps, lid[x] <= MaxLocal, NEW kind \in {"SUBS", "CTRL"},
         NEW f \in Uses[x], NEW n \in Nodes
  PROVE  /\ [kind |-> kind, xapp |-> x, id |-> lid[x], func |-> f, node |-> n] \in Request
         /\ lid[x] + 1 \in 1 .. MaxLocal + 1
<1>1. lid[x] \in 1 .. MaxLocal + 1 /\ MaxLocal \in Nat
  BY ReqIdAssumption DEF TypeXapps
<1>2. lid[x] \in LocalIds /\ lid[x] + 1 \in 1 .. MaxLocal + 1
  BY <1>1 DEF LocalIds
<1>3. f \in Funcs
  BY XAppsAssumption
<1> QED  BY <1>2, <1>3 DEF Request, Kinds

\* A send that fails leaves at most a report.
LEMMA NoticeType ==
  ASSUME NEW x \in XApps, failed \subseteq XApps, edge \in BOOLEAN,
         SendNoticed(x) \/ UNCHANGED <<failed, edge>>
  PROVE  failed' \subseteq XApps /\ edge' \in BOOLEAN
<1>1. CASE SendFails(x)
  BY <1>1 DEF SendFails
<1>2. CASE UNCHANGED <<failed, edge>>
  BY <1>2
<1> QED  BY <1>1, <1>2 DEF SendNoticed

\* Every step of an xApp's own thread keeps the types.
LEMMA XappType ==
  ASSUME TypeOK, NEW x \in XApps, XappStep(x)
  PROVE  TypeOK'
<1> USE DEF TypeOK, nodeVars, idVars
<1>1. ASSUME NEW kind \in {"SUBS", "CTRL"}, XappRequest(x, kind)
      PROVE  TypeOK'
  <2>1. PICK f \in Uses[x], n \in Nodes :
          LET m == [kind |-> kind, xapp |-> x, id |-> lid[x], func |-> f, node |-> n]
          IN  xreq' = [xreq EXCEPT ![x] = m] /\ toIapp' = toIapp \union {m}
    BY <1>1 DEF XappRequest
  <2> DEFINE m == [kind |-> kind, xapp |-> x, id |-> lid[x], func |-> f, node |-> n]
  <2>2. m \in Request /\ lid[x] + 1 \in 1 .. MaxLocal + 1
    BY <1>1, NewRequest DEF XappRequest
  <2>3. xreq' = [xreq EXCEPT ![x] = m] /\ toIapp' = toIapp \union {m}
    BY <2>1
  <2> HIDE DEF m
  <2>4. TypeXapps'
    BY <1>1, <2>2, <2>3 DEF XappRequest, TypeXapps
  <2>5. TypeMessages'
    BY <1>1, <2>2, <2>3 DEF XappRequest, TypeMessages
  <2> QED  BY <1>1, <2>4, <2>5, SameIapp, SameRic, SameNodes, SameWorkers DEF XappRequest
<1>2. CASE XappDelete(x)
  <2>1. PICK s \in xsubs[x] : /\ xreq' = [xreq EXCEPT ![x] = [s EXCEPT !.kind = "DEL"]]
                              /\ toIapp' = toIapp \union {[s EXCEPT !.kind = "DEL"]}
    BY <1>2 DEF XappDelete
  <2>2. [s EXCEPT !.kind = "DEL"] \in Request
    BY DEF TypeXapps, Request, Kinds
  <2>3. TypeXapps' /\ TypeMessages'
    BY <1>2, <2>1, <2>2 DEF XappDelete, TypeXapps, TypeMessages
  <2> QED  BY <1>2, <2>3, SameIapp, SameRic, SameNodes, SameWorkers DEF XappDelete
<1>3. CASE XappLeaves(x)
  <2>1. SendNoticed(x) \/ UNCHANGED <<failed, edge>>
    BY <1>3 DEF XappLeaves
  <2>2. failed' \subseteq XApps /\ edge' \in BOOLEAN
    BY <2>1, NoticeType DEF TypeXapps, TypeMessages
  <2>3. TypeXapps'
    BY <1>3, <2>2 DEF XappLeaves, TypeXapps
  <2>4. TypeMessages'
    BY <1>3, <2>2 DEF XappLeaves, TypeMessages
  <2> QED  BY <1>3, <2>3, <2>4, SameIapp, SameRic, SameNodes, SameWorkers DEF XappLeaves
<1> QED  BY <1>1, <1>2, <1>3 DEF XappStep

\* An xApp that receives keeps the types.
LEMMA XappReceiveType ==
  ASSUME TypeOK, NEW m \in toXapp, XappAnswered(m) \/ XappIndication(m)
  PROVE  TypeOK'
<1> USE DEF TypeOK, nodeVars, idVars
<1>1. CASE XappAnswered(m)
  <2>1. m.xapp \in XApps /\ xreq[m.xapp] \in Request
    <3>1. m.xapp \in XApps
      BY DEF TypeMessages, ToXapp
    <3>2. xreq[m.xapp] # NoReq
      BY <1>1 DEF XappAnswered, Answers
    <3> QED  BY <3>1, <3>2 DEF TypeXapps
  <2>2. xreq' \in [XApps -> Request \union {NoReq}]
    BY <1>1 DEF XappAnswered, TypeXapps
  <2>3. xsubs' \in [XApps -> SUBSET Request]
    <3>1. PICK S \in SUBSET Request : xsubs' = [xsubs EXCEPT ![m.xapp] = S]
      <4>1. xsubs[m.xapp] \in SUBSET Request
        BY <2>1 DEF TypeXapps
      <4>2. CASE m.kind = "SUBS"
        BY <1>1, <2>1, <4>1, <4>2 DEF XappAnswered
      <4>3. CASE m.kind = "DEL"
        BY <1>1, <4>1, <4>3 DEF XappAnswered
      <4>4. CASE m.kind = "CTRL"
        BY <1>1, <4>1, <4>4 DEF XappAnswered
      <4> QED  BY <1>1, <4>2, <4>3, <4>4 DEF XappAnswered, Kinds
    <3> QED  BY <2>1, <3>1 DEF TypeXapps
  <2>4. TypeXapps' /\ TypeMessages'
    BY <1>1, <2>2, <2>3 DEF XappAnswered, TypeXapps, TypeMessages
  <2> QED  BY <1>1, <2>4, SameIapp, SameRic, SameNodes, SameWorkers DEF XappAnswered
<1>2. CASE XappIndication(m)
  <2>1. TypeMessages'
    BY <1>2 DEF XappIndication, TypeMessages
  <2> QED  BY <1>2, <2>1, SameXapps, SameIapp, SameRic, SameNodes, SameWorkers
              DEF XappIndication
<1> QED  BY <1>1, <1>2

\* The iApp's handling of requests keeps the types.
LEMMA IappRequestType ==
  ASSUME TypeOK,
         (\E m \in toIapp : IappReceive(m)) \/ IappAllocate \/ IappForward \/ IappAddMap
  PROVE  TypeOK'
<1> USE DEF TypeOK, nodeVars, idVars
<1>1. ASSUME NEW m \in toIapp, IappReceive(m)
      PROVE  TypeOK'
  <2>1. CASE m.node \in regNodes
    <3>1. m \in Request /\ m.kind # "DEL"
      BY <1>1 DEF IappReceive, TypeMessages
    <3>2. TypeMessages' /\ TypeIapp'
      BY <1>1, <2>1, <3>1 DEF IappReceive, TypeMessages, TypeIapp
    <3> QED  BY <1>1, <2>1, <3>2, SameXapps, SameRic, SameNodes, SameWorkers DEF IappReceive
  <2>2. CASE m.node \notin regNodes
    BY <1>1, <2>2, TypeStutter DEF IappReceive, Abort
  <2> QED  BY <2>1, <2>2
<1>2. CASE IappAllocate
  <2>1. /\ [kind |-> imsg.kind, req |-> reqId, func |-> imsg.func] \in Pending
        /\ imsg \in Request /\ imsg.kind # "DEL" /\ reqId \in ReqIds
    BY <1>2 DEF IappAllocate, TypeIapp, TypeRic, Request, Pending
  <2>2. NextReqId \in ReqIds
    BY <2>1, ReqIdAssumption DEF NextReqId, ReqIds
  <2>3. TypeRic'
    <3>1. served' \in 0 .. MaxServed
      BY <1>2, ReqIdAssumption DEF IappAllocate, TypeRic, TypeIapp
    <3> QED  BY <1>2, <2>1, <2>2, <3>1 DEF IappAllocate, TypeRic, regVars
  <2>4. TypeIapp'
    BY <1>2, <2>1 DEF IappAllocate, TypeIapp
  <2> QED  BY <1>2, <2>3, <2>4, SameXapps, SameMessages, SameNodes, SameWorkers
              DEF IappAllocate
<1>3. CASE IappForward
  <2>1. CASE imsg.node \in sockAddrs
    <3>1. [kind |-> imsg.kind, req |-> newId, func |-> imsg.func, node |-> imsg.node]
             \in ToNode /\ imsg.node \in Nodes
      BY <1>3 DEF IappForward, TypeIapp, Request, ToNode
    <3>2. TypeMessages'
      BY <1>3, <2>1, <3>1 DEF IappForward, TypeMessages
    <3>3. TypeIapp'
      BY <1>3, <2>1 DEF IappForward, TypeIapp
    <3> QED  BY <1>3, <2>1, <3>2, <3>3, SameXapps, SameRic, SameNodes, SameWorkers
                DEF IappForward
  <2>2. CASE imsg.node \notin sockAddrs
    BY <1>3, <2>2, TypeStutter DEF IappForward, Abort
  <2> QED  BY <2>1, <2>2
<1>4. CASE IappAddMap
  <2>1. CASE RoutesOfReq(newId) = {}
    <3>1. [kind |-> imsg.kind, req |-> newId, node |-> imsg.node, xapp |-> imsg.xapp,
           id |-> imsg.id, func |-> imsg.func] \in Route
      BY <1>4 DEF IappAddMap, TypeIapp, Request, Route, Kinds
    <3>2. TypeRic'
      BY <1>4, <2>1, <3>1 DEF IappAddMap, TypeRic, idVars, pendVars, regVars
    <3>3. TypeIapp'
      BY <1>4, <2>1 DEF IappAddMap, TypeIapp
    <3> QED  BY <1>4, <2>1, <3>2, <3>3, SameXapps, SameMessages, SameNodes, SameWorkers
                DEF IappAddMap
  <2>2. CASE RoutesOfReq(newId) # {}
    BY <1>4, <2>2, TypeStutter DEF IappAddMap, Abort
  <2> QED  BY <2>1, <2>2
<1> QED  BY <1>1, <1>2, <1>3, <1>4

\* The iApp's handling of deletes and of xApps that left keeps the types.
LEMMA IappDeleteType ==
  ASSUME TypeOK,
         \/ \E m \in toIapp : IappReceiveDelete(m)
         \/ \E x \in failed : IappXappGone(x)
         \/ \E r \in itodo : IappDeletePend(r)
         \/ IappSendDelete
  PROVE  TypeOK'
<1> USE DEF TypeOK, nodeVars, idVars
<1>1. ASSUME NEW m \in toIapp, IappReceiveDelete(m)
      PROVE  TypeOK'
  <2> DEFINE found == RoutesOfXappReq(m)
  <2>1. CASE found # {} /\ FirstRoute(found).kind = "SUBS"
    <3>1. FirstRoute(found) \in Route /\ m \in Request
      <4>1. found \subseteq Route
        BY DEF RoutesOfXappReq, TypeRic
      <4> HIDE DEF found
      <4> QED  BY <2>1, <4>1, FirstRouteFound DEF TypeMessages
    <3>2. TypeMessages'
      BY <1>1, <2>1 DEF IappReceiveDelete, TypeMessages
    <3>3. TypeIapp'
      BY <1>1, <2>1, <3>1 DEF IappReceiveDelete, TypeIapp
    <3> QED  BY <1>1, <2>1, <3>2, <3>3, SameXapps, SameRic, SameNodes, SameWorkers
                DEF IappReceiveDelete
  <2>2. CASE ~(found # {} /\ FirstRoute(found).kind = "SUBS")
    BY <1>1, <2>2, TypeStutter DEF IappReceiveDelete, Abort
  <2> QED  BY <2>1, <2>2
<1>2. ASSUME NEW x \in failed, IappXappGone(x)
      PROVE  TypeOK'
  <2>1. TypeXapps'
    BY <1>2 DEF IappXappGone, TypeXapps
  <2>2. TypeIapp'
    BY <1>2 DEF IappXappGone, TypeIapp, TypeRic, SubsOfXapp
  <2>3. TypeMessages'
    BY <1>2 DEF IappXappGone, TypeMessages
  <2> QED  BY <1>2, <2>1, <2>2, <2>3, SameRic, SameNodes, SameWorkers DEF IappXappGone
<1>3. ASSUME NEW r \in itodo, IappDeletePend(r)
      PROVE  TypeOK'
  <2>1. r \in Route /\ [kind |-> "DEL", req |-> r.req, func |-> r.func] \in Pending
    BY DEF TypeIapp, Route, Pending, Kinds
  <2>2. TypeRic'
    BY <1>3, <2>1 DEF IappDeletePend, TypeRic, idVars, pendVars, regVars
  <2>3. TypeIapp'
    BY <1>3, <2>1 DEF IappDeletePend, DeleteNext, TypeIapp
  <2> QED  BY <1>3, <2>2, <2>3, SameXapps, SameMessages, SameNodes, SameWorkers
              DEF IappDeletePend
<1>4. CASE IappSendDelete
  <2>1. CASE idel.node \in sockAddrs
    <3>1. [kind |-> "DEL", req |-> idel.req, func |-> idel.func, node |-> idel.node]
             \in ToNode /\ idel.node \in Nodes
      BY <1>4 DEF IappSendDelete, TypeIapp, Route, ToNode, Kinds
    <3>2. TypeMessages'
      BY <1>4, <2>1, <3>1 DEF IappSendDelete, TypeMessages
    <3>3. TypeIapp'
      BY <1>4, <2>1 DEF IappSendDelete, DeleteNext, TypeIapp
    <3> QED  BY <1>4, <2>1, <3>2, <3>3, SameXapps, SameRic, SameNodes, SameWorkers
                DEF IappSendDelete
  <2>2. CASE idel.node \notin sockAddrs
    BY <1>4, <2>2, TypeStutter DEF IappSendDelete, Abort
  <2> QED  BY <2>1, <2>2
<1> QED  BY <1>1, <1>2, <1>3, <1>4

\* Every step of a node keeps the types.
LEMMA NodeType ==
  ASSUME TypeOK,
         (\E m \in toNode : NodeAnswers(m)) \/ (\E n \in Nodes : NodeIndicates(n))
  PROVE  TypeOK'
<1> USE DEF TypeOK, idVars
<1>1. ASSUME NEW m \in toNode, NodeAnswers(m)
      PROVE  TypeOK'
  <2>1. /\ m.node \in Nodes /\ PendingOf(m) \in FromNode
        /\ [req |-> m.req, func |-> m.func] \in [req : ReqIds, func : Funcs]
    BY DEF TypeMessages, ToNode, FromNode, PendingOf
  <2>2. TypeMessages'
    BY <1>1, <2>1 DEF NodeAnswers, NodeReads, TypeMessages
  <2>3. TypeNodes'
    <3> DEFINE sub == [req |-> m.req, func |-> m.func]
               Subs == [req : ReqIds, func : Funcs]
    <3>1. PICK S \in SUBSET Subs : active' = [active EXCEPT ![m.node] = S]
      <4>1. active[m.node] \in SUBSET Subs
        BY <2>1 DEF TypeNodes
      <4>2. m.kind \in Kinds
        BY DEF TypeMessages, ToNode
      <4>3. CASE m.kind = "SUBS"
        BY <1>1, <2>1, <4>1, <4>3 DEF NodeAnswers
      <4>4. CASE m.kind = "DEL"
        BY <1>1, <4>1, <4>4 DEF NodeAnswers
      <4>5. CASE m.kind = "CTRL"
        BY <1>1, <4>1, <4>5 DEF NodeAnswers
      <4> QED  BY <4>2, <4>3, <4>4, <4>5 DEF Kinds
    <3>2. UNCHANGED inds
      BY <1>1 DEF NodeAnswers
    <3> QED  BY <2>1, <3>1, <3>2 DEF TypeNodes
  <2> QED  BY <1>1, <2>2, <2>3, SameXapps, SameIapp, SameRic, SameWorkers DEF NodeAnswers
<1>2. ASSUME NEW n \in Nodes, NodeIndicates(n)
      PROVE  TypeOK'
  <2>1. \A s \in active[n] : [kind |-> "IND", req |-> s.req, func |-> s.func] \in FromNode
    BY DEF TypeNodes, FromNode
  <2>2. TypeMessages'
    BY <1>2, <2>1 DEF NodeIndicates, TypeMessages
  <2>3. TypeNodes'
    BY <1>2, ReqIdAssumption DEF NodeIndicates, TypeNodes
  <2> QED  BY <1>2, <2>2, <2>3, SameXapps, SameIapp, SameRic, SameWorkers DEF NodeIndicates
<1> QED  BY <1>1, <1>2

\* Every step of a worker of the RIC keeps the types.
LEMMA WorkerType ==
  ASSUME TypeOK, NEW w \in Workers, WorkerStep(w) \/ \E m \in rx : WorkerTake(w, m)
  PROVE  TypeOK'
<1> USE DEF TypeOK, nodeVars, idVars
<1>1. ASSUME TaskDone(w)
      PROVE  TypeWorkers'
  BY <1>1 DEF TaskDone, TypeWorkers
<1>2. ASSUME NEW m \in rx, WorkerTake(w, m)
      PROVE  TypeOK'
  <2>1. TypeMessages' /\ m \in FromNode
    BY <1>2 DEF WorkerTake, TypeMessages
  <2>2. TypeWorkers'
    BY <1>2, <2>1 DEF WorkerTake, TypeWorkers
  <2> QED  BY <1>2, <2>1, <2>2, SameXapps, SameIapp, SameRic, SameNodes DEF WorkerTake
<1>3. CASE WorkerStop(w)
  <2>1. CASE PendingOf(wmsg[w]) \in pending
    <3>1. TypeRic' /\ TypeWorkers'
      BY <1>3, <2>1 DEF WorkerStop, TypeRic, TypeWorkers, idVars, regVars
    <3> QED  BY <1>3, <2>1, <3>1, SameXapps, SameMessages, SameIapp, SameNodes DEF WorkerStop
  <2>2. CASE PendingOf(wmsg[w]) \notin pending
    BY <1>3, <2>2, TypeStutter DEF WorkerStop, Abort
  <2> QED  BY <2>1, <2>2
<1>4. CASE WorkerClose(w)
  <2>1. TypeRic' /\ TypeWorkers'
    BY <1>4 DEF WorkerClose, TypeRic, TypeWorkers, idVars, regVars
  <2> QED  BY <1>4, <2>1, SameXapps, SameMessages, SameIapp, SameNodes DEF WorkerClose
<1>5. CASE WorkerFind(w)
  <2> DEFINE found == RoutesOfReq(wmsg[w].req)
  <2>1. CASE UNCHANGED dataVars
    BY <2>1, TypeStutter
  <2>2. CASE TaskDone(w) /\ ~UNCHANGED dataVars
    BY <1>1, <1>5, <2>2, SameXapps, SameMessages, SameIapp, SameRic, SameNodes
       DEF WorkerFind, Abort
  <2>3. CASE ~TaskDone(w) /\ ~UNCHANGED dataVars
    <3>1. /\ found # {}
          /\ wdst' = [wdst EXCEPT ![w] = CHOOSE r \in found : TRUE]
          /\ wpc' = [wpc EXCEPT ![w] = "send"] /\ UNCHANGED wmsg
          /\ UNCHANGED <<xappVars, toIapp, edge, toXapp, iappVars, map, idVars, pendVars,
                         nodeVars, rx, regVars>>
      BY <1>5, <2>3 DEF WorkerFind, Abort
    <3>2. (CHOOSE r \in found : TRUE) \in Route
      BY <3>1 DEF RoutesOfReq, TypeRic
    <3>3. TypeWorkers'
      <4> HIDE DEF found
      <4> QED  BY <1>5, <3>1, <3>2 DEF WorkerFind, TypeWorkers
    <3> QED  BY <3>1, <3>3, SameXapps, SameMessages, SameIapp, SameRic, SameNodes
  <2> QED  BY <2>1, <2>2, <2>3
<1>6. CASE WorkerSend(w)
  <2>1. [kind |-> wmsg[w].kind, xapp |-> wdst[w].xapp, id |-> wdst[w].id,
         func |-> wdst[w].func] \in ToXapp
    BY <1>6 DEF WorkerSend, TypeWorkers, FromNode, Route, ToXapp
  <2>2. failed' \subseteq XApps /\ edge' \in BOOLEAN
    <3>1. wdst[w].xapp \in XApps
      BY <1>6 DEF WorkerSend, TypeWorkers, Route
    <3>2. SendNoticed(wdst[w].xapp) \/ UNCHANGED <<failed, edge>>
      BY <1>6 DEF WorkerSend
    <3> QED  BY <3>1, <3>2, NoticeType DEF TypeXapps, TypeMessages
  <2>3. TypeXapps'
    BY <1>6, <2>2 DEF WorkerSend, TypeXapps
  <2>4. TypeMessages'
    BY <1>6, <2>1, <2>2 DEF WorkerSend, TypeMessages
  <2>5. TypeWorkers'
    BY <1>6, <1>1 DEF WorkerSend, TypeWorkers
  <2> QED  BY <1>6, <2>3, <2>4, <2>5, SameIapp, SameRic, SameNodes DEF WorkerSend
<1>7. CASE WorkerRemove(w)
  <2>1. CASE RoutesOfXappKey(wdst[w]) # {}
    <3>1. TypeRic' /\ TypeWorkers'
      BY <1>1, <1>7, <2>1 DEF WorkerRemove, TypeRic, idVars, pendVars, regVars
    <3> QED  BY <1>7, <2>1, <3>1, SameXapps, SameMessages, SameIapp, SameNodes
                DEF WorkerRemove
  <2>2. CASE RoutesOfXappKey(wdst[w]) = {}
    BY <1>7, <2>2, TypeStutter DEF WorkerRemove, Abort
  <2> QED  BY <2>1, <2>2
<1> QED  BY <1>2, <1>3, <1>4, <1>5, <1>6, <1>7 DEF WorkerStep

\* Every reachable state is well typed: in particular reqId stays a 16 bit
\* number through NextReqId, and no thread uses a local it has not set.
THEOREM TypeCorrect == Spec => []TypeOK
<1>1. TypeOK /\ [Next]_vars => TypeOK'
  <2> SUFFICES ASSUME TypeOK, [Next]_vars PROVE TypeOK'
    OBVIOUS
  <2>1. CASE UNCHANGED vars
    BY <2>1, TypeStutter DEF vars
  <2>2. ASSUME NEW t \in timers, RicTimeout(t)
        PROVE  TypeOK'
    BY <2>2, TypeStutter DEF RicTimeout, Abort
  <2>3. CASE Next
    BY <2>2, <2>3, XappType, XappReceiveType, IappRequestType, IappDeleteType, NodeType,
       WorkerType DEF Next, IappStep
  <2> QED  BY <2>1, <2>3
<1> QED  BY <1>1, TypeInit, PTL DEF Spec

-----------------------------------------------------------------------------
(* The routes are one-to-one.  RoutesOneToOne alone is not inductive: that  *)
(* the next id is new rests on every id in use having been given before,   *)
(* and that an xApp's request is new on its registry never reusing a key.  *)

\* Subscription and control requests the iApp has not finished forwarding.
Unread == {m \in toIapp : m.kind # "DEL"}
InHand == {m \in {imsg} : ipc \in {"allocate", "forward", "addMap"}}

SameKey(a, b) == a.xapp = b.xapp /\ a.id = b.id

IdsGivenOnce ==
  /\ served < MaxServed => reqId = FirstReqId + served
  /\ \A r \in map : r.req < FirstReqId + served
  /\ \A r, s \in map : r.req = s.req => r = s
  /\ ipc \in {"forward", "addMap"} =>
       newId < FirstReqId + served /\ \A r \in map : r.req # newId

KeysUsedOnce ==
  /\ \A m \in Unread \union InHand \union map : m.id < lid[m.xapp]
  /\ \A m, n \in Unread \union InHand : SameKey(m, n) => m = n
  /\ Unread \intersect InHand = {}
  /\ \A m \in Unread \union InHand, r \in map : ~SameKey(m, r)
  /\ \A r, s \in map : SameKey(r, s) => r = s

IdInv == TypeOK /\ IdsGivenOnce /\ KeysUsedOnce

\* A step that neither reads a request nor gives an id keeps IdInv; routes may go.
LEMMA IdStutter ==
  ASSUME IdInv, TypeOK', map' \subseteq map, Unread' = Unread, InHand' = InHand,
         UNCHANGED <<lid, reqId, served, newId>>,
         ipc' \in {"forward", "addMap"} => ipc \in {"forward", "addMap"}
  PROVE  IdInv'
<1>1. IdsGivenOnce'
  BY DEF IdInv, IdsGivenOnce
<1>2. KeysUsedOnce'
  BY DEF IdInv, KeysUsedOnce, SameKey
<1> QED  BY <1>1, <1>2 DEF IdInv

\* The id after the last one given, as long as the 16 bits are not used up.
LEMMA NextReqIdIsNew ==
  ASSUME FirstReqId + MaxServed <= ReqIdMod, served \in Nat, served + 1 < MaxServed,
         reqId = FirstReqId + served
  PROVE  NextReqId = FirstReqId + (served + 1)
<1>1. /\ FirstReqId \in Nat /\ ReqIdMod \in Nat \ {0} /\ MaxServed \in Nat
      /\ reqId + 1 \in Nat /\ reqId + 1 < ReqIdMod
  BY ReqIdAssumption
<1>2. \A a, b \in Nat : a < b => a % b = a
  OBVIOUS
<1>3. NextReqId = reqId + 1
  BY <1>1, <1>2 DEF NextReqId
<1> QED  BY <1>1, <1>3

\* No step of an xApp disturbs the identifiers the RIC has given.
LEMMA IdXapp ==
  ASSUME IdInv, TypeOK', NEW x \in XApps, XappStep(x)
  PROVE  IdInv'
<1> USE DEF IdInv
<1>1. ASSUME NEW kind \in {"SUBS", "CTRL"}, XappRequest(x, kind)
      PROVE  IdInv'
  <2>1. PICK f \in Uses[x], n \in Nodes :
          LET m == [kind |-> kind, xapp |-> x, id |-> lid[x], func |-> f, node |-> n]
          IN  xreq' = [xreq EXCEPT ![x] = m] /\ toIapp' = toIapp \union {m}
    BY <1>1 DEF XappRequest
  <2> DEFINE m == [kind |-> kind, xapp |-> x, id |-> lid[x], func |-> f, node |-> n]
  <2>2. Unread' = Unread \union {m} /\ InHand' = InHand /\ map' = map
    BY <1>1, <2>1 DEF XappRequest, Unread, InHand, iappVars
  <2>3. \A y \in XApps : lid'[y] = IF y = x THEN lid[x] + 1 ELSE lid[y]
    BY <1>1 DEF XappRequest, TypeOK, TypeXapps
  <2>4. \A y \in XApps : lid[y] \in Nat
    BY ReqIdAssumption DEF TypeOK, TypeXapps
  <2>5. \A q \in Unread \union InHand \union map : q.xapp \in XApps /\ q.id \in Nat
    BY DEF TypeOK, TypeMessages, TypeIapp, TypeRic, Unread, InHand, Request, Route, LocalIds
  <2>6. m.xapp = x /\ m.id = lid[x]
    OBVIOUS
  <2> HIDE DEF m
  <2>7. \A q \in Unread \union InHand \union map : ~SameKey(m, q) /\ ~SameKey(q, m)
    BY <2>4, <2>5, <2>6 DEF KeysUsedOnce, SameKey
  <2>8. KeysUsedOnce'
    <3>1. \A q \in (Unread \union InHand \union map)' : q.id < lid'[q.xapp]
      BY <2>2, <2>3, <2>4, <2>5, <2>6 DEF KeysUsedOnce
    <3>2. (Unread \intersect InHand)' = {}
      BY <2>2, <2>7 DEF KeysUsedOnce, SameKey
    <3>3. \A p, q \in (Unread \union InHand)' : SameKey(p, q) => p = q
      BY <2>2, <2>7 DEF KeysUsedOnce
    <3>4. \A q \in (Unread \union InHand)', r \in map' : ~SameKey(q, r)
      BY <2>2, <2>7 DEF KeysUsedOnce
    <3> QED  BY <2>2, <3>1, <3>2, <3>3, <3>4 DEF KeysUsedOnce
  <2>9. IdsGivenOnce'
    BY <1>1, <2>2 DEF IdsGivenOnce, XappRequest, idVars, iappVars
  <2> QED  BY <2>8, <2>9
<1>2. CASE XappDelete(x)
  <2>1. Unread' = Unread
    BY <1>2 DEF XappDelete, Unread, TypeOK, TypeXapps, Request
  <2> QED  BY <1>2, <2>1, IdStutter DEF XappDelete, InHand, iappVars, idVars
<1>3. CASE XappLeaves(x)
  BY <1>3, IdStutter DEF XappLeaves, InHand, Unread, iappVars, idVars
<1> QED  BY <1>1, <1>2, <1>3 DEF XappStep

\* The iApp gives fresh identifiers and keeps the routes one-to-one.
LEMMA IdIapp ==
  ASSUME FirstReqId + MaxServed <= ReqIdMod, IdInv, TypeOK', IappStep
  PROVE  IdInv'
<1> USE DEF IdInv
<1>1. CASE UNCHANGED dataVars
  BY <1>1, IdStutter DEF dataVars, InHand, Unread, iappVars, idVars, xappVars
<1>2. ASSUME NEW m \in toIapp, IappReceive(m), ~UNCHANGED dataVars
      PROVE  IdInv'
  <2>1. /\ m \in Unread /\ Unread' = Unread \ {m} /\ InHand = {} /\ InHand' = {m}
        /\ UNCHANGED <<map, lid, reqId, served, newId>> /\ ipc' = "allocate"
    BY <1>2 DEF IappReceive, Abort, Unread, InHand, idVars, xappVars
  <2>2. KeysUsedOnce'
    BY <2>1 DEF KeysUsedOnce
  <2> QED  BY <2>1, <2>2 DEF IdsGivenOnce
<1>3. CASE IappAllocate
  <2>1. /\ Unread' = Unread /\ InHand' = InHand /\ UNCHANGED <<map, lid>>
        /\ newId' = reqId /\ served' = served + 1 /\ reqId' = NextReqId
        /\ served < MaxServed /\ served \in Nat
    BY <1>3, ReqIdAssumption
       DEF IappAllocate, Unread, InHand, xappVars, TypeOK, TypeIapp, TypeRic
  <2>2. reqId = FirstReqId + served
    BY <2>1 DEF IdsGivenOnce
  <2>3. \A r \in map : r.req \in Nat
    BY DEF TypeOK, TypeRic, Route, ReqIds
  <2>4. served' < MaxServed => reqId' = FirstReqId + served'
    BY <2>1, <2>2, NextReqIdIsNew
  <2>5. newId' < FirstReqId + served' /\ \A r \in map : r.req # newId'
    BY <2>1, <2>2, <2>3, ReqIdAssumption DEF IdsGivenOnce
  <2>6. \A r \in map : r.req < FirstReqId + served'
    BY <2>1, <2>3, ReqIdAssumption DEF IdsGivenOnce
  <2>7. IdsGivenOnce'
    BY <2>1, <2>4, <2>5, <2>6 DEF IdsGivenOnce
  <2> QED  BY <2>1, <2>7 DEF KeysUsedOnce, SameKey
<1>4. ASSUME IappForward, ~UNCHANGED dataVars
      PROVE  IdInv'
  BY <1>4, IdStutter DEF IappForward, Abort, Unread, InHand, xappVars, idVars
<1>5. ASSUME IappAddMap, ~UNCHANGED dataVars
      PROVE  IdInv'
  <2> DEFINE r == [kind |-> imsg.kind, req |-> newId, node |-> imsg.node,
                   xapp |-> imsg.xapp, id |-> imsg.id, func |-> imsg.func]
  <2>1. /\ map' = map \union {r} /\ Unread' = Unread /\ InHand = {imsg} /\ InHand' = {}
        /\ UNCHANGED <<lid, reqId, served>> /\ ipc = "addMap" /\ ipc' = "idle"
    BY <1>5 DEF IappAddMap, Abort, Unread, InHand, xappVars, idVars
  <2>2. r.req = newId /\ r.xapp = imsg.xapp /\ r.id = imsg.id
    OBVIOUS
  <2> HIDE DEF r
  <2>3. IdsGivenOnce'
    BY <2>1, <2>2 DEF IdsGivenOnce
  <2>4. KeysUsedOnce'
    BY <2>1, <2>2 DEF KeysUsedOnce, SameKey
  <2> QED  BY <2>3, <2>4
<1>6. ASSUME NEW m \in toIapp, IappReceiveDelete(m), ~UNCHANGED dataVars
      PROVE  IdInv'
  <2>1. /\ Unread' = Unread /\ InHand' = InHand /\ ipc' = "delete"
        /\ UNCHANGED <<map, lid, reqId, served, newId>>
    BY <1>6 DEF IappReceiveDelete, Abort, Unread, InHand, xappVars, idVars
  <2> QED  BY <2>1, IdStutter
<1>7. ASSUME NEW x \in failed, IappXappGone(x)
      PROVE  IdInv'
  BY <1>7, IdStutter DEF IappXappGone, Unread, InHand, idVars
<1>8. ASSUME NEW r \in itodo, IappDeletePend(r)
      PROVE  IdInv'
  <2>1. /\ Unread' = Unread /\ InHand' = InHand /\ ipc' \in {"idle", "delete", "sendDelete"}
        /\ UNCHANGED <<map, lid, reqId, served, newId>>
    BY <1>8 DEF IappDeletePend, DeleteNext, Unread, InHand, xappVars, idVars
  <2> QED  BY <2>1, IdStutter
<1>9. ASSUME IappSendDelete, ~UNCHANGED dataVars
      PROVE  IdInv'
  <2>1. /\ Unread' = Unread /\ InHand' = InHand /\ ipc' \in {"idle", "delete"}
        /\ UNCHANGED <<map, lid, reqId, served, newId>>
    BY <1>9 DEF IappSendDelete, DeleteNext, Abort, Unread, InHand, xappVars, idVars
  <2> QED  BY <2>1, IdStutter
<1> QED  BY <1>1, <1>2, <1>3, <1>4, <1>5, <1>6, <1>7, <1>8, <1>9 DEF IappStep

\* Everyone else leaves the ids alone and at most removes a route.
LEMMA IdOthers ==
  ASSUME IdInv, TypeOK',
         \/ \E m \in toXapp : XappAnswered(m) \/ XappIndication(m)
         \/ \E m \in toNode : NodeAnswers(m)
         \/ \E n \in Nodes : NodeIndicates(n)
         \/ \E w \in Workers : WorkerStep(w) \/ (\E m \in rx : WorkerTake(w, m))
         \/ \E t \in timers : RicTimeout(t)
  PROVE  IdInv'
<1>1. map' \subseteq map /\ UNCHANGED <<toIapp, iappVars, lid, reqId, served>>
  <2> USE DEF xappVars, idVars, regVars, Abort, dataVars
  <2>1. CASE \E m \in toXapp : XappAnswered(m) \/ XappIndication(m)
    BY <2>1 DEF XappAnswered, XappIndication
  <2>2. CASE \/ \E m \in toNode : NodeAnswers(m)
             \/ \E n \in Nodes : NodeIndicates(n)
    BY <2>2 DEF NodeAnswers, NodeIndicates
  <2>3. CASE \E w \in Workers : WorkerStep(w) \/ (\E m \in rx : WorkerTake(w, m))
    BY <2>3 DEF WorkerStep, WorkerTake, WorkerStop, WorkerClose, WorkerFind, WorkerSend,
                WorkerRemove
  <2>4. CASE \E t \in timers : RicTimeout(t)
    BY <2>4 DEF RicTimeout
  <2> QED  BY <2>1, <2>2, <2>3, <2>4
<1>2. Unread' = Unread /\ InHand' = InHand /\ UNCHANGED <<newId, ipc>>
  BY <1>1 DEF Unread, InHand, iappVars
<1> QED  BY <1>1, <1>2, IdStutter

\* The identifier invariant holds initially.
LEMMA IdInit ==
  ASSUME Init
  PROVE  IdInv
<1>1. /\ toIapp = {} /\ map = {} /\ ipc = "idle"
      /\ reqId = FirstReqId /\ served = 0
  BY DEF Init
<1> QED  BY <1>1, TypeInit, ReqIdAssumption
            DEF IdInv, IdsGivenOnce, KeysUsedOnce, Unread, InHand

\* The identifier invariant holds in every reachable state.
LEMMA IdInvariant ==
  ASSUME FirstReqId + MaxServed <= ReqIdMod
  PROVE  Spec => []IdInv
<1>1. IdInv /\ TypeOK' /\ [Next]_vars => IdInv'
  <2> SUFFICES ASSUME IdInv, TypeOK', [Next]_vars PROVE IdInv'
    OBVIOUS
  <2>1. CASE UNCHANGED vars
    BY <2>1, IdStutter DEF vars, dataVars, xappVars, iappVars, idVars, Unread, InHand
  <2>2. CASE Next
    BY <2>2, IdXapp, IdIapp, IdOthers DEF Next
  <2> QED  BY <2>1, <2>2
<1> QED  BY <1>1, IdInit, TypeCorrect, PTL DEF Spec

\* The routes of map_ric_id stay one-to-one for any number of xApps, workers
\* and messages, up to the request whose id would no longer be new: the answer
\* of a node can reach no other xApp request than the one it answers.
THEOREM RoutesAreOneToOne ==
  ASSUME FirstReqId + MaxServed <= ReqIdMod
  PROVE  Spec => []RoutesOneToOne
<1>1. IdInv => RoutesOneToOne
  BY DEF IdInv, IdsGivenOnce, KeysUsedOnce, SameKey, RoutesOneToOne, RoutesOfReq
<1> QED  BY <1>1, IdInvariant, PTL

-----------------------------------------------------------------------------
(* Deletes.  The lookup of a delete compares the request and the function,  *)
(* not the xApp; it is right when no two xApps use the same function.      *)

DisjointUse == \A x, y \in XApps : Uses[x] \intersect Uses[y] # {} => x = y

\* Whatever carries a request of an xApp carries a function that xApp uses.
UsesOwn(m) == m.func \in Uses[m.xapp]
OwnFunctions ==
  /\ \A m \in toIapp \union map : UsesOwn(m)
  /\ ipc \in {"allocate", "forward", "addMap"} => UsesOwn(imsg)
  /\ \A x \in XApps : xreq[x] # NoReq => xreq[x].xapp = x /\ UsesOwn(xreq[x])
  /\ \A x \in XApps : \A s \in xsubs[x] : s.xapp = x /\ UsesOwn(s)

OwnDelete ==
  /\ ipc = "idle" => imsg = NoReq
  /\ imsg # NoReq /\ imsg.kind = "DEL" => \A r \in itodo : r.xapp = imsg.xapp

OwnInv == TypeOK /\ OwnFunctions /\ OwnDelete

\* No step of an xApp disturbs the ownership of routes.
LEMMA OwnXapp ==
  ASSUME OwnInv, TypeOK',
         \/ \E x \in XApps : XappStep(x)
         \/ \E m \in toXapp : XappAnswered(m) \/ XappIndication(m)
  PROVE  OwnInv'
<1> USE DEF OwnInv, iappVars
<1>1. ASSUME NEW x \in XApps, NEW kind \in {"SUBS", "CTRL"}, XappRequest(x, kind)
      PROVE  OwnInv'
  <2>1. PICK f \in Uses[x], n \in Nodes :
          LET m == [kind |-> kind, xapp |-> x, id |-> lid[x], func |-> f, node |-> n]
          IN  xreq' = [xreq EXCEPT ![x] = m] /\ toIapp' = toIapp \union {m}
    BY <1>1 DEF XappRequest
  <2> DEFINE m == [kind |-> kind, xapp |-> x, id |-> lid[x], func |-> f, node |-> n]
  <2>2. /\ m.xapp = x /\ UsesOwn(m) /\ xreq' = [xreq EXCEPT ![x] = m]
        /\ toIapp' = toIapp \union {m} /\ UNCHANGED <<xsubs, map, iappVars>>
    BY <1>1, <2>1 DEF XappRequest, UsesOwn
  <2> HIDE DEF m
  <2> QED  BY <2>2 DEF OwnFunctions, OwnDelete, TypeOK, TypeXapps
<1>2. ASSUME NEW x \in XApps, XappDelete(x)
      PROVE  OwnInv'
  <2>1. PICK s \in xsubs[x] : /\ xreq' = [xreq EXCEPT ![x] = [s EXCEPT !.kind = "DEL"]]
                              /\ toIapp' = toIapp \union {[s EXCEPT !.kind = "DEL"]}
    BY <1>2 DEF XappDelete
  <2> DEFINE m == [s EXCEPT !.kind = "DEL"]
  <2>2. s \in Request
    BY DEF TypeOK, TypeXapps
  <2>3. m.xapp = x /\ UsesOwn(m)
    BY <2>2 DEF OwnFunctions, UsesOwn, Request
  <2>4. /\ xreq' = [xreq EXCEPT ![x] = m] /\ toIapp' = toIapp \union {m}
        /\ UNCHANGED <<xsubs, map, iappVars>>
    BY <1>2, <2>1 DEF XappDelete
  <2> HIDE DEF m
  <2> QED  BY <2>3, <2>4 DEF OwnFunctions, OwnDelete, TypeOK, TypeXapps
<1>3. ASSUME NEW x \in XApps, XappLeaves(x)
      PROVE  OwnInv'
  BY <1>3 DEF XappLeaves, OwnFunctions, OwnDelete
<1>4. ASSUME NEW m \in toXapp, XappAnswered(m)
      PROVE  OwnInv'
  <2>1. /\ m.xapp \in XApps /\ m.kind \in Kinds
        /\ xreq[m.xapp].xapp = m.xapp /\ UsesOwn(xreq[m.xapp])
    BY <1>4 DEF XappAnswered, Answers, OwnFunctions, TypeOK, TypeMessages, ToXapp
  <2>2. /\ xreq' = [xreq EXCEPT ![m.xapp] = NoReq]
        /\ UNCHANGED <<toIapp, map, iappVars>>
    BY <1>4 DEF XappAnswered
  <2>3. \A x \in XApps : xsubs'[x] \subseteq
          xsubs[x] \union (IF x = m.xapp THEN {xreq[x]} ELSE {})
    <3>1. CASE m.kind = "SUBS"
      BY <1>4, <3>1 DEF XappAnswered, TypeOK, TypeXapps
    <3>2. CASE m.kind = "DEL"
      BY <1>4, <3>2 DEF XappAnswered, TypeOK, TypeXapps
    <3>3. CASE m.kind = "CTRL"
      BY <1>4, <3>3 DEF XappAnswered, TypeOK, TypeXapps
    <3> QED  BY <2>1, <3>1, <3>2, <3>3 DEF Kinds
  <2> QED  BY <2>1, <2>2, <2>3 DEF OwnFunctions, OwnDelete, TypeOK, TypeXapps
<1>5. ASSUME NEW m \in toXapp, XappIndication(m)
      PROVE  OwnInv'
  BY <1>5 DEF XappIndication, xappVars, OwnFunctions, OwnDelete
<1> QED  BY <1>1, <1>2, <1>3, <1>4, <1>5 DEF XappStep

\* The iApp keeps every route with the xApp that asked for it.
LEMMA OwnIapp ==
  ASSUME DisjointUse, OwnInv, TypeOK', IappStep
  PROVE  OwnInv'
<1> USE DEF OwnInv
<1>1. CASE UNCHANGED dataVars
  BY <1>1 DEF dataVars, iappVars, xappVars, OwnFunctions, OwnDelete
<1>2. ASSUME NEW m \in toIapp, IappReceive(m), ~UNCHANGED dataVars
      PROVE  OwnInv'
  BY <1>2 DEF IappReceive, Abort, xappVars, OwnFunctions, OwnDelete
<1>3. CASE IappAllocate
  BY <1>3 DEF IappAllocate, xappVars, OwnFunctions, OwnDelete
<1>4. ASSUME IappForward, ~UNCHANGED dataVars
      PROVE  OwnInv'
  BY <1>4 DEF IappForward, Abort, xappVars, OwnFunctions, OwnDelete
<1>5. ASSUME IappAddMap, ~UNCHANGED dataVars
      PROVE  OwnInv'
  <2> DEFINE r == [kind |-> imsg.kind, req |-> newId, node |-> imsg.node,
                   xapp |-> imsg.xapp, id |-> imsg.id, func |-> imsg.func]
  <2>1. /\ map' = map \union {r} /\ imsg' = NoReq /\ ipc = "addMap" /\ ipc' = "idle"
        /\ UNCHANGED <<xappVars, toIapp, itodo>>
    BY <1>5 DEF IappAddMap, Abort
  <2>2. UNCHANGED <<xreq, xsubs, toIapp, itodo>>
    BY <2>1 DEF xappVars
  <2>3. UsesOwn(r)
    BY <2>1 DEF OwnFunctions, UsesOwn
  <2> HIDE DEF r
  <2> QED  BY <2>1, <2>2, <2>3 DEF OwnFunctions, OwnDelete
<1>6. ASSUME NEW m \in toIapp, IappReceiveDelete(m), ~UNCHANGED dataVars
      PROVE  OwnInv'
  <2> DEFINE found == RoutesOfXappReq(m)
  <2>1. /\ found # {} /\ imsg' = m /\ itodo' = {FirstRoute(found)} /\ ipc' = "delete"
        /\ toIapp' = toIapp \ {m} /\ UNCHANGED <<xreq, xsubs, map>>
    BY <1>6 DEF IappReceiveDelete, Abort, xappVars
  <2>2. found \subseteq map /\ \A r \in found : r.func = m.func
    BY DEF RoutesOfXappReq, EqXappRicGenId
  <2>3. \A r \in map \union toIapp : UsesOwn(r) /\ r.xapp \in XApps
    BY DEF OwnFunctions, TypeOK, TypeMessages, TypeRic, Request, Route
  <2>4. \A r \in found : r.xapp = m.xapp
    BY <2>2, <2>3 DEF DisjointUse, UsesOwn
  <2>5. FirstRoute(found) \in found
    <3>1. found \in SUBSET Route
      BY <2>2 DEF TypeOK, TypeRic
    <3> HIDE DEF found
    <3> QED  BY <2>1, <3>1, FirstRouteFound
  <2> HIDE DEF found
  <2> QED  BY <2>1, <2>4, <2>5 DEF OwnFunctions, OwnDelete
<1>7. ASSUME NEW x \in failed, IappXappGone(x)
      PROVE  OwnInv'
  BY <1>7 DEF IappXappGone, OwnFunctions, OwnDelete
<1>8. ASSUME NEW r \in itodo, IappDeletePend(r)
      PROVE  OwnInv'
  <2>1. /\ itodo' \subseteq itodo /\ imsg' \in {imsg, NoReq}
        /\ ipc' = "idle" => imsg' = NoReq
        /\ ipc' \in {"idle", "delete", "sendDelete"}
        /\ UNCHANGED <<xreq, xsubs, map, toIapp>>
    BY <1>8 DEF IappDeletePend, DeleteNext, xappVars
  <2> QED  BY <2>1 DEF OwnFunctions, OwnDelete
<1>9. ASSUME IappSendDelete, ~UNCHANGED dataVars
      PROVE  OwnInv'
  <2>1. /\ itodo' \subseteq itodo /\ imsg' \in {imsg, NoReq}
        /\ ipc' = "idle" => imsg' = NoReq
        /\ ipc' \in {"idle", "delete"}
        /\ UNCHANGED <<xreq, xsubs, map, toIapp>>
    BY <1>9 DEF IappSendDelete, DeleteNext, Abort, xappVars
  <2> QED  BY <2>1 DEF OwnFunctions, OwnDelete
<1> QED  BY <1>1, <1>2, <1>3, <1>4, <1>5, <1>6, <1>7, <1>8, <1>9 DEF IappStep

\* Nodes, workers and timers do not disturb the ownership of routes.
LEMMA OwnOthers ==
  ASSUME OwnInv, TypeOK',
         \/ \E m \in toNode : NodeAnswers(m)
         \/ \E n \in Nodes : NodeIndicates(n)
         \/ \E w \in Workers : WorkerStep(w) \/ (\E m \in rx : WorkerTake(w, m))
         \/ \E t \in timers : RicTimeout(t)
  PROVE  OwnInv'
<1>1. map' \subseteq map /\ UNCHANGED <<toIapp, ipc, imsg, itodo, xreq, xsubs>>
  <2> USE DEF xappVars, idVars, iappVars, regVars, Abort, dataVars
  <2>1. CASE \/ \E m \in toNode : NodeAnswers(m)
             \/ \E n \in Nodes : NodeIndicates(n)
    BY <2>1 DEF NodeAnswers, NodeIndicates
  <2>2. CASE \E w \in Workers : WorkerStep(w) \/ (\E m \in rx : WorkerTake(w, m))
    BY <2>2 DEF WorkerStep, WorkerTake, WorkerStop, WorkerClose, WorkerFind, WorkerSend,
                WorkerRemove
  <2>3. CASE \E t \in timers : RicTimeout(t)
    BY <2>3 DEF RicTimeout
  <2> QED  BY <2>1, <2>2, <2>3
<1> QED  BY <1>1 DEF OwnInv, OwnFunctions, OwnDelete

\* The ownership holds in every reachable state.
LEMMA OwnInvariant ==
  ASSUME DisjointUse
  PROVE  Spec => []OwnInv
<1>1. Init => OwnInv
  BY TypeInit DEF Init, OwnInv, OwnFunctions, OwnDelete
<1>2. OwnInv /\ TypeOK' /\ [Next]_vars => OwnInv'
  <2> SUFFICES ASSUME OwnInv, TypeOK', [Next]_vars PROVE OwnInv'
    OBVIOUS
  <2>1. CASE UNCHANGED vars
    BY <2>1 DEF vars, dataVars, xappVars, iappVars, OwnInv, OwnFunctions, OwnDelete
  <2>2. CASE Next
    BY <2>2, OwnXapp, OwnIapp, OwnOthers DEF Next
  <2> QED  BY <2>1, <2>2
<1> QED  BY <1>1, <1>2, TypeCorrect, PTL DEF Spec

\* When no two xApps use the same RAN function, a delete request always
\* resolves to a subscription route of the xApp that sent it, although the
\* lookup never compares the xApp.
THEOREM DeletesResolveToOwn ==
  ASSUME DisjointUse
  PROVE  Spec => []DeletesOwnSubscription
<1>1. OwnInv => DeletesOwnSubscription
  BY DEF OwnInv, OwnDelete, DeletesOwnSubscription
<1> QED  BY <1>1, OwnInvariant, PTL

-----------------------------------------------------------------------------
(* What the threads remember, and what is sent, when the ids do not wrap:   *)
(* the map may have lost the route since, but no other takes its place.     *)

\* Where t, a request sent to a node or its answer, may be: sent, answered, or in
\* the hand of a worker that is at pcs.
AtNode(t) == \E m \in toNode : PendingOf(m) = t
AtWorker(t, pcs) == \E w \in Workers : wpc[w] \in pcs /\ wmsg[w] = t
Early == {"stop", "close", "find", "send"}
Busy == Early \union {"remove"}
UnderWay(t) == AtNode(t) \/ t \in rx \/ AtWorker(t, Early)
Somewhere(t) == UnderWay(t) \/ AtWorker(t, {"remove"})

\* The routes the threads hold a copy of.
Held == {r \in itodo : ipc \in {"delete", "sendDelete"}}
        \union {r \in {idel} : ipc = "sendDelete"}
        \union {wdst[w] : w \in {v \in Workers : wpc[v] \in {"send", "remove"}}}

\* Neither the id nor the key of such a route is used again ...
HeldOnce ==
  \A g \in Held :
    /\ g.req < FirstReqId + served /\ g.id < lid[g.xapp]
    /\ ipc \in {"forward", "addMap"} => g.req # newId
    /\ \A r \in map : r.req = g.req \/ SameKey(r, g) => r = g
    /\ \A m \in Unread \union InHand : ~SameKey(m, g)

\* ... nor is the id of what is sent, answered or handled.
TokensGiven ==
  \A t \in Pending : Somewhere(t) => /\ t.req < FirstReqId + served
                                     /\ ipc = "forward" => t.req # newId

PastInv == HeldOnce /\ TokensGiven

\* The threads hold routes.
LEMMA HeldType == TypeOK => Held \subseteq Route
BY DEF Held, TypeOK, TypeIapp, TypeWorkers

\* A step that takes routes from the map only, and asks for nothing, keeps HeldOnce.
LEMMA HeldFrame ==
  ASSUME IdInv, HeldOnce, Held' \subseteq Held \union map, map' \subseteq map,
         (Unread \union InHand)' \subseteq Unread \union InHand,
         UNCHANGED <<lid, served, newId>>,
         ipc' \in {"forward", "addMap"} => ipc \in {"forward", "addMap"}
  PROVE  HeldOnce'
<1> SUFFICES ASSUME NEW g \in Held'
             PROVE  /\ g.req < FirstReqId + served /\ g.id < lid[g.xapp]
                    /\ ipc' \in {"forward", "addMap"} => g.req # newId
                    /\ \A r \in map' : r.req = g.req \/ SameKey(r, g) => r = g
                    /\ \A m \in (Unread \union InHand)' : ~SameKey(m, g)
  BY DEF HeldOnce, SameKey
<1>1. CASE g \in Held
  BY <1>1 DEF HeldOnce
<1>2. CASE g \in map
  BY <1>2 DEF IdInv, IdsGivenOnce, KeysUsedOnce
<1> QED
  BY <1>1, <1>2

\* A step that only moves what is sent keeps TokensGiven.
LEMMA TokensFrame ==
  ASSUME TokensGiven, \A t \in Pending : Somewhere(t)' => Somewhere(t),
         UNCHANGED <<served, newId>>, ipc' = "forward" => ipc = "forward"
  PROVE  TokensGiven'
BY DEF TokensGiven

\* Messages and workers that stay where they are.
LEMMA SomewhereFrame ==
  ASSUME UNCHANGED <<toNode, rx, wpc, wmsg>>
  PROVE  \A t : Somewhere(t)' <=> Somewhere(t)
BY DEF Somewhere, UnderWay, AtNode, AtWorker

\* An xApp asks with a new key.
LEMMA PastXapp ==
  ASSUME IdInv, PastInv, NEW x \in XApps, XappStep(x)
  PROVE  PastInv'
<1> USE DEF IdInv, PastInv
<1>1. /\ UNCHANGED <<iappVars, map, served, toNode, rx, workVars>>
      /\ Held' = Held /\ InHand' = InHand
  BY DEF XappStep, XappRequest, XappDelete, XappLeaves, idVars, nodeVars, iappVars, workVars, Held, InHand
<1>2. TokensGiven'
  BY <1>1, TokensFrame, SomewhereFrame DEF iappVars, workVars
<1>3. ASSUME NEW kind \in {"SUBS", "CTRL"}, XappRequest(x, kind)
      PROVE  HeldOnce'
  <2>1. PICK m : /\ Unread' = Unread \union {m} /\ m.xapp = x /\ m.id = lid[x]
    <3>1. PICK f \in Uses[x], n \in Nodes :
            LET m == [kind |-> kind, xapp |-> x, id |-> lid[x], func |-> f, node |-> n]
            IN  xreq' = [xreq EXCEPT ![x] = m] /\ toIapp' = toIapp \union {m}
      BY <1>3 DEF XappRequest
    <3> DEFINE m == [kind |-> kind, xapp |-> x, id |-> lid[x], func |-> f, node |-> n]
    <3>2. toIapp' = toIapp \union {m} /\ m.kind # "DEL" /\ m.xapp = x /\ m.id = lid[x]
      BY <3>1
    <3> HIDE DEF m
    <3> QED
      BY <3>2 DEF Unread
  <2>2. /\ \A y \in XApps : lid[y] \in Nat
        /\ \A y \in XApps : lid'[y] = IF y = x THEN lid[y] + 1 ELSE lid[y]
    BY <1>3, ReqIdAssumption DEF XappRequest, TypeOK, TypeXapps
  <2>3. \A g \in Held : g.xapp \in XApps /\ g.id \in Nat
    BY HeldType DEF Route, LocalIds
  <2>4. \A g \in Held : g.id < lid'[g.xapp] /\ ~SameKey(m, g)
    BY <2>1, <2>2, <2>3 DEF HeldOnce, SameKey
  <2> QED
    BY <1>1, <2>1, <2>4 DEF HeldOnce, SameKey, iappVars
<1>4. CASE XappDelete(x) \/ XappLeaves(x)
  <2>1. Unread' = Unread /\ lid' = lid
    <3>1. CASE XappDelete(x)
      BY <3>1 DEF XappDelete, Unread, TypeOK, TypeXapps, Request
    <3>2. CASE XappLeaves(x)
      BY <3>2 DEF XappLeaves, Unread
    <3> QED
      BY <1>4, <3>1, <3>2
  <2> QED
    BY <1>1, <1>2, <2>1, HeldFrame DEF iappVars
<1> QED
  BY <1>2, <1>3, <1>4 DEF XappStep

\* What the iApp takes up is in the map, and what it sends has an id of its own.
LEMMA PastIapp ==
  ASSUME FirstReqId + MaxServed <= ReqIdMod, IdInv, IdInv', PastInv, IappStep
  PROVE  PastInv'
<1> USE DEF IdInv, PastInv
<1>1. UNCHANGED <<rx, workVars, lid>>
  BY DEF IappStep, IappReceive, IappReceiveDelete, IappAllocate, IappForward, IappAddMap, IappXappGone,
         IappDeletePend, IappSendDelete, Abort, dataVars, xappVars
<1>2. \A t : toNode' = toNode => (Somewhere(t)' <=> Somewhere(t))
  BY <1>1, SomewhereFrame DEF workVars
<1>3. {wdst'[w] : w \in {v \in Workers : wpc'[v] \in {"send", "remove"}}}
        = {wdst[w] : w \in {v \in Workers : wpc[v] \in {"send", "remove"}}}
  BY <1>1 DEF workVars
<1>4. CASE UNCHANGED dataVars
  <2>1. UNCHANGED <<iappVars, map, served, toNode, toIapp>>
    BY <1>4 DEF dataVars, idVars, nodeVars
  <2>2. Held' = Held /\ Unread' = Unread /\ InHand' = InHand
    BY <1>3, <2>1 DEF Held, Unread, InHand, iappVars
  <2> QED
    BY <1>1, <1>2, <2>1, <2>2, HeldFrame, TokensFrame DEF iappVars
<1>5. ASSUME NEW m \in toIapp, IappReceive(m), ~UNCHANGED dataVars
      PROVE  PastInv'
  <2>1. /\ (Unread \union InHand)' \subseteq Unread \union InHand /\ ipc' = "allocate"
        /\ UNCHANGED <<map, served, newId, toNode>>
    BY <1>5 DEF IappReceive, Abort, Unread, InHand, idVars, nodeVars
  <2>2. Held' \subseteq Held
    BY <1>3, <2>1 DEF Held
  <2> QED
    BY <1>1, <1>2, <2>1, <2>2, HeldFrame, TokensFrame
<1>6. CASE IappAllocate
  <2>1. /\ Unread' = Unread /\ InHand' = InHand /\ UNCHANGED <<map, toNode>> /\ ipc' = "forward"
        /\ newId' = reqId /\ served' = served + 1 /\ served < MaxServed /\ served \in Nat
    BY <1>6, ReqIdAssumption
       DEF IappAllocate, Unread, InHand, TypeOK, TypeIapp, TypeRic, nodeVars
  <2>2. newId' = FirstReqId + served /\ served' = served + 1 /\ FirstReqId \in Nat
    BY <2>1, ReqIdAssumption DEF IdsGivenOnce
  <2>3. Held' \subseteq Held
    BY <1>3, <2>1 DEF Held
  <2>4. \A g \in Held : g.req \in Nat
    BY HeldType DEF Route, ReqIds
  <2>5. \A g \in Held : g.req < FirstReqId + served' /\ g.req # newId'
    BY <2>1, <2>2, <2>4 DEF HeldOnce
  <2>6. HeldOnce'
    BY <1>1, <2>1, <2>3, <2>5 DEF HeldOnce, SameKey
  <2>7. \A t \in Pending : t.req \in Nat
    BY DEF Pending, ReqIds
  <2>8. TokensGiven'
    BY <1>2, <2>1, <2>2, <2>7 DEF TokensGiven
  <2> QED
    BY <2>6, <2>8
<1>7. ASSUME IappForward, ~UNCHANGED dataVars
      PROVE  PastInv'
  <2>1. /\ Unread' = Unread /\ InHand' = InHand /\ ipc = "forward" /\ ipc' = "addMap"
        /\ UNCHANGED <<map, served, newId>>
        /\ toNode' = toNode \union {[kind |-> imsg.kind, req |-> newId, func |-> imsg.func, node |-> imsg.node]}
    BY <1>7 DEF IappForward, Abort, Unread, InHand, idVars
  <2>2. Held' \subseteq Held
    BY <1>3, <2>1 DEF Held
  <2>3. HeldOnce'
    BY <1>1, <2>1, <2>2, HeldFrame
  <2>4. \A t : Somewhere(t)' => Somewhere(t) \/ t.req = newId
    BY <1>1, <2>1 DEF Somewhere, UnderWay, AtNode, AtWorker, PendingOf, workVars
  <2>5. newId < FirstReqId + served
    BY <2>1 DEF IdsGivenOnce
  <2> QED
    BY <2>1, <2>3, <2>4, <2>5 DEF TokensGiven
<1>8. ASSUME IappAddMap, ~UNCHANGED dataVars
      PROVE  PastInv'
  <2> DEFINE r == [kind |-> imsg.kind, req |-> newId, node |-> imsg.node,
                   xapp |-> imsg.xapp, id |-> imsg.id, func |-> imsg.func]
  <2>1. map' = map \union {r} /\ r.req = newId /\ SameKey(r, imsg)
    BY <1>8 DEF IappAddMap, Abort, SameKey
  <2> HIDE DEF r
  <2>2. /\ Unread' = Unread /\ InHand = {imsg} /\ InHand' = {} /\ ipc = "addMap" /\ ipc' = "idle"
        /\ UNCHANGED <<served, toNode>>
    BY <1>8 DEF IappAddMap, Abort, Unread, InHand, idVars, nodeVars
  <2>3. Held' \subseteq Held
    BY <1>3, <2>2 DEF Held
  <2>4. \A g \in Held : r.req # g.req /\ ~SameKey(r, g)
    BY <2>1, <2>2 DEF HeldOnce, SameKey
  <2>5. HeldOnce'
    BY <1>1, <2>1, <2>2, <2>3, <2>4 DEF HeldOnce, SameKey
  <2>6. TokensGiven'
    BY <1>2, <2>2 DEF TokensGiven
  <2> QED
    BY <2>5, <2>6
<1>9. ASSUME NEW m \in toIapp, IappReceiveDelete(m), ~UNCHANGED dataVars
      PROVE  PastInv'
  <2>1. /\ Unread' = Unread /\ InHand' = InHand /\ ipc' = "delete" /\ UNCHANGED <<map, served, newId, toNode>>
        /\ itodo' = {FirstRoute(RoutesOfXappReq(m))} /\ RoutesOfXappReq(m) # {}
    BY <1>9 DEF IappReceiveDelete, Abort, Unread, InHand, idVars, nodeVars
  <2>2. FirstRoute(RoutesOfXappReq(m)) \in map
    <3>1. RoutesOfXappReq(m) \subseteq map /\ map \subseteq Route
      BY DEF RoutesOfXappReq, TypeOK, TypeRic
    <3> QED
      BY <2>1, <3>1, FirstRouteFound
  <2>3. Held' \subseteq Held \union map
    BY <1>3, <2>1, <2>2 DEF Held
  <2> QED
    BY <1>1, <1>2, <2>1, <2>3, HeldFrame, TokensFrame
<1>10. ASSUME NEW x \in failed, IappXappGone(x)
       PROVE  PastInv'
  <2>1. /\ Unread' = Unread /\ InHand' = InHand /\ ipc' \in {"idle", "delete"}
        /\ UNCHANGED <<map, served, newId, toNode>> /\ itodo' \subseteq map
    BY <1>10 DEF IappXappGone, Unread, InHand, SubsOfXapp, idVars, nodeVars
  <2>2. Held' \subseteq Held \union map
    BY <1>3, <2>1 DEF Held
  <2> QED
    BY <1>1, <1>2, <2>1, <2>2, HeldFrame, TokensFrame
<1>11. ASSUME NEW r \in itodo, IappDeletePend(r)
       PROVE  PastInv'
  <2>1. /\ Unread' = Unread /\ InHand' = InHand /\ ipc = "delete" /\ ipc' \in {"idle", "delete", "sendDelete"}
        /\ UNCHANGED <<map, served, newId, toNode>> /\ itodo' \subseteq itodo
        /\ ipc' = "sendDelete" => idel' \in itodo
    BY <1>11 DEF IappDeletePend, DeleteNext, Unread, InHand, idVars, nodeVars
  <2>2. Held' \subseteq Held \union map
    BY <1>3, <2>1 DEF Held
  <2> QED
    BY <1>1, <1>2, <2>1, <2>2, HeldFrame, TokensFrame
<1>12. ASSUME IappSendDelete, ~UNCHANGED dataVars
       PROVE  PastInv'
  <2>1. /\ Unread' = Unread /\ InHand' = InHand /\ ipc = "sendDelete" /\ ipc' \in {"idle", "delete"}
        /\ UNCHANGED <<map, served, newId>> /\ itodo' \subseteq itodo
        /\ toNode' = toNode \union {[kind |-> "DEL", req |-> idel.req, func |-> idel.func, node |-> idel.node]}
    BY <1>12 DEF IappSendDelete, DeleteNext, Abort, Unread, InHand, idVars
  <2>2. Held' \subseteq Held \union map /\ idel \in Held
    BY <1>3, <2>1 DEF Held
  <2>3. HeldOnce'
    BY <1>1, <2>1, <2>2, HeldFrame
  <2>4. \A t : Somewhere(t)' => Somewhere(t) \/ t.req = idel.req
    BY <1>1, <2>1 DEF Somewhere, UnderWay, AtNode, AtWorker, PendingOf, workVars
  <2> QED
    BY <2>1, <2>2, <2>3, <2>4 DEF TokensGiven, HeldOnce
<1> QED
  BY <1>4, <1>5, <1>6, <1>7, <1>8, <1>9, <1>10, <1>11, <1>12 DEF IappStep

\* The workers find routes in the map, and move what is sent.
LEMMA PastOthers ==
  ASSUME IdInv, PastInv,
         \/ \E m \in toXapp : XappAnswered(m) \/ XappIndication(m)
         \/ \E m \in toNode : NodeAnswers(m)
         \/ \E n \in Nodes : NodeIndicates(n)
         \/ \E w \in Workers : WorkerStep(w) \/ (\E m \in rx : WorkerTake(w, m))
         \/ \E t \in timers : RicTimeout(t)
  PROVE  PastInv'
<1> USE DEF IdInv, PastInv
<1>1. map' \subseteq map /\ UNCHANGED <<toIapp, iappVars, lid, served>>
  <2> USE DEF xappVars, idVars, Abort, dataVars
  <2>1. CASE \/ \E m \in toXapp : XappAnswered(m) \/ XappIndication(m)
             \/ \E m \in toNode : NodeAnswers(m)
             \/ \E n \in Nodes : NodeIndicates(n)
             \/ \E t \in timers : RicTimeout(t)
    BY <2>1 DEF XappAnswered, XappIndication, NodeAnswers, NodeIndicates, RicTimeout
  <2>2. CASE \E w \in Workers : WorkerStep(w) \/ (\E m \in rx : WorkerTake(w, m))
    BY <2>2 DEF WorkerStep, WorkerTake, WorkerStop, WorkerClose, WorkerFind, WorkerSend,
                WorkerRemove
  <2> QED  BY <2>1, <2>2
<1>2. Unread' = Unread /\ InHand' = InHand /\ UNCHANGED <<newId, ipc, itodo, idel>>
  BY <1>1 DEF Unread, InHand, iappVars
<1>3. /\ \A t \in Pending : Somewhere(t)' => Somewhere(t)
      /\ \A w \in Workers : wpc'[w] \in {"send", "remove"} =>
           wdst'[w] \in map \/ (wpc[w] \in {"send", "remove"} /\ wdst'[w] = wdst[w])
  <2>1. CASE \/ \E m \in toXapp : XappAnswered(m) \/ XappIndication(m)
             \/ \E t \in timers : RicTimeout(t)
    <3>1. UNCHANGED <<toNode, rx, wpc, wmsg, wdst>>
      BY <2>1 DEF XappAnswered, XappIndication, RicTimeout, Abort, dataVars, workVars, nodeVars
    <3> QED
      BY <3>1, SomewhereFrame
  <2>2. CASE \/ \E m \in toNode : NodeAnswers(m)
             \/ \E n \in Nodes : NodeIndicates(n)
    <3>1. /\ UNCHANGED <<wpc, wmsg, wdst>> /\ toNode' \subseteq toNode
          /\ \A t \in rx' : t.kind \in Kinds => t \in rx \/ AtNode(t)
      <4>1. ASSUME NEW m \in toNode, NodeAnswers(m)
            PROVE  <3>1!1 /\ <3>1!2
        BY <4>1 DEF NodeAnswers, NodeReads, workVars, AtNode
      <4>2. ASSUME NEW n \in Nodes, NodeIndicates(n)
            PROVE  <3>1!1 /\ <3>1!2
        BY <4>2 DEF NodeIndicates, workVars, Kinds
      <4> QED
        BY <2>2, <4>1, <4>2
    <3> QED
      BY <3>1 DEF Somewhere, UnderWay, AtNode, AtWorker, Pending
  <2>3. ASSUME NEW w \in Workers, WorkerStep(w) \/ (\E m \in rx : WorkerTake(w, m))
        PROVE  /\ \A t \in Pending : Somewhere(t)' => Somewhere(t)
               /\ \A v \in Workers : wpc'[v] \in {"send", "remove"} =>
                    wdst'[v] \in map \/ (wpc[v] \in {"send", "remove"} /\ wdst'[v] = wdst[v])
    <3>1. /\ toNode' = toNode /\ rx' \subseteq rx
          /\ \A v \in Workers : v # w => wpc'[v] = wpc[v] /\ wmsg'[v] = wmsg[v] /\ wdst'[v] = wdst[v]
          /\ wpc'[w] # "idle" => \/ wmsg'[w] \in rx
                                 \/ wpc[w] # "idle" /\ wmsg'[w] = wmsg[w]
          /\ wpc'[w] \in {"send", "remove"} =>
               wdst'[w] \in map \/ (wpc[w] \in {"send", "remove"} /\ wdst'[w] = wdst[w])
      <4> USE DEF TypeOK, TypeWorkers
      <4>1. CASE \E m \in rx : WorkerTake(w, m)
        BY <4>1 DEF WorkerTake, nodeVars
      <4>2. CASE WorkerStop(w) \/ WorkerClose(w)
        BY <4>2 DEF WorkerStop, WorkerClose, Abort, dataVars, nodeVars, workVars
      <4>3. CASE WorkerFind(w)
        <5> DEFINE found == RoutesOfReq(wmsg[w].req)
        <5>1. found # {} => (CHOOSE r \in found : TRUE) \in map
          BY DEF RoutesOfReq
        <5> QED
          BY <4>3, <5>1 DEF WorkerFind, TaskDone, Abort, dataVars, nodeVars, workVars
      <4>4. CASE WorkerSend(w)
        BY <4>4 DEF WorkerSend, TaskDone, nodeVars
      <4>5. CASE WorkerRemove(w)
        BY <4>5 DEF WorkerRemove, TaskDone, Abort, dataVars, nodeVars, workVars
      <4> QED
        BY <2>3, <4>1, <4>2, <4>3, <4>4, <4>5 DEF WorkerStep
    <3>2. ASSUME NEW v \in Workers, wpc'[v] # "idle"
          PROVE  wmsg'[v] \in rx \/ (wpc[v] # "idle" /\ wmsg'[v] = wmsg[v])
      <4>1. CASE v = w
        BY <3>1, <3>2, <4>1
      <4>2. CASE v # w
        BY ONLY <3>1, <3>2, <4>2
      <4> QED
        BY <4>1, <4>2
    <3>3. \A v \in Workers : wpc[v] \in {"idle"} \union Busy
      BY DEF TypeOK, TypeWorkers, Busy, Early
    <3>4. \A t : Somewhere(t)' => Somewhere(t)
      BY <3>1, <3>2, <3>3 DEF Somewhere, UnderWay, AtNode, AtWorker, Busy, Early
    <3> QED
      BY <3>1, <3>4
  <2> QED
    BY <2>1, <2>2, <2>3
<1>4. Held' \subseteq Held \union map
  BY <1>2, <1>3 DEF Held
<1> QED
  BY <1>1, <1>2, <1>3, <1>4, HeldFrame, TokensFrame

\* Nothing is remembered at first.
LEMMA PastInit == Init => PastInv
BY DEF Init, PastInv, HeldOnce, TokensGiven, Held, Somewhere, UnderWay, AtNode, AtWorker, Early

\* No id and no key is used again while a thread or a message holds it.
LEMMA PastInvariant ==
  ASSUME FirstReqId + MaxServed <= ReqIdMod
  PROVE  Spec => []PastInv
<1>1. PastInv /\ IdInv /\ IdInv' /\ [Next]_vars => PastInv'
  <2> SUFFICES ASSUME PastInv, IdInv, IdInv', [Next]_vars PROVE PastInv'
    OBVIOUS
  <2>1. CASE UNCHANGED vars
    <3>1. /\ UNCHANGED <<toNode, rx, wpc, wmsg, wdst, map, lid, served, newId, ipc, itodo, idel>>
          /\ Unread' = Unread /\ InHand' = InHand
      BY <2>1 DEF vars, dataVars, xappVars, iappVars, idVars, nodeVars, workVars, Unread, InHand
    <3>2. Held' = Held
      BY <3>1 DEF Held
    <3> QED
      BY <3>1, <3>2, HeldFrame, TokensFrame, SomewhereFrame DEF PastInv
  <2>2. CASE Next
    BY <2>2, PastXapp, PastIapp, PastOthers DEF Next
  <2> QED  BY <2>1, <2>2
<1> QED  BY <1>1, PastInit, IdInvariant, PTL DEF Spec

-----------------------------------------------------------------------------
(* The life of a request, when no two xApps use the same function and the   *)
(* ids do not wrap; xApps may leave and nodes be late.                      *)

\* The xApps keep to functions of their own, and the ids do not wrap.
Calm == /\ DisjointUse
        /\ FirstReqId > 0 /\ FirstReqId + MaxServed <= ReqIdMod

\* No node leaves, and a send fails only to an xApp that left.
Present == failed \intersect alive = {} /\ sockAddrs = Nodes /\ regNodes = Nodes

\* The routes, with the one whose request is sent and that is being added.
Live == map \union RouteBeingAdded

Sub(r) == [req |-> r.req, func |-> r.func]
Requested(r, kind) == [kind |-> kind, xapp |-> r.xapp, id |-> r.id, func |-> r.func, node |-> r.node]

\* t, a request sent to a node or its answer, is of route r ...
OfRoute(t, r) == /\ t.req = r.req /\ t.func = r.func
                 /\ t.kind = r.kind \/ (t.kind = "DEL" /\ r.kind = "SUBS")

\* ... and is what the xApp of the route waits for, or waited for when it left.
Awaited(t, r) == OfRoute(t, r) /\ xreq[r.xapp] = Requested(r, t.kind)

Token(r, kind) == [kind |-> kind, req |-> r.req, func |-> r.func]

\* The delete of a route whose xApp left, or an answer after that delete.
Stray(t) ==
  /\ alive # XApps /\ t.kind # "CTRL" /\ (t.kind = "SUBS" => ~AtNode(t))
  /\ \A r \in Live : r.req = t.req => t.kind = "DEL" /\ OfRoute(t, r) /\ r.xapp \notin alive

\* Each is awaited until the xApp is told, in one place at a time.
TokensAwaited ==
  /\ \A t \in Pending : UnderWay(t) => Stray(t) \/ \E r \in Live : Awaited(t, r)
  /\ \A m \in toNode, r \in Live : r.req = m.req => r.node = m.node

\* The delete of a route whose xApp left may be sent again once the answer to the
\* first is being handled.
Again(t) == /\ alive # XApps /\ t.kind = "DEL"
            /\ \A r \in Live : r.req = t.req => r.xapp \notin alive

TokensOnce ==
  /\ \A m, n \in toNode : PendingOf(m) = PendingOf(n) => m = n
  /\ \A m \in toNode : LET t == PendingOf(m)
                       IN  t \notin rx /\ ~AtWorker(t, {"stop"}) /\ (AtWorker(t, Busy) => Again(t))
  /\ \A w \in Workers : wpc[w] # "idle" /\ wmsg[w].kind \in Kinds =>
       /\ wmsg[w] \in rx => wpc[w] # "stop" /\ Again(wmsg[w])
       /\ \A v \in Workers : wpc[v] # "idle" /\ wmsg[v] = wmsg[w] =>
            v = w \/ (Again(wmsg[w]) /\ ~(wpc[v] = "stop" /\ wpc[w] = "stop"))

\* What a worker has found.
WorkerSure(w) ==
  /\ wpc[w] \in {"stop", "close"} => wmsg[w].kind \in Kinds
  /\ wpc[w] = "remove" =>
       /\ wmsg[w].kind \in {"CTRL", "DEL"}
       /\ wmsg[w].kind = "DEL" /\ wdst[w].xapp \in alive =>
            xreq[wdst[w].xapp] # Requested(wdst[w], "SUBS")
  /\ wpc[w] \in {"send", "remove"} /\ wmsg[w].kind \in Kinds =>
       /\ OfRoute(wmsg[w], wdst[w])
       /\ wdst[w] \in map \/ (wdst[w].xapp \notin alive /\ wmsg[w].kind # "CTRL")
WorkersSure == \A w \in Workers : WorkerSure(w)

\* A request that is not sent yet is what its xApp waits for; the route a delete
\* needs is there, and no other delete of it.
Unsent(m) == m \in toIapp \/ (ipc \notin {"idle", "addMap"} /\ m = imsg)
DeleteFinds(m) ==
  \E r \in map : /\ r.kind = "SUBS" /\ Requested(r, "DEL") = m /\ ~Somewhere(Token(r, "DEL"))
                 /\ ipc \in {"delete", "sendDelete"} /\ m = imsg => itodo = {r}

\* The iApp deletes the subscriptions of an xApp that left, when it has read all
\* that came from it.
Reclaims == /\ imsg = NoReq
            /\ \A r \in itodo : r.kind = "SUBS" /\ r.xapp \notin alive /\ \A m \in toIapp : m.xapp # r.xapp

RequestsFirst ==
  /\ \A m \in toIapp : xreq[m.xapp] = m
  /\ imsg \in Request => xreq[imsg.xapp] = imsg /\ imsg \notin toIapp
  /\ ipc \in {"delete", "sendDelete"} => Reclaims \/ (imsg \in Request /\ imsg.kind = "DEL")
  /\ ipc = "sendDelete" => idel \in itodo
  /\ \A m \in Request : Unsent(m) /\ m.kind = "DEL" => DeleteFinds(m)

\* An answer on its way to the xApp ends the request.
Unheard(m) == m \in toIapp \/ (ipc # "idle" /\ m = imsg)
AnswersEnd ==
  \A a \in toXapp : a.kind \in Kinds =>
    /\ a.xapp \in alive /\ Answers(a) /\ ~Unheard(xreq[a.xapp])
    /\ \A r \in Live : SameKey(r, a) => ~UnderWay(Token(r, a.kind))
    /\ a.kind = "SUBS" => \E r \in map : /\ r.kind = "SUBS" /\ Requested(r, "SUBS") = xreq[a.xapp]
                                         /\ Sub(r) \in active[r.node]
    /\ a.kind = "DEL" => \A r \in map : SameKey(r, a) => Sub(r) \notin active[r.node]

\* What an xApp holds, but for the subscription it is deleting, is served.
HeldServed ==
  \A x \in XApps :
    /\ xreq[x] # NoReq => xreq[x].id < lid[x]
    /\ \A s \in xsubs[x] :
         /\ s.kind = "SUBS" /\ s.id < lid[x]
         /\ xreq[x] # NoReq /\ xreq[x].kind # "DEL" => s.id # xreq[x].id
         /\ x \in alive /\ (xreq[x] = NoReq \/ xreq[x].id # s.id) =>
              \E r \in map : /\ r.kind = "SUBS" /\ Requested(r, "SUBS") = s
                             /\ Sub(r) \in active[r.node] /\ ~Somewhere(Token(r, "DEL"))

\* Nodes serve what has a route, from the subscription's answer to the delete's.
StreamsRouted ==
  /\ \A n \in Nodes : \A s \in active[n] : \E r \in Live : r.kind = "SUBS" /\ Sub(r) = s /\ r.node = n
  /\ \A r \in Live :
       /\ Token(r, "DEL") \in rx \/ AtWorker(Token(r, "DEL"), Busy) =>
            Sub(r) \notin active[r.node] /\ ~AtNode(Token(r, "SUBS"))
       /\ Token(r, "SUBS") \in rx \/ AtWorker(Token(r, "SUBS"), Early) =>
            r.xapp \notin alive \/ Sub(r) \in active[r.node]

\* A pending event is that of a request under way, and the other way round.
Expected(t) == AtNode(t) \/ t \in rx \/ AtWorker(t, {"stop"})
InHandEvent(p) == \/ ipc = "forward" /\ p = [kind |-> imsg.kind, req |-> newId, func |-> imsg.func]
                  \/ ipc = "sendDelete" /\ p = Token(idel, "DEL")
PendingMatches ==
  /\ \A p \in Pending : p \in pending <=> Expected(p) \/ InHandEvent(p)
  /\ \A p \in Pending : ~(Expected(p) /\ InHandEvent(p))
  /\ \A t \in timers : t \in pending \/ AtWorker(t, {"close"})

\* A control route stays until its answer is told.
ControlsUnderWay == \A r \in Live : r.kind = "CTRL" => Somewhere(Token(r, "CTRL"))

IdsPositive ==
  /\ \A r \in map \union itodo : r.req > 0
  /\ ipc \in {"forward", "addMap"} => newId > 0
  /\ \A m \in toNode : m.req > 0
  /\ \A m \in rx : m.req > 0
  /\ \A w \in Workers : wpc[w] # "idle" => wmsg[w].req > 0

Living == /\ Present /\ TokensAwaited /\ TokensOnce /\ WorkersSure
          /\ RequestsFirst /\ AnswersEnd /\ HeldServed /\ StreamsRouted
          /\ PendingMatches /\ ControlsUnderWay /\ IdsPositive

\* An assertion that fails stops the RIC, for a cause NoAbort admits.
Stopped ==
  \/ /\ SlowNodes
     /\ fault = "consume_fd" \/ (fault = "pend_event" /\ \E w \in Workers : wpc[w] = "close")
  \/ /\ alive # XApps
     /\ \E w \in Workers :
          \/ fault = "find_xapp_map_ric_id" /\ wpc[w] = "find" /\ wmsg[w].kind = "SUBS"
          \/ fault = "rm_map_ric_id" /\ wpc[w] = "remove" /\ wmsg[w].kind = "DEL"

Lives == Living /\ fault = "none"

\* An indication on its way is of the RAN function of the route of its id: no id
\* that one carries is given out again.
Reported(t) == t.kind = "IND" /\ (t \in rx \/ AtWorker(t, {"find"}))
ReportsOwned ==
  \A t \in FromNode : Reported(t) =>
    /\ t.req < FirstReqId + served /\ (ipc = "forward" => t.req # newId)
    /\ \A r \in Live : r.req = t.req => r.func = t.func

CalmInv == IdInv /\ OwnInv /\ PastInv /\ ReportsOwned /\ Lives

RicInv == IdInv /\ OwnInv /\ PastInv /\ ReportsOwned /\ Living /\ (Running \/ Stopped)

\* A route and its key belong together, also while the route is being added.
LEMMA LiveRoutes ==
  ASSUME IdInv
  PROVE  /\ Live \subseteq Route /\ map \subseteq Live
         /\ \A r, s \in Live : r.req = s.req => r = s
         /\ \A r, s \in Live : SameKey(r, s) => r = s
<1> DEFINE new == [kind |-> imsg.kind, req |-> newId, node |-> imsg.node, xapp |-> imsg.xapp,
                   id |-> imsg.id, func |-> imsg.func]
<1>1. CASE ipc # "addMap"
  <2>1. Live = map
    BY <1>1 DEF Live, RouteBeingAdded
  <2> QED
    BY <2>1 DEF IdInv, IdsGivenOnce, KeysUsedOnce, TypeOK, TypeRic
<1>2. CASE ipc = "addMap"
  <2>1. Live = map \union {new}
    BY <1>2 DEF Live, RouteBeingAdded
  <2>2. imsg \in Request /\ imsg.kind # "DEL" /\ newId \in ReqIds /\ imsg \in InHand
    BY <1>2 DEF IdInv, TypeOK, TypeIapp, InHand
  <2>3. new \in Route /\ new.req = newId /\ SameKey(new, imsg)
    BY <2>2 DEF Request, Route, Kinds, SameKey
  <2>4. \A r \in map : r.req # newId
    BY <1>2 DEF IdInv, IdsGivenOnce
  <2>5. \A r \in map : ~SameKey(imsg, r)
    BY <2>2 DEF IdInv, KeysUsedOnce
  <2> HIDE DEF new
  <2>6. \A r \in map : ~SameKey(new, r) /\ ~SameKey(r, new)
    BY <2>3, <2>5 DEF SameKey
  <2>7. /\ map \subseteq Route
        /\ \A r, s \in map : r.req = s.req => r = s
        /\ \A r, s \in map : SameKey(r, s) => r = s
    BY DEF IdInv, IdsGivenOnce, KeysUsedOnce, TypeOK, TypeRic
  <2> QED
    BY <2>1, <2>3, <2>4, <2>6, <2>7
<1> QED
  BY <1>1, <1>2

\* What is sent to a node, or comes from it, is determined by route and kind.
LEMMA TokenTypes ==
  ASSUME TypeOK
  PROVE  /\ \A m \in toNode : PendingOf(m) \in Pending /\ m.node \in Nodes
         /\ \A m \in rx : m \in FromNode /\ (m.kind \in Kinds => m \in Pending)
         /\ \A w \in Workers : wpc[w] # "idle" =>
              wmsg[w] \in FromNode /\ (wmsg[w].kind \in Kinds => wmsg[w] \in Pending)
         /\ \A r \in Route, k \in Kinds : Token(r, k) \in Pending /\ Requested(r, k) \in Request
         /\ \A r \in Route, k \in Kinds : Token(r, k).kind = k /\ Token(r, k).req = r.req
         /\ \A r \in Route, t \in Pending : OfRoute(t, r) => t = Token(r, t.kind)
<1>1. \A m \in toNode : PendingOf(m) \in Pending /\ m.node \in Nodes
  BY DEF TypeOK, TypeMessages, ToNode, PendingOf, Pending
<1>2. \A t \in FromNode : t.kind \in Kinds => t \in Pending
  BY DEF FromNode, Pending
<1>3. \A m \in rx : m \in FromNode
  BY DEF TypeOK, TypeMessages
<1>4. \A w \in Workers : wpc[w] # "idle" => wmsg[w] \in FromNode
  BY DEF TypeOK, TypeWorkers
<1>5. \A r \in Route, k \in Kinds : Token(r, k) \in Pending /\ Requested(r, k) \in Request
  BY DEF Route, Token, Requested, Pending, Request
<1>6. \A r \in Route, k \in Kinds : Token(r, k).kind = k /\ Token(r, k).req = r.req
  BY DEF Token
<1>7. \A r \in Route, t \in Pending : OfRoute(t, r) => t = Token(r, t.kind)
  BY DEF Pending, OfRoute, Token
<1> QED
  BY <1>1, <1>2, <1>3, <1>4, <1>5, <1>6, <1>7

\* No other route has the id or the key of one a thread holds.
LEMMA HeldIsLive ==
  ASSUME IdInv, HeldOnce, NEW g \in Held
  PROVE  /\ g \in Route
         /\ \A r \in Live : r.req = g.req \/ SameKey(r, g) => r = g
<1>1. g \in Route
  BY HeldType DEF IdInv
<1>2. ASSUME NEW r \in Live, r.req = g.req \/ SameKey(r, g)
      PROVE  r = g
  <2>1. CASE r \in map
    BY <1>2, <2>1 DEF HeldOnce
  <2>2. CASE r \notin map
    <3>1. ipc = "addMap" /\ r.req = newId /\ SameKey(imsg, r) /\ imsg \in InHand
      BY <2>2 DEF Live, RouteBeingAdded, SameKey, InHand
    <3>2. g.req # newId /\ ~SameKey(imsg, g)
      BY <3>1 DEF HeldOnce
    <3> QED
      BY <1>2, <3>1, <3>2 DEF SameKey
  <2> QED
    BY <2>1, <2>2
<1> QED
  BY <1>1, <1>2

\* What is under way, or anywhere, from the side of its route.
LEMMA TokenOfRoute ==
  ASSUME IdInv, PastInv, TokensAwaited, WorkersSure, NEW r \in Live, NEW t \in Pending, t.req = r.req
  PROVE  /\ UnderWay(t) => /\ t = Token(r, t.kind)
                           /\ Awaited(t, r) \/ (t.kind = "DEL" /\ alive # XApps /\ r.xapp \notin alive)
         /\ Somewhere(t) => OfRoute(t, r) /\ t = Token(r, t.kind)
<1>1. TypeOK /\ r \in Route /\ t.kind \in Kinds
  BY LiveRoutes DEF IdInv, Pending
<1>2. OfRoute(t, r) => t = Token(r, t.kind)
  BY <1>1, TokenTypes
<1>3. UnderWay(t) =>
        OfRoute(t, r) /\ (Awaited(t, r) \/ (t.kind = "DEL" /\ alive # XApps /\ r.xapp \notin alive))
  <2> SUFFICES ASSUME UnderWay(t)
               PROVE  /\ OfRoute(t, r)
                      /\ Awaited(t, r) \/ (t.kind = "DEL" /\ alive # XApps /\ r.xapp \notin alive)
    OBVIOUS
  <2>1. CASE Stray(t)
    BY <2>1 DEF Stray
  <2>2. ASSUME NEW s \in Live, Awaited(t, s)
        PROVE  Awaited(t, r)
    <3>1. s = r
      BY <2>2, LiveRoutes DEF Awaited, OfRoute
    <3> QED
      BY <2>2, <3>1
  <2> QED
    BY <2>1, <2>2 DEF TokensAwaited, Awaited
<1>4. AtWorker(t, {"remove"}) => OfRoute(t, r)
  <2>1. ASSUME NEW w \in Workers, wpc[w] = "remove", wmsg[w] = t
        PROVE  OfRoute(t, r)
    <3>1. wdst[w] \in Held /\ OfRoute(t, wdst[w])
      BY <1>1, <2>1 DEF Held, WorkersSure, WorkerSure
    <3>2. r = wdst[w]
      BY <3>1, HeldIsLive DEF OfRoute, PastInv
    <3> QED
      BY <3>1, <3>2
  <2> QED
    BY <2>1 DEF AtWorker
<1> QED
  BY <1>2, <1>3, <1>4 DEF Somewhere

\* What a route of an xApp that has not left has under way is awaited.
LEMMA AliveAwaited ==
  ASSUME IdInv, PastInv, TokensAwaited, WorkersSure, NEW r \in Live, NEW t \in Pending, t.req = r.req,
         r.xapp \in alive, UnderWay(t)
  PROVE  Awaited(t, r) /\ ~Stray(t)
BY TokenOfRoute DEF Stray

\* A request that is not sent is not under way: only a delete can have a route, and
\* nothing of it has been sent.
LEMMA UnsentIsNew ==
  ASSUME IdInv, RequestsFirst, NEW r \in Live, NEW k \in Kinds, Unsent(Requested(r, k))
  PROVE  k = "DEL" /\ ~Somewhere(Token(r, "DEL")) /\ ~UnderWay(Token(r, "DEL"))
<1> DEFINE m == Requested(r, k)
<1>1. /\ m \in Request /\ m.kind = k /\ SameKey(m, r) /\ r \in Route
  BY LiveRoutes DEF Route, Request, Requested, SameKey
<1>2. m \in toIapp \/ (ipc \notin {"idle", "addMap"} /\ m = imsg)
  BY DEF Unsent
<1> HIDE DEF m
<1>3. ASSUME k # "DEL"
      PROVE  FALSE
  <2>1. m \in Unread \union InHand
    <3>1. CASE m \in toIapp
      BY <1>1, <1>3, <3>1 DEF Unread
    <3>2. CASE ipc \notin {"idle", "addMap"} /\ m = imsg
      <4>1. ipc \in {"allocate", "forward", "addMap"}
        BY <1>1, <1>3, <3>2, NoReqAssumption DEF RequestsFirst, Reclaims, IdInv, TypeOK, TypeIapp
      <4> QED
        BY <3>2, <4>1 DEF InHand
    <3> QED
      BY <1>2, <3>1, <3>2
  <2>2. r \notin map
    BY <1>1, <2>1 DEF IdInv, KeysUsedOnce
  <2>3. ipc = "addMap" /\ SameKey(r, imsg)
    BY <2>2 DEF Live, RouteBeingAdded, SameKey
  <2>4. m \in toIapp /\ imsg \in InHand /\ imsg \notin toIapp
    BY <1>2, <2>3 DEF InHand, RequestsFirst, IdInv, TypeOK, TypeIapp
  <2>5. SameKey(m, imsg)
    BY <1>1, <2>3 DEF SameKey
  <2>6. m = imsg
    BY <2>1, <2>4, <2>5 DEF IdInv, KeysUsedOnce
  <2> QED
    BY <2>4, <2>6
<1>4. k = "DEL"
  BY <1>3
<1>5. PICK s \in map : Requested(s, "DEL") = m /\ ~Somewhere(Token(s, "DEL"))
  BY <1>1, <1>4 DEF RequestsFirst, DeleteFinds, m
<1>6. SameKey(s, r)
  BY <1>4, <1>5 DEF m, Requested, SameKey
<1>7. s = r
  BY <1>5, <1>6, LiveRoutes
<1> QED
  BY <1>4, <1>5, <1>7 DEF Somewhere

-----------------------------------------------------------------------------
(* The steps of the xApps.                                                 *)

\* What an xApp's step leaves alone.
LEMMA XappFrame ==
  ASSUME CalmInv, alive' \subseteq alive, failed' \intersect alive' = {},
         UNCHANGED <<iappVars, map, idVars, pendVars, nodeVars, rx, workVars, regVars, fault>>
  PROVE  /\ Present' /\ TokensOnce' /\ StreamsRouted' /\ PendingMatches' /\ ControlsUnderWay'
         /\ IdsPositive' /\ fault' = "none" /\ Live' = Live /\ map' = map
         /\ \A t : (UnderWay(t)' <=> UnderWay(t)) /\ (Somewhere(t)' <=> Somewhere(t))
         /\ \A t : Stray(t) => Stray(t)'
<1> USE DEF CalmInv, Lives, Living, iappVars, idVars, pendVars, nodeVars, workVars, regVars
<1>1. Live' = Live /\ map' = map
  BY DEF Live, RouteBeingAdded
<1>2. \A t : /\ (AtNode(t)' <=> AtNode(t)) /\ (t \in rx' <=> t \in rx)
             /\ \A pcs : AtWorker(t, pcs)' <=> AtWorker(t, pcs)
  BY DEF AtNode, AtWorker
<1>3. \A t : (UnderWay(t)' <=> UnderWay(t)) /\ (Somewhere(t)' <=> Somewhere(t))
  BY <1>2 DEF UnderWay, Somewhere
<1>4. Present' /\ fault' = "none" /\ (alive # XApps => alive' # XApps)
  BY DEF Present, IdInv, TypeOK, TypeXapps
<1>10. \A t : (Stray(t) => Stray(t)') /\ (Again(t) => Again(t)')
  BY <1>1, <1>2, <1>4 DEF Stray, Again
<1>5. TokensOnce'
  BY <1>2, <1>10 DEF TokensOnce
<1>6. StreamsRouted'
  BY <1>1, <1>2 DEF StreamsRouted
<1>7. PendingMatches'
  BY <1>2 DEF PendingMatches, Expected, InHandEvent
<1>8. ControlsUnderWay'
  BY <1>1, <1>3 DEF ControlsUnderWay
<1>9. IdsPositive'
  BY DEF IdsPositive
<1> QED
  BY <1>1, <1>3, <1>4, <1>5, <1>6, <1>7, <1>8, <1>9, <1>10

\* While an xApp waits for nothing, nothing of it is on its way.
LEMMA NothingOfIdle ==
  ASSUME CalmInv, NEW x \in XApps, xreq[x] = NoReq
  PROVE  /\ \A m \in toIapp : m.xapp # x
         /\ \A a \in toXapp : a.kind \in Kinds => a.xapp # x
         /\ \A t \in Pending, r \in Live : Awaited(t, r) => r.xapp # x
         /\ imsg \in Request => imsg.xapp # x
<1> USE DEF CalmInv, Lives, Living
<1>1. TypeOK /\ NoReq \notin Request
  BY NoReqAssumption DEF IdInv
<1>2. \A m \in toIapp : m.xapp # x
  BY <1>1 DEF RequestsFirst, TypeOK, TypeMessages
<1>3. \A a \in toXapp : a.kind \in Kinds => a.xapp # x
  BY DEF AnswersEnd, Answers
<1>4. \A t \in Pending, r \in Live : Awaited(t, r) => r.xapp # x
  <2>1. \A t \in Pending, r \in Live : Requested(r, t.kind) \in Request
    BY <1>1, LiveRoutes, TokenTypes DEF Pending
  <2> QED
    BY <1>1, <2>1 DEF Awaited
<1>5. imsg \in Request => imsg.xapp # x
  BY <1>1 DEF RequestsFirst
<1> QED
  BY <1>2, <1>3, <1>4, <1>5

\* A request waits alone: its xApp waited for nothing. Its key is new, or it deletes
\* what can be found and is not being deleted.
LEMMA XappAsks ==
  ASSUME CalmInv, NEW x \in alive, NEW m \in Request, m.xapp = x, xreq[x] = NoReq,
         xreq' = [xreq EXCEPT ![x] = m], toIapp' = toIapp \union {m},
         m.kind # "DEL" => m.id = lid[x],
         m.kind = "DEL" => DeleteFinds(m),
         m.id < lid'[x], \A y \in XApps : lid'[y] \in Nat /\ lid[y] <= lid'[y],
         UNCHANGED <<xsubs, alive, failed, toXapp, iappVars, map, idVars, pendVars,
                     nodeVars, rx, workVars, regVars, fault>>
  PROVE  Lives'
<1> USE DEF CalmInv, Lives, Living
<1>1. x \in XApps /\ failed' \intersect alive' = {}
  BY DEF IdInv, TypeOK, TypeXapps, Present
<1>4. /\ Present' /\ TokensOnce' /\ StreamsRouted' /\ PendingMatches' /\ ControlsUnderWay'
      /\ IdsPositive' /\ fault' = "none" /\ Live' = Live /\ map' = map
      /\ \A t : (UnderWay(t)' <=> UnderWay(t)) /\ (Somewhere(t)' <=> Somewhere(t))
      /\ \A t : Stray(t) => Stray(t)'
  BY <1>1, XappFrame
<1>5. /\ \A q \in toIapp : q.xapp # x
      /\ \A a \in toXapp : a.kind \in Kinds => a.xapp # x
      /\ \A t \in Pending, r \in Live : Awaited(t, r) => r.xapp # x
      /\ imsg \in Request => imsg.xapp # x
  BY <1>1, NothingOfIdle
<1>6. /\ \A y \in XApps : y # x => xreq'[y] = xreq[y]
      /\ xreq'[x] = m
      /\ \A y \in XApps : lid[y] \in Nat
  BY <1>1, ReqIdAssumption DEF IdInv, TypeOK, TypeXapps
<1>7. TypeOK /\ \A r \in Live : r.xapp \in XApps /\ r \in Route
  BY LiveRoutes DEF IdInv, Route
<1>8. TokensAwaited'
  <2>1. ASSUME NEW t \in Pending, UnderWay(t)'
        PROVE  Stray(t)' \/ \E r \in Live' : Awaited(t, r)'
    <3> SUFFICES ASSUME ~Stray(t)
                 PROVE  \E r \in Live' : Awaited(t, r)'
      BY <1>4
    <3>1. PICK r \in Live : Awaited(t, r)
      BY <1>4, <2>1 DEF TokensAwaited
    <3>2. r.xapp # x /\ r.xapp \in XApps
      BY <1>5, <1>7, <3>1
    <3>3. xreq'[r.xapp] = xreq[r.xapp]
      BY <1>6, <3>2
    <3> QED
      BY <1>4, <3>1, <3>3 DEF Awaited
  <2>2. UNCHANGED toNode
    BY DEF nodeVars
  <2> QED
    BY <1>4, <2>1, <2>2 DEF TokensAwaited
<1>9. WorkersSure'
  <2>1. ASSUME NEW w \in Workers, wpc[w] = "remove", wmsg[w].kind = "DEL", wdst[w].xapp \in alive
        PROVE  xreq'[wdst[w].xapp] # Requested(wdst[w], "SUBS")
    <3>1. PICK d \in map : d = wdst[w]
      BY <2>1 DEF WorkersSure, WorkerSure, Kinds
    <3>2. d.xapp \in XApps /\ xreq[d.xapp] # Requested(d, "SUBS") /\ d.id < lid[d.xapp]
      BY <1>7, <2>1, <3>1, LiveRoutes DEF WorkersSure, WorkerSure, IdInv, KeysUsedOnce
    <3>3. CASE d.xapp = x
      <4>1. Requested(d, "SUBS").kind = "SUBS" /\ Requested(d, "SUBS").id = d.id
        BY DEF Requested
      <4>2. m.kind # "DEL" => d.id # m.id
        BY <1>6, <3>2, <3>3 DEF IdInv, TypeOK, TypeXapps, TypeRic, Route, LocalIds
      <4> QED
        BY <1>6, <3>1, <3>3, <4>1, <4>2
    <3> QED
      BY <1>6, <3>1, <3>2, <3>3
  <2>2. UNCHANGED <<wpc, wmsg, wdst, map>>
    BY DEF workVars
  <2> QED
    BY <2>1, <2>2 DEF WorkersSure, WorkerSure, OfRoute
<1>10. RequestsFirst'
  <2>1. UNCHANGED <<ipc, imsg, itodo, idel>>
    BY DEF iappVars
  <2>2. \A q \in toIapp' : xreq'[q.xapp] = q
    BY <1>5, <1>6, <1>7 DEF RequestsFirst, TypeOK, TypeMessages, Request
  <2>3. imsg \in Request => xreq'[imsg.xapp] = imsg /\ imsg \notin toIapp'
    BY <1>5, <1>6 DEF RequestsFirst, Request
  <2>5. Reclaims => Reclaims'
    BY <2>1 DEF Reclaims
  <2>4. ASSUME NEW q \in Request, Unsent(q)', q.kind = "DEL"
        PROVE  DeleteFinds(q)'
    <3>1. Unsent(q) \/ q = m
      BY <2>1, <2>4 DEF Unsent
    <3>2. DeleteFinds(q)
      BY <2>4, <3>1 DEF RequestsFirst
    <3> QED
      BY <1>4, <2>1, <3>2 DEF DeleteFinds
  <2> QED
    BY <2>1, <2>2, <2>3, <2>4, <2>5 DEF RequestsFirst
<1>11. AnswersEnd'
  <2>1. ASSUME NEW a \in toXapp, a.kind \in Kinds
        PROVE  a.xapp \in XApps /\ a.xapp # x /\ xreq'[a.xapp] = xreq[a.xapp]
    BY <1>5, <1>6, <1>7, <2>1 DEF TypeOK, TypeMessages, ToXapp
  <2>2. ASSUME NEW a \in toXapp, a.kind \in Kinds
        PROVE  Answers(a)' /\ ~Unheard(xreq[a.xapp])'
    <3>1. Answers(a) /\ ~Unheard(xreq[a.xapp])
      BY <2>2 DEF AnswersEnd
    <3>2. xreq[a.xapp].xapp = a.xapp
      BY <2>1, <2>2, <3>1 DEF Answers, OwnInv, OwnFunctions
    <3>3. xreq[a.xapp] # m
      BY <2>1, <2>2, <3>2
    <3>4. UNCHANGED <<ipc, imsg>>
      BY DEF iappVars
    <3> QED
      BY <2>1, <2>2, <3>1, <3>3, <3>4 DEF Answers, Unheard
  <2>3. UNCHANGED <<toXapp, active>>
    BY DEF nodeVars
  <2> QED
    BY <1>4, <2>1, <2>2, <2>3 DEF AnswersEnd
<1>12. HeldServed'
  <2>1. UNCHANGED <<xsubs, active>>
    BY DEF nodeVars
  <2>2. ASSUME NEW y \in XApps
        PROVE  xreq'[y] # NoReq => xreq'[y].id < lid'[y]
    <3>1. CASE y = x
      BY <1>6, <3>1
    <3>2. CASE y # x /\ xreq[y] # NoReq
      <4>1. xreq[y].id \in Nat /\ xreq[y].id < lid[y]
        BY <3>2 DEF HeldServed, IdInv, TypeOK, TypeXapps, Request, LocalIds
      <4> QED
        BY <1>6, <3>2, <4>1
    <3> QED
      BY <1>6, <3>1, <3>2
  <2>3. ASSUME NEW y \in XApps, NEW s \in xsubs[y]
        PROVE  /\ s.kind = "SUBS" /\ s.id < lid'[y]
               /\ xreq'[y] # NoReq /\ xreq'[y].kind # "DEL" => s.id # xreq'[y].id
               /\ xreq'[y] = NoReq \/ xreq'[y].id # s.id => xreq[y] = NoReq \/ xreq[y].id # s.id
    <3>1. s.kind = "SUBS" /\ s.id < lid[y] /\ s.id \in Nat
      BY DEF HeldServed, IdInv, TypeOK, TypeXapps, Request, LocalIds
    <3>2. CASE y = x
      BY <1>6, <3>1, <3>2
    <3>3. CASE y # x
      BY <1>6, <3>1, <3>3 DEF HeldServed
    <3> QED
      BY <3>2, <3>3
  <2> QED
    BY <1>4, <2>1, <2>2, <2>3 DEF HeldServed
<1> QED
  BY <1>4, <1>8, <1>9, <1>10, <1>11, <1>12

\* A new request has a new key.
LEMMA XappRequestLives ==
  ASSUME CalmInv, NEW x \in XApps, NEW kind \in {"SUBS", "CTRL"}, XappRequest(x, kind)
  PROVE  Lives'
<1>1. PICK f \in Uses[x], n \in Nodes :
        LET m == [kind |-> kind, xapp |-> x, id |-> lid[x], func |-> f, node |-> n]
        IN  xreq' = [xreq EXCEPT ![x] = m] /\ toIapp' = toIapp \union {m}
  BY DEF XappRequest
<1> DEFINE m == [kind |-> kind, xapp |-> x, id |-> lid[x], func |-> f, node |-> n]
<1>2. /\ m.xapp = x /\ m.id = lid[x] /\ m.kind # "DEL" /\ m \in Request
      /\ xreq' = [xreq EXCEPT ![x] = m] /\ toIapp' = toIapp \union {m}
  <2>1. TypeXapps /\ lid[x] <= MaxLocal
    BY DEF XappRequest, CalmInv, IdInv, TypeOK
  <2>2. m \in Request
    BY <2>1, NewRequest
  <2> QED
    BY <1>1, <2>2
<1> HIDE DEF m
<1>3. /\ m.id < lid'[x] /\ \A y \in XApps : lid'[y] \in Nat /\ lid[y] <= lid'[y]
  BY <1>2, ReqIdAssumption DEF XappRequest, CalmInv, IdInv, TypeOK, TypeXapps
<1>4. /\ xreq[x] = NoReq /\ x \in alive
      /\ UNCHANGED <<xsubs, alive, failed, toXapp, iappVars, map, idVars, pendVars,
                     nodeVars, rx, workVars, regVars, fault>>
  BY DEF XappRequest
<1> QED
  BY <1>2, <1>3, <1>4, XappAsks

\* A delete finds the route of the subscription its xApp holds.
LEMMA XappDeleteLives ==
  ASSUME CalmInv, NEW x \in XApps, XappDelete(x)
  PROVE  Lives'
<1> USE DEF CalmInv, Lives, Living
<1>1. PICK s \in xsubs[x] : /\ xreq' = [xreq EXCEPT ![x] = [s EXCEPT !.kind = "DEL"]]
                            /\ toIapp' = toIapp \union {[s EXCEPT !.kind = "DEL"]}
  BY DEF XappDelete
<1> DEFINE m == [s EXCEPT !.kind = "DEL"]
<1>2. s \in Request /\ s.xapp = x /\ s.kind = "SUBS" /\ s.id < lid[x]
  BY DEF IdInv, TypeOK, TypeXapps, OwnInv, OwnFunctions, HeldServed
<1>3. m \in Request /\ m.kind = "DEL" /\ m.xapp = x /\ m.id = s.id /\ m.func = s.func /\ m.node = s.node
  BY <1>2 DEF Request, Kinds
<1>4. xreq' = [xreq EXCEPT ![x] = m] /\ toIapp' = toIapp \union {m}
  BY <1>1
<1> HIDE DEF m
<1>5. /\ xreq[x] = NoReq /\ x \in alive
      /\ UNCHANGED <<lid, xsubs, alive, failed, toXapp, iappVars, map, idVars, pendVars,
                     nodeVars, rx, workVars, regVars, fault>>
  BY DEF XappDelete
<1>6. DeleteFinds(m)
  <2>1. PICK r \in map : r.kind = "SUBS" /\ Requested(r, "SUBS") = s /\ ~Somewhere(Token(r, "DEL"))
    BY <1>5 DEF HeldServed
  <2>2. r.xapp = x /\ r.id = m.id /\ r.func = m.func /\ r.node = m.node
    BY <1>2, <1>3, <2>1 DEF Requested
  <2>3. Requested(r, "DEL") = m
    BY <1>3, <2>2 DEF Requested, Request
  <2>4. imsg # m
    BY <1>3, <1>5, NothingOfIdle
  <2> QED
    BY <2>1, <2>3, <2>4 DEF DeleteFinds
<1>7. m.id < lid'[x] /\ \A y \in XApps : lid'[y] \in Nat /\ lid[y] <= lid'[y]
  BY <1>2, <1>3, <1>5, ReqIdAssumption DEF IdInv, TypeOK, TypeXapps
<1> QED
  BY <1>3, <1>4, <1>5, <1>6, <1>7, XappAsks

\* The answer ends the request: nothing else of it is on its way, and what was
\* subscribed is served.
LEMMA XappAnsweredLives ==
  ASSUME CalmInv, NEW m \in toXapp, XappAnswered(m)
  PROVE  Lives'
<1> USE DEF CalmInv, Lives, Living
<1> DEFINE x == m.xapp
<1>1. /\ m.kind \in Kinds /\ x \in XApps /\ x \in alive /\ Answers(m) /\ xreq[x] # NoReq
      /\ toXapp' = toXapp \ {m} /\ xreq' = [xreq EXCEPT ![x] = NoReq]
      /\ UNCHANGED <<lid, alive, failed, toIapp, edge, iappVars, map, idVars, pendVars, nodeVars, rx,
                     workVars, regVars, fault>>
  BY DEF XappAnswered, Answers, IdInv, TypeOK, TypeMessages, ToXapp
<1>2. /\ Present' /\ TokensOnce' /\ StreamsRouted' /\ PendingMatches' /\ ControlsUnderWay'
      /\ IdsPositive' /\ fault' = "none" /\ Live' = Live /\ map' = map
      /\ \A t : (UnderWay(t)' <=> UnderWay(t)) /\ (Somewhere(t)' <=> Somewhere(t))
      /\ \A t : Stray(t) => Stray(t)'
  BY <1>1, XappFrame DEF Present
<1>3. /\ xreq[x] \in Request /\ xreq[x].xapp = x /\ xreq[x].kind = m.kind /\ xreq[x].id = m.id
      /\ xreq[x].func = m.func
  BY <1>1 DEF Answers, IdInv, TypeOK, TypeXapps, OwnInv, OwnFunctions
<1>4. \A y \in XApps : (y # x => xreq'[y] = xreq[y]) /\ xreq'[x] = NoReq
  BY <1>1 DEF IdInv, TypeOK, TypeXapps
<1>5. TypeOK /\ NoReq \notin Request /\ \A r \in Live : r.xapp \in XApps /\ r \in Route
  BY LiveRoutes, NoReqAssumption DEF IdInv, Route
<1>6. ~Unheard(xreq[x]) /\ \A r \in Live : SameKey(r, m) => ~UnderWay(Token(r, m.kind))
  BY <1>1 DEF AnswersEnd
<1>7. \A r \in Route, k \in Kinds : xreq'[x] # Requested(r, k)
  BY <1>1, <1>4, <1>5, TokenTypes
<1> HIDE DEF x
<1>8. TokensAwaited'
  <2>1. ASSUME NEW t \in Pending, UnderWay(t)'
        PROVE  Stray(t)' \/ \E r \in Live' : Awaited(t, r)'
    <3> SUFFICES ASSUME ~Stray(t)
                 PROVE  \E r \in Live' : Awaited(t, r)'
      BY <1>2
    <3>1. PICK r \in Live : Awaited(t, r)
      BY <1>2, <2>1 DEF TokensAwaited
    <3>2. CASE r.xapp = x
      <4>1. t.kind = m.kind /\ SameKey(r, m)
        BY <1>3, <3>1, <3>2 DEF Awaited, Requested, SameKey, x
      <4>2. t = Token(r, m.kind)
        BY <1>5, <3>1, <4>1, TokenTypes DEF Awaited
      <4> QED
        BY <1>2, <1>6, <2>1, <4>1, <4>2
    <3>3. CASE r.xapp # x
      <4>1. xreq'[r.xapp] = xreq[r.xapp]
        BY <1>4, <1>5, <3>3
      <4> QED
        BY <1>2, <3>1, <4>1 DEF Awaited
    <3> QED
      BY <3>2, <3>3
  <2>2. UNCHANGED toNode
    BY <1>1 DEF nodeVars
  <2> QED
    BY <1>2, <2>1, <2>2 DEF TokensAwaited
<1>9. WorkersSure'
  <2>1. ASSUME NEW w \in Workers, wpc[w] = "remove", wmsg[w].kind = "DEL", wdst[w].xapp \in alive
        PROVE  xreq'[wdst[w].xapp] # Requested(wdst[w], "SUBS")
    <3>1. PICK d \in map : d = wdst[w]
      BY <2>1 DEF WorkersSure, WorkerSure, Kinds
    <3>2. d.xapp \in XApps /\ d \in Route /\ xreq[d.xapp] # Requested(d, "SUBS")
      BY <1>5, <2>1, <3>1, LiveRoutes DEF WorkersSure, WorkerSure
    <3> QED
      BY <1>4, <1>7, <3>1, <3>2 DEF Kinds
  <2>2. UNCHANGED <<wpc, wmsg, wdst, map, alive>>
    BY <1>1 DEF workVars
  <2> QED
    BY <2>1, <2>2 DEF WorkersSure, WorkerSure, OfRoute
<1>10. RequestsFirst'
  <2>1. UNCHANGED <<toIapp, ipc, imsg, itodo, idel, alive>>
    BY <1>1 DEF iappVars
  <2>2. \A q \in toIapp : q.xapp # x /\ q.xapp \in XApps
    BY <1>5, <1>6 DEF RequestsFirst, Unheard, TypeOK, TypeMessages, Request
  <2>3. imsg \in Request => imsg.xapp # x /\ imsg.xapp \in XApps
    BY <1>5, <1>6 DEF RequestsFirst, Unheard, Request, OwnInv, OwnDelete
  <2>5. Reclaims => Reclaims'
    BY <2>1 DEF Reclaims
  <2>4. ASSUME NEW q \in Request, Unsent(q)', q.kind = "DEL"
        PROVE  DeleteFinds(q)'
    <3>1. Unsent(q)
      BY <2>1, <2>4 DEF Unsent
    <3>2. DeleteFinds(q)
      BY <2>4, <3>1 DEF RequestsFirst
    <3> QED
      BY <1>2, <2>1, <3>2 DEF DeleteFinds
  <2> QED
    BY <1>4, <2>1, <2>2, <2>3, <2>4, <2>5 DEF RequestsFirst
<1>11. AnswersEnd'
  <2>1. ASSUME NEW a \in toXapp', a.kind \in Kinds
        PROVE  a \in toXapp /\ a.xapp \in XApps /\ a.xapp # x /\ xreq'[a.xapp] = xreq[a.xapp]
    <3>1. a \in toXapp /\ a # m /\ a.xapp \in XApps /\ a \in ToXapp /\ m \in ToXapp
      BY <1>1, <1>5 DEF TypeOK, TypeMessages, ToXapp
    <3>2. a.xapp # x
      <4>1. Answers(a) /\ Answers(m)
        BY <1>1, <2>1, <3>1 DEF AnswersEnd
      <4> QED
        BY <3>1, <4>1 DEF Answers, ToXapp, x
    <3> QED
      BY <1>4, <3>1, <3>2
  <2>2. ASSUME NEW a \in toXapp', a.kind \in Kinds
        PROVE  Answers(a)' /\ ~Unheard(xreq[a.xapp])'
    <3>1. Answers(a) /\ ~Unheard(xreq[a.xapp])
      BY <2>1, <2>2 DEF AnswersEnd
    <3>2. UNCHANGED <<toIapp, ipc, imsg>>
      BY <1>1 DEF iappVars
    <3> QED
      BY <2>1, <2>2, <3>1, <3>2 DEF Answers, Unheard
  <2>3. UNCHANGED <<active, alive>>
    BY <1>1 DEF nodeVars
  <2> QED
    BY <1>2, <2>1, <2>2, <2>3 DEF AnswersEnd
<1>12. HeldServed'
  <2>1. UNCHANGED <<active, lid>>
    BY <1>1 DEF nodeVars
  <2>2. ASSUME NEW y \in XApps, y # x
        PROVE  xsubs'[y] = xsubs[y] /\ xreq'[y] = xreq[y]
    BY <1>4, <2>2 DEF XappAnswered, IdInv, TypeOK, TypeXapps, x
  <2>3. ASSUME NEW s \in xsubs'[x]
        PROVE  /\ s.kind = "SUBS" /\ s.id < lid[x]
               /\ \E r \in map : /\ r.kind = "SUBS" /\ Requested(r, "SUBS") = s
                                 /\ Sub(r) \in active[r.node] /\ ~Somewhere(Token(r, "DEL"))
    <3>1. \/ s \in xsubs[x] /\ s.id # xreq[x].id
          \/ m.kind = "SUBS" /\ s = xreq[x]
      <4>1. xsubs \in [XApps -> SUBSET Request]
        BY DEF IdInv, TypeOK, TypeXapps
      <4>2. CASE m.kind = "SUBS"
        <5>1. xsubs'[x] = xsubs[x] \union {xreq[x]}
          BY <1>1, <4>1, <4>2 DEF XappAnswered, x
        <5>2. \A q \in xsubs[x] : q.id # xreq[x].id
          BY <1>1, <1>3, <4>2 DEF HeldServed
        <5> QED
          BY <4>2, <5>1, <5>2
      <4>3. CASE m.kind = "DEL"
        <5>1. xsubs'[x] = {q \in xsubs[x] : q.id # m.id}
          BY <1>1, <4>1, <4>3 DEF XappAnswered, x
        <5> QED
          BY <1>3, <5>1
      <4>4. CASE m.kind = "CTRL"
        <5>1. xsubs'[x] = xsubs[x]
          BY <1>1, <4>1, <4>4 DEF XappAnswered, x
        <5>2. \A q \in xsubs[x] : q.id # xreq[x].id
          BY <1>1, <1>3, <4>4 DEF HeldServed
        <5> QED
          BY <5>1, <5>2
      <4> QED
        BY <1>1, <4>2, <4>3, <4>4 DEF Kinds
    <3>2. CASE s \in xsubs[x] /\ s.id # xreq[x].id
      BY <1>1, <3>2 DEF HeldServed
    <3>3. CASE m.kind = "SUBS" /\ s = xreq[x]
      <4>1. PICK r \in map : /\ r.kind = "SUBS" /\ Requested(r, "SUBS") = xreq[x]
                             /\ Sub(r) \in active[r.node]
        BY <1>1, <3>3 DEF AnswersEnd, x
      <4>2. r \in Live /\ r \in Route /\ r.xapp = x
        BY <1>3, <4>1, LiveRoutes DEF Requested
      <4>3. ASSUME Somewhere(Token(r, "DEL"))
            PROVE  FALSE
        <5>1. Token(r, "DEL") \in Pending /\ Token(r, "DEL").kind = "DEL" /\ Token(r, "DEL").req = r.req
          BY <4>2, TokenTypes, <1>5 DEF Kinds
        <5>2. ~UnderWay(Token(r, "DEL"))
          <6>1. Requested(r, "DEL").kind = "DEL"
            BY DEF Requested
          <6> QED
            BY <1>1, <1>3, <3>3, <4>2, <5>1, <6>1, AliveAwaited DEF Awaited
        <5>3. PICK w \in Workers : wpc[w] = "remove" /\ wmsg[w] = Token(r, "DEL")
          BY <4>3, <5>2 DEF Somewhere, AtWorker
        <5>4. wdst[w] = r
          <6>1. wdst[w] \in Held /\ wdst[w].req = r.req
            BY <5>1, <5>3 DEF Held, WorkersSure, WorkerSure, OfRoute, Kinds
          <6> QED
            BY <4>2, <6>1, HeldIsLive DEF PastInv
        <5> QED
          BY <1>1, <4>1, <4>2, <5>1, <5>3, <5>4 DEF WorkersSure, WorkerSure
      <4> QED
        BY <1>1, <1>3, <3>3, <4>1, <4>3 DEF HeldServed
    <3> QED
      BY <3>1, <3>2, <3>3
  <2>4. ASSUME NEW y \in XApps
        PROVE  /\ xreq'[y] # NoReq => xreq'[y].id < lid'[y]
               /\ \A s \in xsubs'[y] :
                    /\ s.kind = "SUBS" /\ s.id < lid'[y]
                    /\ xreq'[y] # NoReq /\ xreq'[y].kind # "DEL" => s.id # xreq'[y].id
                    /\ y \in alive /\ (xreq'[y] = NoReq \/ xreq'[y].id # s.id) =>
                         \E r \in map : /\ r.kind = "SUBS" /\ Requested(r, "SUBS") = s
                                        /\ Sub(r) \in active[r.node] /\ ~Somewhere(Token(r, "DEL"))
    <3>1. CASE y = x
      BY <1>4, <2>1, <2>3, <3>1
    <3>2. CASE y # x
      BY <2>1, <2>2, <3>2 DEF HeldServed
    <3> QED
      BY <3>1, <3>2
  <2> QED
    BY <1>1, <1>2, <2>1, <2>4 DEF HeldServed
<1> QED
  BY <1>2, <1>8, <1>9, <1>10, <1>11, <1>12

\* What an xApp does not read, because it left or it is an indication, is nobody's.
LEMMA LessToRead ==
  ASSUME CalmInv, toXapp' \subseteq toXapp, alive' \subseteq alive, failed' \intersect alive' = {},
         \A a \in toXapp' : a.kind \in Kinds => a.xapp \in alive',
         UNCHANGED <<xreq, lid, xsubs, toIapp, iappVars, map, idVars, pendVars, nodeVars, rx,
                     workVars, regVars, fault>>
  PROVE  Lives'
<1> USE DEF CalmInv, Lives, Living
<1>1. /\ Present' /\ TokensOnce' /\ StreamsRouted' /\ PendingMatches' /\ ControlsUnderWay'
      /\ IdsPositive' /\ fault' = "none" /\ Live' = Live /\ map' = map
      /\ \A t : (UnderWay(t)' <=> UnderWay(t)) /\ (Somewhere(t)' <=> Somewhere(t))
      /\ \A t : Stray(t) => Stray(t)'
  BY XappFrame
<1>2. UNCHANGED <<toNode, active, ipc, imsg, itodo, idel, wpc, wmsg, wdst>>
  BY DEF nodeVars, iappVars, workVars
<1>3. TokensAwaited'
  BY <1>1, <1>2 DEF TokensAwaited, Awaited
<1>4. WorkersSure'
  BY <1>1, <1>2 DEF WorkersSure, WorkerSure
<1>5. RequestsFirst'
  <2>1. Reclaims => Reclaims'
    BY <1>2 DEF Reclaims
  <2> QED
    BY <1>1, <1>2, <2>1 DEF RequestsFirst, Unsent, DeleteFinds
<1>6. AnswersEnd'
  BY <1>1, <1>2 DEF AnswersEnd, Answers, Unheard
<1>7. HeldServed'
  BY <1>1, <1>2 DEF HeldServed
<1> QED
  BY <1>1, <1>3, <1>4, <1>5, <1>6, <1>7

\* No step of an xApp disturbs the life of a request.
LEMMA XappLives ==
  ASSUME CalmInv,
         \/ \E x \in XApps : XappStep(x)
         \/ \E m \in toXapp : XappAnswered(m) \/ XappIndication(m)
  PROVE  Lives'
<1> USE DEF CalmInv, Lives, Living
<1>1. ASSUME NEW x \in XApps, XappLeaves(x)
      PROVE  Lives'
  <2>1. toXapp' \subseteq toXapp /\ alive' = alive \ {x} /\ \A a \in toXapp' : a.xapp # x
    BY <1>1 DEF XappLeaves
  <2>2. failed' \subseteq failed \union {x}
    BY <1>1 DEF XappLeaves, SendNoticed, SendFails
  <2>3. \A a \in toXapp' : a.kind \in Kinds => a.xapp \in alive'
    BY <2>1 DEF AnswersEnd
  <2>4. UNCHANGED <<xreq, lid, xsubs, toIapp, iappVars, map, idVars, pendVars, nodeVars, rx,
                    workVars, regVars, fault>>
    BY <1>1 DEF XappLeaves
  <2> QED
    BY <2>1, <2>2, <2>3, <2>4, LessToRead DEF Present
<1>2. ASSUME NEW m \in toXapp, XappIndication(m)
      PROVE  Lives'
  BY <1>2, LessToRead DEF XappIndication, xappVars, AnswersEnd, Present
<1> QED
  BY <1>1, <1>2, XappRequestLives, XappDeleteLives, XappAnsweredLives DEF XappStep

-----------------------------------------------------------------------------
(* The steps of the iApp thread.                                           *)

\* What its steps leave alone, but for those that send a message or add a route.
LEMMA IappFrame ==
  ASSUME CalmInv,
         UNCHANGED <<xreq, lid, xsubs, alive, toXapp, map, toNode, active, rx, workVars, regVars,
                     fault>>,
         failed' \subseteq failed,
         ipc # "addMap", ipc' # "addMap", \A q \in Request : Unheard(q)' => Unheard(q)
  PROVE  /\ Present' /\ TokensAwaited' /\ TokensOnce' /\ WorkersSure' /\ AnswersEnd' /\ HeldServed'
         /\ StreamsRouted' /\ ControlsUnderWay' /\ fault' = "none" /\ Live' = Live /\ map' = map
         /\ \A t : /\ (UnderWay(t)' <=> UnderWay(t)) /\ (Somewhere(t)' <=> Somewhere(t))
                   /\ (AtNode(t)' <=> AtNode(t)) /\ \A pcs : AtWorker(t, pcs)' <=> AtWorker(t, pcs)
<1> USE DEF CalmInv, Lives, Living, workVars, regVars
<1>1. Live' = Live /\ map' = map
  BY DEF Live, RouteBeingAdded
<1>2. \A t : /\ (AtNode(t)' <=> AtNode(t)) /\ (t \in rx' <=> t \in rx)
             /\ \A pcs : AtWorker(t, pcs)' <=> AtWorker(t, pcs)
  BY DEF AtNode, AtWorker
<1>3. \A t : (UnderWay(t)' <=> UnderWay(t)) /\ (Somewhere(t)' <=> Somewhere(t))
  BY <1>2 DEF UnderWay, Somewhere
<1>4. Present' /\ fault' = "none"
  BY DEF Present
<1>11. \A t : (Stray(t)' <=> Stray(t)) /\ (Again(t)' <=> Again(t))
  BY <1>1, <1>2 DEF Stray, Again
<1>5. TokensOnce'
  BY <1>2, <1>11 DEF TokensOnce
<1>6. StreamsRouted'
  BY <1>1, <1>2 DEF StreamsRouted
<1>7. TokensAwaited' /\ WorkersSure'
  BY <1>1, <1>3, <1>11 DEF TokensAwaited, Awaited, WorkersSure, WorkerSure
<1>8. ControlsUnderWay'
  BY <1>1, <1>3 DEF ControlsUnderWay
<1>9. HeldServed'
  BY <1>1, <1>3 DEF HeldServed
<1>10. AnswersEnd'
  <2>1. ASSUME NEW a \in toXapp, a.kind \in Kinds
        PROVE  Answers(a)' /\ ~Unheard(xreq[a.xapp])'
    <3>1. PICK q : q = xreq[a.xapp]
      OBVIOUS
    <3>2. Answers(a) /\ ~Unheard(q) /\ q \in Request
      BY <2>1, <3>1 DEF AnswersEnd, Answers, IdInv, TypeOK, TypeXapps, TypeMessages, ToXapp
    <3>3. ~Unheard(q)'
      BY <3>2
    <3> QED
      BY <3>1, <3>2, <3>3 DEF Answers, Unheard
  <2> QED
    BY <1>1, <1>3, <2>1 DEF AnswersEnd
<1> QED
  BY <1>1, <1>2, <1>3, <1>4, <1>5, <1>6, <1>7, <1>8, <1>9, <1>10

\* A request that is read moves to the hand of the thread.
LEMMA IappReceiveLives ==
  ASSUME CalmInv, NEW m \in toIapp, IappReceive(m)
  PROVE  Lives'
<1> USE DEF CalmInv, Lives, Living
<1>1. TypeOK /\ m \in Request /\ m.node \in regNodes
  BY DEF IdInv, TypeOK, TypeMessages, Request, Present
<1>2. /\ ipc = "idle" /\ m.kind \in {"SUBS", "CTRL"}
      /\ toIapp' = toIapp \ {m} /\ ipc' = "allocate" /\ imsg' = m
      /\ UNCHANGED <<xappVars, toXapp, newId, itodo, idel, map, idVars, pendVars,
                     nodeVars, rx, workVars, regVars, fault>>
  BY <1>1 DEF IappReceive
<1>3. \A q : (Unheard(q)' <=> Unheard(q)) /\ (Unsent(q)' <=> Unsent(q))
  BY <1>2 DEF Unheard, Unsent
<1>4. UNCHANGED <<xreq, lid, xsubs, alive, failed, toNode, active, pending, timers, newId>>
  BY <1>2 DEF nodeVars, pendVars, xappVars
<1>5. /\ Present' /\ TokensAwaited' /\ TokensOnce' /\ WorkersSure' /\ AnswersEnd' /\ HeldServed'
      /\ StreamsRouted' /\ ControlsUnderWay' /\ fault' = "none" /\ Live' = Live /\ map' = map
      /\ \A t : /\ (UnderWay(t)' <=> UnderWay(t)) /\ (Somewhere(t)' <=> Somewhere(t))
                /\ (AtNode(t)' <=> AtNode(t)) /\ \A pcs : AtWorker(t, pcs)' <=> AtWorker(t, pcs)
  BY <1>2, <1>3, <1>4, IappFrame
<1>6. RequestsFirst'
  <2>1. \A q \in toIapp' : xreq'[q.xapp] = q
    BY <1>2, <1>4 DEF RequestsFirst
  <2>2. imsg' \in Request /\ xreq'[imsg'.xapp] = imsg' /\ imsg' \notin toIapp'
    BY <1>1, <1>2, <1>4 DEF RequestsFirst
  <2>3. ASSUME NEW q \in Request, Unsent(q)', q.kind = "DEL"
        PROVE  DeleteFinds(q)'
    <3>1. DeleteFinds(q)
      BY <1>3, <2>3 DEF RequestsFirst
    <3> QED
      BY <1>2, <1>5, <3>1 DEF DeleteFinds
  <2> QED
    BY <1>2, <2>1, <2>2, <2>3 DEF RequestsFirst
<1>7. PendingMatches'
  BY <1>2, <1>4, <1>5 DEF PendingMatches, Expected, InHandEvent
<1>8. IdsPositive'
  BY <1>2, <1>4 DEF IdsPositive, workVars
<1> QED
  BY <1>5, <1>6, <1>7, <1>8

\* The id a request gets is in no route, in no message and in no event.
LEMMA IappAllocateLives ==
  ASSUME Calm, CalmInv, IappAllocate
  PROVE  Lives'
<1> USE DEF CalmInv, Lives, Living
<1> DEFINE p == [kind |-> imsg.kind, req |-> reqId, func |-> imsg.func]
<1>1. /\ ipc = "allocate" /\ ipc' = "forward" /\ newId' = reqId
      /\ pending' = pending \union {p} /\ timers' = timers \union {p}
      /\ UNCHANGED <<xappVars, toIapp, edge, toXapp, imsg, itodo, idel, map, nodeVars, rx,
                     workVars, regVars, fault>>
  BY DEF IappAllocate
<1>2. \A q : (Unheard(q)' <=> Unheard(q)) /\ (Unsent(q)' <=> Unsent(q))
  BY <1>1 DEF Unheard, Unsent
<1>3. UNCHANGED <<xreq, lid, xsubs, alive, failed, toNode, active>>
  BY <1>1 DEF nodeVars, xappVars
<1>4. /\ Present' /\ TokensAwaited' /\ TokensOnce' /\ WorkersSure' /\ AnswersEnd' /\ HeldServed'
      /\ StreamsRouted' /\ ControlsUnderWay' /\ fault' = "none" /\ Live' = Live /\ map' = map
      /\ \A t : /\ (UnderWay(t)' <=> UnderWay(t)) /\ (Somewhere(t)' <=> Somewhere(t))
                /\ (AtNode(t)' <=> AtNode(t)) /\ \A pcs : AtWorker(t, pcs)' <=> AtWorker(t, pcs)
  BY <1>1, <1>2, <1>3, IappFrame
<1>5. imsg \in Request /\ imsg.kind # "DEL" /\ served < MaxServed /\ served \in Nat
  BY <1>1, ReqIdAssumption DEF IdInv, TypeOK, TypeIapp, TypeRic
<1>6. reqId = FirstReqId + served /\ reqId > 0
  BY <1>5, ReqIdAssumption DEF IdInv, IdsGivenOnce, Calm
<1>7. RequestsFirst'
  <2>1. ASSUME NEW q \in Request, Unsent(q)', q.kind = "DEL"
        PROVE  DeleteFinds(q)'
    <3>1. DeleteFinds(q)
      BY <1>2, <2>1 DEF RequestsFirst
    <3> QED
      BY <1>1, <1>4, <3>1 DEF DeleteFinds
  <2> QED
    BY <1>1, <1>3, <1>5, <2>1 DEF RequestsFirst
<1>8. PendingMatches'
  <2>1. ASSUME NEW t \in Pending
        PROVE  InHandEvent(t)' <=> t = p
    BY <1>1 DEF InHandEvent
  <2>2. ASSUME NEW t \in Pending
        PROVE  ~InHandEvent(t)
    BY <1>1 DEF InHandEvent
  <2>5. p \in Pending => ~Expected(p)
    <3>1. p.req = reqId
      OBVIOUS
    <3> HIDE DEF p
    <3>2. SUFFICES ASSUME p \in Pending, Expected(p)
                   PROVE  FALSE
      OBVIOUS
    <3>3. Somewhere(p)
      BY <3>2 DEF Expected, Somewhere, UnderWay, AtWorker, Early
    <3>4. reqId < FirstReqId + served
      BY <3>1, <3>2, <3>3 DEF PastInv, TokensGiven
    <3> QED
      BY <1>5, <1>6, <3>4, ReqIdAssumption
  <2> HIDE DEF p
  <2>3. \A t \in Pending : t \in pending' <=> Expected(t) \/ t = p
    BY <1>1, <2>2 DEF PendingMatches
  <2>6. \A t : Expected(t)' <=> Expected(t)
    BY <1>1, <1>4 DEF Expected
  <2>4. \A t \in timers' : t \in pending' \/ AtWorker(t, {"close"})
    BY <1>1 DEF PendingMatches
  <2> QED
    BY <1>1, <1>4, <2>1, <2>3, <2>4, <2>5, <2>6 DEF PendingMatches
<1>9. IdsPositive'
  BY <1>1, <1>3, <1>6 DEF IdsPositive, workVars
<1> QED
  BY <1>4, <1>7, <1>8, <1>9

\* The route a delete asks for is the only one with its request and function.
LEMMA DeleteRoute ==
  ASSUME Calm, CalmInv, NEW m \in toIapp, m.kind = "DEL", ipc = "idle"
  PROVE  \E r \in map : /\ RoutesOfXappReq(m) = {r} /\ FirstRoute({r}) = r
                        /\ r.kind = "SUBS" /\ Requested(r, "DEL") = m /\ ~Somewhere(Token(r, "DEL"))
<1> USE DEF CalmInv, Lives, Living
<1>1. m \in Request /\ UsesOwn(m) /\ map \subseteq Route
  BY DEF IdInv, TypeOK, TypeMessages, TypeRic, OwnInv, OwnFunctions
<1>2. PICK r \in map : r.kind = "SUBS" /\ Requested(r, "DEL") = m /\ ~Somewhere(Token(r, "DEL"))
  BY <1>1 DEF RequestsFirst, Unsent, DeleteFinds
<1>3. r.xapp = m.xapp /\ r.id = m.id /\ r.func = m.func
  BY <1>2 DEF Requested
<1>4. r \in RoutesOfXappReq(m)
  BY <1>3 DEF RoutesOfXappReq, EqXappRicGenId
<1>5. ASSUME NEW s \in RoutesOfXappReq(m)
      PROVE  s = r
  <2>1. s \in map /\ s.id = m.id /\ s.func = m.func /\ UsesOwn(s)
    BY DEF RoutesOfXappReq, EqXappRicGenId, OwnInv, OwnFunctions
  <2>2. s.xapp \in XApps /\ m.xapp \in XApps
    BY <1>1, <2>1 DEF Request, Route
  <2>3. s.xapp = m.xapp
    BY <1>1, <2>1, <2>2 DEF Calm, DisjointUse, UsesOwn
  <2> QED
    BY <1>3, <2>1, <2>3 DEF IdInv, KeysUsedOnce, SameKey
<1>6. RoutesOfXappReq(m) = {r}
  BY <1>4, <1>5
<1>7. FirstRoute({r}) = r
  <2>1. {r} \in SUBSET Route /\ {r} # {}
    BY <1>1
  <2>2. FirstRoute({r}) \in {r}
    BY <2>1, FirstRouteFound
  <2> QED
    BY <2>2
<1> QED
  BY <1>2, <1>6, <1>7

\* The delete is read: its lookup finds the xApp's own route.
LEMMA IappReceiveDeleteLives ==
  ASSUME Calm, CalmInv, NEW m \in toIapp, IappReceiveDelete(m)
  PROVE  Lives'
<1> USE DEF CalmInv, Lives, Living
<1>1. ipc = "idle" /\ m.kind = "DEL" /\ m \in Request
  BY DEF IappReceiveDelete, IdInv, TypeOK, TypeMessages
<1>2. PICK r \in map : /\ RoutesOfXappReq(m) = {r} /\ FirstRoute({r}) = r
                       /\ r.kind = "SUBS" /\ Requested(r, "DEL") = m /\ ~Somewhere(Token(r, "DEL"))
  BY <1>1, DeleteRoute
<1>3. /\ toIapp' = toIapp \ {m} /\ imsg' = m /\ itodo' = {r} /\ ipc' = "delete"
      /\ UNCHANGED <<xappVars, toXapp, newId, idel, map, idVars, pendVars,
                     nodeVars, rx, workVars, regVars, fault>>
  BY <1>2 DEF IappReceiveDelete
<1>4. \A q : (Unheard(q)' <=> Unheard(q)) /\ (Unsent(q)' <=> Unsent(q))
  BY <1>1, <1>3 DEF Unheard, Unsent
<1>5. UNCHANGED <<xreq, lid, xsubs, alive, failed, toNode, active, pending, timers, newId>>
  BY <1>3 DEF nodeVars, pendVars, xappVars
<1>6. /\ Present' /\ TokensAwaited' /\ TokensOnce' /\ WorkersSure' /\ AnswersEnd' /\ HeldServed'
      /\ StreamsRouted' /\ ControlsUnderWay' /\ fault' = "none" /\ Live' = Live /\ map' = map
      /\ \A t : /\ (UnderWay(t)' <=> UnderWay(t)) /\ (Somewhere(t)' <=> Somewhere(t))
                /\ (AtNode(t)' <=> AtNode(t)) /\ \A pcs : AtWorker(t, pcs)' <=> AtWorker(t, pcs)
  BY <1>1, <1>3, <1>4, <1>5, IappFrame
<1>7. RequestsFirst'
  <2>1. \A q \in toIapp' : xreq'[q.xapp] = q
    BY <1>3, <1>5 DEF RequestsFirst
  <2>2. imsg' \in Request /\ xreq'[imsg'.xapp] = imsg' /\ imsg' \notin toIapp'
    BY <1>1, <1>3, <1>5 DEF RequestsFirst
  <2>3. ASSUME NEW q \in Request, Unsent(q)', q.kind = "DEL"
        PROVE  DeleteFinds(q)'
    <3>1. CASE q = m
      BY <1>2, <1>3, <1>6, <3>1 DEF DeleteFinds
    <3>2. CASE q # m
      <4>1. DeleteFinds(q)
        BY <1>4, <2>3 DEF RequestsFirst
      <4> QED
        BY <1>3, <1>6, <3>2, <4>1 DEF DeleteFinds
    <3> QED
      BY <3>1, <3>2
  <2> QED
    BY <1>1, <1>3, <2>1, <2>2, <2>3 DEF RequestsFirst
<1>8. PendingMatches'
  BY <1>1, <1>3, <1>5, <1>6 DEF PendingMatches, Expected, InHandEvent
<1>9. IdsPositive'
  BY <1>3, <1>5 DEF IdsPositive, workVars
<1> QED
  BY <1>6, <1>7, <1>8, <1>9

\* The iApp takes up that an xApp left when it has read all the xApp had sent.
LEMMA IappXappGoneLives ==
  ASSUME CalmInv, NEW x \in failed, IappXappGone(x)
  PROVE  Lives'
<1> USE DEF CalmInv, Lives, Living
<1>1. /\ ipc = "idle" /\ imsg = NoReq /\ imsg' = NoReq /\ x \notin alive
      /\ ipc' \in {"idle", "delete"} /\ failed' \subseteq failed
      /\ itodo' \subseteq map /\ \A r \in itodo' : r.kind = "SUBS" /\ r.xapp = x
      /\ \A m \in toIapp : m.xapp # x
      /\ UNCHANGED <<xreq, lid, xsubs, alive, toIapp, toXapp, newId, idel, map, idVars, pendVars,
                     nodeVars, rx, workVars, regVars, fault>>
  BY DEF IappXappGone, SubsOfXapp, Present, OwnInv, OwnDelete
<1>2. NoReq \notin Request
  BY NoReqAssumption
<1>3. \A q \in Request : (Unheard(q)' <=> Unheard(q)) /\ (Unsent(q)' <=> Unsent(q))
  BY <1>1, <1>2 DEF Unheard, Unsent
<1>4. UNCHANGED <<toNode, active, pending, timers, newId>>
  BY <1>1 DEF nodeVars, pendVars
<1>5. /\ Present' /\ TokensAwaited' /\ TokensOnce' /\ WorkersSure' /\ AnswersEnd' /\ HeldServed'
      /\ StreamsRouted' /\ ControlsUnderWay' /\ fault' = "none" /\ Live' = Live /\ map' = map
      /\ \A t : /\ (UnderWay(t)' <=> UnderWay(t)) /\ (Somewhere(t)' <=> Somewhere(t))
                /\ (AtNode(t)' <=> AtNode(t)) /\ \A pcs : AtWorker(t, pcs)' <=> AtWorker(t, pcs)
  BY <1>1, <1>3, <1>4, IappFrame
<1>6. RequestsFirst'
  <2>1. Reclaims'
    BY <1>1 DEF Reclaims
  <2>2. ASSUME NEW q \in Request, Unsent(q)', q.kind = "DEL"
        PROVE  DeleteFinds(q)'
    <3>1. DeleteFinds(q)
      BY <1>3, <2>2 DEF RequestsFirst
    <3> QED
      BY <1>1, <1>2, <1>5, <3>1 DEF DeleteFinds
  <2> QED
    BY <1>1, <1>2, <2>1, <2>2 DEF RequestsFirst
<1>7. PendingMatches'
  BY <1>1, <1>4, <1>5 DEF PendingMatches, Expected, InHandEvent
<1>8. IdsPositive'
  BY <1>1, <1>4 DEF IdsPositive, workVars
<1> QED
  BY <1>5, <1>6, <1>7, <1>8

\* The event of a delete is new: nothing of a delete an xApp asks for is under way,
\* and one that is pending already is not forwarded again.
LEMMA IappDeletePendLives ==
  ASSUME CalmInv, NEW r \in itodo, IappDeletePend(r)
  PROVE  Lives'
<1> USE DEF CalmInv, Lives, Living
<1>1. /\ ipc = "delete" /\ TypeOK /\ NoReq \notin Request
      /\ UNCHANGED <<xappVars, toIapp, edge, toXapp, newId, map, idVars, nodeVars, rx,
                     workVars, regVars, fault>>
      /\ UNCHANGED <<xreq, lid, xsubs, alive, failed, toNode, active>>
  BY NoReqAssumption DEF IappDeletePend, IdInv, nodeVars, xappVars
<1>2. r \in Route /\ Token(r, "DEL") \in Pending
  BY <1>1, TokenTypes DEF TypeOK, TypeIapp, Kinds
<1>3. \A t : ~InHandEvent(t)
  BY <1>1 DEF InHandEvent
<1>4. DeletePending(r) <=> Token(r, "DEL") \in pending
  BY DEF DeletePending, Token
<1>5. ASSUME imsg \in Request, imsg.kind = "DEL"
      PROVE  ~DeletePending(r)
  <2>1. DeleteFinds(imsg)
    BY <1>1, <1>5 DEF RequestsFirst, Unsent
  <2>2. ~Somewhere(Token(r, "DEL"))
    BY <1>1, <2>1 DEF DeleteFinds
  <2>3. ~Expected(Token(r, "DEL"))
    BY <2>2 DEF Expected, Somewhere, UnderWay, AtWorker, Early
  <2> QED
    BY <1>2, <1>3, <1>4, <2>3 DEF PendingMatches
<1>6. CASE DeletePending(r)
  <2>1. Reclaims
    BY <1>1, <1>5, <1>6 DEF RequestsFirst
  <2>2. /\ itodo' \subseteq itodo /\ ipc' \in {"idle", "delete"} /\ imsg = NoReq /\ imsg' = NoReq
        /\ UNCHANGED <<idel, pending, timers>>
    BY <1>6, <2>1 DEF IappDeletePend, DeleteNext, pendVars, Reclaims
  <2>3. \A q \in Request : (Unheard(q)' <=> Unheard(q)) /\ (Unsent(q)' <=> Unsent(q))
    BY <1>1, <2>2 DEF Unheard, Unsent
  <2>4. /\ Present' /\ TokensAwaited' /\ TokensOnce' /\ WorkersSure' /\ AnswersEnd' /\ HeldServed'
        /\ StreamsRouted' /\ ControlsUnderWay' /\ fault' = "none" /\ Live' = Live /\ map' = map
        /\ \A t : /\ (UnderWay(t)' <=> UnderWay(t)) /\ (Somewhere(t)' <=> Somewhere(t))
                  /\ (AtNode(t)' <=> AtNode(t)) /\ \A pcs : AtWorker(t, pcs)' <=> AtWorker(t, pcs)
    BY <1>1, <2>2, <2>3, IappFrame
  <2>5. RequestsFirst'
    <3>1. Reclaims'
      BY <1>1, <2>1, <2>2 DEF Reclaims
    <3>2. ASSUME NEW q \in Request, Unsent(q)', q.kind = "DEL"
          PROVE  DeleteFinds(q)'
      <4>1. DeleteFinds(q)
        BY <2>3, <3>2 DEF RequestsFirst
      <4> QED
        BY <1>1, <2>2, <2>4, <4>1 DEF DeleteFinds
    <3> QED
      BY <1>1, <2>2, <3>1, <3>2 DEF RequestsFirst
  <2>6. PendingMatches'
    BY <1>1, <2>2, <2>4 DEF PendingMatches, Expected, InHandEvent
  <2>7. IdsPositive'
    BY <1>1, <2>2 DEF IdsPositive, workVars
  <2> QED
    BY <2>4, <2>5, <2>6, <2>7
<1>7. CASE ~DeletePending(r)
  <2>1. /\ pending' = pending \union {Token(r, "DEL")} /\ timers' = timers \union {Token(r, "DEL")}
        /\ idel' = r /\ ipc' = "sendDelete" /\ UNCHANGED <<itodo, imsg>>
    BY <1>7 DEF IappDeletePend, Token
  <2>2. \A q : (Unheard(q)' <=> Unheard(q)) /\ (Unsent(q)' <=> Unsent(q))
    BY <1>1, <2>1 DEF Unheard, Unsent
  <2>3. /\ Present' /\ TokensAwaited' /\ TokensOnce' /\ WorkersSure' /\ AnswersEnd' /\ HeldServed'
        /\ StreamsRouted' /\ ControlsUnderWay' /\ fault' = "none" /\ Live' = Live /\ map' = map
        /\ \A t : /\ (UnderWay(t)' <=> UnderWay(t)) /\ (Somewhere(t)' <=> Somewhere(t))
                  /\ (AtNode(t)' <=> AtNode(t)) /\ \A pcs : AtWorker(t, pcs)' <=> AtWorker(t, pcs)
    BY <1>1, <2>1, <2>2, IappFrame
  <2>4. RequestsFirst'
    <3>1. ASSUME NEW q \in Request, Unsent(q)', q.kind = "DEL"
          PROVE  DeleteFinds(q)'
      <4>1. DeleteFinds(q)
        BY <2>2, <3>1 DEF RequestsFirst
      <4> QED
        BY <1>1, <2>1, <2>3, <4>1 DEF DeleteFinds
    <3>2. Reclaims => Reclaims'
      BY <1>1, <2>1 DEF Reclaims
    <3> QED
      BY <1>1, <2>1, <3>1, <3>2 DEF RequestsFirst
  <2>5. PendingMatches'
    <3>1. \A t : InHandEvent(t)' <=> t = Token(r, "DEL")
      BY <2>1 DEF InHandEvent, Token
    <3>2. \A t : Expected(t)' <=> Expected(t)
      BY <1>1, <2>3 DEF Expected
    <3>3. ~Expected(Token(r, "DEL"))
      BY <1>2, <1>4, <1>7 DEF PendingMatches
    <3>4. \A t \in Pending : t \in pending' <=> Expected(t) \/ t = Token(r, "DEL")
      BY <1>3, <2>1 DEF PendingMatches
    <3>5. \A t \in timers' : t \in pending' \/ AtWorker(t, {"close"})
      BY <2>1 DEF PendingMatches
    <3> QED
      BY <2>3, <3>1, <3>2, <3>3, <3>4, <3>5 DEF PendingMatches
  <2>6. IdsPositive'
    BY <1>1, <2>1 DEF IdsPositive, workVars
  <2> QED
    BY <2>3, <2>4, <2>5, <2>6
<1> QED
  BY <1>6, <1>7

\* A message that is sent when its answer is not expected is in one place; what a
\* worker still handles of an earlier one is of a route whose xApp left.
LEMMA SendFrame ==
  ASSUME CalmInv, NEW m \in ToNode, toNode' = toNode \union {m}, ~Expected(PendingOf(m)),
         AtWorker(PendingOf(m), Busy) => Again(PendingOf(m))',
         \A t \in Pending : Somewhere(t) /\ Again(t) => Again(t)',
         UNCHANGED <<rx, workVars>>
  PROVE  /\ TokensOnce'
         /\ \A t : /\ UnderWay(t)' <=> UnderWay(t) \/ t = PendingOf(m)
                   /\ Somewhere(t)' <=> Somewhere(t) \/ t = PendingOf(m)
                   /\ AtNode(t)' <=> AtNode(t) \/ t = PendingOf(m)
                   /\ \A pcs : AtWorker(t, pcs)' <=> AtWorker(t, pcs)
<1> USE DEF CalmInv, Lives, Living, workVars
<1>1. \A t : /\ AtNode(t)' <=> AtNode(t) \/ t = PendingOf(m)
             /\ \A pcs : AtWorker(t, pcs)' <=> AtWorker(t, pcs)
  BY DEF AtNode, AtWorker
<1>2. \A t : /\ UnderWay(t)' <=> UnderWay(t) \/ t = PendingOf(m)
             /\ Somewhere(t)' <=> Somewhere(t) \/ t = PendingOf(m)
  BY <1>1 DEF UnderWay, Somewhere
<1>3. ~AtNode(PendingOf(m)) /\ PendingOf(m) \notin rx /\ ~AtWorker(PendingOf(m), {"stop"})
  BY DEF Expected
<1>4. TypeOK
  BY DEF IdInv
<1>5. \A p, q \in toNode' : PendingOf(p) = PendingOf(q) => p = q
  BY <1>3 DEF TokensOnce, AtNode
<1>6. ASSUME NEW p \in toNode', NEW t, t = PendingOf(p)
      PROVE  t \notin rx' /\ ~AtWorker(t, {"stop"})' /\ (AtWorker(t, Busy)' => Again(t)')
  <2>1. CASE p = m
    BY <1>1, <1>3, <1>6, <2>1
  <2>2. CASE p \in toNode
    <3>1. t \in Pending /\ Somewhere(t)
      BY <1>4, <1>6, <2>2, TokenTypes DEF Somewhere, UnderWay, AtNode
    <3>2. t \notin rx /\ ~AtWorker(t, {"stop"}) /\ (AtWorker(t, Busy) => Again(t))
      BY <1>6, <2>2 DEF TokensOnce
    <3> QED
      BY <1>1, <3>1, <3>2
  <2> QED
    BY <2>1, <2>2
<1>7. ASSUME NEW w \in Workers, wpc[w] # "idle", wmsg[w].kind \in Kinds, Again(wmsg[w])
      PROVE  Again(wmsg[w])'
  <2>1. wmsg[w] \in Pending
    BY <1>4, <1>7, TokenTypes
  <2>2. Somewhere(wmsg[w])
    <3>1. wpc[w] \in Busy
      BY <1>4, <1>7 DEF TypeOK, TypeWorkers, Busy, Early
    <3> QED
      BY <3>1 DEF Somewhere, UnderWay, AtWorker, Busy
  <2>3. PICK t \in Pending : t = wmsg[w]
    BY <2>1
  <2>4. Again(t)'
    BY <1>7, <2>2, <2>3
  <2> QED
    BY <2>3, <2>4
<1>8. ASSUME NEW w \in Workers, wpc[w] # "idle", wmsg[w].kind \in Kinds
      PROVE  /\ wmsg[w] \in rx => wpc[w] # "stop" /\ Again(wmsg[w])'
             /\ \A v \in Workers : wpc[v] # "idle" /\ wmsg[v] = wmsg[w] =>
                  v = w \/ (Again(wmsg[w])' /\ ~(wpc[v] = "stop" /\ wpc[w] = "stop"))
  BY <1>7, <1>8 DEF TokensOnce
<1>9. TokensOnce'
  <2>1. \A p \in toNode' : LET t == PendingOf(p)
                           IN  t \notin rx' /\ ~AtWorker(t, {"stop"})' /\ (AtWorker(t, Busy)' => Again(t)')
    BY <1>6
  <2>2. UNCHANGED <<rx, wpc, wmsg>>
    OBVIOUS
  <2>3. ASSUME NEW w \in Workers, wpc'[w] # "idle", wmsg'[w].kind \in Kinds
        PROVE  /\ wmsg'[w] \in rx' => wpc'[w] # "stop" /\ Again(wmsg[w])'
               /\ \A v \in Workers : wpc'[v] # "idle" /\ wmsg'[v] = wmsg'[w] =>
                    v = w \/ (Again(wmsg[w])' /\ ~(wpc'[v] = "stop" /\ wpc'[w] = "stop"))
    BY <1>8, <2>2, <2>3
  <2> QED
    BY <1>5, <2>1, <2>3 DEF TokensOnce
<1> QED
  BY <1>1, <1>2, <1>9

\* The request is sent: it has its route from now on, and its answer waits for the lock.
LEMMA IappForwardLives ==
  ASSUME CalmInv, IdInv', IappForward
  PROVE  Lives'
<1> USE DEF CalmInv, Lives, Living
<1> DEFINE m == [kind |-> imsg.kind, req |-> newId, func |-> imsg.func, node |-> imsg.node]
           new == [kind |-> imsg.kind, req |-> newId, node |-> imsg.node, xapp |-> imsg.xapp,
                   id |-> imsg.id, func |-> imsg.func]
<1>1. /\ ipc = "forward" /\ imsg \in Request /\ imsg.kind \in Kinds /\ imsg.kind # "DEL"
      /\ newId \in ReqIds /\ imsg \in InHand /\ TypeOK
  BY DEF IappForward, IdInv, TypeOK, TypeIapp, InHand, Request
<1>2. /\ toNode' = toNode \union {m} /\ ipc' = "addMap"
      /\ UNCHANGED <<xappVars, toIapp, edge, toXapp, imsg, newId, itodo, idel, map,
                     idVars, pendVars, active, inds, rx, workVars, regVars, fault>>
  BY <1>1 DEF IappForward, Present, Request
<1>3. Live = map /\ Live' = map \union {new} /\ RouteBeingAdded = {}
  BY <1>1, <1>2 DEF Live, RouteBeingAdded
<1>4. /\ m \in ToNode /\ PendingOf(m) \in Pending
      /\ PendingOf(m) = [kind |-> imsg.kind, req |-> newId, func |-> imsg.func]
  BY <1>1 DEF Request, ToNode, PendingOf, Pending
<1>5. /\ new \in Route /\ new.req = newId /\ SameKey(new, imsg) /\ new.kind = imsg.kind
      /\ new.node = imsg.node /\ new.xapp = imsg.xapp /\ new.func = imsg.func
      /\ Requested(new, imsg.kind) = imsg /\ OfRoute(PendingOf(m), new)
      /\ Token(new, imsg.kind) = PendingOf(m)
  BY <1>1, <1>4 DEF Request, Route, Kinds, SameKey, Requested, OfRoute, Token
<1>6. /\ m.node = imsg.node /\ m.req = newId /\ PendingOf(m).kind = imsg.kind /\ PendingOf(m).req = newId
  BY <1>4
<1>7. xreq[imsg.xapp] = imsg /\ UNCHANGED <<xreq, alive>> /\ \A r \in map : r.req # newId /\ ~SameKey(r, new)
  BY <1>1, <1>2, <1>5 DEF RequestsFirst, xappVars, IdInv, IdsGivenOnce, KeysUsedOnce, SameKey
<1> HIDE DEF m, new
<1>8. \A t \in Pending : t.req = newId => ~Somewhere(t) /\ ~UnderWay(t)
  BY <1>1 DEF PastInv, TokensGiven, Somewhere
<1>20. /\ ~Somewhere(PendingOf(m)) /\ ~Expected(PendingOf(m)) /\ ~AtWorker(PendingOf(m), Busy)
  <2>1. ~Somewhere(PendingOf(m))
    BY <1>4, <1>6, <1>8
  <2> QED
    BY <2>1 DEF Somewhere, UnderWay, Expected, AtWorker, Busy, Early
<1>21. \A t \in Pending : Somewhere(t) /\ Again(t) => Again(t)'
  BY <1>3, <1>5, <1>7, <1>8 DEF Again
<1>9. /\ TokensOnce'
      /\ \A t : /\ UnderWay(t)' <=> UnderWay(t) \/ t = PendingOf(m)
                /\ Somewhere(t)' <=> Somewhere(t) \/ t = PendingOf(m)
                /\ AtNode(t)' <=> AtNode(t) \/ t = PendingOf(m)
                /\ \A pcs : AtWorker(t, pcs)' <=> AtWorker(t, pcs)
  BY <1>2, <1>4, <1>20, <1>21, SendFrame
<1>10. UNCHANGED <<active, rx, wpc, wmsg, wdst, map, pending, timers>>
  BY <1>2 DEF workVars, pendVars
<1>11. TokensAwaited'
  <2>1. ASSUME NEW t \in Pending, UnderWay(t)'
        PROVE  Stray(t)' \/ \E r \in Live' : Awaited(t, r)'
    <3>1. CASE t = PendingOf(m)
      BY <1>3, <1>5, <1>6, <1>7, <3>1 DEF Awaited
    <3>2. CASE UnderWay(t) /\ t # PendingOf(m) /\ Stray(t)
      <4>1. t.req # newId
        BY <1>8, <3>2
      <4> QED
        BY <1>3, <1>5, <1>7, <1>9, <3>2, <4>1 DEF Stray
    <3>3. CASE UnderWay(t) /\ ~Stray(t)
      BY <1>3, <1>7, <3>3 DEF TokensAwaited, Awaited
    <3> QED
      BY <1>9, <2>1, <3>1, <3>2, <3>3
  <2>2. ASSUME NEW q \in toNode', NEW r \in Live', r.req = q.req
        PROVE  r.node = q.node
    <3>1. q \in toNode => PendingOf(q) \in Pending /\ PendingOf(q).req = q.req /\ UnderWay(PendingOf(q))
      BY <1>1, TokenTypes DEF PendingOf, UnderWay, AtNode
    <3>2. CASE q = m
      BY <1>3, <1>5, <1>6, <1>7, <2>2, <3>2
    <3>3. CASE q \in toNode
      <4>1. q.req # newId
        BY <1>8, <3>1, <3>3
      <4>2. r \in Live
        BY <1>3, <1>5, <2>2, <4>1
      <4> QED
        BY <2>2, <3>3, <4>2 DEF TokensAwaited
    <3> QED
      BY <1>2, <3>2, <3>3
  <2> QED
    BY <2>1, <2>2 DEF TokensAwaited
<1>12. Present' /\ WorkersSure' /\ fault' = "none"
  BY <1>2, <1>7, <1>10 DEF Present, WorkersSure, WorkerSure, xappVars, regVars
<1>13. RequestsFirst'
  <2>1. \A q \in toIapp' : xreq'[q.xapp] = q
    BY <1>2, <1>7 DEF RequestsFirst
  <2>2. imsg \notin toIapp
    BY <1>1 DEF RequestsFirst
  <2>3. ASSUME NEW q \in Request, Unsent(q)', q.kind = "DEL"
        PROVE  DeleteFinds(q)'
    <3>1. q \in toIapp /\ q # imsg
      BY <1>1, <1>2, <2>2, <2>3 DEF Unsent
    <3>2. PICK r \in map : r.kind = "SUBS" /\ Requested(r, "DEL") = q /\ ~Somewhere(Token(r, "DEL"))
      BY <2>3, <3>1 DEF RequestsFirst, Unsent, DeleteFinds
    <3>3. Token(r, "DEL") # PendingOf(m)
      BY <1>6, <1>7, <3>2 DEF Token
    <3> QED
      BY <1>2, <1>9, <1>10, <3>2, <3>3 DEF DeleteFinds
  <2> QED
    BY <1>1, <1>2, <1>7, <2>1, <2>2, <2>3 DEF RequestsFirst
<1>14. AnswersEnd'
  <2>1. ASSUME NEW a \in toXapp, a.kind \in Kinds
        PROVE  Answers(a) /\ ~Unheard(xreq[a.xapp]) /\ ~SameKey(new, a)
    <3>1. Answers(a) /\ ~Unheard(xreq[a.xapp])
      BY <2>1 DEF AnswersEnd
    <3>2. xreq[a.xapp] # imsg
      BY <1>1, <3>1 DEF Unheard
    <3> QED
      BY <1>5, <1>7, <3>1, <3>2 DEF SameKey
  <2>2. ASSUME NEW a \in toXapp, a.kind \in Kinds, NEW r \in Live', SameKey(r, a)
        PROVE  ~UnderWay(Token(r, a.kind))'
    <3>1. r \in map
      BY <1>3, <2>1, <2>2
    <3>2. Token(r, a.kind) # PendingOf(m)
      BY <1>6, <1>7, <3>1 DEF Token
    <3>3. ~UnderWay(Token(r, a.kind))
      BY <1>3, <2>2, <3>1 DEF AnswersEnd
    <3> QED
      BY <1>9, <3>2, <3>3
  <2>3. \A q : Unheard(q)' <=> Unheard(q)
    BY <1>1, <1>2 DEF Unheard
  <2>4. ASSUME NEW a \in toXapp, a.kind \in Kinds
        PROVE  Answers(a)' /\ ~Unheard(xreq[a.xapp])'
    BY <1>1, <1>2, <1>7, <2>1, <2>4 DEF Answers, Unheard
  <2> QED
    BY <1>2, <1>7, <1>10, <2>2, <2>4 DEF AnswersEnd
<1>15. HeldServed'
  <2>1. ASSUME NEW r \in map
        PROVE  Somewhere(Token(r, "DEL"))' <=> Somewhere(Token(r, "DEL"))
    <3>1. Token(r, "DEL") # PendingOf(m)
      BY <1>6, <1>7 DEF Token
    <3> QED
      BY <1>9, <3>1
  <2>2. UNCHANGED <<xreq, xsubs, lid, alive>>
    BY <1>2 DEF xappVars
  <2> QED
    BY <1>10, <2>1, <2>2 DEF HeldServed
<1>16. StreamsRouted'
  <2>1. \A n \in Nodes : \A s \in active'[n] : \E r \in Live' : r.kind = "SUBS" /\ Sub(r) = s /\ r.node = n
    BY <1>3, <1>10 DEF StreamsRouted
  <2>2. ASSUME NEW k \in Kinds
        PROVE  /\ Token(new, k) \notin rx /\ ~AtWorker(Token(new, k), Busy)
               /\ ~AtWorker(Token(new, k), Early)
    <3>1. Token(new, k) \in Pending /\ Token(new, k).req = newId
      BY <1>1, <1>5, TokenTypes
    <3> QED
      BY <1>8, <3>1 DEF Somewhere, UnderWay, AtWorker, Busy
  <2>3. ASSUME NEW r \in Live'
        PROVE  /\ Token(r, "DEL") \in rx \/ AtWorker(Token(r, "DEL"), Busy) =>
                    Sub(r) \notin active[r.node] /\ ~AtNode(Token(r, "SUBS"))'
               /\ Token(r, "SUBS") \in rx \/ AtWorker(Token(r, "SUBS"), Early) =>
                    r.xapp \notin alive \/ Sub(r) \in active[r.node]
    <3>1. CASE r = new
      BY <2>2, <3>1 DEF Kinds
    <3>2. CASE r \in map
      <4>1. Token(r, "SUBS") # PendingOf(m)
        BY <1>6, <1>7, <3>2 DEF Token
      <4> QED
        BY <1>3, <1>9, <3>2, <4>1 DEF StreamsRouted
    <3> QED
      BY <1>3, <3>1, <3>2
  <2> QED
    BY <1>7, <1>9, <1>10, <2>1, <2>3 DEF StreamsRouted
<1>17. PendingMatches'
  <2>1. \A t : InHandEvent(t) <=> t = PendingOf(m)
    BY <1>1, <1>4 DEF InHandEvent
  <2>2. \A t : ~InHandEvent(t)'
    BY <1>2 DEF InHandEvent
  <2>3. \A t : Expected(t)' <=> Expected(t) \/ t = PendingOf(m)
    BY <1>9, <1>10 DEF Expected
  <2> QED
    BY <1>9, <1>10, <2>1, <2>2, <2>3 DEF PendingMatches
<1>18. ControlsUnderWay'
  BY <1>3, <1>5, <1>9 DEF ControlsUnderWay
<1>19. IdsPositive'
  <2>1. m.req > 0 /\ UNCHANGED itodo
    BY <1>1, <1>2, <1>6 DEF IdsPositive
  <2> QED
    BY <1>1, <1>2, <1>10, <2>1 DEF IdsPositive
<1> QED
  BY <1>9, <1>11, <1>12, <1>13, <1>14, <1>15, <1>16, <1>17, <1>18, <1>19

\* The route enters the map; nothing else moves.
LEMMA IappAddMapLives ==
  ASSUME CalmInv, IappAddMap
  PROVE  Lives'
<1> USE DEF CalmInv, Lives, Living
<1> DEFINE new == [kind |-> imsg.kind, req |-> newId, node |-> imsg.node, xapp |-> imsg.xapp,
                   id |-> imsg.id, func |-> imsg.func]
<1>1. /\ ipc = "addMap" /\ imsg \in Request /\ imsg.kind # "DEL" /\ newId > 0
      /\ xreq[imsg.xapp] = imsg /\ imsg \notin toIapp /\ RoutesOfReq(newId) = {} /\ NoReq \notin Request
  BY NoReqAssumption DEF IappAddMap, IdInv, TypeOK, TypeIapp, RequestsFirst, IdsPositive,
     IdsGivenOnce, RoutesOfReq
<1>2. /\ map' = map \union {new} /\ ipc' = "idle" /\ imsg' = NoReq /\ newId' = NoReq
      /\ UNCHANGED <<xappVars, toIapp, edge, toXapp, itodo, idel, idVars, pendVars,
                     nodeVars, rx, workVars, regVars, fault>>
  BY <1>1 DEF IappAddMap
<1>3. Live' = Live /\ Live = map \union {new}
  BY <1>1, <1>2 DEF Live, RouteBeingAdded
<1>4. new.req = newId /\ SameKey(new, imsg) /\ new.kind = imsg.kind
  BY DEF SameKey
<1> HIDE DEF new
<1>5. UNCHANGED <<xreq, lid, xsubs, alive, toNode, active, rx, wpc, wmsg, wdst, pending, timers>>
  BY <1>2 DEF xappVars, nodeVars, workVars, pendVars
<1>6. \A t : /\ (AtNode(t)' <=> AtNode(t)) /\ \A pcs : AtWorker(t, pcs)' <=> AtWorker(t, pcs)
  BY <1>5 DEF AtNode, AtWorker
<1>7. \A t : (UnderWay(t)' <=> UnderWay(t)) /\ (Somewhere(t)' <=> Somewhere(t))
  BY <1>5, <1>6 DEF UnderWay, Somewhere
<1>8. Present' /\ fault' = "none"
  BY <1>2 DEF Present, xappVars, regVars
<1>17. \A t : (Stray(t)' <=> Stray(t)) /\ (Again(t)' <=> Again(t))
  BY <1>3, <1>5, <1>6 DEF Stray, Again
<1>9. TokensAwaited' /\ TokensOnce'
  BY <1>3, <1>5, <1>6, <1>7, <1>17 DEF TokensAwaited, Awaited, TokensOnce
<1>10. WorkersSure'
  BY <1>2, <1>5 DEF WorkersSure, WorkerSure
<1>11. StreamsRouted' /\ ControlsUnderWay'
  BY <1>3, <1>5, <1>6, <1>7 DEF StreamsRouted, ControlsUnderWay
<1>12. HeldServed'
  BY <1>2, <1>5, <1>7 DEF HeldServed
<1>13. RequestsFirst'
  <2>1. ASSUME NEW q \in Request, Unsent(q)', q.kind = "DEL"
        PROVE  DeleteFinds(q)'
    <3>1. Unsent(q)
      BY <1>2, <2>1 DEF Unsent
    <3>2. DeleteFinds(q)
      BY <2>1, <3>1 DEF RequestsFirst
    <3> QED
      BY <1>2, <1>7, <3>2 DEF DeleteFinds
  <2>2. \A q \in toIapp' : xreq'[q.xapp] = q
    BY <1>2, <1>5 DEF RequestsFirst
  <2> QED
    BY <1>1, <1>2, <2>1, <2>2 DEF RequestsFirst
<1>14. AnswersEnd'
  <2>1. ASSUME NEW a \in toXapp, a.kind \in Kinds
        PROVE  Answers(a)' /\ ~Unheard(xreq[a.xapp])'
    <3>1. Answers(a) /\ ~Unheard(xreq[a.xapp])
      BY <2>1 DEF AnswersEnd
    <3> QED
      BY <1>2, <1>5, <3>1 DEF Answers, Unheard
  <2>2. ASSUME NEW a \in toXapp, a.kind \in Kinds
        PROVE  ~SameKey(new, a)
    <3>1. Answers(a) /\ xreq[a.xapp] # imsg
      BY <1>1, <2>2 DEF AnswersEnd, Unheard
    <3> QED
      BY <1>1, <1>4, <3>1 DEF SameKey
  <2>3. ASSUME NEW a \in toXapp, a.kind \in Kinds, NEW r \in Live', SameKey(r, a)
        PROVE  ~UnderWay(Token(r, a.kind))'
    BY <1>3, <1>7, <2>3 DEF AnswersEnd
  <2>4. ASSUME NEW a \in toXapp, a.kind = "DEL", NEW r \in map', SameKey(r, a)
        PROVE  Sub(r) \notin active[r.node]
    BY <1>2, <2>2, <2>4 DEF AnswersEnd, Kinds
  <2>5. ASSUME NEW a \in toXapp, a.kind = "SUBS"
        PROVE  \E r \in map' : /\ r.kind = "SUBS" /\ Requested(r, "SUBS") = xreq[a.xapp]
                               /\ Sub(r) \in active[r.node]
    BY <1>2, <2>5 DEF AnswersEnd, Kinds
  <2> QED
    BY <1>2, <1>5, <2>1, <2>3, <2>4, <2>5 DEF AnswersEnd
<1>15. PendingMatches'
  <2>1. \A t : ~InHandEvent(t) /\ ~InHandEvent(t)'
    BY <1>1, <1>2 DEF InHandEvent
  <2> QED
    BY <1>5, <1>6, <2>1 DEF PendingMatches, Expected
<1>16. IdsPositive'
  BY <1>1, <1>2, <1>4, <1>5 DEF IdsPositive, iappVars
<1> QED
  BY <1>8, <1>9, <1>10, <1>11, <1>12, <1>13, <1>14, <1>15, <1>16

\* The delete is sent when no answer to it is expected: its xApp waits for it and asks
\* no other meanwhile, or left.
LEMMA IappSendDeleteLives ==
  ASSUME CalmInv, IappSendDelete
  PROVE  Lives'
<1> USE DEF CalmInv, Lives, Living
<1> DEFINE m == [kind |-> "DEL", req |-> idel.req, func |-> idel.func, node |-> idel.node]
<1>1. /\ ipc = "sendDelete" /\ NoReq \notin Request /\ TypeOK
      /\ Reclaims \/ (imsg \in Request /\ imsg.kind = "DEL")
  BY NoReqAssumption DEF IappSendDelete, RequestsFirst, IdInv
<1>2. PICK r \in itodo : r = idel
  BY <1>1 DEF RequestsFirst
<1>3. /\ r \in Route /\ r \in Held /\ \A s \in Live : s.req = r.req \/ SameKey(s, r) => s = r
  <2>1. r \in Held
    BY <1>1, <1>2 DEF Held
  <2> QED
    BY <2>1, HeldIsLive DEF PastInv
<1>4. ASSUME imsg \in Request, imsg.kind = "DEL"
      PROVE  /\ imsg \notin toIapp /\ xreq[imsg.xapp] = imsg /\ itodo = {r}
             /\ r \in map /\ r.kind = "SUBS" /\ Requested(r, "DEL") = imsg /\ ~Somewhere(Token(r, "DEL"))
             /\ r.xapp = imsg.xapp /\ r.id = imsg.id
  BY <1>1, <1>2, <1>4 DEF RequestsFirst, Unsent, DeleteFinds, Requested
<1>5. /\ toNode' = toNode \union {m} /\ itodo' \subseteq itodo /\ ipc' \in {"idle", "delete"}
      /\ imsg' = NoReq /\ idel' = NoNode /\ (imsg # NoReq => ipc' = "idle")
      /\ UNCHANGED <<xappVars, toIapp, edge, toXapp, newId, map, idVars, pendVars,
                     active, inds, rx, workVars, regVars, fault>>
  <2>1. idel.node \in sockAddrs
    BY <1>2, <1>3 DEF Present, Route
  <2>2. imsg # NoReq => itodo = {r}
    BY <1>1, <1>4 DEF Reclaims
  <2> QED
    BY <1>2, <2>1, <2>2 DEF IappSendDelete, DeleteNext
<1>6. /\ m \in ToNode /\ m.req = r.req /\ m.node = r.node
      /\ PendingOf(m) = Token(r, "DEL") /\ Token(r, "DEL") \in Pending
  BY <1>1, <1>2, <1>3, TokenTypes DEF Route, ToNode, PendingOf, Token, Kinds
<1> HIDE DEF m
<1> DEFINE del == Token(r, "DEL")
<1>7. UNCHANGED <<xreq, lid, xsubs, alive, failed, active, rx, wpc, wmsg, wdst, map, pending, timers>>
  BY <1>5 DEF xappVars, workVars, pendVars
<1>8. Live' = Live /\ Live = map
  BY <1>1, <1>5, <1>7 DEF Live, RouteBeingAdded
<1>9. \A s \in Live : \A k \in Kinds : Token(s, k) = del <=> s = r /\ k = "DEL"
  BY <1>3, LiveRoutes DEF Token
<1>10. del \in Pending /\ del.kind = "DEL" /\ del.req = r.req /\ del.func = r.func
  BY <1>6 DEF Token
<1>11. \A t : InHandEvent(t) <=> t = del
  BY <1>1, <1>2 DEF InHandEvent
<1>12. Reclaims => r.kind = "SUBS" /\ r.xapp \notin alive /\ alive # XApps /\ \A q \in toIapp : q.xapp # r.xapp
  BY <1>2, <1>3 DEF Reclaims, Route
<1> HIDE DEF del
<1>13. ~Expected(del)
  BY <1>10, <1>11 DEF PendingMatches
<1>14. AtWorker(del, Busy) => Again(del)'
  <2>1. CASE Reclaims
    BY <1>3, <1>7, <1>8, <1>10, <1>12, <2>1 DEF Again
  <2>2. CASE imsg \in Request /\ imsg.kind = "DEL"
    BY <1>4, <2>2 DEF Somewhere, UnderWay, AtWorker, Busy, del
  <2> QED
    BY <1>1, <2>1, <2>2
<1>15. \A t : Again(t) => Again(t)'
  BY <1>7, <1>8 DEF Again
<1>16. /\ TokensOnce'
       /\ \A t : /\ UnderWay(t)' <=> UnderWay(t) \/ t = del
                 /\ Somewhere(t)' <=> Somewhere(t) \/ t = del
                 /\ AtNode(t)' <=> AtNode(t) \/ t = del
                 /\ \A pcs : AtWorker(t, pcs)' <=> AtWorker(t, pcs)
  BY <1>5, <1>6, <1>13, <1>14, <1>15, SendFrame DEF del
<1>17. Present' /\ WorkersSure' /\ fault' = "none"
  BY <1>5, <1>7 DEF Present, WorkersSure, WorkerSure, regVars
<1>18. TokensAwaited'
  <2>1. ASSUME NEW t \in Pending, UnderWay(t)'
        PROVE  Stray(t)' \/ \E s \in Live' : Awaited(t, s)'
    <3>1. CASE t = del
      <4>1. CASE Reclaims
        <5>1. OfRoute(del, r)
          BY <1>10, <1>12, <4>1 DEF OfRoute
        <5>2. \A s \in Live' : s.req = t.req => t.kind = "DEL" /\ OfRoute(t, s) /\ s.xapp \notin alive'
          BY <1>3, <1>7, <1>8, <1>10, <1>12, <3>1, <4>1, <5>1
        <5> QED
          BY <1>7, <1>10, <1>12, <3>1, <4>1, <5>2 DEF Stray
      <4>2. CASE imsg \in Request /\ imsg.kind = "DEL"
        BY <1>4, <1>7, <1>8, <1>10, <3>1, <4>2 DEF Awaited, OfRoute
      <4> QED
        BY <1>1, <4>1, <4>2
    <3>2. CASE UnderWay(t) /\ t # del /\ Stray(t)
      BY <1>7, <1>8, <1>16, <3>2 DEF Stray
    <3>3. CASE UnderWay(t) /\ ~Stray(t)
      BY <1>7, <1>8, <3>3 DEF TokensAwaited, Awaited
    <3> QED
      BY <1>16, <2>1, <3>1, <3>2, <3>3
  <2>2. ASSUME NEW q \in toNode', NEW s \in Live', s.req = q.req
        PROVE  s.node = q.node
    <3>1. CASE q = m
      BY <1>3, <1>6, <1>8, <2>2, <3>1
    <3>2. CASE q \in toNode
      BY <1>8, <2>2, <3>2 DEF TokensAwaited
    <3> QED
      BY <1>5, <3>1, <3>2
  <2> QED
    BY <2>1, <2>2 DEF TokensAwaited
<1>19. RequestsFirst'
  <2>1. \A q \in toIapp' : xreq'[q.xapp] = q
    BY <1>5, <1>7 DEF RequestsFirst
  <2>2. ASSUME NEW q \in Request, Unsent(q)', q.kind = "DEL"
        PROVE  DeleteFinds(q)'
    <3>1. q \in toIapp
      BY <1>1, <1>5, <2>2 DEF Unsent
    <3>2. PICK s \in map : s.kind = "SUBS" /\ Requested(s, "DEL") = q /\ ~Somewhere(Token(s, "DEL"))
      BY <2>2, <3>1 DEF RequestsFirst, Unsent, DeleteFinds
    <3>3. s # r
      <4>1. s.xapp = q.xapp
        BY <3>2 DEF Requested
      <4> QED
        BY <1>1, <1>4, <1>12, <3>1, <3>2, <4>1
    <3>4. Token(s, "DEL") # del
      BY <1>8, <1>9, <3>3 DEF Kinds
    <3> QED
      BY <1>1, <1>5, <1>7, <1>16, <3>2, <3>4 DEF DeleteFinds
  <2>3. ipc' = "delete" => Reclaims'
    <3>1. ipc' = "delete" => Reclaims
      BY <1>1, <1>5
    <3> QED
      BY <1>5, <1>7, <3>1 DEF Reclaims
  <2> QED
    BY <1>1, <1>5, <2>1, <2>2, <2>3 DEF RequestsFirst
<1>20. AnswersEnd'
  <2>1. ASSUME NEW a \in toXapp, a.kind \in Kinds
        PROVE  a.xapp \in alive /\ Answers(a) /\ ~Unheard(xreq[a.xapp]) /\ a.xapp # r.xapp
    <3>1. a.xapp \in alive /\ Answers(a) /\ ~Unheard(xreq[a.xapp])
      BY <2>1 DEF AnswersEnd
    <3> QED
      BY <1>1, <1>4, <1>12, <3>1 DEF Unheard
  <2>2. ASSUME NEW a \in toXapp, a.kind \in Kinds, NEW s \in Live', SameKey(s, a)
        PROVE  ~UnderWay(Token(s, a.kind))'
    <3>1. Token(s, a.kind) # del
      BY <1>8, <1>9, <2>1, <2>2 DEF SameKey
    <3>2. ~UnderWay(Token(s, a.kind))
      BY <1>8, <2>2 DEF AnswersEnd
    <3> QED
      BY <1>16, <3>1, <3>2
  <2>3. ASSUME NEW a \in toXapp, a.kind \in Kinds
        PROVE  Answers(a)' /\ ~Unheard(xreq[a.xapp])'
    <3>1. xreq[a.xapp] # NoReq /\ Answers(a) /\ ~Unheard(xreq[a.xapp])
      BY <2>1, <2>3 DEF Answers
    <3> QED
      BY <1>5, <1>7, <3>1 DEF Answers, Unheard
  <2> QED
    BY <1>5, <1>7, <2>1, <2>2, <2>3 DEF AnswersEnd
<1>21. HeldServed'
  <2>1. ASSUME NEW x \in alive, NEW s \in xsubs[x], xreq[x] = NoReq \/ xreq[x].id # s.id
        PROVE  \E q \in map : /\ q.kind = "SUBS" /\ Requested(q, "SUBS") = s
                              /\ Sub(q) \in active[q.node] /\ ~Somewhere(Token(q, "DEL"))'
    <3>1. x \in XApps
      BY <1>1 DEF TypeOK, TypeXapps
    <3>2. PICK q \in map : /\ q.kind = "SUBS" /\ Requested(q, "SUBS") = s
                           /\ Sub(q) \in active[q.node] /\ ~Somewhere(Token(q, "DEL"))
      BY <2>1, <3>1 DEF HeldServed
    <3>3. q # r
      <4>1. s.xapp = x /\ s.xapp = q.xapp /\ s.id = q.id
        BY <3>1, <3>2 DEF Requested, OwnInv, OwnFunctions
      <4> QED
        BY <1>1, <1>4, <1>12, <2>1, <4>1
    <3> QED
      BY <1>8, <1>9, <1>16, <3>2, <3>3 DEF Kinds
  <2> QED
    BY <1>7, <2>1 DEF HeldServed
<1>22. StreamsRouted'
  <2>1. \A s \in Live : Token(s, "SUBS") # del
    BY <1>9 DEF Kinds
  <2> QED
    BY <1>7, <1>8, <1>16, <2>1 DEF StreamsRouted
<1>23. PendingMatches'
  <2>1. \A t : ~InHandEvent(t)'
    BY <1>5 DEF InHandEvent
  <2>2. \A t : Expected(t)' <=> Expected(t) \/ t = del
    BY <1>7, <1>16 DEF Expected
  <2> QED
    BY <1>7, <1>11, <1>16, <2>1, <2>2 DEF PendingMatches
<1>24. ControlsUnderWay'
  BY <1>8, <1>16 DEF ControlsUnderWay
<1>25. IdsPositive'
  <2>1. m.req > 0
    BY <1>6 DEF IdsPositive
  <2> QED
    BY <1>5, <1>7, <2>1 DEF IdsPositive
<1> QED
  BY <1>16, <1>17, <1>18, <1>19, <1>20, <1>21, <1>22, <1>23, <1>24, <1>25

\* No step of the iApp thread disturbs the life of a request.
LEMMA IappLives ==
  ASSUME Calm, CalmInv, IdInv', IappStep
  PROVE  Lives'
BY IappReceiveLives, IappReceiveDeleteLives, IappAllocateLives, IappForwardLives,
   IappAddMapLives, IappXappGoneLives, IappDeletePendLives, IappSendDeleteLives DEF IappStep

-----------------------------------------------------------------------------
(* The steps of the nodes and of the workers.                              *)

\* What is left alone when an answer moves on while its route stays.
LEMMA MoveFrame ==
  ASSUME CalmInv, toNode' \subseteq toNode,
         \A t \in Pending : (UnderWay(t)' => UnderWay(t)) /\ (Somewhere(t)' => Somewhere(t)),
         failed' \intersect alive = {},
         UNCHANGED <<xreq, lid, xsubs, alive, toIapp, iappVars, map, idVars, regVars, fault>>
  PROVE  Present' /\ TokensAwaited' /\ RequestsFirst' /\ fault' = "none" /\ Live' = Live
<1> USE DEF CalmInv, Lives, Living, xappVars, iappVars, regVars
<1>1. Live' = Live
  BY DEF Live, RouteBeingAdded
<1>2. Present' /\ fault' = "none"
  BY DEF Present
<1>3. TokensAwaited'
  <2>1. ASSUME NEW t \in Pending, UnderWay(t)'
        PROVE  Stray(t)' \/ \E r \in Live' : Awaited(t, r)'
    <3>1. CASE Stray(t)
      BY <1>1, <3>1 DEF Stray, AtNode
    <3>2. CASE ~Stray(t)
      <4>1. PICK r \in Live : Awaited(t, r)
        BY <2>1, <3>2 DEF TokensAwaited
      <4> QED
        BY <1>1, <4>1 DEF Awaited
    <3> QED
      BY <3>1, <3>2
  <2> QED
    BY <1>1, <2>1 DEF TokensAwaited
<1>4. RequestsFirst'
  <2>1. ASSUME NEW q \in Request, Unsent(q)', q.kind = "DEL"
        PROVE  DeleteFinds(q)'
    <3>1. Unsent(q)
      BY <2>1 DEF Unsent
    <3>2. DeleteFinds(q)
      BY <2>1, <3>1 DEF RequestsFirst
    <3>3. \A r \in map : Token(r, "DEL") \in Pending
      BY LiveRoutes, TokenTypes DEF IdInv, Kinds
    <3> QED
      BY <3>2, <3>3 DEF DeleteFinds
  <2>2. Reclaims => Reclaims'
    BY DEF Reclaims
  <2> QED
    BY <2>1, <2>2 DEF RequestsFirst
<1> QED
  BY <1>1, <1>2, <1>3, <1>4

\* The node's answer starts or ends the stream of its own route alone; only a delete
\* may come when there is no route.
LEMMA AnswerMovesStream ==
  ASSUME CalmInv, NEW m \in toNode, NodeAnswers(m)
  PROVE  /\ \A r \in Live : r.req = m.req =>
              /\ r.func = m.func /\ r.node = m.node /\ OfRoute(PendingOf(m), r)
              /\ PendingOf(m) = Token(r, m.kind)
              /\ xreq[r.xapp] = Requested(r, m.kind) \/ (m.kind = "DEL" /\ r.xapp \notin alive)
              /\ m.kind = "SUBS" => Sub(r) \in active'[r.node]
              /\ m.kind = "DEL" => Sub(r) \notin active'[r.node]
         /\ \A r \in Live : r.req # m.req => (Sub(r) \in active'[r.node] <=> Sub(r) \in active[r.node])
         /\ m.kind # "DEL" => \E r \in Live : r.req = m.req
         /\ \A n \in Nodes : \A u \in active'[n] :
              u \in active[n] \/ (m.kind = "SUBS" /\ n = m.node /\ u = Sub(m))
         /\ m.kind = "CTRL" => active' = active
         /\ \A r \in Live, s \in Live : r.req = m.req /\ s.req = m.req => r = s
<1> USE DEF CalmInv, Lives, Living
<1> DEFINE p == PendingOf(m)
           s == Sub(m)
<1>1. active' = [active EXCEPT ![m.node] = CASE m.kind = "SUBS" -> @ \union {s}
                                             [] m.kind = "DEL"  -> @ \ {s}
                                             [] m.kind = "CTRL" -> @]
  BY DEF NodeAnswers, Sub
<1>2. /\ p \in Pending /\ p.kind = m.kind /\ p.req = m.req /\ p.func = m.func /\ m.node \in Nodes
      /\ m.kind \in Kinds /\ AtNode(p) /\ UnderWay(p) /\ TypeOK
      /\ active \in [Nodes -> SUBSET [req : ReqIds, func : Funcs]]
  BY TokenTypes DEF IdInv, TypeOK, TypeNodes, PendingOf, AtNode, UnderWay, Pending
<1> HIDE DEF p
<1>3. ASSUME NEW r \in Live, r.req = m.req
      PROVE  /\ r.func = m.func /\ r.node = m.node /\ OfRoute(p, r) /\ p = Token(r, m.kind)
             /\ xreq[r.xapp] = Requested(r, m.kind) \/ (m.kind = "DEL" /\ r.xapp \notin alive)
             /\ Sub(r) = s /\ r.node \in Nodes
  <2>1. r.node = m.node
    BY <1>3 DEF TokensAwaited
  <2>2. OfRoute(p, r) /\ (Awaited(p, r) \/ (p.kind = "DEL" /\ r.xapp \notin alive)) /\ p = Token(r, p.kind)
    BY <1>2, <1>3, TokenOfRoute DEF Somewhere
  <2>3. r.func = m.func
    BY <1>2, <2>2 DEF OfRoute
  <2> QED
    BY <1>2, <1>3, <2>1, <2>2, <2>3 DEF Awaited, Sub
<1>4. /\ \A n \in Nodes : n # m.node => active'[n] = active[n]
      /\ m.kind = "SUBS" => active'[m.node] = active[m.node] \union {s}
      /\ m.kind = "DEL" => active'[m.node] = active[m.node] \ {s}
      /\ m.kind = "CTRL" => active' = active
  BY <1>1, <1>2
<1>5. ASSUME NEW r \in Live, r.req # m.req
      PROVE  Sub(r) \in active'[r.node] <=> Sub(r) \in active[r.node]
  <2>1. r.node \in Nodes /\ Sub(r) # s
    BY <1>5, LiveRoutes DEF Sub, Route
  <2> HIDE DEF s
  <2> QED
    BY <1>2, <1>4, <2>1 DEF Kinds
<1>6. ASSUME m.kind # "DEL"
      PROVE  \E r \in Live : r.req = m.req
  <2>1. ~Stray(p)
    BY <1>2, <1>6 DEF Stray, Kinds
  <2> QED
    BY <1>2, <2>1 DEF TokensAwaited, Awaited, OfRoute
<1>7. \A n \in Nodes : \A u \in active'[n] : u \in active[n] \/ (m.kind = "SUBS" /\ n = m.node /\ u = s)
  <2> HIDE DEF s
  <2> QED
    BY <1>2, <1>4 DEF Kinds
<1>8. ASSUME NEW r \in Live, r.req = m.req
      PROVE  /\ m.kind = "SUBS" => Sub(r) \in active'[r.node]
             /\ m.kind = "DEL" => Sub(r) \notin active'[r.node]
  <2>1. Sub(r) = s /\ r.node = m.node
    BY <1>3, <1>8
  <2> HIDE DEF s
  <2> QED
    BY <1>4, <2>1
<1> QED
  BY <1>3, <1>4, <1>5, <1>6, <1>7, <1>8, LiveRoutes DEF p

\* Its subscription starts or ends with the answer.
LEMMA NodeAnswersLives ==
  ASSUME CalmInv, NEW m \in toNode, NodeAnswers(m)
  PROVE  Lives'
<1> USE DEF CalmInv, Lives, Living
<1> DEFINE p == PendingOf(m)
<1>1. /\ toNode' = toNode \ {m} /\ rx' = rx \union {p}
      /\ m.kind = "DEL" => [m EXCEPT !.kind = "SUBS"] \notin toNode
      /\ UNCHANGED <<xappVars, toIapp, edge, toXapp, iappVars, map, idVars, pendVars, inds,
                     workVars, regVars, fault>>
  BY DEF NodeAnswers, NodeReads
<1>2. /\ p \in Pending /\ p.kind = m.kind /\ p.req = m.req /\ p.func = m.func /\ m.node \in Nodes
      /\ m.kind \in Kinds /\ AtNode(p) /\ UnderWay(p) /\ TypeOK /\ m.req > 0
  BY TokenTypes DEF IdInv, PendingOf, AtNode, UnderWay, Pending, IdsPositive
<1>3. /\ \A r \in Live : r.req = m.req =>
           /\ r.func = m.func /\ r.node = m.node /\ OfRoute(p, r) /\ p = Token(r, m.kind)
           /\ xreq[r.xapp] = Requested(r, m.kind) \/ (m.kind = "DEL" /\ r.xapp \notin alive)
           /\ m.kind = "SUBS" => Sub(r) \in active'[r.node]
           /\ m.kind = "DEL" => Sub(r) \notin active'[r.node]
      /\ \A r \in Live : r.req # m.req => (Sub(r) \in active'[r.node] <=> Sub(r) \in active[r.node])
      /\ m.kind # "DEL" => \E r \in Live : r.req = m.req
      /\ \A n \in Nodes : \A u \in active'[n] :
           u \in active[n] \/ (m.kind = "SUBS" /\ n = m.node /\ u = Sub(m))
      /\ m.kind = "CTRL" => active' = active
  BY AnswerMovesStream
<1> HIDE DEF p
<1>4. UNCHANGED <<wpc, wmsg, wdst, xreq, lid, xsubs, alive, pending, timers, toXapp, map,
                  ipc, imsg, newId, itodo, idel>>
  BY <1>1 DEF workVars, xappVars, pendVars, iappVars
<1>5. \A q \in toNode : PendingOf(q) = p => q = m
  BY <1>2 DEF TokensOnce, p
<1>6. p \notin rx /\ ~AtWorker(p, {"stop"}) /\ (AtWorker(p, Busy) => Again(p))
  BY DEF TokensOnce, p
<1>7. \A t : /\ AtNode(t)' <=> AtNode(t) /\ t # p
             /\ \A pcs : AtWorker(t, pcs)' <=> AtWorker(t, pcs)
  <2>1. \A t : \A pcs : AtWorker(t, pcs)' <=> AtWorker(t, pcs)
    BY <1>4 DEF AtWorker
  <2>2. ASSUME NEW t
        PROVE  AtNode(t)' <=> AtNode(t) /\ t # p
    BY <1>1, <1>5 DEF AtNode, p
  <2> QED
    BY <2>1, <2>2
<1>8. \A t : (UnderWay(t)' <=> UnderWay(t)) /\ (Somewhere(t)' <=> Somewhere(t))
  <2>1. \A t : UnderWay(t)' <=> UnderWay(t)
    BY <1>1, <1>2, <1>7 DEF UnderWay
  <2> QED
    BY <1>7, <2>1 DEF Somewhere
<1>9. Present' /\ TokensAwaited' /\ RequestsFirst' /\ fault' = "none" /\ Live' = Live
  BY <1>1, <1>8, MoveFrame DEF Present, xappVars
<1>10. \A t : Again(t)' <=> Again(t)
  BY <1>4, <1>9 DEF Again
<1>11. TokensOnce'
  <2>1. \A q, n \in toNode' : PendingOf(q) = PendingOf(n) => q = n
    BY <1>1 DEF TokensOnce
  <2>2. ASSUME NEW q \in toNode', NEW t, t = PendingOf(q)
        PROVE  t \notin rx' /\ ~AtWorker(t, {"stop"})' /\ (AtWorker(t, Busy)' => Again(t)')
    <3>1. q \in toNode /\ t # p
      BY <1>1, <1>5, <2>2
    <3>2. t \notin rx /\ ~AtWorker(t, {"stop"}) /\ (AtWorker(t, Busy) => Again(t))
      BY <2>2, <3>1 DEF TokensOnce
    <3> QED
      BY <1>1, <1>7, <1>10, <3>1, <3>2
  <2>3. ASSUME NEW w \in Workers, wpc[w] # "idle", wmsg[w].kind \in Kinds, wmsg[w] \in rx'
        PROVE  wpc[w] # "stop" /\ Again(wmsg[w])'
    <3>1. wpc[w] \in Busy
      BY <1>2, <2>3 DEF TypeOK, TypeWorkers, Busy, Early
    <3>2. CASE wmsg[w] = p
      <4>1. wpc[w] # "stop" /\ Again(p)
        BY <1>6, <3>1, <3>2 DEF AtWorker
      <4>2. Again(p)'
        BY <1>10, <4>1
      <4> QED
        BY <1>4, <3>2, <4>1, <4>2
    <3>3. CASE wmsg[w] # p
      BY <1>1, <1>4, <1>10, <2>3, <3>3 DEF TokensOnce
    <3> QED
      BY <3>2, <3>3
  <2>4. ASSUME NEW w \in Workers, wpc[w] # "idle", wmsg[w].kind \in Kinds,
               NEW v \in Workers, wpc[v] # "idle", wmsg[v] = wmsg[w]
        PROVE  v = w \/ (Again(wmsg[w])' /\ ~(wpc[v] = "stop" /\ wpc[w] = "stop"))
    BY <1>4, <1>10, <2>4 DEF TokensOnce
  <2>5. \A q \in toNode' : LET t == PendingOf(q)
                           IN  t \notin rx' /\ ~AtWorker(t, {"stop"})' /\ (AtWorker(t, Busy)' => Again(t)')
    BY <2>2
  <2> QED
    BY <1>4, <2>1, <2>3, <2>4, <2>5 DEF TokensOnce
<1>12. WorkersSure'
  BY <1>4 DEF WorkersSure, WorkerSure
<1>13. ASSUME NEW r \in Live, r.req = m.req, r.xapp \in alive
       PROVE  xreq[r.xapp] = Requested(r, m.kind) /\ xreq[r.xapp] \in Request
  BY <1>2, <1>3, <1>13, LiveRoutes, TokenTypes
<1>14. AnswersEnd'
  <2>1. ASSUME NEW a \in toXapp, a.kind \in Kinds
        PROVE  /\ a.xapp \in alive /\ Answers(a)' /\ ~Unheard(xreq[a.xapp])'
               /\ \A r \in Live' : SameKey(r, a) => ~UnderWay(Token(r, a.kind))'
    BY <1>1, <1>4, <1>8, <1>9, <2>1 DEF AnswersEnd, Answers, Unheard
  <2>2. ASSUME NEW a \in toXapp, a.kind \in Kinds, NEW r \in Live, SameKey(r, a)
        PROVE  r.req # m.req
    <3>1. a.kind = xreq[a.xapp].kind /\ a.xapp = r.xapp /\ a.xapp \in alive /\ ~UnderWay(Token(r, a.kind))
      BY <2>2 DEF AnswersEnd, Answers, SameKey
    <3>2. ASSUME r.req = m.req
          PROVE  a.kind = m.kind
      <4>1. xreq[r.xapp] = Requested(r, m.kind)
        BY ONLY <1>13, <2>2, <3>1, <3>2
      <4> QED
        BY ONLY <3>1, <4>1 DEF Requested
    <3> QED
      BY <1>2, <1>3, <3>1, <3>2
  <2>3. ASSUME NEW a \in toXapp, a.kind = "SUBS"
        PROVE  \E r \in map : /\ r.kind = "SUBS" /\ Requested(r, "SUBS") = xreq[a.xapp]
                              /\ Sub(r) \in active'[r.node]
    <3>1. PICK r \in map : r.kind = "SUBS" /\ Requested(r, "SUBS") = xreq[a.xapp] /\ Sub(r) \in active[r.node]
      BY <2>3 DEF AnswersEnd, Kinds
    <3>2. Answers(a) /\ xreq[a.xapp].xapp = r.xapp /\ xreq[a.xapp].id = r.id
      BY <2>3, <3>1 DEF AnswersEnd, Requested, Kinds
    <3>3. xreq[a.xapp].xapp = a.xapp
      BY <2>3, <3>2 DEF Answers, OwnInv, OwnFunctions, IdInv, TypeOK, TypeMessages, ToXapp
    <3>4. SameKey(r, a)
      BY <3>2, <3>3 DEF SameKey, Answers
    <3>5. r.req # m.req
      BY <2>2, <2>3, <3>4, LiveRoutes DEF Kinds
    <3> QED
      BY <1>3, <3>1, <3>5, LiveRoutes
  <2>4. ASSUME NEW a \in toXapp, a.kind = "DEL", NEW r \in map, SameKey(r, a)
        PROVE  Sub(r) \notin active'[r.node]
    <3>1. Sub(r) \notin active[r.node]
      BY <2>4 DEF AnswersEnd, Kinds
    <3>2. r.req # m.req
      BY <2>2, <2>4, LiveRoutes DEF Kinds
    <3> QED
      BY <1>3, <3>1, <3>2, LiveRoutes
  <2> QED
    BY <1>4, <2>1, <2>3, <2>4 DEF AnswersEnd
<1>15. HeldServed'
  <2>1. ASSUME NEW x \in XApps, x \in alive, NEW h \in xsubs[x], xreq[x] = NoReq \/ xreq[x].id # h.id
        PROVE  \E r \in map : /\ r.kind = "SUBS" /\ Requested(r, "SUBS") = h
                              /\ Sub(r) \in active'[r.node] /\ ~Somewhere(Token(r, "DEL"))'
    <3>1. PICK r \in map : /\ r.kind = "SUBS" /\ Requested(r, "SUBS") = h
                           /\ Sub(r) \in active[r.node] /\ ~Somewhere(Token(r, "DEL"))
      BY <2>1 DEF HeldServed
    <3>2. h.xapp = x /\ h.xapp = r.xapp /\ h.id = r.id
      BY <3>1 DEF Requested, OwnInv, OwnFunctions
    <3>3. ASSUME r.req = m.req
          PROVE  FALSE
      <4>1. r \in Live
        BY <3>1, LiveRoutes
      <4>2. xreq[x] = Requested(r, m.kind) /\ xreq[x] \in Request
        BY ONLY <1>13, <2>1, <3>2, <3>3, <4>1
      <4> QED
        BY <2>1, <3>2, <4>2, NoReqAssumption DEF Requested
    <3> QED
      BY <1>3, <1>8, <3>1, <3>3, LiveRoutes
  <2> QED
    BY <1>4, <2>1 DEF HeldServed
<1>16. StreamsRouted'
  <2>1. ASSUME NEW n \in Nodes, NEW u \in active'[n]
        PROVE  \E r \in Live : r.kind = "SUBS" /\ Sub(r) = u /\ r.node = n
    <3>1. CASE u \in active[n]
      BY <3>1 DEF StreamsRouted
    <3>2. CASE m.kind = "SUBS" /\ n = m.node /\ u = Sub(m)
      <4>1. PICK r \in Live : r.req = m.req
        BY <1>3, <3>2
      <4>2. r.func = m.func /\ r.node = m.node /\ r.kind = "SUBS"
        BY <1>2, <1>3, <3>2, <4>1 DEF OfRoute
      <4> QED
        BY <3>2, <4>1, <4>2 DEF Sub
    <3> QED
      BY <1>3, <3>1, <3>2
  <2>2. \A r \in Live, k \in Kinds : /\ Token(r, k) = p => r.req = m.req /\ k = m.kind
                                     /\ r.req = m.req => (Token(r, k) = p <=> k = m.kind)
    BY <1>2, <1>3 DEF Token
  <2>3. ASSUME NEW r \in Live, Token(r, "DEL") \in rx' \/ AtWorker(Token(r, "DEL"), Busy)
        PROVE  Sub(r) \notin active'[r.node] /\ ~AtNode(Token(r, "SUBS"))'
    <3>1. CASE r.req = m.req /\ m.kind = "DEL"
      <4>1. ASSUME NEW q \in toNode, PendingOf(q) = Token(r, "SUBS")
            PROVE  FALSE
        <5>1. q.req = r.req /\ q.func = r.func /\ q.kind = "SUBS" /\ q \in ToNode
          BY <1>2, <4>1 DEF PendingOf, Token, TypeOK, TypeMessages
        <5>2. q.node = r.node
          BY <5>1 DEF TokensAwaited
        <5>3. r.node = m.node /\ r.func = m.func /\ m \in ToNode
          BY <1>2, <1>3, <3>1 DEF TypeOK, TypeMessages
        <5>4. q = [m EXCEPT !.kind = "SUBS"]
          BY <3>1, <5>1, <5>2, <5>3 DEF ToNode
        <5> QED
          BY <1>1, <3>1, <5>4
      <4> QED
        BY <1>3, <1>7, <3>1, <4>1 DEF AtNode
    <3>2. CASE r.req = m.req /\ m.kind = "SUBS"
      <4>1. Token(r, "DEL") \in rx \/ AtWorker(Token(r, "DEL"), Busy)
        BY <1>1, <2>2, <2>3, <3>2 DEF Kinds
      <4>2. Token(r, "SUBS") = p
        BY <1>3, <3>2
      <4> QED
        BY <1>2, <4>1, <4>2 DEF StreamsRouted
    <3>3. CASE r.req # m.req \/ m.kind = "CTRL"
      <4>1. Token(r, "DEL") # p
        BY <2>2, <3>3 DEF Kinds
      <4>2. Sub(r) \notin active[r.node] /\ ~AtNode(Token(r, "SUBS"))
        BY <1>1, <2>3, <4>1 DEF StreamsRouted
      <4> QED
        BY <1>3, <1>7, <3>3, <4>2
    <3> QED
      BY <1>2, <3>1, <3>2, <3>3 DEF Kinds
  <2>4. ASSUME NEW r \in Live, Token(r, "SUBS") \in rx' \/ AtWorker(Token(r, "SUBS"), Early)
        PROVE  r.xapp \notin alive \/ Sub(r) \in active'[r.node]
    <3>1. CASE r.req = m.req /\ m.kind = "SUBS"
      BY <1>3, <3>1
    <3>2. CASE r.req = m.req /\ m.kind = "DEL"
      <4>1. UnderWay(Token(r, "SUBS"))
        BY <1>1, <2>2, <2>4, <3>2 DEF UnderWay, Kinds
      <4>2. Token(r, "SUBS") \in Pending /\ Token(r, "SUBS").kind = "SUBS" /\ Token(r, "SUBS").req = r.req
        BY <1>2, LiveRoutes, TokenTypes DEF Kinds
      <4>3. r.xapp \in alive => xreq[r.xapp] = Requested(r, "SUBS")
        BY <4>1, <4>2, AliveAwaited DEF Awaited
      <4>4. r.xapp \in alive => xreq[r.xapp] = Requested(r, "DEL")
        BY ONLY <1>13, <2>4, <3>2
      <4> QED
        BY ONLY <4>3, <4>4 DEF Requested
    <3>3. CASE r.req # m.req \/ m.kind = "CTRL"
      <4>1. Token(r, "SUBS") # p
        BY <2>2, <3>3 DEF Kinds
      <4>2. r.xapp \notin alive \/ Sub(r) \in active[r.node]
        BY <1>1, <2>4, <4>1 DEF StreamsRouted
      <4> QED
        BY <1>3, <3>3, <4>2
    <3> QED
      BY <1>2, <3>1, <3>2, <3>3 DEF Kinds
  <2> QED
    BY <1>4, <1>7, <1>9, <2>1, <2>3, <2>4 DEF StreamsRouted
<1>17. PendingMatches'
  <2>1. \A t : (InHandEvent(t)' <=> InHandEvent(t)) /\ (Expected(t)' <=> Expected(t))
    BY <1>1, <1>2, <1>4, <1>7 DEF InHandEvent, Expected
  <2> QED
    BY <1>4, <1>7, <2>1 DEF PendingMatches
<1>18. ControlsUnderWay'
  BY <1>8, <1>9 DEF ControlsUnderWay
<1>19. IdsPositive'
  BY <1>1, <1>2, <1>4 DEF IdsPositive
<1> QED
  BY <1>9, <1>11, <1>12, <1>14, <1>15, <1>16, <1>17, <1>18, <1>19

\* What is left alone when nothing is answered either.
LEMMA QuietFrame ==
  ASSUME CalmInv,
         \A t \in Pending :
           /\ (UnderWay(t)' => UnderWay(t)) /\ (Somewhere(t)' => Somewhere(t))
           /\ t \in rx' \/ AtWorker(t, Busy)' => t \in rx \/ AtWorker(t, Busy)
           /\ t \in rx' \/ AtWorker(t, Early)' => t \in rx \/ AtWorker(t, Early),
         failed' \intersect alive = {},
         UNCHANGED <<xreq, lid, xsubs, alive, toIapp, toNode, active, iappVars, map, idVars,
                     regVars, fault>>
  PROVE  /\ Present' /\ TokensAwaited' /\ RequestsFirst' /\ HeldServed'
         /\ StreamsRouted' /\ fault' = "none" /\ Live' = Live
         /\ (\A a \in toXapp' : a.kind \in Kinds => a \in toXapp) => AnswersEnd'
<1> USE DEF CalmInv, Lives, Living
<1>1. Present' /\ TokensAwaited' /\ RequestsFirst' /\ fault' = "none" /\ Live' = Live
  BY MoveFrame
<1>2. \A r \in Live, k \in Kinds : Token(r, k) \in Pending
  BY LiveRoutes, TokenTypes DEF IdInv
<1>3. ASSUME \A a \in toXapp' : a.kind \in Kinds => a \in toXapp
      PROVE  AnswersEnd'
  <2>1. ASSUME NEW a \in toXapp, a.kind \in Kinds, NEW r \in Live, SameKey(r, a)
        PROVE  ~UnderWay(Token(r, a.kind))'
    BY <1>2, <2>1 DEF AnswersEnd
  <2>2. ASSUME NEW a \in toXapp, a.kind \in Kinds
        PROVE  Answers(a)' /\ ~Unheard(xreq[a.xapp])'
    BY <2>2 DEF AnswersEnd, Answers, Unheard, xappVars, iappVars
  <2> QED
    BY <1>1, <1>3, <2>1, <2>2 DEF AnswersEnd, xappVars
<1>4. HeldServed'
  <2>1. \A r \in map : ~Somewhere(Token(r, "DEL")) => ~Somewhere(Token(r, "DEL"))'
    BY <1>2, LiveRoutes DEF Kinds
  <2> QED
    BY <2>1 DEF HeldServed, xappVars
<1>5. StreamsRouted'
  <2>1. UNCHANGED alive /\ \A t : AtNode(t)' <=> AtNode(t)
    BY DEF xappVars, AtNode
  <2> QED
    BY <1>1, <1>2, <2>1 DEF StreamsRouted, Kinds
<1> QED
  BY <1>1, <1>3, <1>4, <1>5

\* A node streams for a route alone.
LEMMA NodeIndicatesLives ==
  ASSUME CalmInv, NEW n \in Nodes, NodeIndicates(n)
  PROVE  Lives'
<1> USE DEF CalmInv, Lives, Living
<1>1. PICK s \in active[n] : rx' = rx \union {[kind |-> "IND", req |-> s.req, func |-> s.func]}
  BY DEF NodeIndicates
<1> DEFINE p == [kind |-> "IND", req |-> s.req, func |-> s.func]
<1>2. p.kind = "IND" /\ p.req = s.req /\ "IND" \notin Kinds
  BY DEF Kinds
<1>3. rx' = rx \union {p}
  BY <1>1
<1> HIDE DEF p
<1>4. UNCHANGED <<xappVars, toIapp, edge, toXapp, iappVars, map, idVars, pendVars, toNode,
                 active, workVars, regVars, fault>>
  BY DEF NodeIndicates
<1>5. UNCHANGED <<wpc, wmsg, wdst, xreq, alive, toNode, pending, timers, ipc, imsg, newId, itodo,
                  idel, map>>
  BY <1>4 DEF workVars, xappVars, pendVars, iappVars
<1>6. \A t : (AtNode(t)' <=> AtNode(t)) /\ \A pcs : AtWorker(t, pcs)' <=> AtWorker(t, pcs)
  BY <1>5 DEF AtNode, AtWorker
<1>7. \A t \in Pending : t # p
  BY <1>2 DEF Pending
<1>8. \A t \in Pending : /\ (UnderWay(t)' <=> UnderWay(t)) /\ (Somewhere(t)' <=> Somewhere(t))
                         /\ t \in rx' <=> t \in rx
  BY <1>3, <1>6, <1>7 DEF UnderWay, Somewhere
<1>9. /\ Present' /\ TokensAwaited' /\ RequestsFirst' /\ AnswersEnd' /\ HeldServed'
      /\ StreamsRouted' /\ fault' = "none" /\ Live' = Live
  BY <1>4, <1>6, <1>8, QuietFrame DEF Present, xappVars
<1>10. TypeOK
  BY DEF IdInv
<1>11. TokensOnce'
  <2>1. \A t : Again(t)' <=> Again(t)
    BY <1>5, <1>9 DEF Again
  <2>2. \A q \in toNode : PendingOf(q) \in rx' <=> PendingOf(q) \in rx
    BY <1>8, <1>10, TokenTypes
  <2>3. \A w \in Workers : wpc[w] # "idle" /\ wmsg[w].kind \in Kinds => (wmsg[w] \in rx' <=> wmsg[w] \in rx)
    BY <1>2, <1>3
  <2>4. \A q \in toNode : LET t == PendingOf(q)
                          IN  t \notin rx' /\ ~AtWorker(t, {"stop"})' /\ (AtWorker(t, Busy)' => Again(t)')
    BY <1>6, <2>1, <2>2 DEF TokensOnce
  <2>5. ASSUME NEW w \in Workers, wpc[w] # "idle", wmsg[w].kind \in Kinds
        PROVE  /\ wmsg[w] \in rx' => wpc[w] # "stop" /\ Again(wmsg[w])'
               /\ \A v \in Workers : wpc[v] # "idle" /\ wmsg[v] = wmsg[w] =>
                    v = w \/ (Again(wmsg[w])' /\ ~(wpc[v] = "stop" /\ wpc[w] = "stop"))
    BY <1>5, <2>1, <2>3, <2>5 DEF TokensOnce
  <2> QED
    BY <1>5, <2>4, <2>5 DEF TokensOnce
<1>12. WorkersSure'
  BY <1>5 DEF WorkersSure, WorkerSure
<1>13. PendingMatches'
  <2>1. \A t \in Pending : (Expected(t)' <=> Expected(t)) /\ (InHandEvent(t)' <=> InHandEvent(t))
    BY <1>5, <1>6, <1>8 DEF Expected, InHandEvent
  <2> QED
    BY <1>5, <1>6, <2>1 DEF PendingMatches
<1>14. ControlsUnderWay'
  <2>1. \A r \in Live : Token(r, "CTRL") \in Pending
    BY <1>10, LiveRoutes, TokenTypes DEF Kinds
  <2> QED
    BY <1>8, <1>9, <2>1 DEF ControlsUnderWay
<1>15. IdsPositive'
  <2>1. PICK r \in Live : Sub(r) = s
    BY DEF StreamsRouted
  <2>2. r.req > 0
    BY DEF IdsPositive, Live, RouteBeingAdded
  <2>3. p.req > 0
    BY <1>2, <2>1, <2>2 DEF Sub
  <2> QED
    BY <1>3, <1>5, <2>3 DEF IdsPositive
<1> QED
  BY <1>9, <1>11, <1>12, <1>13, <1>14, <1>15

\* A worker takes its next step: the others stay where they are.
LEMMA WorkerMoves ==
  ASSUME TypeOK, NEW w \in Workers, NEW pc, NEW msg,
         wpc' = [wpc EXCEPT ![w] = pc], wmsg' = [wmsg EXCEPT ![w] = msg]
  PROVE  /\ \A t, pcs : AtWorker(t, pcs)' <=> \/ pc \in pcs /\ msg = t
                                              \/ \E v \in Workers \ {w} : wpc[v] \in pcs /\ wmsg[v] = t
         /\ wpc'[w] = pc /\ wmsg'[w] = msg
         /\ \A v \in Workers \ {w} : wpc'[v] = wpc[v] /\ wmsg'[v] = wmsg[v]
<1>1. wpc'[w] = pc /\ wmsg'[w] = msg
  BY DEF TypeOK, TypeWorkers
<1>2. \A v \in Workers \ {w} : wpc'[v] = wpc[v] /\ wmsg'[v] = wmsg[v]
  BY DEF TypeOK, TypeWorkers
<1>3. \A t, pcs : AtWorker(t, pcs)' <=> \/ pc \in pcs /\ msg = t
                                        \/ \E v \in Workers \ {w} : wpc[v] \in pcs /\ wmsg[v] = t
  BY <1>1, <1>2 DEF AtWorker
<1> QED
  BY <1>1, <1>2, <1>3

\* What a worker has in hand is nowhere else, but for the delete of a route whose xApp
\* left: that may be sent once more when its event is extracted.
LEMMA InOneHand ==
  ASSUME CalmInv, NEW w \in Workers, wpc[w] # "idle", wmsg[w].kind \in Kinds
  PROVE  /\ wmsg[w] \in Pending /\ PendingOf(wmsg[w]) = wmsg[w] /\ TypeOK /\ wpc[w] \in Busy
         /\ wpc[w] = "stop" =>
              /\ ~AtNode(wmsg[w]) /\ wmsg[w] \notin rx
              /\ \A v \in Workers \ {w} : ~(wpc[v] = "stop" /\ wmsg[v] = wmsg[w])
         /\ ~Again(wmsg[w]) =>
              /\ ~AtNode(wmsg[w]) /\ wmsg[w] \notin rx
              /\ \A v \in Workers \ {w} : \A pcs \in SUBSET Busy : ~(wpc[v] \in pcs /\ wmsg[v] = wmsg[w])
<1> USE DEF CalmInv, Lives, Living
<1> DEFINE m == wmsg[w]
<1>1. TypeOK
  BY DEF IdInv
<1>2. m \in Pending /\ PendingOf(m) = m
  BY <1>1, TokenTypes DEF PendingOf, Pending
<1>3. wpc[w] \in Busy /\ "idle" \notin Busy
  BY <1>1 DEF TypeOK, TypeWorkers, Busy, Early
<1>4. /\ m \in rx => wpc[w] # "stop" /\ Again(m)
      /\ \A v \in Workers : wpc[v] # "idle" /\ wmsg[v] = m =>
           v = w \/ (Again(m) /\ ~(wpc[v] = "stop" /\ wpc[w] = "stop"))
  BY DEF TokensOnce
<1>5. AtNode(m) => wpc[w] # "stop" /\ Again(m)
  <2>1. ASSUME NEW q \in toNode, PendingOf(q) = m
        PROVE  ~AtWorker(m, {"stop"}) /\ (AtWorker(m, Busy) => Again(m))
    BY <2>1 DEF TokensOnce
  <2>2. AtWorker(m, Busy) /\ (wpc[w] = "stop" => AtWorker(m, {"stop"}))
    BY <1>3 DEF AtWorker
  <2> QED
    BY <2>1, <2>2 DEF AtNode
<1> HIDE DEF m
<1>6. wpc[w] = "stop" => \A v \in Workers \ {w} : ~(wpc[v] = "stop" /\ wmsg[v] = m)
  BY <1>4
<1>7. ~Again(m) => \A v \in Workers \ {w} : \A pcs \in SUBSET Busy : ~(wpc[v] \in pcs /\ wmsg[v] = m)
  BY <1>3, <1>4
<1> QED
  BY <1>1, <1>2, <1>3, <1>4, <1>5, <1>6, <1>7 DEF m

\* Workers that go on with what they have, or are done, add nothing.
LEMMA TokensFewer ==
  ASSUME CalmInv, UNCHANGED <<toNode, rx>>, \A t : Again(t) => Again(t)',
         \A v \in Workers : wpc'[v] # "idle" => /\ wpc[v] # "idle" /\ wmsg'[v] = wmsg[v]
                                                /\ wpc'[v] = "stop" => wpc[v] = "stop"
  PROVE  TokensOnce'
<1> USE DEF CalmInv, Lives, Living
<1>1. ASSUME NEW t
      PROVE  /\ AtWorker(t, {"stop"})' => AtWorker(t, {"stop"})
             /\ AtWorker(t, Busy)' => AtWorker(t, Busy)
  <2>1. ASSUME NEW v \in Workers, wpc'[v] \in Busy, wmsg'[v] = t
        PROVE  wpc[v] \in Busy /\ wmsg[v] = t
    <3>1. wpc'[v] # "idle" /\ wpc[v] # "idle" /\ wmsg[v] = t
      BY <2>1 DEF Busy, Early
    <3> QED
      BY <3>1 DEF IdInv, TypeOK, TypeWorkers, Busy, Early
  <2>2. ASSUME NEW v \in Workers, wpc'[v] = "stop", wmsg'[v] = t
        PROVE  wpc[v] = "stop" /\ wmsg[v] = t
    BY <2>2
  <2> QED
    BY <2>1, <2>2 DEF AtWorker
<1>2. ASSUME NEW q \in toNode, NEW t, t = PendingOf(q)
      PROVE  t \notin rx /\ ~AtWorker(t, {"stop"})' /\ (AtWorker(t, Busy)' => Again(t)')
  <2>1. t \notin rx /\ ~AtWorker(t, {"stop"}) /\ (AtWorker(t, Busy) => Again(t))
    BY <1>2 DEF TokensOnce
  <2> QED
    BY <1>1, <2>1
<1>3. ASSUME NEW v \in Workers, wpc'[v] # "idle", wmsg'[v].kind \in Kinds, NEW t, t = wmsg'[v]
      PROVE  /\ t \in rx => wpc'[v] # "stop" /\ Again(t)'
             /\ \A u \in Workers : wpc'[u] # "idle" /\ wmsg'[u] = t =>
                  u = v \/ (Again(t)' /\ ~(wpc'[u] = "stop" /\ wpc'[v] = "stop"))
  <2>1. wpc[v] # "idle" /\ wmsg[v] = t /\ t.kind \in Kinds
    BY <1>3
  <2>2. /\ t \in rx => wpc[v] # "stop" /\ Again(t)
        /\ \A u \in Workers : wpc[u] # "idle" /\ wmsg[u] = t =>
             u = v \/ (Again(t) /\ ~(wpc[u] = "stop" /\ wpc[v] = "stop"))
    BY <2>1 DEF TokensOnce
  <2> QED
    BY <1>3, <2>1, <2>2
<1>4. \A q, n \in toNode : PendingOf(q) = PendingOf(n) => q = n
  BY DEF TokensOnce
<1>5. \A q \in toNode : LET t == PendingOf(q)
                        IN  t \notin rx /\ ~AtWorker(t, {"stop"})' /\ (AtWorker(t, Busy)' => Again(t)')
  BY <1>2
<1> QED
  BY <1>3, <1>4, <1>5 DEF TokensOnce

\* Workers that extract, close or look up have found nothing yet.
LEMMA SureFrame ==
  ASSUME CalmInv, NEW S \in SUBSET Workers, UNCHANGED <<xreq, alive, map>>,
         \A v \in S : \/ wpc'[v] \in {"idle", "find"}
                      \/ wpc'[v] \in {"stop", "close"} /\ wmsg'[v].kind \in Kinds
                      \/ wpc'[v] = wpc[v] /\ wmsg'[v] = wmsg[v] /\ wdst'[v] = wdst[v]
  PROVE  \A v \in S : WorkerSure(v)'
<1> USE DEF CalmInv, Lives, Living
<1>1. ASSUME NEW v \in S,
             wpc'[v] \in {"idle", "find"} \/ (wpc'[v] \in {"stop", "close"} /\ wmsg'[v].kind \in Kinds)
      PROVE  WorkerSure(v)'
  BY <1>1 DEF WorkerSure
<1>2. ASSUME NEW v \in S, wpc'[v] = wpc[v] /\ wmsg'[v] = wmsg[v] /\ wdst'[v] = wdst[v]
      PROVE  WorkerSure(v)'
  <2>1. WorkerSure(v)
    BY DEF WorkersSure
  <2> QED
    BY <1>2, <2>1 DEF WorkerSure, OfRoute
<1> QED
  BY <1>1, <1>2

\* A worker goes on with what it has.
LEMMA WorkerGoesOn ==
  ASSUME CalmInv, NEW w \in Workers, NEW pc \in Early, pc # "stop", wpc[w] \in Early,
         wpc' = [wpc EXCEPT ![w] = pc], UNCHANGED <<wmsg, rx, toNode, alive, Live>>
  PROVE  /\ TokensOnce'
         /\ \A t : /\ (UnderWay(t)' <=> UnderWay(t)) /\ (Somewhere(t)' <=> Somewhere(t))
                   /\ (AtWorker(t, Busy)' <=> AtWorker(t, Busy)) /\ (AtNode(t)' <=> AtNode(t))
                   /\ AtWorker(t, Early)' <=> AtWorker(t, Early)
<1> USE DEF CalmInv, Lives, Living
<1>1. TypeOK /\ "idle" \notin Early /\ Early \subseteq Busy /\ "remove" \notin Early
  BY DEF IdInv, Early, Busy
<1>2. wpc'[w] = pc /\ \A v \in Workers \ {w} : wpc'[v] = wpc[v]
  BY <1>1 DEF TypeOK, TypeWorkers
<1>3. \A v \in Workers : /\ wpc'[v] \in Early <=> wpc[v] \in Early
                         /\ wpc'[v] \in Busy <=> wpc[v] \in Busy
                         /\ wpc'[v] \in {"remove"} <=> wpc[v] \in {"remove"}
                         /\ wpc'[v] # "idle" <=> wpc[v] # "idle"
                         /\ wpc'[v] = "stop" => wpc[v] = "stop"
  BY <1>1, <1>2
<1>4. \A t : /\ (AtWorker(t, Busy)' <=> AtWorker(t, Busy)) /\ (AtNode(t)' <=> AtNode(t))
             /\ AtWorker(t, Early)' <=> AtWorker(t, Early)
             /\ AtWorker(t, {"remove"})' <=> AtWorker(t, {"remove"})
  BY <1>3 DEF AtWorker, AtNode
<1>5. \A t : (UnderWay(t)' <=> UnderWay(t)) /\ (Somewhere(t)' <=> Somewhere(t))
  BY <1>4 DEF UnderWay, Somewhere
<1>6. TokensOnce'
  <2>1. \A t : Again(t) => Again(t)'
    BY DEF Again
  <2> QED
    BY <1>3, <2>1, TokensFewer
<1> QED
  BY <1>4, <1>5, <1>6

\* The answer passes from the queue to one worker.
LEMMA WorkerTakeLives ==
  ASSUME CalmInv, NEW w \in Workers, NEW m \in rx, WorkerTake(w, m)
  PROVE  Lives'
<1> USE DEF CalmInv, Lives, Living
<1> DEFINE pc == IF m.kind = "IND" THEN "find" ELSE "stop"
<1>1. /\ wpc[w] = "idle" /\ rx' = rx \ {m}
      /\ wmsg' = [wmsg EXCEPT ![w] = m] /\ wpc' = [wpc EXCEPT ![w] = pc]
      /\ UNCHANGED <<xappVars, toIapp, edge, toXapp, iappVars, map, idVars, pendVars, nodeVars,
                     wdst, regVars, fault>>
  BY DEF WorkerTake
<1>2. TypeOK /\ m.kind \in Kinds \union {"IND"} /\ (m.kind \in Kinds => m \in Pending)
  BY TokenTypes DEF IdInv, FromNode
<1>3. /\ m.kind \in Kinds => pc = "stop"
      /\ m.kind = "IND" => pc = "find"
      /\ pc \in Early /\ pc \in {"stop", "find"}
  BY DEF Kinds, Early
<1>4. \A t \in Pending : t = m => pc = "stop" /\ m.kind \in Kinds
  BY <1>3 DEF Pending
<1> HIDE DEF pc
<1>5. /\ \A t, pcs : AtWorker(t, pcs)' <=> \/ pc \in pcs /\ m = t
                                           \/ \E v \in Workers \ {w} : wpc[v] \in pcs /\ wmsg[v] = t
      /\ wpc'[w] = pc /\ wmsg'[w] = m
      /\ \A v \in Workers \ {w} : wpc'[v] = wpc[v] /\ wmsg'[v] = wmsg[v]
  BY <1>1, <1>2, WorkerMoves
<1>6. \A t, pcs : "idle" \notin pcs => (AtWorker(t, pcs)' <=> (pc \in pcs /\ m = t) \/ AtWorker(t, pcs))
  BY <1>1, <1>5 DEF AtWorker
<1>7. \A t : /\ AtWorker(t, Early)' <=> m = t \/ AtWorker(t, Early)
             /\ AtWorker(t, Busy)' <=> m = t \/ AtWorker(t, Busy)
             /\ AtWorker(t, {"remove"})' <=> AtWorker(t, {"remove"})
             /\ AtWorker(t, {"close"})' <=> AtWorker(t, {"close"})
             /\ AtWorker(t, {"stop"})' <=> (pc = "stop" /\ m = t) \/ AtWorker(t, {"stop"})
  BY <1>3, <1>6 DEF Early, Busy
<1>8. UNCHANGED <<toNode, active, pending, timers, xreq, alive, wdst, map, ipc, imsg, newId,
                  itodo, idel>>
  BY <1>1 DEF nodeVars, pendVars, xappVars, iappVars
<1>9. \A t : (AtNode(t)' <=> AtNode(t)) /\ (t \in rx' <=> t \in rx /\ t # m)
  BY <1>1, <1>8 DEF AtNode
<1>10. \A t : (UnderWay(t)' <=> UnderWay(t)) /\ (Somewhere(t)' <=> Somewhere(t))
  BY <1>7, <1>9 DEF UnderWay, Somewhere
<1>11. /\ Present' /\ TokensAwaited' /\ RequestsFirst' /\ AnswersEnd' /\ HeldServed'
       /\ StreamsRouted' /\ fault' = "none" /\ Live' = Live
  BY <1>1, <1>7, <1>8, <1>9, <1>10, QuietFrame DEF Present, xappVars
<1>12. TokensOnce'
  <2>1. \A t : Again(t)' <=> Again(t)
    BY <1>8, <1>11 DEF Again
  <2>2. ASSUME NEW q \in toNode, NEW t, t = PendingOf(q)
        PROVE  t \notin rx' /\ ~AtWorker(t, {"stop"})' /\ (AtWorker(t, Busy)' => Again(t)')
    <3>1. t \notin rx /\ ~AtWorker(t, {"stop"}) /\ (AtWorker(t, Busy) => Again(t))
      BY <2>2 DEF TokensOnce
    <3> QED
      BY <1>7, <1>9, <2>1, <3>1
  <2>3. ASSUME NEW v \in Workers, v # w, wpc[v] # "idle", wmsg[v].kind \in Kinds
        PROVE  /\ wmsg[v] \in rx => wpc[v] # "stop" /\ Again(wmsg[v])
               /\ \A u \in Workers : wpc[u] # "idle" /\ wmsg[u] = wmsg[v] =>
                    u = v \/ (Again(wmsg[v]) /\ ~(wpc[u] = "stop" /\ wpc[v] = "stop"))
    BY <2>3 DEF TokensOnce
  <2>4. ASSUME NEW v \in Workers, wpc'[v] # "idle", wmsg'[v].kind \in Kinds, NEW t, t = wmsg'[v]
        PROVE  /\ t \in rx' => wpc'[v] # "stop" /\ Again(t)
               /\ \A u \in Workers : wpc'[u] # "idle" /\ wmsg'[u] = t =>
                    u = v \/ (Again(t) /\ ~(wpc'[u] = "stop" /\ wpc'[v] = "stop"))
    <3>1. CASE v = w
      <4>1. t = m /\ t \notin rx'
        BY <1>5, <1>9, <2>4, <3>1
      <4>2. ASSUME NEW u \in Workers, u # w, wpc'[u] # "idle", wmsg'[u] = t
            PROVE  Again(t) /\ wpc'[u] # "stop"
        <5>1. wpc[u] # "idle" /\ wmsg[u] = t /\ wpc'[u] = wpc[u] /\ t \in rx /\ t.kind \in Kinds
          BY <1>5, <2>4, <4>1, <4>2
        <5> QED
          BY <2>3, <4>2, <5>1
      <4> QED
        BY <3>1, <4>1, <4>2
    <3>2. CASE v # w
      <4>1. wpc[v] # "idle" /\ wmsg[v] = t /\ wpc'[v] = wpc[v] /\ t.kind \in Kinds
        BY <1>5, <2>4, <3>2
      <4>2. /\ t \in rx => wpc[v] # "stop" /\ Again(t)
            /\ \A u \in Workers : wpc[u] # "idle" /\ wmsg[u] = t =>
                 u = v \/ (Again(t) /\ ~(wpc[u] = "stop" /\ wpc[v] = "stop"))
        BY <2>3, <3>2, <4>1
      <4>3. ASSUME NEW u \in Workers, wpc'[u] # "idle", wmsg'[u] = t
            PROVE  u = v \/ (Again(t) /\ ~(wpc'[u] = "stop" /\ wpc'[v] = "stop"))
        <5>1. CASE u = w
          BY <1>5, <4>1, <4>2, <4>3, <5>1
        <5>2. CASE u # w
          BY <1>5, <4>1, <4>2, <4>3, <5>2
        <5> QED
          BY <5>1, <5>2
      <4> QED
        BY <1>9, <4>1, <4>2, <4>3
    <3> QED
      BY <3>1, <3>2
  <2>5. \A q, n \in toNode : PendingOf(q) = PendingOf(n) => q = n
    BY DEF TokensOnce
  <2>6. \A q \in toNode : LET t == PendingOf(q)
                          IN  t \notin rx' /\ ~AtWorker(t, {"stop"})' /\ (AtWorker(t, Busy)' => Again(t)')
    BY <2>2
  <2> QED
    BY <1>8, <2>1, <2>4, <2>5, <2>6 DEF TokensOnce
<1>13. WorkersSure'
  <2>1. ASSUME NEW v \in Workers
        PROVE  \/ wpc'[v] \in {"idle", "find"}
               \/ wpc'[v] \in {"stop", "close"} /\ wmsg'[v].kind \in Kinds
               \/ wpc'[v] = wpc[v] /\ wmsg'[v] = wmsg[v] /\ wdst'[v] = wdst[v]
    BY <1>2, <1>3, <1>5, <1>8
  <2> QED
    BY <1>8, <2>1, SureFrame DEF WorkersSure
<1>14. PendingMatches'
  <2>1. \A t \in Pending : (Expected(t)' <=> Expected(t)) /\ (InHandEvent(t)' <=> InHandEvent(t))
    <3>1. \A t \in Pending : t \in rx' \/ AtWorker(t, {"stop"})' <=> t \in rx \/ AtWorker(t, {"stop"})
      BY <1>4, <1>7, <1>9
    <3> QED
      BY <1>8, <1>9, <3>1 DEF Expected, InHandEvent
  <2> QED
    BY <1>7, <1>8, <2>1 DEF PendingMatches
<1>15. ControlsUnderWay'
  BY <1>10, <1>11 DEF ControlsUnderWay
<1>16. IdsPositive'
  <2>1. \A v \in Workers : wpc'[v] # "idle" => wmsg'[v].req > 0
    BY <1>5 DEF IdsPositive
  <2> QED
    BY <1>8, <1>9, <2>1 DEF IdsPositive
<1> QED
  BY <1>11, <1>12, <1>13, <1>14, <1>15, <1>16

\* The event of the answer is pending: it is extracted, and the timer is left.
LEMMA WorkerStopLives ==
  ASSUME CalmInv, NEW w \in Workers, WorkerStop(w)
  PROVE  Lives'
<1> USE DEF CalmInv, Lives, Living
<1> DEFINE m == wmsg[w]
<1>1. wpc[w] = "stop" /\ m.kind \in Kinds
  BY DEF WorkerStop, WorkersSure, WorkerSure
<1>2. /\ m \in Pending /\ PendingOf(m) = m /\ TypeOK /\ ~AtNode(m) /\ m \notin rx
      /\ \A v \in Workers \ {w} : ~(wpc[v] = "stop" /\ wmsg[v] = m)
  BY <1>1, InOneHand
<1>3. AtWorker(m, {"stop"}) /\ Expected(m) /\ m \in pending
  <2>1. AtWorker(m, {"stop"}) /\ Expected(m)
    BY <1>1 DEF AtWorker, Expected
  <2> QED
    BY <1>2, <2>1 DEF PendingMatches
<1>4. /\ pending' = pending \ {m} /\ wpc' = [wpc EXCEPT ![w] = "close"]
      /\ UNCHANGED <<xappVars, toIapp, edge, toXapp, iappVars, map, idVars, timers,
                     nodeVars, rx, wmsg, wdst, regVars, fault>>
  BY <1>2, <1>3 DEF WorkerStop
<1>5. UNCHANGED <<toNode, active, wmsg, rx, timers, xreq, alive, wdst, map, ipc, imsg, newId,
                  itodo, idel, Live>>
  BY <1>4 DEF nodeVars, xappVars, iappVars, Live, RouteBeingAdded
<1>6. /\ TokensOnce'
      /\ \A t : /\ (UnderWay(t)' <=> UnderWay(t)) /\ (Somewhere(t)' <=> Somewhere(t))
                /\ (AtWorker(t, Busy)' <=> AtWorker(t, Busy)) /\ (AtNode(t)' <=> AtNode(t))
                /\ AtWorker(t, Early)' <=> AtWorker(t, Early)
  BY <1>1, <1>4, <1>5, WorkerGoesOn DEF Early
<1>7. /\ Present' /\ TokensAwaited' /\ RequestsFirst' /\ AnswersEnd' /\ HeldServed'
      /\ StreamsRouted' /\ fault' = "none" /\ Live' = Live
  BY <1>4, <1>5, <1>6, QuietFrame DEF Present, xappVars
<1> HIDE DEF m
<1>8. wpc'[w] = "close" /\ \A v \in Workers \ {w} : wpc'[v] = wpc[v]
  BY <1>2, <1>4 DEF TypeOK, TypeWorkers
<1>9. WorkersSure'
  <2>1. ASSUME NEW v \in Workers
        PROVE  \/ wpc'[v] \in {"stop", "close"} /\ wmsg'[v].kind \in Kinds
               \/ wpc'[v] = wpc[v] /\ wmsg'[v] = wmsg[v] /\ wdst'[v] = wdst[v]
    BY <1>1, <1>5, <1>8 DEF m
  <2> QED
    BY <1>5, <2>1, SureFrame DEF WorkersSure
<1>10. PendingMatches'
  <2>1. ASSUME NEW t
        PROVE  /\ AtWorker(t, {"stop"})' <=> AtWorker(t, {"stop"}) /\ t # m
               /\ AtWorker(t, {"close"})' <=> AtWorker(t, {"close"}) \/ t = m
    BY <1>1, <1>2, <1>5, <1>8 DEF AtWorker, m
  <2>2. ~InHandEvent(m)
    BY <1>2, <1>3 DEF PendingMatches
  <2>3. \A t : InHandEvent(t)' <=> InHandEvent(t)
    BY <1>5 DEF InHandEvent
  <2>4. \A t : Expected(t)' <=> Expected(t) /\ t # m
    BY <1>2, <1>5, <1>6, <2>1 DEF Expected
  <2>5. \A t \in timers : t \in pending' \/ AtWorker(t, {"close"})'
    BY <1>4, <2>1 DEF PendingMatches
  <2> QED
    BY <1>4, <1>5, <2>2, <2>3, <2>4, <2>5 DEF PendingMatches
<1>11. ControlsUnderWay'
  BY <1>6, <1>7 DEF ControlsUnderWay
<1>12. IdsPositive'
  <2>1. \A v \in Workers : wpc'[v] # "idle" => wpc[v] # "idle"
    BY <1>1, <1>8
  <2> QED
    BY <1>5, <2>1 DEF IdsPositive
<1> QED
  BY <1>6, <1>7, <1>9, <1>10, <1>11, <1>12

\* The timer of the extracted event is closed.
LEMMA WorkerCloseLives ==
  ASSUME CalmInv, NEW w \in Workers, WorkerClose(w)
  PROVE  Lives'
<1> USE DEF CalmInv, Lives, Living
<1> DEFINE m == wmsg[w]
<1>1. wpc[w] = "close" /\ m.kind \in Kinds
  BY DEF WorkerClose, WorkersSure, WorkerSure
<1>2. m \in Pending /\ PendingOf(m) = m /\ TypeOK
  BY <1>1, InOneHand
<1>3. /\ timers' = timers \ {m} /\ wpc' = [wpc EXCEPT ![w] = "find"]
      /\ UNCHANGED <<xappVars, toIapp, edge, toXapp, iappVars, map, idVars, pending,
                     nodeVars, rx, wmsg, wdst, regVars, fault>>
  BY <1>2 DEF WorkerClose
<1>4. UNCHANGED <<toNode, active, wmsg, rx, pending, xreq, alive, wdst, map, ipc, imsg, newId,
                  itodo, idel, Live>>
  BY <1>3 DEF nodeVars, xappVars, iappVars, Live, RouteBeingAdded
<1>5. /\ TokensOnce'
      /\ \A t : /\ (UnderWay(t)' <=> UnderWay(t)) /\ (Somewhere(t)' <=> Somewhere(t))
                /\ (AtWorker(t, Busy)' <=> AtWorker(t, Busy)) /\ (AtNode(t)' <=> AtNode(t))
                /\ AtWorker(t, Early)' <=> AtWorker(t, Early)
  BY <1>1, <1>3, <1>4, WorkerGoesOn DEF Early
<1>6. /\ Present' /\ TokensAwaited' /\ RequestsFirst' /\ AnswersEnd' /\ HeldServed'
      /\ StreamsRouted' /\ fault' = "none" /\ Live' = Live
  BY <1>3, <1>4, <1>5, QuietFrame DEF Present, xappVars
<1> HIDE DEF m
<1>7. wpc'[w] = "find" /\ \A v \in Workers \ {w} : wpc'[v] = wpc[v]
  BY <1>2, <1>3 DEF TypeOK, TypeWorkers
<1>8. WorkersSure'
  <2>1. ASSUME NEW v \in Workers
        PROVE  \/ wpc'[v] = "find"
               \/ wpc'[v] = wpc[v] /\ wmsg'[v] = wmsg[v] /\ wdst'[v] = wdst[v]
    BY <1>4, <1>7
  <2> QED
    BY <1>4, <2>1, SureFrame DEF WorkersSure
<1>9. PendingMatches'
  <2>1. \A t : AtWorker(t, {"stop"})' <=> AtWorker(t, {"stop"})
    BY <1>1, <1>4, <1>7 DEF AtWorker
  <2>2. \A t : t # m /\ AtWorker(t, {"close"}) => AtWorker(t, {"close"})'
    BY <1>1, <1>4, <1>7 DEF AtWorker, m
  <2>3. \A t : (InHandEvent(t)' <=> InHandEvent(t)) /\ (Expected(t)' <=> Expected(t))
    BY <1>4, <1>5, <2>1 DEF InHandEvent, Expected
  <2> QED
    BY <1>3, <1>4, <2>2, <2>3 DEF PendingMatches
<1>10. ControlsUnderWay'
  BY <1>5, <1>6 DEF ControlsUnderWay
<1>11. IdsPositive'
  <2>1. \A v \in Workers : wpc'[v] # "idle" => wpc[v] # "idle"
    BY <1>1, <1>7
  <2> QED
    BY <1>4, <2>1 DEF IdsPositive
<1> QED
  BY <1>5, <1>6, <1>8, <1>9, <1>10, <1>11

\* A worker that is done has nothing in hand.
LEMMA WorkerDone ==
  ASSUME CalmInv, NEW w \in Workers, wpc[w] # "idle", TaskDone(w), UNCHANGED <<rx, toNode>>,
         \A t : Again(t) => Again(t)'
  PROVE  /\ TokensOnce' /\ wpc'[w] = "idle" /\ TypeOK
         /\ \A v \in Workers \ {w} : wpc'[v] = wpc[v] /\ wmsg'[v] = wmsg[v] /\ wdst'[v] = wdst[v]
         /\ \A t : \A pcs \in SUBSET Busy :
              /\ AtWorker(t, pcs)' <=> \E v \in Workers \ {w} : wpc[v] \in pcs /\ wmsg[v] = t
              /\ AtWorker(t, pcs)' => AtWorker(t, pcs)
              /\ t # wmsg[w] \/ wpc[w] \notin pcs => (AtWorker(t, pcs)' <=> AtWorker(t, pcs))
         /\ \A t : AtNode(t)' <=> AtNode(t)
<1> USE DEF CalmInv, Lives, Living
<1>1. TypeOK /\ "idle" \notin Busy
  BY DEF IdInv, Busy, Early
<1>2. /\ \A t, pcs : AtWorker(t, pcs)' <=> \/ "idle" \in pcs /\ NoReq = t
                                           \/ \E v \in Workers \ {w} : wpc[v] \in pcs /\ wmsg[v] = t
      /\ wpc'[w] = "idle"
      /\ \A v \in Workers \ {w} : wpc'[v] = wpc[v] /\ wmsg'[v] = wmsg[v]
  BY <1>1, WorkerMoves DEF TaskDone
<1>3. \A v \in Workers \ {w} : wdst'[v] = wdst[v]
  BY <1>1 DEF TaskDone, TypeOK, TypeWorkers
<1>4. \A t : \A pcs \in SUBSET Busy :
        AtWorker(t, pcs)' <=> \E v \in Workers \ {w} : wpc[v] \in pcs /\ wmsg[v] = t
  BY <1>1, <1>2
<1>5. \A t : \A pcs \in SUBSET Busy :
        /\ AtWorker(t, pcs)' => AtWorker(t, pcs)
        /\ t # wmsg[w] \/ wpc[w] \notin pcs => (AtWorker(t, pcs)' <=> AtWorker(t, pcs))
  BY <1>4 DEF AtWorker
<1>6. \A t : AtNode(t)' <=> AtNode(t)
  BY DEF AtNode
<1>7. TokensOnce'
  <2>1. \A v \in Workers : wpc'[v] # "idle" => /\ wpc[v] # "idle" /\ wmsg'[v] = wmsg[v]
                                               /\ wpc'[v] = "stop" => wpc[v] = "stop"
    BY <1>2
  <2> QED
    BY <2>1, TokensFewer
<1> QED
  BY <1>1, <1>2, <1>3, <1>4, <1>5, <1>6, <1>7

\* An answer that is handled has its route in the map, once the lock is free, unless
\* it is a late one to an xApp that left.
LEMMA AnswerHasRoute ==
  ASSUME CalmInv, NEW w \in Workers, wpc[w] \in Early, wmsg[w].kind \in Kinds, ~MapLocked
  PROVE  /\ Live = map
         /\ \/ /\ RoutesOfReq(wmsg[w].req) = {}
               /\ alive # XApps /\ wmsg[w].kind \in {"SUBS", "DEL"}
            \/ \E r \in map : OfRoute(wmsg[w], r) /\ RoutesOfReq(wmsg[w].req) = {r}
<1> USE DEF CalmInv, Lives, Living
<1> DEFINE m == wmsg[w]
<1>1. Live = map
  BY DEF MapLocked, Live, RouteBeingAdded
<1>2. m \in Pending /\ UnderWay(m) /\ Somewhere(m)
  BY TokenTypes DEF IdInv, UnderWay, Somewhere, AtWorker, Early
<1> HIDE DEF m
<1>3. CASE RoutesOfReq(m.req) = {}
  <2>1. \A r \in map : r.req # m.req
    BY <1>3 DEF RoutesOfReq
  <2>2. Stray(m)
    BY <1>1, <1>2, <2>1 DEF TokensAwaited, Awaited, OfRoute
  <2> QED
    BY <1>1, <1>2, <1>3, <2>2 DEF Stray, Kinds, Pending, m
<1>4. CASE RoutesOfReq(m.req) # {}
  <2>1. PICK r \in map : r.req = m.req
    BY <1>4 DEF RoutesOfReq
  <2>2. OfRoute(m, r)
    BY <1>1, <1>2, <2>1, TokenOfRoute
  <2>3. RoutesOfReq(m.req) = {r}
    BY <2>1, LiveRoutes DEF RoutesOfReq
  <2> QED
    BY <1>1, <2>2, <2>3 DEF m
<1> QED
  BY <1>3, <1>4

\* What a worker has looked up is of the RAN function of its message.
LEMMA FoundHasFunction ==
  ASSUME CalmInv, NEW w \in Workers, wpc[w] = "find", ~MapLocked,
         NEW r \in RoutesOfReq(wmsg[w].req)
  PROVE  r.func = wmsg[w].func
<1> USE DEF CalmInv, Lives, Living
<1>1. wmsg[w] \in FromNode /\ wpc[w] \in Early /\ r \in map /\ r.req = wmsg[w].req
  BY DEF IdInv, TypeOK, TypeWorkers, Early, RoutesOfReq
<1>2. CASE wmsg[w].kind \in Kinds
  BY <1>1, <1>2, AnswerHasRoute DEF OfRoute
<1>3. CASE wmsg[w].kind = "IND"
  BY <1>1, <1>3 DEF ReportsOwned, Reported, AtWorker, Live
<1> QED
  BY <1>1, <1>2, <1>3 DEF FromNode

\* An answer finds its route; an indication or a repeated delete may come too late,
\* and so may a subscription, when its xApp left.
LEMMA WorkerFindLives ==
  ASSUME CalmInv, NEW w \in Workers, WorkerFind(w)
  PROVE  Lives' \/ (UNCHANGED dataVars /\ Stopped')
<1> USE DEF CalmInv, Lives, Living
<1> DEFINE m == wmsg[w]
           found == RoutesOfReq(m.req)
<1>1. wpc[w] = "find" /\ ~MapLocked /\ TypeOK /\ wpc[w] \in Early /\ m.req # 0
  BY DEF WorkerFind, IdInv, Early, IdsPositive
<1>2. \/ found = {} /\ m.kind = "SUBS" /\ alive # XApps /\ Abort("find_xapp_map_ric_id")
      \/ /\ \/ found = {} /\ m.kind \notin {"SUBS", "CTRL"} /\ TaskDone(w)
            \/ /\ found # {}
               /\ wdst' = [wdst EXCEPT ![w] = CHOOSE r \in found : TRUE]
               /\ wpc' = [wpc EXCEPT ![w] = "send"]
               /\ UNCHANGED wmsg
         /\ UNCHANGED <<xappVars, toIapp, edge, toXapp, iappVars, map, idVars, pendVars,
                        nodeVars, rx, regVars, fault>>
  <2>1. CASE found = {} /\ m.kind \in {"SUBS", "CTRL"}
    <3>1. m.kind = "SUBS" /\ alive # XApps
      BY <1>1, <2>1, AnswerHasRoute DEF Kinds
    <3>2. Abort("find_xapp_map_ric_id")
      BY <1>1, <2>1 DEF WorkerFind
    <3> QED
      BY <2>1, <3>1, <3>2
  <2>2. CASE ~(found = {} /\ m.kind \in {"SUBS", "CTRL"})
    <3>1. \A r \in found : r.func = m.func
      BY <1>1, FoundHasFunction
    <3> QED
      BY <1>1, <2>2, <3>1 DEF WorkerFind
  <2> QED
    BY <2>1, <2>2
<1>a. ASSUME found = {}, m.kind = "SUBS", alive # XApps, Abort("find_xapp_map_ric_id")
      PROVE  UNCHANGED dataVars /\ Stopped'
  <2>1. UNCHANGED dataVars /\ fault' = "find_xapp_map_ric_id"
    BY <1>a DEF Abort
  <2>2. UNCHANGED <<wpc, wmsg, alive>>
    BY <2>1 DEF dataVars, workVars, xappVars
  <2> QED
    BY <1>1, <1>a, <2>1, <2>2 DEF Stopped
<1>3. SUFFICES ASSUME \/ found = {} /\ m.kind \notin {"SUBS", "CTRL"} /\ TaskDone(w)
                      \/ /\ found # {}
                         /\ wdst' = [wdst EXCEPT ![w] = CHOOSE r \in found : TRUE]
                         /\ wpc' = [wpc EXCEPT ![w] = "send"]
                         /\ UNCHANGED wmsg,
                      UNCHANGED <<xappVars, toIapp, edge, toXapp, iappVars, map, idVars, pendVars,
                                  nodeVars, rx, regVars, fault>>
               PROVE  Lives'
  BY <1>2, <1>a
<1>4. UNCHANGED <<toNode, active, rx, pending, timers, xreq, alive, map, ipc, imsg, newId, itodo,
                  idel, Live>>
  BY <1>3 DEF nodeVars, xappVars, iappVars, pendVars, Live, RouteBeingAdded
<1>5. CASE found # {}
  <2>1. /\ wdst' = [wdst EXCEPT ![w] = CHOOSE r \in found : TRUE]
        /\ wpc' = [wpc EXCEPT ![w] = "send"] /\ UNCHANGED wmsg
    BY <1>3, <1>5
  <2>2. /\ TokensOnce'
        /\ \A t : /\ (UnderWay(t)' <=> UnderWay(t)) /\ (Somewhere(t)' <=> Somewhere(t))
                  /\ (AtWorker(t, Busy)' <=> AtWorker(t, Busy)) /\ (AtNode(t)' <=> AtNode(t))
                  /\ AtWorker(t, Early)' <=> AtWorker(t, Early)
    BY <1>1, <1>4, <2>1, WorkerGoesOn DEF Early
  <2>3. /\ Present' /\ TokensAwaited' /\ RequestsFirst' /\ AnswersEnd' /\ HeldServed'
        /\ StreamsRouted' /\ fault' = "none" /\ Live' = Live
    BY <1>3, <1>4, <2>2, QuietFrame DEF Present, xappVars
  <2>4. /\ wpc'[w] = "send" /\ wdst'[w] \in found
        /\ \A v \in Workers \ {w} : wpc'[v] = wpc[v] /\ wdst'[v] = wdst[v]
    BY <1>1, <1>5, <2>1 DEF TypeOK, TypeWorkers
  <2>5. WorkersSure'
    <3>1. m.kind \in Kinds => wdst'[w] \in map /\ OfRoute(m, wdst'[w])
      BY <1>1, <1>5, <2>4, AnswerHasRoute
    <3>2. WorkerSure(w)'
      BY <1>4, <2>1, <2>4, <3>1 DEF WorkerSure, OfRoute
    <3>3. \A v \in Workers \ {w} : WorkerSure(v)'
      BY <1>4, <2>1, <2>4, SureFrame
    <3> QED
      BY <3>2, <3>3 DEF WorkersSure
  <2>6. PendingMatches'
    <3>1. \A t : /\ AtWorker(t, {"stop"})' <=> AtWorker(t, {"stop"})
                 /\ AtWorker(t, {"close"})' <=> AtWorker(t, {"close"})
      BY <1>1, <2>1, <2>4 DEF AtWorker
    <3>2. \A t : (InHandEvent(t)' <=> InHandEvent(t)) /\ (Expected(t)' <=> Expected(t))
      BY <1>4, <2>2, <3>1 DEF InHandEvent, Expected
    <3> QED
      BY <1>4, <3>1, <3>2 DEF PendingMatches
  <2>7. ControlsUnderWay'
    BY <2>2, <2>3 DEF ControlsUnderWay
  <2>8. IdsPositive'
    <3>1. \A v \in Workers : wpc'[v] # "idle" => wpc[v] # "idle"
      BY <1>1, <2>4
    <3> QED
      BY <1>4, <2>1, <3>1 DEF IdsPositive
  <2> QED
    BY <2>2, <2>3, <2>5, <2>6, <2>7, <2>8
<1>6. CASE found = {}
  <2>1. TaskDone(w) /\ m.kind \notin {"SUBS", "CTRL"}
    BY <1>3, <1>6
  <2>2. \A t : Again(t) => Again(t)'
    BY <1>4 DEF Again
  <2>3. /\ TokensOnce' /\ wpc'[w] = "idle"
        /\ \A v \in Workers \ {w} : wpc'[v] = wpc[v] /\ wmsg'[v] = wmsg[v] /\ wdst'[v] = wdst[v]
        /\ \A t : \A pcs \in SUBSET Busy :
             /\ AtWorker(t, pcs)' => AtWorker(t, pcs)
             /\ t # m \/ wpc[w] \notin pcs => (AtWorker(t, pcs)' <=> AtWorker(t, pcs))
        /\ \A t : AtNode(t)' <=> AtNode(t)
    BY <1>1, <1>4, <2>1, <2>2, WorkerDone
  <2>4. ASSUME NEW t
        PROVE  /\ AtWorker(t, Busy)' => AtWorker(t, Busy)
               /\ AtWorker(t, Early)' => AtWorker(t, Early)
               /\ AtWorker(t, {"remove"})' => AtWorker(t, {"remove"})
               /\ t # m => (AtWorker(t, Early)' <=> AtWorker(t, Early))
               /\ AtWorker(t, {"remove"})' <=> AtWorker(t, {"remove"})
               /\ AtWorker(t, {"stop"})' <=> AtWorker(t, {"stop"})
               /\ AtWorker(t, {"close"})' <=> AtWorker(t, {"close"})
    <3>1. /\ Early \in SUBSET Busy /\ Busy \in SUBSET Busy /\ {"remove"} \in SUBSET Busy
          /\ {"stop"} \in SUBSET Busy /\ {"close"} \in SUBSET Busy
      BY DEF Busy, Early
    <3> QED
      BY <1>1, <2>3, <3>1
  <2>5. \A t : /\ (UnderWay(t)' => UnderWay(t)) /\ (Somewhere(t)' => Somewhere(t))
               /\ t # m => (Somewhere(t)' <=> Somewhere(t))
    BY <1>4, <2>3, <2>4 DEF UnderWay, Somewhere
  <2>6. /\ Present' /\ TokensAwaited' /\ RequestsFirst' /\ AnswersEnd' /\ HeldServed'
        /\ StreamsRouted' /\ fault' = "none"
    BY <1>3, <1>4, <2>4, <2>5, QuietFrame DEF Present, xappVars
  <2>7. WorkersSure'
    <3>1. \A v \in Workers : \/ wpc'[v] = "idle"
                             \/ wpc'[v] = wpc[v] /\ wmsg'[v] = wmsg[v] /\ wdst'[v] = wdst[v]
      BY <2>3
    <3> QED
      BY <1>4, <3>1, SureFrame DEF WorkersSure
  <2>8. PendingMatches'
    <3>1. \A t : (InHandEvent(t)' <=> InHandEvent(t)) /\ (Expected(t)' <=> Expected(t))
      BY <1>4, <2>3, <2>4 DEF InHandEvent, Expected
    <3> QED
      BY <1>4, <2>4, <3>1 DEF PendingMatches
  <2>9. ControlsUnderWay'
    <3>1. \A r \in Live : Token(r, "CTRL") # m
      BY <2>1 DEF Token
    <3> QED
      BY <1>4, <2>5, <3>1 DEF ControlsUnderWay
  <2>10. IdsPositive'
    <3>1. \A v \in Workers : wpc'[v] # "idle" => wpc[v] # "idle" /\ wmsg'[v] = wmsg[v]
      BY <2>3
    <3> QED
      BY <1>4, <3>1 DEF IdsPositive
  <2> QED
    BY <2>3, <2>6, <2>7, <2>8, <2>9, <2>10
<1> QED
  BY <1>5, <1>6

\* The answer is told: its request is over, in every place it could be.
LEMMA WorkerSendLives ==
  ASSUME CalmInv, NEW w \in Workers, WorkerSend(w)
  PROVE  Lives'
<1> USE DEF CalmInv, Lives, Living
<1>a. PICK m, d : m = wmsg[w] /\ d = wdst[w]
  OBVIOUS
<1>b. PICK a : a = [kind |-> m.kind, xapp |-> d.xapp, id |-> d.id, func |-> d.func]
  OBVIOUS
<1>1. wpc[w] = "send" /\ wpc[w] # "idle" /\ TypeOK /\ d \in Route /\ d.xapp \in XApps
  BY <1>a DEF WorkerSend, IdInv, TypeOK, TypeWorkers, Route
<1>2. /\ \/ d.xapp \in alive /\ toXapp' = toXapp \union {a} /\ UNCHANGED failed
         \/ d.xapp \notin alive /\ UNCHANGED toXapp /\ failed' \subseteq failed \union {d.xapp}
      /\ \/ /\ EndsRoute(m)
            /\ wpc' = [wpc EXCEPT ![w] = "remove"]
            /\ UNCHANGED <<wmsg, wdst>>
         \/ ~EndsRoute(m) /\ TaskDone(w)
      /\ UNCHANGED <<xreq, lid, xsubs, alive, toIapp, iappVars, map, idVars, pendVars, nodeVars,
                     rx, regVars, fault>>
  BY <1>a, <1>b, <1>1 DEF WorkerSend, SendNoticed, SendFails
<1>3. a.kind = m.kind /\ a.xapp = d.xapp /\ a.id = d.id /\ a.func = d.func
  BY <1>b
<1>4. UNCHANGED <<toNode, active, rx, pending, timers, xreq, lid, xsubs, alive, map, ipc, imsg, newId,
                  itodo, idel, toIapp, Live>>
  BY <1>2 DEF nodeVars, iappVars, pendVars, Live, RouteBeingAdded
<1>c. \A t : Again(t) <=> Again(t)'
  BY <1>4 DEF Again
<1>d. ASSUME m.kind \in Kinds
      PROVE  /\ m \in Pending /\ OfRoute(m, d) /\ m.req = d.req /\ UnderWay(m)
             /\ d \in map \/ (d.xapp \notin alive /\ m.kind # "CTRL")
  <2>1. m \in Pending /\ UnderWay(m)
    BY <1>a, <1>1, <1>d, TokenTypes DEF UnderWay, AtWorker, Early
  <2>2. WorkerSure(w)
    BY DEF WorkersSure
  <2> QED
    BY <1>a, <1>1, <1>d, <2>1, <2>2 DEF WorkerSure, OfRoute
<1>5. ASSUME m.kind \in Kinds, d.xapp \in alive
      PROVE  /\ m \in Pending /\ ~AtNode(m) /\ m \notin rx /\ d \in map /\ d \in Live /\ Awaited(m, d)
             /\ m = Token(d, m.kind) /\ UnderWay(m)
             /\ \A v \in Workers \ {w} : \A pcs \in SUBSET Busy : ~(wpc[v] \in pcs /\ wmsg[v] = m)
  <2>1. m \in Pending /\ UnderWay(m) /\ d \in map /\ d \in Live /\ m.req = d.req
    BY <1>5, <1>d, LiveRoutes
  <2>2. Awaited(m, d) /\ m = Token(d, m.kind)
    BY <1>5, <2>1, AliveAwaited, TokenOfRoute
  <2>3. ~Again(m)
    BY <1>5, <2>1 DEF Again
  <2>4. /\ ~AtNode(m) /\ m \notin rx
        /\ \A v \in Workers \ {w} : \A pcs \in SUBSET Busy : ~(wpc[v] \in pcs /\ wmsg[v] = m)
    BY <1>a, <1>1, <1>5, <2>3, InOneHand
  <2> QED
    BY <2>1, <2>2, <2>4
<1>6. ASSUME NEW t
      PROVE  /\ AtWorker(t, Early)' => AtWorker(t, Early)
             /\ m.kind \in Kinds /\ d.xapp \in alive => ~AtWorker(m, Early)'
             /\ AtWorker(t, Busy)' => AtWorker(t, Busy)
             /\ AtWorker(t, {"stop"})' <=> AtWorker(t, {"stop"})
             /\ AtWorker(t, {"close"})' <=> AtWorker(t, {"close"})
             /\ t # m \/ EndsRoute(m) => (AtWorker(t, Busy)' <=> AtWorker(t, Busy))
             /\ AtNode(t)' <=> AtNode(t)
  <2>1. /\ Early \in SUBSET Busy /\ Busy \in SUBSET Busy
        /\ {"stop"} \in SUBSET Busy /\ {"close"} \in SUBSET Busy
        /\ "send" \notin {"stop"} /\ "send" \notin {"close"} /\ "remove" \notin Early
        /\ "send" \in Busy /\ "remove" \in Busy
    BY DEF Busy, Early
  <2>2. CASE EndsRoute(m) /\ wpc' = [wpc EXCEPT ![w] = "remove"] /\ UNCHANGED <<wmsg, wdst>>
    <3>1. wpc'[w] = "remove" /\ \A v \in Workers \ {w} : wpc'[v] = wpc[v]
      BY <1>1, <2>2 DEF TypeOK, TypeWorkers
    <3>2. /\ AtWorker(t, Early)' => AtWorker(t, Early)
          /\ AtWorker(t, Busy)' <=> AtWorker(t, Busy)
          /\ AtWorker(t, {"stop"})' <=> AtWorker(t, {"stop"})
          /\ AtWorker(t, {"close"})' <=> AtWorker(t, {"close"})
      BY <1>1, <2>1, <2>2, <3>1 DEF AtWorker
    <3>3. m.kind \in Kinds /\ d.xapp \in alive => ~AtWorker(m, Early)'
      BY <1>5, <2>1, <2>2, <3>1 DEF AtWorker
    <3>4. AtNode(t)' <=> AtNode(t)
      BY <1>4 DEF AtNode
    <3> QED
      BY <2>2, <3>2, <3>3, <3>4
  <2>3. CASE ~EndsRoute(m) /\ TaskDone(w)
    <3>1. /\ \A pcs \in SUBSET Busy :
              /\ AtWorker(m, pcs)' <=> \E v \in Workers \ {w} : wpc[v] \in pcs /\ wmsg[v] = m
              /\ AtWorker(t, pcs)' => AtWorker(t, pcs)
              /\ t # m \/ wpc[w] \notin pcs => (AtWorker(t, pcs)' <=> AtWorker(t, pcs))
          /\ AtNode(t)' <=> AtNode(t)
      BY <1>a, <1>c, <1>1, <1>4, <2>3, WorkerDone
    <3>2. m.kind \in Kinds /\ d.xapp \in alive => ~AtWorker(m, Early)'
      BY <1>5, <2>1, <3>1
    <3> QED
      BY <1>1, <2>1, <2>3, <3>1, <3>2
  <2> QED
    BY <1>2, <2>2, <2>3
<1>7. \A t : /\ (UnderWay(t)' => UnderWay(t)) /\ (m.kind \in Kinds /\ d.xapp \in alive => ~UnderWay(m)')
             /\ (Somewhere(t)' => Somewhere(t))
             /\ t # m \/ EndsRoute(m) => (Somewhere(t)' <=> Somewhere(t))
  <2>1. \A t : Somewhere(t) <=> AtNode(t) \/ t \in rx \/ AtWorker(t, Busy)
    BY DEF Somewhere, UnderWay, AtWorker, Busy
  <2>2. \A t : Somewhere(t)' <=> AtNode(t)' \/ t \in rx' \/ AtWorker(t, Busy)'
    BY DEF Somewhere, UnderWay, AtWorker, Busy
  <2> QED
    BY <1>4, <1>5, <1>6, <2>1, <2>2 DEF UnderWay
<1>8. /\ Present' /\ TokensAwaited' /\ RequestsFirst' /\ HeldServed'
      /\ StreamsRouted' /\ fault' = "none" /\ Live' = Live
      /\ (\A b \in toXapp' : b.kind \in Kinds => b \in toXapp) => AnswersEnd'
  <2>1. failed' \intersect alive = {}
    BY <1>2 DEF Present
  <2> QED
    BY <1>2, <1>4, <1>6, <1>7, <2>1, QuietFrame
<1>9. ASSUME m.kind \in Kinds, d.xapp \in alive
      PROVE  /\ Answers(a) /\ ~Unheard(xreq[a.xapp])
             /\ \A r \in Live : SameKey(r, a) => r = d
             /\ m.kind = "SUBS" => /\ d.kind = "SUBS" /\ Requested(d, "SUBS") = xreq[a.xapp]
                                   /\ Sub(d) \in active[d.node]
             /\ m.kind = "DEL" => Sub(d) \notin active[d.node]
  <2>1. /\ Awaited(m, d) /\ d \in map /\ d \in Live /\ m = Token(d, m.kind) /\ UnderWay(m)
        /\ xreq[d.xapp] = Requested(d, m.kind)
    BY <1>5, <1>9 DEF Awaited
  <2>2. Answers(a)
    <3>1. Requested(d, m.kind) # NoReq
      BY <1>1, <1>9, NoReqAssumption, TokenTypes
    <3> QED
      BY <1>3, <2>1, <3>1 DEF Answers, Requested
  <2>3. ASSUME Unheard(xreq[a.xapp])
        PROVE  FALSE
    <3>1. CASE Unsent(Requested(d, m.kind))
      BY <1>9, <2>1, <3>1, UnsentIsNew
    <3>2. CASE ipc = "addMap" /\ Requested(d, m.kind) = imsg
      <4>1. imsg \in InHand /\ SameKey(imsg, d)
        BY <3>2 DEF InHand, SameKey, Requested
      <4> QED
        BY <2>1, <4>1 DEF IdInv, KeysUsedOnce
    <3> QED
      BY <1>3, <2>1, <2>3, <3>1, <3>2 DEF Unheard, Unsent
  <2>4. \A r \in Live : SameKey(r, a) => r = d
    BY <1>3, <2>1, LiveRoutes DEF SameKey
  <2>5. m.kind = "SUBS" => d.kind = "SUBS" /\ Sub(d) \in active[d.node]
    <3>1. AtWorker(m, Early)
      BY <1>a, <1>1 DEF AtWorker, Early
    <3> QED
      BY <1>3, <1>9, <2>1, <3>1 DEF StreamsRouted, Awaited, OfRoute
  <2>6. m.kind = "DEL" => Sub(d) \notin active[d.node]
    <3>1. AtWorker(m, Busy)
      BY <1>a, <1>1 DEF AtWorker, Busy, Early
    <3> QED
      BY <2>1, <3>1 DEF StreamsRouted
  <2> QED
    BY <1>3, <2>1, <2>2, <2>3, <2>4, <2>5, <2>6
<1>10. AnswersEnd'
  <2>1. CASE m.kind \notin Kinds \/ d.xapp \notin alive
    BY <1>2, <1>3, <1>8, <2>1
  <2>2. CASE m.kind \in Kinds /\ d.xapp \in alive
    <3>1. ASSUME NEW b \in toXapp', b.kind \in Kinds
          PROVE  /\ b.xapp \in alive /\ Answers(b) /\ ~Unheard(xreq[b.xapp])
                 /\ b.kind = "SUBS" => \E r \in map : /\ r.kind = "SUBS" /\ Requested(r, "SUBS") = xreq[b.xapp]
                                                      /\ Sub(r) \in active[r.node]
                 /\ b.kind = "DEL" => \A r \in map : SameKey(r, b) => Sub(r) \notin active[r.node]
      <4>1. CASE b \in toXapp
        BY <3>1, <4>1 DEF AnswersEnd
      <4>2. CASE b = a
        BY <1>3, <1>5, <1>9, <2>2, <4>2, LiveRoutes
      <4> QED
        BY <1>2, <4>1, <4>2
    <3>2. ASSUME NEW b \in toXapp', b.kind \in Kinds, NEW r \in Live, SameKey(r, b)
          PROVE  ~UnderWay(Token(r, b.kind))'
      <4>1. CASE b \in toXapp
        BY <1>7, <3>2, <4>1 DEF AnswersEnd
      <4>2. CASE b = a
        BY <1>3, <1>5, <1>7, <1>9, <2>2, <3>2, <4>2
      <4> QED
        BY <1>2, <4>1, <4>2
    <3>3. ASSUME NEW b \in toXapp', b.kind \in Kinds
          PROVE  Answers(b)' /\ ~Unheard(xreq[b.xapp])'
      BY <1>4, <3>1, <3>3 DEF Answers, Unheard
    <3> QED
      BY <1>4, <1>8, <3>1, <3>2, <3>3 DEF AnswersEnd
  <2> QED
    BY <2>1, <2>2
<1>11. \A v \in Workers \ {w} : wpc'[v] = wpc[v] /\ wmsg'[v] = wmsg[v] /\ wdst'[v] = wdst[v]
  <2>1. CASE EndsRoute(m) /\ wpc' = [wpc EXCEPT ![w] = "remove"] /\ UNCHANGED <<wmsg, wdst>>
    BY <1>a, <1>1, <2>1 DEF TypeOK, TypeWorkers
  <2>2. CASE ~EndsRoute(m) /\ TaskDone(w)
    BY <1>c, <1>1, <1>4, <2>2, WorkerDone
  <2> QED
    BY <1>2, <2>1, <2>2
<1>12. \/ EndsRoute(m) /\ wpc'[w] = "remove" /\ wmsg'[w] = m /\ wdst'[w] = d
       \/ ~EndsRoute(m) /\ wpc'[w] = "idle"
  <2>1. CASE EndsRoute(m) /\ wpc' = [wpc EXCEPT ![w] = "remove"] /\ UNCHANGED <<wmsg, wdst>>
    BY <1>a, <1>1, <2>1 DEF TypeOK, TypeWorkers
  <2>2. CASE ~EndsRoute(m) /\ TaskDone(w)
    BY <1>c, <1>1, <1>4, <2>2, WorkerDone
  <2> QED
    BY <1>2, <2>1, <2>2
<1>13. TokensOnce'
  <2>1. \A v \in Workers : wpc'[v] # "idle" => /\ wpc[v] # "idle" /\ wmsg'[v] = wmsg[v]
                                               /\ wpc'[v] = "stop" => wpc[v] = "stop"
    BY <1>1, <1>11, <1>12, <1>a
  <2> QED
    BY <1>4, <1>c, <2>1, TokensFewer
<1>14. WorkersSure'
  <2>1. ASSUME EndsRoute(m), wpc'[w] = "remove", wmsg'[w] = m, wdst'[w] = d
        PROVE  WorkerSure(w)'
    <3>1. m.kind \in {"CTRL", "DEL"} /\ m.kind \in Kinds
      BY <2>1 DEF EndsRoute, Kinds
    <3>2. d.xapp \in alive => xreq[d.xapp] = Requested(d, m.kind)
      BY <1>5, <3>1 DEF Awaited
    <3>3. m.kind = "DEL" => Requested(d, m.kind) # Requested(d, "SUBS")
      BY DEF Requested
    <3>4. OfRoute(m, d) /\ (d \in map \/ (d.xapp \notin alive /\ m.kind # "CTRL"))
      BY <1>d, <3>1
    <3> QED
      BY <1>4, <2>1, <3>1, <3>2, <3>3, <3>4 DEF WorkerSure, OfRoute
  <2>2. ASSUME wpc'[w] = "idle"
        PROVE  WorkerSure(w)'
    BY <2>2 DEF WorkerSure
  <2>3. WorkerSure(w)'
    BY ONLY <1>12, <2>1, <2>2
  <2>4. \A v \in Workers \ {w} : WorkerSure(v)'
    BY <1>4, <1>11, SureFrame
  <2> QED
    BY <2>3, <2>4 DEF WorkersSure
<1>15. PendingMatches'
  <2>1. \A t : (InHandEvent(t)' <=> InHandEvent(t)) /\ (Expected(t)' <=> Expected(t))
    BY <1>4, <1>6 DEF InHandEvent, Expected
  <2> QED
    BY <1>4, <1>6, <2>1 DEF PendingMatches
<1>16. ControlsUnderWay'
  <2>1. \A r \in Live : Token(r, "CTRL") = m => EndsRoute(m)
    BY DEF Token, EndsRoute
  <2> QED
    BY <1>7, <1>8, <2>1 DEF ControlsUnderWay
<1>17. IdsPositive'
  <2>1. \A v \in Workers : wpc'[v] # "idle" => wpc[v] # "idle" /\ wmsg'[v] = wmsg[v]
    BY <1>1, <1>11, <1>12, <1>a
  <2> QED
    BY <1>4, <2>1 DEF IdsPositive
<1> QED
  BY <1>8, <1>10, <1>13, <1>14, <1>15, <1>16, <1>17

\* The route of a control, or of a deleted subscription, goes when nothing needs it.
LEMMA WorkerRemoveLives ==
  ASSUME CalmInv, NEW w \in Workers, WorkerRemove(w)
  PROVE  Lives' \/ (UNCHANGED dataVars /\ Stopped')
<1> USE DEF CalmInv, Lives, Living
<1>a. PICK m, d : m = wmsg[w] /\ d = wdst[w]
  OBVIOUS
<1>1. /\ wpc[w] = "remove" /\ wpc[w] # "idle" /\ ~MapLocked /\ TypeOK
      /\ m.kind \in {"CTRL", "DEL"} /\ m.kind \in Kinds
      /\ OfRoute(m, d) /\ (m.kind = "DEL" /\ d.xapp \in alive => xreq[d.xapp] # Requested(d, "SUBS"))
      /\ d \in map \/ (d.xapp \notin alive /\ m.kind # "CTRL")
  <2>1. wpc[w] = "remove" /\ ~MapLocked /\ TypeOK /\ WorkerSure(w)
    BY DEF WorkerRemove, WorkersSure, IdInv
  <2> QED
    BY <1>a, <2>1 DEF WorkerSure, Kinds
<1>b. /\ Live = map /\ d \in Route /\ d.xapp \in XApps
      /\ \A r \in map : r.req = d.req \/ SameKey(r, d) => r = d
  <2>1. Live = map
    BY <1>1 DEF MapLocked, Live, RouteBeingAdded
  <2>2. d \in Held
    BY <1>a, <1>1 DEF Held
  <2> QED
    BY <2>1, <2>2, HeldIsLive DEF PastInv, Route
<1>c. RoutesOfXappKey(d) = IF d \in map THEN {d} ELSE {}
  BY <1>b DEF RoutesOfXappKey, SameKey
<1>d. ASSUME d \notin map
      PROVE  UNCHANGED dataVars /\ Stopped'
  <2>1. UNCHANGED dataVars /\ fault' = "rm_map_ric_id"
    BY <1>a, <1>c, <1>d DEF WorkerRemove, Abort
  <2>2. UNCHANGED <<wpc, wmsg, alive>>
    BY <2>1 DEF dataVars, workVars, xappVars
  <2>3. alive # XApps /\ m.kind = "DEL"
    BY <1>1, <1>b, <1>d
  <2> QED
    BY <1>a, <1>1, <2>1, <2>2, <2>3 DEF Stopped
<1>2. SUFFICES ASSUME d \in map
               PROVE  Lives'
  BY <1>d
<1>3. RoutesOfXappKey(d) = {d} /\ d \in Live
  BY <1>2, <1>b, <1>c
<1>4. /\ map' = map \ {d} /\ TaskDone(w)
      /\ UNCHANGED <<xappVars, toIapp, edge, toXapp, iappVars, idVars, pendVars,
                     nodeVars, rx, regVars, fault>>
  BY <1>a, <1>3 DEF WorkerRemove
<1>5. /\ Live' = map \ {d}
      /\ UNCHANGED <<toNode, active, rx, pending, timers, xreq, lid, xsubs, alive, failed, ipc, imsg, newId,
                     itodo, idel, toIapp, toXapp>>
  BY <1>1, <1>4 DEF MapLocked, Live, RouteBeingAdded, nodeVars, xappVars, iappVars, pendVars
<1>6. /\ m \in Pending
      /\ ~Again(m) => /\ ~AtNode(m) /\ m \notin rx
                      /\ \A v \in Workers \ {w} : \A pcs \in SUBSET Busy : ~(wpc[v] \in pcs /\ wmsg[v] = m)
  BY <1>a, <1>1, InOneHand
<1>7. /\ m = Token(d, m.kind) /\ m.req = d.req
      /\ d.kind = "SUBS" => m.kind = "DEL"
      /\ d.kind # "SUBS" => d.kind = "CTRL" /\ m.kind = "CTRL"
  BY <1>1, <1>b, <1>6, TokenTypes DEF OfRoute, Route
<1>e. (Again(m) => m.kind = "DEL" /\ d.xapp \notin alive) /\ \A t : Again(t) => Again(t)'
  BY <1>3, <1>5, <1>7, <1>b DEF Again
<1>8. /\ TokensOnce' /\ wpc'[w] = "idle"
      /\ \A v \in Workers \ {w} : wpc'[v] = wpc[v] /\ wmsg'[v] = wmsg[v] /\ wdst'[v] = wdst[v]
      /\ \A t : \A pcs \in SUBSET Busy :
           /\ AtWorker(t, pcs)' => AtWorker(t, pcs)
           /\ t # m \/ wpc[w] \notin pcs => (AtWorker(t, pcs)' <=> AtWorker(t, pcs))
      /\ \A t : AtNode(t)' <=> AtNode(t)
  BY <1>a, <1>e, <1>1, <1>4, <1>5, WorkerDone
<1>9. ASSUME NEW t
      PROVE  /\ (UnderWay(t)' <=> UnderWay(t)) /\ (Somewhere(t)' => Somewhere(t))
             /\ t # m => (Somewhere(t)' <=> Somewhere(t))
             /\ AtWorker(t, {"stop"})' <=> AtWorker(t, {"stop"})
             /\ AtWorker(t, {"close"})' <=> AtWorker(t, {"close"})
             /\ AtWorker(t, Early)' <=> AtWorker(t, Early)
             /\ AtWorker(t, Busy)' => AtWorker(t, Busy)
  <2>1. /\ Early \in SUBSET Busy /\ Busy \in SUBSET Busy
        /\ {"stop"} \in SUBSET Busy /\ {"close"} \in SUBSET Busy
        /\ {"remove"} \in SUBSET Busy /\ "remove" \notin Early
        /\ "remove" \notin {"stop"} /\ "remove" \notin {"close"}
    BY DEF Busy, Early
  <2>2. /\ AtWorker(t, {"stop"})' <=> AtWorker(t, {"stop"})
        /\ AtWorker(t, {"close"})' <=> AtWorker(t, {"close"})
        /\ AtWorker(t, Early)' <=> AtWorker(t, Early)
        /\ AtWorker(t, Busy)' => AtWorker(t, Busy)
        /\ AtWorker(t, {"remove"})' => AtWorker(t, {"remove"})
        /\ t # m => (AtWorker(t, {"remove"})' <=> AtWorker(t, {"remove"}))
    BY <1>1, <1>8, <2>1
  <2>3. UnderWay(t)' <=> UnderWay(t)
    BY <1>5, <1>8, <2>2 DEF UnderWay
  <2> QED
    BY <2>2, <2>3 DEF Somewhere
<1>10. Somewhere(m) /\ AtWorker(m, Busy) /\ (UnderWay(m) => Again(m))
  <2>1. AtWorker(m, Early) => Again(m)
    BY <1>a, <1>1, <1>6 DEF AtWorker, Early, Busy
  <2>2. AtWorker(m, {"remove"}) /\ AtWorker(m, Busy)
    BY <1>a, <1>1 DEF AtWorker, Busy
  <2> QED
    BY <1>6, <2>1, <2>2 DEF UnderWay, Somewhere
<1>12. d.kind = "SUBS" => /\ Somewhere(Token(d, "DEL")) /\ Sub(d) \notin active[d.node]
                          /\ ~AtNode(Token(d, "SUBS"))
                          /\ d.xapp \in alive => xreq[d.xapp] # Requested(d, "SUBS")
  BY <1>1, <1>3, <1>7, <1>10 DEF StreamsRouted
<1>11. ASSUME NEW t \in Pending, UnderWay(t), t.req = d.req
       PROVE  d.xapp \notin alive /\ t.kind # "CTRL" /\ (t.kind = "SUBS" => ~AtNode(t))
  <2>1. t = Token(d, t.kind) /\ OfRoute(t, d) /\ (d.xapp \in alive => Awaited(t, d))
    BY <1>3, <1>11, TokenOfRoute DEF Somewhere
  <2>2. t.kind = m.kind => Again(m)
    BY <1>7, <1>10, <1>11, <2>1
  <2>3. t.kind # m.kind => t.kind = "SUBS" /\ d.kind = "SUBS"
    BY <1>7, <1>11, <2>1 DEF OfRoute
  <2>4. t.kind = "SUBS" => d.kind = "SUBS" /\ m.kind = "DEL"
    BY <1>7, <2>1 DEF OfRoute
  <2>5. d.xapp \in alive => FALSE
    BY <1>12, <1>e, <2>1, <2>2, <2>3 DEF Awaited
  <2>6. t.kind = "CTRL" => FALSE
    BY <1>e, <2>2, <2>3
  <2>7. t.kind = "SUBS" => ~AtNode(t)
    BY <1>12, <2>1, <2>4
  <2> QED
    BY <2>5, <2>6, <2>7
<1>13. Present' /\ fault' = "none"
  BY <1>4 DEF Present, xappVars, regVars
<1>14. TokensAwaited'
  <2>1. ASSUME NEW t \in Pending, UnderWay(t)'
        PROVE  Stray(t)' \/ \E r \in Live' : Awaited(t, r)'
    <3>1. CASE Stray(t)
      BY <1>5, <1>8, <1>b, <3>1 DEF Stray
    <3>2. ASSUME NEW r \in Live, Awaited(t, r), r # d
          PROVE  r \in Live' /\ Awaited(t, r)'
      BY <1>5, <1>b, <3>2 DEF Awaited
    <3>3. CASE Awaited(t, d)
      <4>1. t.req = d.req /\ UnderWay(t)
        BY <1>9, <2>1, <3>3 DEF Awaited, OfRoute
      <4>2. d.xapp \notin alive /\ t.kind # "CTRL" /\ (t.kind = "SUBS" => ~AtNode(t))
        BY <1>11, <4>1
      <4>3. \A r \in Live' : r.req # t.req
        BY <1>5, <1>b, <4>1
      <4> QED
        BY <1>5, <1>8, <1>b, <4>2, <4>3 DEF Stray
    <3> QED
      BY <1>9, <2>1, <3>1, <3>2, <3>3 DEF TokensAwaited
  <2>2. \A q \in toNode', r \in Live' : r.req = q.req => r.node = q.node
    BY <1>5, <1>b DEF TokensAwaited
  <2> QED
    BY <2>1, <2>2 DEF TokensAwaited
<1>15. WorkersSure'
  <2>1. WorkerSure(w)'
    BY <1>8 DEF WorkerSure
  <2>2. ASSUME NEW v \in Workers \ {w}
        PROVE  WorkerSure(v)'
    <3>1. wpc'[v] = wpc[v] /\ wmsg'[v] = wmsg[v] /\ wdst'[v] = wdst[v] /\ WorkerSure(v)
      BY <1>8 DEF WorkersSure
    <3>2. ASSUME wpc[v] \in {"send", "remove"}, wmsg[v].kind \in Kinds, wdst[v] = d
          PROVE  d.xapp \notin alive /\ wmsg[v].kind # "CTRL"
      <4>1. OfRoute(wmsg[v], d) /\ wmsg[v] \in Pending
        BY <1>1, <3>1, <3>2, TokenTypes DEF WorkerSure
      <4>2. CASE wpc[v] = "send"
        <5>1. UnderWay(wmsg[v]) /\ wmsg[v].req = d.req
          BY <4>1, <4>2 DEF UnderWay, AtWorker, Early, OfRoute
        <5> QED
          BY <1>11, <4>1, <5>1
      <4>3. CASE wpc[v] = "remove"
        <5>1. wmsg[v].kind = m.kind
          BY <1>7, <3>1, <3>2, <4>1, <4>3 DEF WorkerSure, OfRoute
        <5>2. wmsg[v] = m
          BY <1>1, <1>7, <1>b, <4>1, <5>1, TokenTypes
        <5>3. Again(m)
          BY <1>6, <4>3, <5>2 DEF Busy
        <5> QED
          BY <1>e, <5>1, <5>3
      <4> QED
        BY <3>2, <4>2, <4>3
    <3> QED
      BY <1>4, <1>5, <3>1, <3>2 DEF WorkerSure, OfRoute
  <2> QED
    BY <2>1, <2>2 DEF WorkersSure
<1>16. RequestsFirst'
  <2>1. ASSUME NEW q \in Request, Unsent(q)', q.kind = "DEL"
        PROVE  DeleteFinds(q)'
    <3>1. DeleteFinds(q)
      BY <1>5, <2>1 DEF RequestsFirst, Unsent
    <3>2. PICK r \in map : /\ r.kind = "SUBS" /\ Requested(r, "DEL") = q /\ ~Somewhere(Token(r, "DEL"))
                           /\ ipc \in {"delete", "sendDelete"} /\ q = imsg => itodo = {r}
      BY <3>1 DEF DeleteFinds
    <3>3. r # d
      BY <1>12, <3>2
    <3> QED
      BY <1>4, <1>5, <1>9, <3>2, <3>3 DEF DeleteFinds
  <2>2. Reclaims => Reclaims'
    BY <1>5 DEF Reclaims
  <2> QED
    BY <1>5, <2>1, <2>2 DEF RequestsFirst
<1>17. AnswersEnd'
  <2>1. ASSUME NEW a \in toXapp, a.kind \in Kinds
        PROVE  /\ a.xapp \in alive /\ Answers(a)' /\ ~Unheard(xreq[a.xapp])'
               /\ \A r \in Live' : SameKey(r, a) => ~UnderWay(Token(r, a.kind))'
    BY <1>b, <1>5, <1>9, <2>1 DEF AnswersEnd, Answers, Unheard
  <2>2. ASSUME NEW a \in toXapp, a.kind = "SUBS"
        PROVE  \E r \in map' : /\ r.kind = "SUBS" /\ Requested(r, "SUBS") = xreq[a.xapp]
                               /\ Sub(r) \in active[r.node]
    <3>1. PICK r \in map : r.kind = "SUBS" /\ Requested(r, "SUBS") = xreq[a.xapp] /\ Sub(r) \in active[r.node]
      BY <2>2 DEF AnswersEnd, Kinds
    <3>2. r # d
      BY <1>12, <3>1
    <3> QED
      BY <1>4, <3>1, <3>2
  <2>3. ASSUME NEW a \in toXapp, a.kind = "DEL", NEW r \in map', SameKey(r, a)
        PROVE  Sub(r) \notin active[r.node]
    BY <1>4, <2>3 DEF AnswersEnd, Kinds
  <2> QED
    BY <1>5, <2>1, <2>2, <2>3 DEF AnswersEnd
<1>18. HeldServed'
  <2>1. ASSUME NEW x \in XApps, x \in alive, NEW h \in xsubs[x], xreq[x] = NoReq \/ xreq[x].id # h.id
        PROVE  \E r \in map' : /\ r.kind = "SUBS" /\ Requested(r, "SUBS") = h
                               /\ Sub(r) \in active[r.node] /\ ~Somewhere(Token(r, "DEL"))'
    <3>1. PICK r \in map : /\ r.kind = "SUBS" /\ Requested(r, "SUBS") = h
                           /\ Sub(r) \in active[r.node] /\ ~Somewhere(Token(r, "DEL"))
      BY <2>1 DEF HeldServed
    <3>2. r # d
      BY <1>12, <3>1
    <3> QED
      BY <1>4, <1>9, <3>1, <3>2
  <2> QED
    BY <1>5, <2>1 DEF HeldServed
<1>19. StreamsRouted'
  <2>1. ASSUME NEW n \in Nodes, NEW s \in active[n]
        PROVE  \E r \in Live' : r.kind = "SUBS" /\ Sub(r) = s /\ r.node = n
    <3>1. PICK r \in Live : r.kind = "SUBS" /\ Sub(r) = s /\ r.node = n
      BY DEF StreamsRouted
    <3>2. r # d
      BY <1>12, <3>1
    <3> QED
      BY <1>b, <1>5, <3>1, <3>2
  <2> QED
    BY <1>b, <1>5, <1>8, <1>9, <2>1 DEF StreamsRouted
<1>20. PendingMatches'
  <2>1. \A t : (InHandEvent(t)' <=> InHandEvent(t)) /\ (Expected(t)' <=> Expected(t))
    BY <1>5, <1>8, <1>9 DEF InHandEvent, Expected
  <2> QED
    BY <1>5, <1>9, <2>1 DEF PendingMatches
<1>21. ControlsUnderWay'
  <2>1. \A r \in Live' : Token(r, "CTRL") # m
    BY <1>5, <1>7, <1>b DEF Token
  <2> QED
    BY <1>b, <1>5, <1>9, <2>1 DEF ControlsUnderWay
<1>22. IdsPositive'
  <2>1. \A v \in Workers : wpc'[v] # "idle" => wpc[v] # "idle" /\ wmsg'[v] = wmsg[v]
    BY <1>8
  <2> QED
    BY <1>4, <1>5, <2>1 DEF IdsPositive
<1> QED
  BY <1>8, <1>13, <1>14, <1>15, <1>16, <1>17, <1>18, <1>19, <1>20, <1>21, <1>22

\* No step of a node or a worker disturbs the life of a request, but for the failed
\* assertion that NoAbort admits.
LEMMA AnswerLives ==
  ASSUME CalmInv,
         \/ \E m \in toNode : NodeAnswers(m)
         \/ \E n \in Nodes : NodeIndicates(n)
         \/ \E w \in Workers : WorkerStep(w) \/ (\E m \in rx : WorkerTake(w, m))
  PROVE  Lives' \/ (UNCHANGED dataVars /\ Stopped')
<1>1. ASSUME NEW w \in Workers, WorkerStep(w)
      PROVE  Lives' \/ (UNCHANGED dataVars /\ Stopped')
  BY <1>1, WorkerStopLives, WorkerCloseLives, WorkerFindLives, WorkerSendLives,
     WorkerRemoveLives DEF WorkerStep
<1> QED
  BY <1>1, NodeAnswersLives, NodeIndicatesLives, WorkerTakeLives

-----------------------------------------------------------------------------
(* What a calm RIC guarantees.                                             *)

\* In the beginning nothing is asked.
LEMMA LivesInit == Init => Lives
<1> SUFFICES ASSUME Init
             PROVE  Lives
  OBVIOUS
<1>1. /\ toIapp = {} /\ toXapp = {} /\ ipc = "idle" /\ map = {} /\ pending = {} /\ timers = {}
      /\ toNode = {} /\ rx = {} /\ active = [n \in Nodes |-> {}] /\ wpc = [w \in Workers |-> "idle"]
      /\ xsubs = [x \in XApps |-> {}] /\ xreq = [x \in XApps |-> NoReq] /\ fault = "none"
      /\ failed = {} /\ itodo = {} /\ lid = [x \in XApps |-> 1] /\ imsg = NoReq
  BY DEF Init
<1>2. Live = {}
  BY <1>1 DEF Live, RouteBeingAdded
<1>3. \A t : ~AtNode(t) /\ \A pcs \in SUBSET Busy : ~AtWorker(t, pcs)
  BY <1>1 DEF AtNode, AtWorker, Busy, Early
<1>4. \A t : /\ ~UnderWay(t) /\ ~Somewhere(t) /\ ~AtWorker(t, {"stop"}) /\ ~InHandEvent(t)
             /\ ~Expected(t) /\ ~AtWorker(t, Early) /\ ~AtWorker(t, Busy)
  <2>1. /\ Early \in SUBSET Busy /\ {"remove"} \in SUBSET Busy /\ {"stop"} \in SUBSET Busy
        /\ Busy \in SUBSET Busy
    BY DEF Busy, Early
  <2> QED
    BY <1>1, <1>3, <2>1 DEF UnderWay, Somewhere, InHandEvent, Expected
<1>5. Present
  BY DEF Init, Present
<1>6. TokensAwaited /\ TokensOnce /\ WorkersSure
  BY <1>1, <1>4 DEF TokensAwaited, TokensOnce, WorkersSure, WorkerSure
<1>7. RequestsFirst /\ AnswersEnd /\ HeldServed
  BY <1>1, NoReqAssumption DEF RequestsFirst, Unsent, AnswersEnd, HeldServed
<1>8. StreamsRouted /\ ControlsUnderWay /\ IdsPositive
  BY <1>1, <1>2 DEF StreamsRouted, ControlsUnderWay, IdsPositive
<1>9. PendingMatches
  BY <1>1, <1>3, <1>4 DEF PendingMatches
<1> QED
  BY <1>1, <1>5, <1>6, <1>7, <1>8, <1>9 DEF Lives, Living

\* Nothing changes while nothing happens.
LEMMA LivingStutter ==
  ASSUME Living, UNCHANGED dataVars
  PROVE  Living'
<1>1. /\ UNCHANGED <<toIapp, toXapp, toNode, rx, active, map, pending, timers>>
      /\ UNCHANGED <<xreq, lid, xsubs, alive, failed, ipc, imsg, newId, itodo, idel>>
      /\ UNCHANGED <<wpc, wmsg, wdst, sockAddrs, regNodes>>
  BY DEF dataVars, xappVars, iappVars, nodeVars, workVars, pendVars, regVars
<1>2. \A t : (AtNode(t)' <=> AtNode(t)) /\ \A pcs : AtWorker(t, pcs)' <=> AtWorker(t, pcs)
  BY <1>1 DEF AtNode, AtWorker
<1>3. \A t : (UnderWay(t)' <=> UnderWay(t)) /\ (Somewhere(t)' <=> Somewhere(t))
  BY <1>1, <1>2 DEF UnderWay, Somewhere
<1>4. Live' = Live
  BY <1>1 DEF Live, RouteBeingAdded
<1> USE DEF Living
<1>a. \A t : /\ Again(t)' <=> Again(t)
             /\ Stray(t)' <=> Stray(t)
             /\ Expected(t)' <=> Expected(t)
             /\ InHandEvent(t)' <=> InHandEvent(t)
  BY <1>1, <1>2, <1>4 DEF Again, Stray, Expected, InHandEvent
<1>5. Present' /\ WorkersSure'
  BY <1>1 DEF Present, WorkersSure, WorkerSure
<1>b. TokensOnce'
  <2>1. ASSUME NEW q \in toNode, NEW t, t = PendingOf(q)
        PROVE  t \notin rx /\ ~AtWorker(t, {"stop"})' /\ (AtWorker(t, Busy)' => Again(t)')
    BY <1>2, <1>a, <2>1 DEF TokensOnce
  <2>2. \A q \in toNode : LET t == PendingOf(q)
                          IN  t \notin rx /\ ~AtWorker(t, {"stop"})' /\ (AtWorker(t, Busy)' => Again(t)')
    BY <2>1
  <2>3. ASSUME NEW w \in Workers, wpc[w] # "idle", wmsg[w].kind \in Kinds
        PROVE  /\ wmsg[w] \in rx => wpc[w] # "stop" /\ Again(wmsg[w])'
               /\ \A v \in Workers : wpc[v] # "idle" /\ wmsg[v] = wmsg[w] =>
                    v = w \/ (Again(wmsg[w])' /\ ~(wpc[v] = "stop" /\ wpc[w] = "stop"))
    BY <1>1, <1>a, <2>3 DEF TokensOnce
  <2> QED
    BY <1>1, <2>2, <2>3 DEF TokensOnce
<1>6. TokensAwaited'
  BY <1>1, <1>3, <1>4, <1>a DEF TokensAwaited, Awaited
<1>7. RequestsFirst'
  BY <1>1, <1>3 DEF RequestsFirst, Reclaims, Unsent, DeleteFinds
<1>8. AnswersEnd'
  BY <1>1, <1>3, <1>4 DEF AnswersEnd, Answers, Unheard
<1>9. HeldServed'
  BY <1>1, <1>3 DEF HeldServed
<1>10. StreamsRouted'
  BY <1>1, <1>2, <1>4 DEF StreamsRouted
<1>11. PendingMatches'
  BY <1>1, <1>2, <1>a DEF PendingMatches
<1>12. ControlsUnderWay' /\ IdsPositive'
  BY <1>1, <1>3, <1>4 DEF ControlsUnderWay, IdsPositive
<1> QED
  BY <1>5, <1>b, <1>6, <1>7, <1>8, <1>9, <1>10, <1>11, <1>12

\* A timer that fires changes nothing but that the RIC stops.
LEMMA RicTimeoutLives ==
  ASSUME CalmInv, NEW t \in timers, RicTimeout(t)
  PROVE  Living' /\ Stopped'
<1> USE DEF CalmInv, Lives, Living
<1>1. UNCHANGED dataVars /\ SlowNodes
  BY DEF RicTimeout, Abort
<1>2. wpc' = wpc
  BY <1>1 DEF dataVars, workVars
<1>3. Stopped'
  <2>1. CASE t \in pending
    BY <1>1, <2>1 DEF RicTimeout, Abort, Stopped
  <2>2. CASE t \notin pending
    <3>1. PICK w \in Workers : wpc[w] = "close"
      BY <2>2 DEF PendingMatches, AtWorker
    <3> QED
      BY <1>1, <1>2, <2>2, <3>1 DEF RicTimeout, Abort, Stopped
  <2> QED
    BY <2>1, <2>2
<1>4. Living'
  BY <1>1, LivingStutter
<1> QED
  BY ONLY <1>3, <1>4

\* What a step of a calm RIC that runs may be.
LEMMA CalmStep ==
  ASSUME Calm, RicInv, IdInv', Next
  PROVE  /\ CalmInv
         /\ Lives' \/ (UNCHANGED dataVars /\ Living' /\ Stopped')
<1>1. CalmInv
  BY DEF CalmInv, RicInv, Lives, Next, Running
<1>2. CASE \E t \in timers : RicTimeout(t)
  BY <1>1, <1>2, RicTimeoutLives DEF RicTimeout, Abort
<1>3. CASE ~\E t \in timers : RicTimeout(t)
  <2>1. Lives' \/ (UNCHANGED dataVars /\ Stopped')
    BY <1>1, <1>3, XappLives, IappLives, AnswerLives DEF Next
  <2>2. UNCHANGED dataVars => Living'
    BY <1>1, LivingStutter DEF CalmInv, Lives
  <2> QED
    BY <1>1, <2>1, <2>2
<1> QED
  BY <1>2, <1>3

\* In the beginning nothing is reported.
LEMMA ReportsInit == Init => ReportsOwned
BY DEF Init, ReportsOwned, Reported, AtWorker

\* Reports that are no more than before, of routes that are no more, stay owned.
LEMMA ReportsFrame ==
  ASSUME ReportsOwned, served' = served, Live' \subseteq Live,
         ipc' = "forward" => ipc = "forward" /\ newId' = newId,
         \A t \in FromNode : Reported(t)' => Reported(t)
  PROVE  ReportsOwned'
BY DEF ReportsOwned

\* Nothing changes while nothing happens.
LEMMA ReportsStutter ==
  ASSUME ReportsOwned, UNCHANGED dataVars
  PROVE  ReportsOwned'
<1>1. UNCHANGED <<rx, wpc, wmsg, map, ipc, imsg, newId, served>>
  BY DEF dataVars, workVars, iappVars, idVars
<1>2. Live' = Live /\ \A t : Reported(t)' <=> Reported(t)
  BY <1>1 DEF Live, RouteBeingAdded, Reported, AtWorker
<1> QED
  BY <1>1, <1>2, ReportsFrame

\* The iApp gives an id that no report carries.
LEMMA ReportsIapp ==
  ASSUME CalmInv, IappStep
  PROVE  ReportsOwned'
<1> USE DEF CalmInv
<1>1. UNCHANGED <<rx, wpc, wmsg>>
  BY DEF IappStep, IappReceive, IappReceiveDelete, IappAllocate, IappForward, IappAddMap,
         IappXappGone, IappDeletePend, IappSendDelete, Abort, dataVars, workVars
<1>2. \A t : Reported(t)' <=> Reported(t)
  BY <1>1 DEF Reported, AtWorker
<1>3. CASE UNCHANGED dataVars
  BY <1>3, ReportsStutter
<1>4. CASE IappAllocate
  <2>1. /\ served' = served + 1 /\ newId' = FirstReqId + served /\ ipc' = "forward"
        /\ map' = map /\ ipc = "allocate" /\ served \in Nat
    BY <1>4, ReqIdAssumption
       DEF IappAllocate, IdInv, IdsGivenOnce, TypeOK, TypeIapp, TypeRic
  <2>2. Live' = Live
    BY <2>1 DEF Live, RouteBeingAdded
  <2>3. \A t \in FromNode : t.req \in Nat
    BY DEF FromNode, ReqIds
  <2> QED
    BY <1>2, <2>1, <2>2, <2>3, ReqIdAssumption DEF ReportsOwned
<1>5. ASSUME IappForward, ~UNCHANGED dataVars
      PROVE  ReportsOwned'
  <2>1. /\ ipc = "forward" /\ ipc' = "addMap" /\ UNCHANGED <<map, newId, served, imsg>>
    BY <1>5 DEF IappForward, Abort, idVars
  <2>2. \A r \in Live' : r \in Live \/ r.req = newId
    BY <2>1 DEF Live, RouteBeingAdded
  <2> QED
    BY <1>2, <2>1, <2>2 DEF ReportsOwned
<1>6. ASSUME IappAddMap, ~UNCHANGED dataVars
      PROVE  ReportsOwned'
  <2>1. ipc = "addMap" /\ ipc' = "idle" /\ served' = served /\ map' = Live
    BY <1>6 DEF IappAddMap, Abort, idVars, Live, RouteBeingAdded
  <2>2. Live' = Live
    BY <2>1 DEF Live, RouteBeingAdded
  <2> QED
    BY <1>2, <2>1, <2>2, ReportsFrame
<1>7. ASSUME \/ \E m \in toIapp : IappReceive(m) \/ IappReceiveDelete(m)
             \/ \E x \in failed : IappXappGone(x)
             \/ \E r \in itodo : IappDeletePend(r)
             \/ IappSendDelete,
             ~UNCHANGED dataVars
      PROVE  ReportsOwned'
  <2>1. UNCHANGED <<map, served>> /\ ipc' \notin {"forward", "addMap"}
    BY <1>7 DEF IappReceive, IappReceiveDelete, IappXappGone, IappDeletePend, IappSendDelete,
                DeleteNext, Abort, idVars
  <2>2. Live' \subseteq Live
    BY <2>1 DEF Live, RouteBeingAdded
  <2> QED
    BY <1>2, <2>1, <2>2, ReportsFrame
<1> QED
  BY <1>3, <1>4, <1>5, <1>6, <1>7 DEF IappStep

\* A node reports for a subscription that has its route.
LEMMA ReportsNode ==
  ASSUME CalmInv, NEW n \in Nodes, NodeIndicates(n)
  PROVE  ReportsOwned'
<1> USE DEF CalmInv, Lives, Living
<1>1. UNCHANGED <<wpc, wmsg, map, ipc, imsg, newId, served>>
  BY DEF NodeIndicates, workVars, iappVars, idVars
<1>2. Live' = Live
  BY <1>1 DEF Live, RouteBeingAdded
<1>3. PICK s \in active[n] :
        rx' = rx \union {[kind |-> "IND", req |-> s.req, func |-> s.func]}
  BY DEF NodeIndicates
<1>4. PICK r \in Live : r.req = s.req /\ r.func = s.func
  BY DEF StreamsRouted, Sub
<1>5. r.req < FirstReqId + served /\ (ipc = "forward" => r.req # newId)
  BY DEF IdInv, IdsGivenOnce, Live, RouteBeingAdded
<1>6. \A q \in Live : q.req = r.req => q.func = r.func
  BY LiveRoutes
<1>7. ASSUME NEW t \in FromNode, Reported(t)'
      PROVE  Reported(t) \/ (t.req = r.req /\ t.func = r.func)
  BY <1>1, <1>3, <1>4, <1>7 DEF Reported, AtWorker
<1> QED
  BY <1>1, <1>2, <1>5, <1>6, <1>7 DEF ReportsOwned

\* The others take reports and routes away.
LEMMA ReportsOthers ==
  ASSUME CalmInv,
         \/ \E x \in XApps : XappStep(x)
         \/ \E m \in toXapp : XappAnswered(m) \/ XappIndication(m)
         \/ \E m \in toNode : NodeAnswers(m)
         \/ \E w \in Workers : WorkerStep(w) \/ (\E m \in rx : WorkerTake(w, m))
         \/ \E t \in timers : RicTimeout(t)
  PROVE  ReportsOwned'
<1> USE DEF CalmInv, Lives, Living
<1>1. map' \subseteq map /\ UNCHANGED <<ipc, imsg, newId, served>>
  <2> USE DEF iappVars, idVars, Abort, dataVars
  <2>1. CASE \/ \E x \in XApps : XappStep(x)
             \/ \E m \in toXapp : XappAnswered(m) \/ XappIndication(m)
             \/ \E m \in toNode : NodeAnswers(m)
             \/ \E t \in timers : RicTimeout(t)
    BY <2>1 DEF XappStep, XappRequest, XappDelete, XappLeaves, XappAnswered, XappIndication,
                NodeAnswers, RicTimeout
  <2>2. CASE \E w \in Workers : WorkerStep(w) \/ (\E m \in rx : WorkerTake(w, m))
    BY <2>2 DEF WorkerStep, WorkerTake, WorkerStop, WorkerClose, WorkerFind, WorkerSend,
                WorkerRemove
  <2> QED
    BY <2>1, <2>2
<1>2. Live' \subseteq Live
  BY <1>1 DEF Live, RouteBeingAdded
<1>3. ASSUME NEW t \in FromNode, Reported(t)'
      PROVE  Reported(t)
  <2>1. CASE \/ \E x \in XApps : XappStep(x)
             \/ \E m \in toXapp : XappAnswered(m) \/ XappIndication(m)
             \/ \E k \in timers : RicTimeout(k)
    <3>1. UNCHANGED <<rx, wpc, wmsg>>
      BY <2>1 DEF XappStep, XappRequest, XappDelete, XappLeaves, XappAnswered, XappIndication,
                  RicTimeout, Abort, dataVars, workVars
    <3> QED
      BY <1>3, <3>1 DEF Reported, AtWorker
  <2>2. ASSUME NEW m \in toNode, NodeAnswers(m)
        PROVE  Reported(t)
    <3>1. UNCHANGED <<wpc, wmsg>> /\ rx' = rx \union {PendingOf(m)} /\ PendingOf(m).kind \in Kinds
      BY <2>2 DEF NodeAnswers, workVars, IdInv, TypeOK, TypeMessages, ToNode, PendingOf
    <3> QED
      BY <1>3, <3>1 DEF Reported, AtWorker, Kinds
  <2>3. ASSUME NEW w \in Workers, WorkerStep(w) \/ (\E m \in rx : WorkerTake(w, m))
        PROVE  Reported(t)
    <3>1. /\ rx' \subseteq rx
          /\ \A v \in Workers : v # w => wpc'[v] = wpc[v] /\ wmsg'[v] = wmsg[v]
      BY <2>3 DEF WorkerStep, WorkerTake, WorkerStop, WorkerClose, WorkerFind, WorkerSend,
                  WorkerRemove, TaskDone, Abort, dataVars, workVars, IdInv, TypeOK, TypeWorkers
    <3>2. wpc'[w] = "find" /\ wmsg'[w].kind = "IND" =>
            wmsg'[w] \in rx \/ (wpc[w] = "find" /\ wmsg'[w] = wmsg[w])
      BY <2>3 DEF WorkerStep, WorkerTake, WorkerStop, WorkerClose, WorkerFind, WorkerSend,
                  WorkerRemove, TaskDone, Abort, dataVars, workVars, IdInv, TypeOK, TypeWorkers,
                  WorkersSure, WorkerSure, Kinds
    <3> QED
      BY <1>3, <3>1, <3>2 DEF Reported, AtWorker
  <2> QED
    BY <2>1, <2>2, <2>3
<1> QED
  BY <1>1, <1>2, <1>3, ReportsFrame

\* Every step keeps the reports owned.
LEMMA ReportsStep ==
  ASSUME CalmInv, Next
  PROVE  ReportsOwned'
BY ReportsIapp, ReportsNode, ReportsOthers DEF Next

\* The life of every request, in every reachable state of a calm RIC; it stops
\* only when a timer fires or an xApp has left.
THEOREM CalmInvariant ==
  ASSUME Calm
  PROVE  Spec => []RicInv
<1>1. FirstReqId + MaxServed <= ReqIdMod /\ DisjointUse
  BY DEF Calm
<1> DEFINE Rest == ReportsOwned /\ Living /\ (Running \/ Stopped)
<1>2. Init => Rest
  BY LivesInit, ReportsInit DEF Lives, Running
<1>3. Rest /\ IdInv /\ OwnInv /\ PastInv /\ IdInv' /\ [Next]_vars => Rest'
  <2> SUFFICES ASSUME Rest, IdInv, OwnInv, PastInv, IdInv', [Next]_vars
               PROVE  Rest'
    OBVIOUS
  <2>1. CASE UNCHANGED vars
    <3>1. UNCHANGED dataVars /\ fault' = fault /\ UNCHANGED <<wpc, wmsg, alive>>
      BY <2>1 DEF vars, dataVars, workVars, xappVars
    <3>2. (Running \/ Stopped)'
      BY <3>1 DEF Running, Stopped
    <3> QED
      BY <3>1, <3>2, LivingStutter, ReportsStutter
  <2>2. CASE Next
    <3>1. RicInv
      BY DEF RicInv
    <3>2. CalmInv /\ (Lives' \/ (Living' /\ Stopped'))
      BY <2>2, <3>1, CalmStep
    <3>3. ReportsOwned'
      BY <2>2, <3>2, ReportsStep
    <3> QED
      BY <3>2, <3>3 DEF Lives, Running
  <2> QED
    BY <2>1, <2>2
<1>4. Spec => []IdInv
  BY <1>1, IdInvariant
<1>5. Spec => []OwnInv
  BY <1>1, OwnInvariant
<1>6. Spec => []PastInv
  BY <1>1, PastInvariant
<1>7. Rest /\ IdInv /\ OwnInv /\ PastInv => RicInv
  BY DEF RicInv
<1> HIDE DEF Rest
<1> QED
  BY <1>2, <1>3, <1>4, <1>5, <1>6, <1>7, PTL DEF Spec

\* With xApps that own the functions they use, and ids left to give, an assertion of
\* the RIC or the iApp fails, in any order of the threads, however late the nodes
\* and whoever leaves, only for the causes Excuse names: a timer that fired, or an
\* answer to an xApp that left and whose subscription is deleted already.
THEOREM NeverAborts ==
  ASSUME Calm
  PROVE  Spec => []NoAbort
<1>1. RicInv => NoAbort
  BY DEF RicInv, Stopped, NoAbort, Excuse
<1> QED
  BY <1>1, CalmInvariant, PTL

\* Then an answer always meets the xApp that waits for it, and one answer only.
THEOREM AnswersAreExpected ==
  ASSUME Calm
  PROVE  Spec => []AnswersExpected
<1>1. RicInv => AnswersExpected
  BY DEF RicInv, Living, AnswersEnd, AnswersExpected
<1> QED
  BY <1>1, CalmInvariant, PTL

\* What an xApp was told is subscribed has its route and its stream, and no node
\* streams what cannot be routed.
THEOREM SubscriptionsAreServed ==
  ASSUME Calm
  PROVE  Spec => []SubscriptionsServed
<1>1. RicInv => SubscriptionsServed
  <2> SUFFICES ASSUME RicInv
               PROVE  SubscriptionsServed
    OBVIOUS
  <2> USE DEF RicInv, Living
  <2>1. ASSUME NEW x \in alive, NEW s \in xsubs[x], xreq[x] = NoReq \/ xreq[x].id # s.id
        PROVE  \E r \in map : /\ r.xapp = x /\ r.id = s.id /\ r.func = s.func /\ r.node = s.node
                              /\ [req |-> r.req, func |-> r.func] \in active[r.node]
    <3>1. x \in XApps /\ s.xapp = x
      BY DEF IdInv, TypeOK, TypeXapps, OwnInv, OwnFunctions
    <3>2. PICK r \in map : Requested(r, "SUBS") = s /\ Sub(r) \in active[r.node]
      BY <2>1, <3>1 DEF HeldServed
    <3>3. r.xapp = x /\ r.id = s.id /\ r.func = s.func /\ r.node = s.node
      BY <3>1, <3>2 DEF Requested
    <3> QED
      BY <3>2, <3>3 DEF Sub
  <2>2. ASSUME NEW n \in Nodes, NEW s \in active[n]
        PROVE  \/ \E r \in RoutesOfReq(s.req) : r.kind = "SUBS" /\ r.node = n
               \/ ipc \in {"forward", "addMap"} /\ newId = s.req
    <3>1. PICK r \in Live : r.kind = "SUBS" /\ Sub(r) = s /\ r.node = n
      BY DEF StreamsRouted
    <3>2. r.req = s.req
      BY <3>1 DEF Sub
    <3>3. r \in map \/ (ipc = "addMap" /\ r.req = newId)
      BY DEF Live, RouteBeingAdded
    <3> QED
      BY <3>1, <3>2, <3>3 DEF RoutesOfReq
  <2> QED
    BY <2>1, <2>2 DEF SubscriptionsServed
<1> QED
  BY <1>1, CalmInvariant, PTL

\* Only an xApp that may leave leaves.
LEMMA NobodyLeaves ==
  ASSUME ~XAppsLeave
  PROVE  Spec => [](alive = XApps)
<1>1. Init => alive = XApps
  BY DEF Init
<1>2. [Next]_vars => UNCHANGED alive
  <2> SUFFICES ASSUME [Next]_vars
               PROVE  UNCHANGED alive
    OBVIOUS
  <2> USE DEF xappVars, dataVars, Abort
  <2>1. CASE UNCHANGED vars
    BY <2>1 DEF vars
  <2>2. ASSUME NEW x \in XApps, XappStep(x)
        PROVE  UNCHANGED alive
    BY <2>2 DEF XappStep, XappRequest, XappDelete, XappLeaves
  <2>3. ASSUME NEW m \in toXapp, XappAnswered(m) \/ XappIndication(m)
        PROVE  UNCHANGED alive
    BY <2>3 DEF XappAnswered, XappIndication
  <2>4. ASSUME NEW m \in toIapp, IappReceive(m) \/ IappReceiveDelete(m)
        PROVE  UNCHANGED alive
    BY <2>4 DEF IappReceive, IappReceiveDelete
  <2>5. CASE IappAllocate \/ IappForward \/ IappAddMap \/ IappSendDelete
    BY <2>5 DEF IappAllocate, IappForward, IappAddMap, IappSendDelete
  <2>6. ASSUME \/ \E x \in failed : IappXappGone(x)
               \/ \E r \in itodo : IappDeletePend(r)
        PROVE  UNCHANGED alive
    BY <2>6 DEF IappXappGone, IappDeletePend
  <2>7. ASSUME \/ \E m \in toNode : NodeAnswers(m)
               \/ \E n \in Nodes : NodeIndicates(n)
               \/ \E t \in timers : RicTimeout(t)
        PROVE  UNCHANGED alive
    BY <2>7 DEF NodeAnswers, NodeIndicates, RicTimeout
  <2>8. ASSUME NEW w \in Workers, WorkerStep(w) \/ \E m \in rx : WorkerTake(w, m)
        PROVE  UNCHANGED alive
    BY <2>8 DEF WorkerStep, WorkerTake, WorkerStop, WorkerClose, WorkerFind, WorkerSend, WorkerRemove
  <2> QED
    BY <2>1, <2>2, <2>3, <2>4, <2>5, <2>6, <2>7, <2>8 DEF Next, IappStep
<1>3. alive = XApps /\ UNCHANGED alive => (alive = XApps)'
  OBVIOUS
<1> QED
  BY <1>1, <1>2, <1>3, PTL DEF Spec

\* No control route, no pending event and no timer outlives its request, if the
\* xApps stay.
THEOREM PendingIsRouted ==
  ASSUME Calm, ~XAppsLeave
  PROVE  Spec => []PendingRouted
<1>1. RicInv /\ alive = XApps => PendingRouted
  <2> SUFFICES ASSUME RicInv, alive = XApps
               PROVE  PendingRouted
    OBVIOUS
  <2> USE DEF RicInv, Living
  <2>1. ASSUME NEW t, NEW pcs \in SUBSET Busy, AtWorker(t, pcs)
        PROVE  Carried(t.kind, t.req)
    BY <2>1 DEF AtWorker, Carried, Busy, Early
  <2>2. /\ {"stop"} \in SUBSET Busy /\ {"close"} \in SUBSET Busy /\ Early \in SUBSET Busy
        /\ {"remove"} \in SUBSET Busy
    BY DEF Busy, Early
  <2>3. ASSUME NEW r \in map, r.kind = "CTRL"
        PROVE  (\E p \in pending : p.kind = "CTRL" /\ p.req = r.req) \/ Carried("CTRL", r.req)
    <3> DEFINE t == Token(r, "CTRL")
    <3>1. r \in Live /\ t \in Pending /\ t.kind = "CTRL" /\ t.req = r.req
      BY LiveRoutes, TokenTypes DEF IdInv, Kinds
    <3>2. Somewhere(t)
      BY <2>3, <3>1 DEF ControlsUnderWay
    <3> HIDE DEF t
    <3>3. AtNode(t) \/ t \in rx \/ Carried("CTRL", r.req)
      BY <2>1, <2>2, <3>1, <3>2 DEF Somewhere, UnderWay
    <3> QED
      BY <3>1, <3>3 DEF PendingMatches, Expected
  <2>4. ASSUME NEW p \in pending, p.kind # "DEL"
        PROVE  \/ \E r \in RoutesOfReq(p.req) : r.kind = p.kind
               \/ ipc \in {"forward", "addMap"} /\ newId = p.req
    <3>1. p \in Pending
      BY DEF IdInv, TypeOK, TypeRic
    <3>2. UnderWay(p) \/ InHandEvent(p)
      BY <3>1 DEF PendingMatches, Expected, UnderWay, AtWorker, Early
    <3>3. CASE InHandEvent(p)
      BY <2>4, <3>3 DEF InHandEvent, Token
    <3>4. CASE UnderWay(p)
      <4>1. PICK r \in Live : r.req = p.req /\ r.kind = p.kind
        BY <2>4, <3>1, <3>4 DEF TokensAwaited, Stray, Awaited, OfRoute
      <4>2. r \in map \/ (ipc = "addMap" /\ r.req = newId)
        BY DEF Live, RouteBeingAdded
      <4> QED
        BY <4>1, <4>2 DEF RoutesOfReq
    <3> QED
      BY <3>2, <3>3, <3>4
  <2>5. \A t \in timers : t \in pending \/ Carried(t.kind, t.req)
    BY <2>1, <2>2 DEF PendingMatches
  <2> QED
    BY <2>3, <2>4, <2>5 DEF PendingRouted
<1> QED
  BY <1>1, CalmInvariant, NobodyLeaves, PTL

-----------------------------------------------------------------------------
(* The routing implements the service, a step at a time.                   *)

\* The streams, by the routes the nodes serve.
LEMMA StreamOfRoute ==
  ASSUME CalmInv
  PROVE  /\ Streams = {Requested(r, "SUBS") : r \in {q \in Live : Sub(q) \in active[q.node]}}
         /\ \A r \in Live : Sub(r) \in active[r.node] => r.kind = "SUBS"
         /\ \A r, s \in Live : Requested(r, "SUBS") = Requested(s, "SUBS") => r = s
<1> USE DEF CalmInv, Lives, Living
<1>1. Streams = {Requested(r, "SUBS") : r \in {q \in Live : Sub(q) \in active[q.node]}}
  BY DEF Streams, Live, Requested, Sub
<1>2. ASSUME NEW r \in Live, Sub(r) \in active[r.node]
      PROVE  r.kind = "SUBS"
  <2>1. r.node \in Nodes
    BY LiveRoutes DEF Route
  <2>2. PICK s \in Live : s.kind = "SUBS" /\ Sub(s) = Sub(r)
    BY <1>2, <2>1 DEF StreamsRouted
  <2>3. s = r
    BY <2>2, LiveRoutes DEF Sub
  <2> QED
    BY <2>2, <2>3
<1>3. \A r, s \in Live : Requested(r, "SUBS") = Requested(s, "SUBS") => r = s
  <2>1. \A r, s \in Live : Requested(r, "SUBS") = Requested(s, "SUBS") => SameKey(r, s)
    BY DEF Requested, SameKey
  <2> QED
    BY <2>1, LiveRoutes
<1> QED
  BY <1>1, <1>2, <1>3

\* Streams depend on the routes and on what the nodes serve.
LEMMA SameStreams ==
  ASSUME Live' = Live, UNCHANGED active
  PROVE  Streams' = Streams
BY DEF Streams, Live

\* A route no node serves yet, or any more, comes and goes unseen.
LEMMA IdleRouteUnseen ==
  ASSUME CalmInv, CalmInv', UNCHANGED active,
         \/ \E d \in Live' : Live' = Live \union {d} /\ Sub(d) \notin active[d.node]
         \/ \E d \in Live : Live' = Live \ {d} /\ Sub(d) \notin active[d.node]
  PROVE  Streams' = Streams
<1>1. Streams = {Requested(r, "SUBS") : r \in {q \in Live : Sub(q) \in active[q.node]}}
  BY StreamOfRoute
<1>2. Streams' = {Requested(r, "SUBS") : r \in {q \in Live' : Sub(q) \in active[q.node]}}
  BY DEF Streams, Live, Requested, Sub
<1>3. {q \in Live' : Sub(q) \in active[q.node]} = {q \in Live : Sub(q) \in active[q.node]}
  OBVIOUS
<1> QED
  BY <1>1, <1>2, <1>3

\* An xApp asks; an answer follows its effect; all else of an xApp is unseen.
LEMMA XappServes ==
  ASSUME Calm, CalmInv, CalmInv',
         \/ \E x \in XApps : XappStep(x)
         \/ \E m \in toXapp : XappAnswered(m) \/ XappIndication(m)
  PROVE  [Service!Next]_Service!vars
<1> USE DEF CalmInv, Lives, Living
<1>1. alive \subseteq XApps
  BY DEF IdInv, TypeOK, TypeXapps
<1>2. ASSUME NEW x \in XApps, NEW m \in Request, m.xapp = x, x \in alive, xreq[x] = NoReq,
             xreq' = [xreq EXCEPT ![x] = m], UNCHANGED <<alive, iappVars, map, nodeVars>>
      PROVE  Service!Next
  <2>1. Live' = Live /\ UNCHANGED active
    BY <1>2 DEF Live, RouteBeingAdded, iappVars, nodeVars
  <2>2. Streams' = Streams
    BY <2>1, SameStreams
  <2>3. Service!Ask(x)
    BY <1>1, <1>2, <2>2 DEF Service!Ask
  <2> QED
    BY <2>3 DEF Service!Next
<1>3. ASSUME NEW x \in XApps, NEW kind \in {"SUBS", "CTRL"}, XappRequest(x, kind)
      PROVE  Service!Next
  <2>1. PICK f \in Uses[x], n \in Nodes :
          xreq' = [xreq EXCEPT ![x] = [kind |-> kind, xapp |-> x, id |-> lid[x], func |-> f, node |-> n]]
    BY <1>3 DEF XappRequest
  <2> DEFINE m == [kind |-> kind, xapp |-> x, id |-> lid[x], func |-> f, node |-> n]
  <2>2. TypeXapps /\ lid[x] <= MaxLocal
    BY <1>3 DEF XappRequest, IdInv, TypeOK
  <2>3. m \in Request /\ m.xapp = x
    BY <2>2, NewRequest
  <2>4. xreq' = [xreq EXCEPT ![x] = m]
    BY <2>1
  <2> HIDE DEF m
  <2>5. x \in alive /\ xreq[x] = NoReq /\ UNCHANGED <<alive, iappVars, map, nodeVars>>
    BY <1>3 DEF XappRequest
  <2> QED
    BY <1>2, <2>3, <2>4, <2>5
<1>4. ASSUME NEW x \in XApps, XappDelete(x)
      PROVE  Service!Next
  <2>1. PICK s \in xsubs[x] : xreq' = [xreq EXCEPT ![x] = [s EXCEPT !.kind = "DEL"]]
    BY <1>4 DEF XappDelete
  <2> DEFINE m == [s EXCEPT !.kind = "DEL"]
  <2>2. s \in Request /\ s.xapp = x
    BY DEF IdInv, TypeOK, TypeXapps, OwnInv, OwnFunctions
  <2>3. m \in Request /\ m.xapp = x
    BY <2>2 DEF Request, Kinds
  <2>4. xreq' = [xreq EXCEPT ![x] = m]
    BY <2>1
  <2> HIDE DEF m
  <2>5. x \in alive /\ xreq[x] = NoReq /\ UNCHANGED <<alive, iappVars, map, nodeVars>>
    BY <1>4 DEF XappDelete
  <2> QED
    BY <1>2, <2>3, <2>4, <2>5
<1>5. ASSUME NEW m \in toXapp, XappAnswered(m)
      PROVE  Service!Next
  <2> DEFINE x == m.xapp
  <2>1. /\ m.kind \in Kinds /\ x \in XApps /\ Answers(m) /\ xreq[x] # NoReq
        /\ xreq' = [xreq EXCEPT ![x] = NoReq] /\ x \in alive /\ UNCHANGED <<alive, iappVars, map,
                                                                            nodeVars>>
    BY <1>5 DEF XappAnswered, Answers, IdInv, TypeOK, TypeMessages, ToXapp
  <2>2. xreq[x] \in Request /\ xreq[x].xapp = x /\ xreq[x].kind = m.kind /\ xreq[x].id = m.id
    BY <2>1 DEF Answers, IdInv, TypeOK, TypeXapps, OwnInv, OwnFunctions
  <2>3. Live' = Live /\ UNCHANGED active
    BY <2>1 DEF Live, RouteBeingAdded, iappVars, nodeVars
  <2>4. Streams' = Streams
    BY <2>3, SameStreams
  <2>5. ASSUME xreq[x].kind = "SUBS"
        PROVE  xreq[x] \in Streams
    <3>1. PICK r \in map : Requested(r, "SUBS") = xreq[x] /\ Sub(r) \in active[r.node]
      BY <2>1, <2>2, <2>5 DEF AnswersEnd
    <3>2. r \in Live
      BY LiveRoutes
    <3> QED
      BY <3>1, <3>2, StreamOfRoute
  <2>6. ASSUME xreq[x].kind = "DEL", Service!Subscription(xreq[x]) \in Streams
        PROVE  FALSE
    <3>1. PICK r \in Live : Requested(r, "SUBS") = Service!Subscription(xreq[x]) /\ Sub(r) \in active[r.node]
      BY <2>6, StreamOfRoute
    <3>2. r.xapp = x /\ r.id = m.id
      BY <2>2, <3>1 DEF Requested, Service!Subscription, Request
    <3>3. r \notin map
      <4>1. m.kind = "DEL" /\ SameKey(r, m)
        BY <2>2, <2>6, <3>2 DEF SameKey
      <4> QED
        BY <2>1, <3>1, <4>1 DEF AnswersEnd
    <3>4. ipc = "addMap" /\ imsg.xapp = x
      BY <3>2, <3>3 DEF Live, RouteBeingAdded
    <3>5. Unheard(xreq[x])
      BY <3>4 DEF RequestsFirst, Unheard, IdInv, TypeOK, TypeIapp
    <3> QED
      BY <2>1, <3>5 DEF AnswersEnd
  <2>7. Service!Answer(x)
    BY <1>1, <2>1, <2>4, <2>5, <2>6 DEF Service!Answer
  <2> QED
    BY <2>1, <2>7 DEF Service!Next
<1>6. ASSUME NEW m \in toXapp, XappIndication(m)
      PROVE  UNCHANGED Service!vars
  <2>1. UNCHANGED <<xappVars, iappVars, map, nodeVars>>
    BY <1>6 DEF XappIndication
  <2>2. Live' = Live /\ UNCHANGED <<active, xreq, alive>>
    BY <2>1 DEF Live, RouteBeingAdded, iappVars, nodeVars, xappVars
  <2> QED
    BY <2>2, SameStreams DEF Service!vars
<1>7. ASSUME NEW x \in XApps, XappLeaves(x)
      PROVE  Service!Next
  <2>1. x \in alive /\ alive' = alive \ {x} /\ UNCHANGED <<xreq, iappVars, map, nodeVars>>
    BY <1>7 DEF XappLeaves
  <2>2. Live' = Live /\ UNCHANGED active
    BY <2>1 DEF Live, RouteBeingAdded, iappVars, nodeVars
  <2>3. Streams' = Streams
    BY <2>2, SameStreams
  <2>4. XApps \ alive' = (XApps \ alive) \union {x}
    BY <2>1
  <2>5. Service!Leave(x)
    BY <2>1, <2>3, <2>4 DEF Service!Leave
  <2> QED
    BY <2>5 DEF Service!Next
<1> QED
  BY <1>3, <1>4, <1>5, <1>6, <1>7 DEF XappStep

\* The iApp thread is unseen.
LEMMA IappServes ==
  ASSUME CalmInv, CalmInv', IappStep
  PROVE  UNCHANGED Service!vars
<1> USE DEF CalmInv, Lives, Living
<1>1. fault' = "none"
  OBVIOUS
<1>2. UNCHANGED <<xreq, active, alive>>
  <2> USE <1>1 DEF xappVars, nodeVars, dataVars, Abort
  <2>1. ASSUME NEW m \in toIapp, IappReceive(m) \/ IappReceiveDelete(m)
        PROVE  UNCHANGED <<xreq, active, alive>>
    BY <2>1 DEF IappReceive, IappReceiveDelete
  <2>2. CASE IappAllocate \/ IappForward \/ IappAddMap
    BY <2>2 DEF IappAllocate, IappForward, IappAddMap
  <2>3. CASE \E r \in itodo : IappDeletePend(r)
    BY <2>3 DEF IappDeletePend
  <2>4. CASE IappSendDelete
    BY <2>4 DEF IappSendDelete
  <2>5. CASE \E x \in failed : IappXappGone(x)
    BY <2>5 DEF IappXappGone
  <2> QED
    BY <2>1, <2>2, <2>3, <2>4, <2>5 DEF IappStep
<1>3. Streams' = Streams
  <2>1. CASE IappForward
    <3> DEFINE new == [kind |-> imsg.kind, req |-> newId, node |-> imsg.node, xapp |-> imsg.xapp,
                       id |-> imsg.id, func |-> imsg.func]
    <3>1. ipc = "forward" /\ imsg.node \in Nodes
      BY <2>1 DEF IappForward, IdInv, TypeOK, TypeIapp, Request
    <3>2. ipc' = "addMap" /\ UNCHANGED <<imsg, newId, map>>
      BY <2>1, <3>1 DEF IappForward, Present
    <3>3. Live = map /\ Live' = Live \union {new}
      BY <3>1, <3>2 DEF Live, RouteBeingAdded
    <3>4. new.req = newId /\ new.node = imsg.node
      OBVIOUS
    <3> HIDE DEF new
    <3>5. \A r \in Live : r.req # newId
      BY <3>1, <3>3 DEF IdInv, IdsGivenOnce
    <3>6. \A r \in Live : Sub(r) # Sub(new)
      BY <3>4, <3>5 DEF Sub
    <3>7. Sub(new) \notin active[new.node]
      BY <3>1, <3>4, <3>6 DEF StreamsRouted
    <3> QED
      BY <1>2, <3>3, <3>7, IdleRouteUnseen
  <2>2. CASE IappAddMap
    <3>1. ipc = "addMap" /\ ipc' = "idle"
      BY <1>1, <2>2 DEF IappAddMap, Abort
    <3>2. map' = map \union RouteBeingAdded
      BY <1>1, <2>2, <3>1 DEF IappAddMap, RouteBeingAdded, Abort
    <3>3. Live' = Live
      BY <3>1, <3>2 DEF Live, RouteBeingAdded
    <3> QED
      BY <1>2, <3>3, SameStreams
  <2>3. ASSUME ipc # "addMap", ipc' # "addMap", map' = map
        PROVE  Streams' = Streams
    <3>1. Live' = Live
      BY <2>3 DEF Live, RouteBeingAdded
    <3> QED
      BY <1>2, <3>1, SameStreams
  <2>4. ASSUME NEW m \in toIapp, IappReceive(m) \/ IappReceiveDelete(m)
        PROVE  Streams' = Streams
    <3>1. ipc # "addMap" /\ ipc' # "addMap" /\ map' = map
      BY <1>1, <2>4 DEF IappReceive, IappReceiveDelete, Abort
    <3> QED
      BY <2>3, <3>1
  <2>5. CASE IappAllocate
    <3>1. ipc # "addMap" /\ ipc' # "addMap" /\ map' = map
      BY <2>5 DEF IappAllocate
    <3> QED
      BY <2>3, <3>1
  <2>6. ASSUME NEW r \in itodo, IappDeletePend(r)
        PROVE  Streams' = Streams
    <3>1. ipc # "addMap" /\ ipc' # "addMap" /\ map' = map
      BY <2>6 DEF IappDeletePend, DeleteNext
    <3> QED
      BY <2>3, <3>1
  <2>7. CASE IappSendDelete
    <3>1. ipc # "addMap" /\ ipc' # "addMap" /\ map' = map
      BY <1>1, <2>7 DEF IappSendDelete, DeleteNext, Abort
    <3> QED
      BY <2>3, <3>1
  <2>8. ASSUME NEW x \in failed, IappXappGone(x)
        PROVE  Streams' = Streams
    <3>1. ipc # "addMap" /\ ipc' # "addMap" /\ map' = map
      BY <2>8 DEF IappXappGone
    <3> QED
      BY <2>3, <3>1
  <2> QED
    BY <2>1, <2>2, <2>4, <2>5, <2>6, <2>7, <2>8 DEF IappStep
<1> QED
  BY <1>1, <1>2, <1>3 DEF Service!vars

\* The node's answer to a subscription starts its stream, the one to a delete ends it.
LEMMA NodeServes ==
  ASSUME CalmInv, CalmInv', NEW m \in toNode, NodeAnswers(m)
  PROVE  [Service!Next]_Service!vars
<1> USE DEF CalmInv, Lives, Living
<1>1. UNCHANGED <<xappVars, iappVars, map>>
  BY DEF NodeAnswers
<1>2. Live' = Live /\ UNCHANGED <<xreq, alive>>
  BY <1>1 DEF Live, RouteBeingAdded, iappVars, xappVars
<1>3. /\ \A r \in Live : r.req # m.req => (Sub(r) \in active'[r.node] <=> Sub(r) \in active[r.node])
      /\ m.kind # "DEL" => \E r \in Live : r.req = m.req
      /\ m.kind = "CTRL" => active' = active
      /\ \A r, q \in Live : r.req = m.req /\ q.req = m.req => r = q
  BY AnswerMovesStream
<1>4. /\ Streams = {Requested(r, "SUBS") : r \in {q \in Live : Sub(q) \in active[q.node]}}
      /\ \A r, q \in Live : Requested(r, "SUBS") = Requested(q, "SUBS") => r = q
  BY StreamOfRoute
<1>5. Streams' = {Requested(r, "SUBS") : r \in {q \in Live : Sub(q) \in active'[q.node]}}
  BY <1>2 DEF Streams, Live, Requested, Sub
<1>6. CASE \A r \in Live : r.req # m.req
  <2>1. Streams' = Streams
    BY <1>3, <1>4, <1>5, <1>6
  <2> QED
    BY <1>2, <2>1 DEF Service!vars
<1>7. ASSUME NEW r0 \in Live, r0.req = m.req
      PROVE  [Service!Next]_Service!vars
  <2>1. /\ r0 \in Route
        /\ xreq[r0.xapp] = Requested(r0, m.kind) \/ (m.kind = "DEL" /\ r0.xapp \notin alive)
        /\ \A r \in Live : r # r0 => (Sub(r) \in active'[r.node] <=> Sub(r) \in active[r.node])
        /\ m.kind = "SUBS" => Sub(r0) \in active'[r0.node]
        /\ m.kind = "DEL" => Sub(r0) \notin active'[r0.node]
    BY <1>3, <1>7, AnswerMovesStream, LiveRoutes
  <2> DEFINE s == Requested(r0, "SUBS")
  <2>2. /\ s.xapp = r0.xapp /\ s.kind = "SUBS" /\ [s EXCEPT !.kind = "DEL"] = Requested(r0, "DEL")
        /\ r0.xapp \in XApps
    BY <2>1 DEF Requested, Route
  <2> HIDE DEF s
  <2>3. CASE m.kind = "SUBS"
    <3>1. {q \in Live : Sub(q) \in active'[q.node]} = {q \in Live : Sub(q) \in active[q.node]} \union {r0}
      BY <2>1, <2>3
    <3>2. Streams' = Streams \union {s}
      BY <1>4, <1>5, <3>1 DEF s
    <3>3. xreq[r0.xapp] = s /\ s # NoReq
      <4>1. s \in Request
        BY <2>1, TokenTypes DEF s, IdInv, Kinds
      <4> QED
        BY <2>1, <2>3, <4>1, NoReqAssumption DEF s
    <3>4. Service!Start(r0.xapp)
      BY <1>2, <2>2, <3>2, <3>3 DEF Service!Start
    <3> QED
      BY <2>2, <3>4 DEF Service!Next
  <2>4. CASE m.kind = "DEL"
    <3>1. {q \in Live : Sub(q) \in active'[q.node]} = {q \in Live : Sub(q) \in active[q.node]} \ {r0}
      BY <2>1, <2>4
    <3>2. Streams' = Streams \ {s}
      BY <1>4, <1>5, <3>1 DEF s
    <3>3. s.xapp \in XApps \ alive \/ xreq[s.xapp] = [s EXCEPT !.kind = "DEL"]
      BY <2>1, <2>2, <2>4
    <3>4. CASE s \in Streams
      <4>1. Service!Stop(s)
        BY <1>2, <3>2, <3>3 DEF Service!Stop
      <4> QED
        BY <3>4, <4>1 DEF Service!Next
    <3>5. CASE s \notin Streams
      BY <1>2, <3>2, <3>5 DEF Service!vars
    <3> QED
      BY <3>4, <3>5
  <2>5. CASE m.kind = "CTRL"
    BY <1>2, <1>3, <2>5, SameStreams DEF Service!vars
  <2> QED
    BY <2>3, <2>4, <2>5 DEF IdInv, TypeOK, TypeMessages, ToNode, Kinds
<1> QED
  BY <1>6, <1>7

\* Indications and workers are unseen: a route goes when its stream is over.
LEMMA WorkersServe ==
  ASSUME CalmInv, CalmInv',
         \/ \E n \in Nodes : NodeIndicates(n)
         \/ \E w \in Workers : WorkerStep(w) \/ (\E m \in rx : WorkerTake(w, m))
  PROVE  UNCHANGED Service!vars
<1> USE DEF CalmInv, Lives, Living
<1>1. fault' = "none"
  OBVIOUS
<1>2. UNCHANGED <<xreq, alive, active, ipc, imsg, newId>>
  <2>1. CASE \E n \in Nodes : NodeIndicates(n)
    BY <2>1 DEF NodeIndicates, xappVars, iappVars
  <2>2. CASE \E w \in Workers : WorkerStep(w) \/ (\E m \in rx : WorkerTake(w, m))
    BY <2>2 DEF WorkerStep, WorkerTake, WorkerStop, WorkerClose, WorkerFind, WorkerSend, WorkerRemove,
                xappVars, iappVars, nodeVars, Abort, dataVars
  <2> QED
    BY <2>1, <2>2
<1>3. ASSUME map' = map
      PROVE  Streams' = Streams
  <2>1. Live' = Live
    BY <1>2, <1>3 DEF Live, RouteBeingAdded
  <2> QED
    BY <1>2, <2>1, SameStreams
<1>4. ASSUME NEW w \in Workers, WorkerRemove(w)
      PROVE  Streams' = Streams
  <2>1. PICK m, d : m = wmsg[w] /\ d = wdst[w]
    OBVIOUS
  <2>a. RoutesOfXappKey(d) # {}
    BY <1>1, <1>4, <2>1 DEF WorkerRemove, Abort
  <2>b. d \in Held /\ wpc[w] = "remove"
    BY <1>4, <2>1 DEF WorkerRemove, Held
  <2>4. \A r \in map : r.xapp = d.xapp /\ r.id = d.id => r = d
    BY <2>b, HeldIsLive, LiveRoutes DEF PastInv, SameKey
  <2>5. RoutesOfXappKey(d) = {d} /\ d \in map
    BY <2>a, <2>4 DEF RoutesOfXappKey
  <2>2. wpc[w] = "remove" /\ m.kind \in {"CTRL", "DEL"} /\ d \in map /\ OfRoute(m, d) /\ m \in Pending
    BY <2>1, <2>b, <2>5, TokenTypes DEF WorkersSure, WorkerSure, IdInv, Kinds
  <2>3. Live = map /\ d \in Live /\ d \in Route /\ Live' = map'
    BY <1>2, <1>4, <2>2, LiveRoutes DEF WorkerRemove, MapLocked, Live, RouteBeingAdded, IdInv
  <2>6. Live' = Live \ {d}
    BY <1>4, <2>1, <2>3, <2>5 DEF WorkerRemove
  <2>7. Sub(d) \notin active[d.node]
    <3>1. CASE d.kind = "SUBS"
      <4>1. m = Token(d, "DEL")
        BY <2>2, <2>3, <3>1, TokenTypes DEF OfRoute, IdInv
      <4>2. AtWorker(m, Busy)
        BY <2>1, <2>2 DEF AtWorker, Busy
      <4> QED
        BY <2>3, <4>1, <4>2 DEF StreamsRouted
    <3>2. CASE d.kind # "SUBS"
      BY <2>3, <3>2, StreamOfRoute
    <3> QED
      BY <3>1, <3>2
  <2> QED
    BY <1>2, <2>3, <2>6, <2>7, IdleRouteUnseen
<1>5. Streams' = Streams
  <2>1. CASE \E n \in Nodes : NodeIndicates(n)
    BY <1>3, <2>1 DEF NodeIndicates
  <2>2. ASSUME NEW w \in Workers,
               \/ \E m \in rx : WorkerTake(w, m)
               \/ WorkerStop(w) \/ WorkerClose(w) \/ WorkerFind(w) \/ WorkerSend(w)
        PROVE  map' = map
    BY <2>2 DEF WorkerTake, WorkerStop, WorkerClose, WorkerFind, WorkerSend, Abort, dataVars
  <2> QED
    BY <1>3, <1>4, <2>1, <2>2 DEF WorkerStep
<1> QED
  BY <1>1, <1>2, <1>5 DEF Service!vars

\* The calm RIC implements the service: an answer follows its effect, and a stream
\* starts and stops for the xApp that asked, alone.
THEOREM ImplementsService ==
  ASSUME Calm
  PROVE  Spec => ServiceSpec
<1>1. Init => Service!Init
  <2> SUFFICES ASSUME Init
               PROVE  Service!Init
    OBVIOUS
  <2>1. map = {} /\ ipc = "idle" /\ alive = XApps /\ xreq = [x \in XApps |-> NoReq]
    BY DEF Init
  <2>2. Streams = {}
    BY <2>1 DEF Streams, RouteBeingAdded
  <2> QED
    BY <2>1, <2>2 DEF Service!Init
<1>2. RicInv /\ IdInv' /\ OwnInv' /\ PastInv' /\ [Next]_vars => [Service!Next]_Service!vars
  <2> SUFFICES ASSUME RicInv, IdInv', OwnInv', PastInv', [Next]_vars
               PROVE  [Service!Next]_Service!vars
    OBVIOUS
  <2>1. CASE UNCHANGED dataVars
    <3>1. UNCHANGED <<xreq, alive, active, map, ipc, imsg, newId>>
      BY <2>1 DEF dataVars, xappVars, iappVars, nodeVars
    <3>2. Live' = Live
      BY <3>1 DEF Live, RouteBeingAdded
    <3> QED
      BY <3>1, <3>2, SameStreams DEF Service!vars
  <2>2. CASE Next /\ Lives'
    <3>1. CalmInv
      BY <2>2, CalmStep
    <3>2. CalmInv' /\ fault' = "none"
      BY <2>2, <3>1, ReportsStep DEF CalmInv, Lives
    <3>3. ~\E t \in timers : RicTimeout(t)
      BY <3>2 DEF RicTimeout, Abort
    <3> QED
      BY <2>2, <3>1, <3>2, <3>3, XappServes, IappServes, NodeServes, WorkersServe DEF Next
  <2>3. CASE Next /\ ~Lives'
    BY <2>1, <2>3, CalmStep
  <2> QED
    BY <2>1, <2>2, <2>3 DEF vars
<1>3. Spec => []RicInv
  BY CalmInvariant
<1>4. RicInv => IdInv /\ OwnInv /\ PastInv
  BY DEF RicInv
<1> QED
  BY <1>1, <1>2, <1>3, <1>4, PTL DEF Spec, ServiceSpec, Service!Spec

===============================================================================
