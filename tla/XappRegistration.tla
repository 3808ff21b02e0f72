--------------------------- MODULE XappRegistration ---------------------------
(***************************************************************************)
(* How the iApp knows its xApps: the ids it hands out, the map from ids to *)
(* socket addresses, in which an entry stays for ever                      *)
(* (src/ric/iApp/map_xapps_sockaddr.c), and the reports of failed sends,   *)
(* which name an address, from which it learns that an xApp is gone        *)
(* (src/ric/iApp/e42_iapp.c).  xApps come and go; one whose setup is not   *)
(* answered within a second asks again, and is then registered twice.      *)
(***************************************************************************)
EXTENDS Integers, FiniteSets, Sequences

CONSTANTS
  Procs,      \* processes that run an xApp, each started once
  Addrs,      \* addresses the kernels give to their sockets
  FirstId,    \* 7, the first xapp_id
  IdMod,      \* 1 << 16: a xapp_id has 16 bits in messages and in the map
  MaxUnread,  \* bound: unread messages of one kind from one address
  MaxIds,     \* bound: ids handed out when an xApp may ask again
  Envs        \* "timely", "slow" or "reused", see env

NoOne == "NoOne"

ASSUME RegistrationAssumption ==
  /\ NoOne \notin Addrs
  /\ {FirstId, MaxUnread, MaxIds} \subseteq Nat /\ IdMod \in Nat \ {0}
  /\ Envs \subseteq {"timely", "slow", "reused"}

VARIABLES
  env,       \* "timely": an xApp asks again only when the iApp had nothing to do;
             \* "reused": a new socket may get the address of a closed one
  addr,      \* the address of each process, kept when it is gone
  phase,     \* "new", "waiting", "connected", "gone"
  id,        \* e42_xapp_t.id
  rx,        \* the receive queue of the iApp's socket
  edge,      \* epoll has the socket to report
  failing,   \* addresses to which a send failed that is not reported yet
  toXapp,    \* per address, the setup responses on their way
  nextId,    \* e42_iapp_t.xapp_id
  entries,   \* map_xapps_sockaddr_t: [id, addr], in the order they were added
  subs,      \* the subscriptions routed to an xApp: [proc, id]
  fault      \* the assertion that failed, or "none"

vars == <<env, addr, phase, id, rx, edge, failing, toXapp, nextId, entries, subs, fault>>

NoId == IdMod

Alive(p) == phase[p] \in {"waiting", "connected"}
Holders(a) == {p \in Procs : Alive(p) /\ addr[p] = a}
Unread(kind, a) == SelectSeq(rx, LAMBDA m : m.kind = kind /\ m.addr = a)

\* A message arrives at the socket; past the bound one more like it, which only
\* makes the socket ready again.
Arrives(q, m) ==
  /\ rx' = IF Len(Unread(m.kind, m.addr)) < MaxUnread THEN Append(q, m) ELSE q
  /\ edge' = TRUE

\* A send to a closed socket; the kernel reports it some time later.
SendFails(a) == failing' = failing \union {a}

-----------------------------------------------------------------------------
(* The map.                                                                *)

\* find_map_xapps_sad
AddrOf(i) == LET e == CHOOSE e \in DOMAIN entries : entries[e].id = i
             IN  entries[e].addr
Registered(i) == \E e \in DOMAIN entries : entries[e].id = i

\* find_map_xapps_xid: the right tree keeps entries with one address in the
\* order they were added, and the walk from the front meets the oldest first.
LatestWith(a) == entries[CHOOSE e \in DOMAIN entries :
                           /\ entries[e].addr = a
                           /\ \A f \in e + 1 .. Len(entries) : entries[f].addr # a].id
FindId(a) == entries[CHOOSE e \in DOMAIN entries :
                       /\ entries[e].addr = a
                       /\ \A f \in 1 .. e - 1 : entries[f].addr # a].id

-----------------------------------------------------------------------------
(* xApps.                                                                  *)

\* send_setup_request, on a socket that gets its address with the first message.
Start(p) ==
  /\ phase[p] = "new"
  /\ \E a \in Addrs :
       /\ Holders(a) = {}
       /\ env # "reused" => \A q \in Procs : addr[q] # a
       /\ addr' = [addr EXCEPT ![p] = a]
       /\ Arrives(rx, [kind |-> "setup", addr |-> a])
  /\ phase' = [phase EXCEPT ![p] = "waiting"]
  /\ UNCHANGED <<env, id, failing, toXapp, nextId, entries, subs, fault>>

\* The timer of the setup, which goes on firing every second.
NeverAgain(p) == FALSE
AsksAgain(p) == /\ phase[p] = "waiting"
                /\ nextId < FirstId + MaxIds
                /\ env = "timely" => ~edge /\ toXapp[addr[p]] = <<>>

Resend(p) ==
  /\ AsksAgain(p)
  /\ Arrives(rx, [kind |-> "setup", addr |-> addr[p]])
  /\ UNCHANGED <<env, addr, phase, id, failing, toXapp, nextId, entries, subs, fault>>

\* e2ap_handle_e42_setup_response_xapp: only the first response counts.
EachResponse(p) == TRUE
FirstResponse(p) == phase[p] = "waiting"

SetupResponse(p) ==
  /\ Alive(p) /\ toXapp[addr[p]] # <<>>
  /\ toXapp' = [toXapp EXCEPT ![addr[p]] = Tail(@)]
  /\ IF FirstResponse(p)
     THEN /\ id' = [id EXCEPT ![p] = Head(toXapp[addr[p]])]
          /\ phase' = [phase EXCEPT ![p] = "connected"]
     ELSE UNCHANGED <<id, phase>>
  /\ UNCHANGED <<env, addr, rx, edge, failing, nextId, entries, subs, fault>>

SendSubscription(p) ==
  /\ phase[p] = "connected"
  /\ \A i \in DOMAIN rx : rx[i].kind = "subscribe" => rx[i].proc # p
  /\ [proc |-> p, id |-> id[p]] \notin subs
  /\ Arrives(rx, [kind |-> "subscribe", addr |-> addr[p], proc |-> p, id |-> id[p]])
  /\ UNCHANGED <<env, addr, phase, id, failing, toXapp, nextId, entries, subs, fault>>

\* The process ends: what is on its way to it is lost, which may be reported.
Leave(p) ==
  /\ Alive(p)
  /\ phase' = [phase EXCEPT ![p] = "gone"]
  /\ toXapp' = [toXapp EXCEPT ![addr[p]] = <<>>]
  /\ \/ toXapp[addr[p]] # <<>> /\ SendFails(addr[p])
     \/ UNCHANGED failing
  /\ UNCHANGED <<env, addr, id, rx, edge, nextId, entries, subs, fault>>

-----------------------------------------------------------------------------
(* The iApp: one message per event of an edge-triggered socket.            *)

Reads(kind) == edge /\ rx # <<>> /\ Head(rx).kind = kind

\* generate_setup_response, add_map_xapps_sad, then the response is sent.
HandleSetup ==
  /\ Reads("setup")
  /\ LET a == Head(rx).addr
         i == nextId % IdMod
     IN  IF Registered(i)
         THEN /\ fault' = "xApp ID already registered in the tree"
              /\ UNCHANGED <<env, addr, phase, id, rx, edge, failing, toXapp, nextId, entries,
                             subs>>
         ELSE /\ nextId' = nextId + 1
              /\ entries' = Append(entries, [id |-> i, addr |-> a])
              /\ rx' = Tail(rx) /\ edge' = FALSE
              /\ \/ /\ Holders(a) # {}
                    /\ toXapp' = [toXapp EXCEPT ![a] = Append(@, i)]
                    /\ UNCHANGED failing
                 \/ /\ Holders(a) = {}
                    /\ SendFails(a)
                    /\ UNCHANGED toXapp
              /\ UNCHANGED <<env, addr, phase, id, subs, fault>>

\* e2ap_handle_e42_ric_subscription_request_iapp
HandleSubscription ==
  /\ Reads("subscribe")
  /\ subs' = subs \union {[proc |-> Head(rx).proc, id |-> Head(rx).id]}
  /\ rx' = Tail(rx) /\ edge' = FALSE
  /\ UNCHANGED <<env, addr, phase, id, failing, toXapp, nextId, entries, fault>>

\* SCTP_CONNECTION_SHUTDOWN_EVENT, which a report of a failed send raises too:
\* rm_if_pending_subs of the id found by the address.
HandleFailedSend ==
  /\ Reads("failed")
  /\ rx' = Tail(rx) /\ edge' = FALSE
  /\ LET a == Head(rx).addr
     IN  IF \E e \in DOMAIN entries : entries[e].addr = a
         THEN subs' = {s \in subs : s.id # FindId(a)} /\ UNCHANGED fault
         ELSE fault' = "SCTP info not found in the tree" /\ UNCHANGED subs
  /\ UNCHANGED <<env, addr, phase, id, failing, toXapp, nextId, entries>>

\* A thread of the RIC passes an indication on to the address of the xApp, where
\* nobody is any more.
Indicate(s) ==
  /\ s \in subs
  /\ Holders(AddrOf(s.id)) = {}
  /\ SendFails(AddrOf(s.id))
  /\ UNCHANGED <<env, addr, phase, id, rx, edge, toXapp, nextId, entries, subs, fault>>

\* The kernel's report of a failed send, whoever has the address by now.
Report(a) ==
  /\ a \in failing
  /\ failing' = failing \ {a}
  /\ Arrives(rx, [kind |-> "failed", addr |-> a])
  /\ UNCHANGED <<env, addr, phase, id, toXapp, nextId, entries, subs, fault>>

-----------------------------------------------------------------------------
Init ==
  /\ env \in Envs
  /\ addr = [p \in Procs |-> NoOne]
  /\ phase = [p \in Procs |-> "new"]
  /\ id = [p \in Procs |-> NoId]
  /\ rx = <<>> /\ edge = FALSE /\ failing = {}
  /\ toXapp = [a \in Addrs |-> <<>>]
  /\ nextId = FirstId /\ entries = <<>> /\ subs = {}
  /\ fault = "none"

Running == fault = "none"
Handle == HandleSetup \/ HandleSubscription \/ HandleFailedSend
Subscriptions == [proc : Procs, id : 0 .. IdMod]

Next ==
  /\ Running
  /\ \/ \E p \in Procs : Start(p) \/ Resend(p) \/ SetupResponse(p) \/ SendSubscription(p)
                         \/ Leave(p)
     \/ Handle
     \/ \E s \in subs : Indicate(s)
     \/ \E a \in Addrs : Report(a)

Spec == Init /\ [][Next]_vars

\* The loops of iApp and xApps run, timers fire, and the RAN goes on reporting.
Fairness ==
  /\ WF_vars(Running /\ Handle)
  /\ \A p \in Procs : WF_vars(Running /\ SetupResponse(p)) /\ WF_vars(Running /\ Resend(p))
  /\ \A s \in Subscriptions : WF_vars(Running /\ Indicate(s))
  /\ \A a \in Addrs : WF_vars(Running /\ Report(a))

FairSpec == Spec /\ Fairness

-----------------------------------------------------------------------------
(* Properties.                                                             *)

\* No id serves two xApps, the id of an xApp leads to its address, and, as long
\* as addresses are not used again, its address leads to its id, however often
\* it was registered: what is sent to an id reaches the xApp that has it.  No
\* assertion of the iApp fails before every id of 16 bits was handed out.
IdsLeadHome ==
  /\ \A p, q \in Procs : id[p] = id[q] /\ id[p] # NoId => p = q
  /\ \A p \in Procs : id[p] # NoId =>
       /\ AddrOf(id[p]) = addr[p]
       /\ env # "reused" => FindId(addr[p]) = id[p]
  /\ ~Running => Cardinality({entries[e].id : e \in DOMAIN entries}) = IdMod

\* A late report of a failed send never costs a living xApp its subscriptions,
\* not even one that has the address of the xApp the report is about.
LivingKeepSubscriptions ==
  [][\A s \in subs : phase[s.proc] = "connected" => s \in subs']_vars

\* An xApp is registered in the end: the setup request that is sent again makes up
\* for one that was left unread in the edge-triggered socket.
XappsConnect ==
  \A p \in Procs : env = "timely" /\ phase[p] = "waiting" ~> phase[p] # "waiting" \/ ~Running

\* The subscriptions of an xApp that is gone end, also those the iApp adds after
\* it has gone, when addresses are not used again.
GoneReclaimed ==
  \A p \in Procs : env # "reused" /\ phase[p] = "gone"
                     ~> (\A s \in subs : s.proc # p) \/ ~Running
===============================================================================
