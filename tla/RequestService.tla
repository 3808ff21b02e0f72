---------------------------- MODULE RequestService ----------------------------
(***************************************************************************)
(* What the near-RT RIC promises the xApps, seen from outside: which       *)
(* request each xApp waits for and which subscriptions the E2 nodes serve. *)
(* Nothing is said of ids, routes, timers, threads or messages.            *)
(***************************************************************************)
CONSTANTS XApps,     \* the xApps
          Requests,  \* records [kind, xapp, id, func, node] an xApp may ask
          NoReq      \* no request outstanding

VARIABLES waiting,   \* waiting[x]: the request x waits for, or NoReq
          streams,   \* the subscriptions, as requests, nodes serve
          gone       \* the xApps that disconnected

vars == <<waiting, streams, gone>>

Init == /\ waiting = [x \in XApps |-> NoReq]
        /\ streams = {}
        /\ gone = {}

Subscription(m) == [m EXCEPT !.kind = "SUBS"]

Ask(x) == /\ x \notin gone /\ waiting[x] = NoReq
          /\ \E m \in Requests : m.xapp = x /\ waiting' = [waiting EXCEPT ![x] = m]
          /\ UNCHANGED <<streams, gone>>

\* A stream starts only because its xApp asked for it ...
Start(x) == /\ waiting[x] # NoReq /\ waiting[x].kind = "SUBS"
            /\ streams' = streams \union {waiting[x]}
            /\ UNCHANGED <<waiting, gone>>

\* ... and stops only because its xApp asked, or is gone.
Stop(s) == /\ \/ s.xapp \in gone
              \/ waiting[s.xapp] = [s EXCEPT !.kind = "DEL"]
           /\ streams' = streams \ {s}
           /\ UNCHANGED <<waiting, gone>>

\* The answer comes after the effect.
Answer(x) == /\ x \notin gone /\ waiting[x] # NoReq
             /\ waiting[x].kind = "SUBS" => waiting[x] \in streams
             /\ waiting[x].kind = "DEL" => Subscription(waiting[x]) \notin streams
             /\ waiting' = [waiting EXCEPT ![x] = NoReq]
             /\ UNCHANGED <<streams, gone>>

Leave(x) == x \notin gone /\ gone' = gone \union {x} /\ UNCHANGED <<waiting, streams>>

Next == \/ \E x \in XApps : Ask(x) \/ Start(x) \/ Answer(x) \/ Leave(x)
        \/ \E s \in streams : Stop(s)

Spec == Init /\ [][Next]_vars
===============================================================================
