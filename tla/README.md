# Verification of FlexRIC: the near-RT RIC, its iApp, the xApps and the E2 agent

TLA+ models of the concurrent core of this repository (`src/` below is the
repository's own `src/` directory), model-checked with TLC on small instances and,
where stated, proved with TLAPS for every value of the constants. `PROJECT.json`
maps every definition to the lines it models and lists the runs, the mutants that
validate each property, the findings, the hazards and the theorems.

## 1. Inventory

    xApp process                near-RT RIC process                   E2 node process
    +--------------------+ E42  +----------------------------+ E2AP  +---------------+
    | user threads (SDK) |<---->| iApp thread | RIC loop     |<----->| agent loop    |
    | event loop thread  | SCTP |       worker threads       | SCTP  | RAN threads   |
    | dispatcher thread  |      |       main thread          |       |               |
    +--------------------+      +----------------------------+       +---------------+

| part | source | state | operations | what makes it correct |
|------|--------|-------|------------|-----------------------|
| near-RT RIC event loop | `src/ric/near_ric.c` | epoll set, SCTP endpoint | one task per message, SCTP shutdowns, pending timers, stop | a timer ends one request, not the RIC; no assertion fails |
| RIC worker threads | `src/ric/msg_handler_ric.c` | `pending` (bimap timer/request), `conn_e2_nodes`, `req_id` | E2 setup, answers and indications | answers go to who asked in any order; a pending event lives as long as its request |
| iApp thread | `src/ric/iApp/` | `map_ric_id` (rwlock), `e2_nodes` registry | subscription, delete, control, reports of failed sends | routes one-to-one, a delete hits its own route, nothing leaks when an xApp is found to be gone |
| registration of xApps | `src/ric/iApp/map_xapps_sockaddr.c`, `e42_iapp.c` | `map_xapps_sockaddr`, `xapp_id`, the edge-triggered socket | E42 setup, lookups by id and by address | an id leads to its xApp, an address to its id; who lives keeps its subscriptions, who is gone loses them |
| node registries | `src/ric/map_e2_node_sockaddr.c`, `not_handler_ric.c`, `src/lib/msg_hand/reg_e2_nodes.c` | addresses, `conn_e2_nodes`, iApp registry | setup, shutdown, lookups | the three agree; an answered node can be reached, a lost one is forgotten |
| task manager | `src/util/alg_ds/ds/task_man/` | one ring, mutex and condition variable per worker, index, done flag | async, pop or steal, stop | no task lost, doubled or left behind a sleeping thread |
| xApp SDK | `src/xApp/` | `act_proc`, `pending`, `sync_ui`, `connected`, dispatcher queue | setup handshake, report, rm_report, control, indications, timeouts, stop | a call returns after its effect; a callback gets its own indications; nothing is left over |
| E2 agent | `src/agent/` | `pending`, `ind_event` (bimap fd/subscription), `aind` queue and pipe | setup with retry, subscriptions, control, RAN events, stop | pipe and queue match; what the RIC and the RAN were told is what is served |
| associative containers | `src/util/alg_ds/ds/assoc_container/` | red-black tree, registry, bimap, hash table | insert, extract, find, iterate | an ordered bag; balanced; a lookup finds what is there (sequential: used under their owner's lock) |
| xApp database | `src/xApp/db/db.c`, `src/util/alg_ds/ds/tsn_queue/` | queue, stop flags, static batches, tables | write, writer thread, close | every indication stored once and in order; closing ends |
| sequence containers | `src/util/alg_ds/ds/seq_container/`, `tsq/` | array, list, ring, locked queue | push, pop, erase | sequences; the ring is modelled (section 5) |
| codecs, service models, SQL, SWIG, listeners | `src/lib`, `src/sm`, `src/xApp/db/sqlite3`, `src/xApp/swig`, `src/ric/iApps` | none shared | encoding, storage | not modelled (section 12) |
| experiments, tests, deployment | `diffusion/`, `examples/`, `test/`, `docker/` ... | | not part of the runtime | not modelled |

How the parts interact.

* An xApp's request goes over E42 to the iApp thread. It takes the write lock of
  `map_ric_id`, calls `fwd_ric_subscription_request` or `fwd_ric_control_request`
  (new `ric_req_id`, pending event, timer, send to the node), adds the route
  `ric_req_id <-> (xApp, its request)` and unlocks.
* Every E2AP message that arrives is a task of its own. A worker decodes it, removes
  the pending event, and calls the iApp's handler on the same thread, which follows the
  route back and sends to the xApp; delete and control answers then remove the route.
* SCTP shutdowns and timers are handled in the loop threads, concurrently with
  the workers.
* The iApp's socket reports data and failed sends only: that an xApp is gone is learnt
  from a failed send to its address, which is reported some time later.
* In the xApp the user thread blocks in `sync_ui` until the event loop thread signals
  the answer; the event loop also owns the timers; callbacks run on the dispatcher, and
  the indications are copied to the database, which has a queue and a thread of its own.
* In the agent RAN threads hand events to the loop through a queue and a pipe.
* The program is built with assertions: every `assert` is live, and most error
  handling is an `assert`. A false assertion ends the process; the models make it
  a step (`Abort`) that names the assertion and stops every thread, so "no assertion
  fails" is an invariant.

What is hard: threads that share maps and pending events with lock sections
that do not cover a whole operation; answers of one node handled in any order;
timers racing answers; connections that end with requests outstanding; ids of limited
width; edge-triggered sockets read one message at a time; blocking calls whose
wake-up comes from another thread. PROJECT.json `hazards` names each at its line.

## 2. Modules

| module | models | section |
|--------|--------|---------|
| `RequestService` | abstract: what the RIC promises the xApps, and the SDK its user | 3, 4 |
| `RicRouting` | RIC + iApp request path: requests, routes, pending events, workers, timers, xApp shutdown | 3 |
| `XappRegistration` | ids and addresses of the xApps at the iApp, setup repeated, failed sends | 8 |
| `XappRequests` | the xApp SDK: user thread, event loop, dispatcher | 4 |
| `TaskPool` | abstract: a pool that executes each task once | 5 |
| `SeqRing`, `TaskManager` | the ring with its index arithmetic; the work-stealing pool on it | 5 |
| `E2Agent` | the agent's loop, the RAN threads, setup and its repetition | 6 |
| `NodeLifecycle` | the node registries of the RIC: setup, shutdown, lookups, stop | 7 |
| `OrderedBag` | abstract: what an associative container promises | 9 |
| `RbTree`, `Registry` | the red-black tree; the array with binary search, as the xApp's registry of procedures uses it | 9 |
| `IndicationLog` | abstract: what the database of an xApp promises | 10 |
| `IndicationStore` | the database's queue, writer thread and close | 10 |
| `MC*` | instances for TLC | |
| `RbTreeProofs` | what the operators of `RbTree` do to a tree | 11 |
| `ContainersProofs` | theorems about `RbTree`, `Registry` and `IndicationStore` | 11 |
| other `*Proofs` | theorems about the module of that name | 11 |

Two modules describe the same `RequestService` from both ends: `RicRouting` implements
it for all xApps (with `waiting` the xApps' requests and `streams` the subscriptions
nodes serve), `XappRequests` for one (with the RIC as its environment). In each of
the two the other side is the environment, written from the code of that side.

`RicRouting` takes an xApp and its address for one and leaves out how it got its id:
that is `XappRegistration`, which in turn takes a subscription for something the iApp adds
on request and removes when it believes the xApp gone. `RicRouting`, `XappRequests`,
`E2Agent` and `NodeLifecycle` use trees, bimaps and the registry as sets: `RbTree` and
`Registry` show that this is what they are.

Everywhere `env` (or a constant) names the environments considered, an invariant
`NoAbort` says which assertions may fail in which of them. Actions of the program are
the same in all.

## 3. Request routing (`RicRouting`)

| TLA+ | code |
|------|------|
| `map` | `map_ric_id_t.bimap` (a set of routes; left key `ric_req_id`, right key xApp and request) |
| `MapLocked` | the write lock of `map_ric_id.rw`, held from `IappAllocate` to `IappAddMap` |
| `reqId`, `served` | `near_ric_t.req_id` (16 bit: `ReqIdMod`) and the bound on how often it is taken |
| `pending`, `timers` | `near_ric_t.pending` and its timer fds in the epoll set: two variables, because `stop_pending_event` removes from the first under `pend_mtx` and from the second after the unlock |
| `edge` | the edge-triggered report of the iApp's socket: used up by reading one message |
| `ipc`, `imsg`, `newId`, `itodo`, `idel` | the iApp thread: position in the handler and its locals |
| `wpc`, `wmsg`, `wdst` | each worker: position and locals |
| `nodeEdge` | the same of the agents' sockets (`asio_agent.c:89`): an agent reads one message per report (`NodeReads`) |
| `toIapp`, `toXapp`, `toNode`, `rx` | SCTP messages in flight, as sets: messages of one association handled by different workers have no order |
| `sockAddrs`, `regNodes` | the registries of E2 nodes: constant here, the subject of `NodeLifecycle` |
| `xreq`, `xsubs`, `lid` | xApp environment: one blocking call at a time, ids from 1 per xApp (`assoc_reg.c`) |
| `active` | E2 node environment: the subscriptions it serves |

A step of the iApp thread or of a worker ends where the code releases a lock or has
sent a message. A delete is looked up by `EqXappRicGenId`, which is what
`eq_xapp_ric_gen_id` computes: request and function, not the xApp.

| run | question | result |
|-----|----------|--------|
| `routing_fair` | two xApps with different RAN functions, two workers, timely nodes | all invariants hold, no assertion fails, every behaviour is one of `RequestService` |
| `routing_leave` | an xApp may leave, nodes may be late: which assertions fail and why, every request read is answered, the routes of an xApp found to be gone are reclaimed unless their agent leaves the delete unread | holds |
| `routing_shared_answer` | two xApps with the same function: answers only to who asked | violated |
| `routing_unread` | two requests that arrive together: both are read | violated |

Bounds. Two xApps are the least that can be confused with each other; two requests
each (`MaxLocal`) give every pair of control, subscription and delete, with a
subscription outliving a later request; `MaxServed = 4` serves them all; two workers
are the code's default (`NUM_THREADS_RIC`) and the least that can reorder two answers.
One node suffices because nodes share nothing but the RIC. `ReqIdMod = 8` puts the
end of the id range within reach: `routing_fair` gives out the ids 4 to 7, `routing_leave`
6 and 7, so the counter itself wraps to 0 but no id is given out after that. Workers are
interchangeable (`WorkerSymmetry`, in the run without temporal properties only).

Fairness is weak fairness of the iApp thread, of each worker, of the nodes' answers and
of the delivery to the xApps. The threads are POSIX threads blocked only in
`epoll_wait`, on a queue or on a lock held for a bounded time. A node reads and answers one of
the messages at its socket for each report of epoll, and it is for a report only that the
fairness speaks: a message sent back to back with another may stay unread for ever.
Nothing is assumed of xApps asking, leaving, or of timers.
`RequestsAnswered` starts where the iApp has read the request: that it is read at all is
what `routing_unread` refutes. It speaks of one xApp, which has one request out; requests of two
xApps to one node may meet at its socket as at that of the iApp. `CHECK_DEADLOCK FALSE`, here and in all runs, because
the bounded environment ends or the process stops.

An xApp that leaves (`XAppsLeave`) tells nobody. A send to it fails, which `e2ap_send_sctp_msg`
does not notice; the kernel may report it to the iApp later (`failed`), and does so for
each failed send. `IappXappGone` handles one report: a delete for each route of
the xApp. The answers to these deletes are sends to the same xApp, so reports and deletes
may come again while the first are under way. If nothing is sent to the xApp its
routes stay: the event that would tell the iApp is not subscribed to
(`endpoint_iapp.c:68`). `RoutesReclaimed` starts where a report was taken up. From some time on
each route of the xApp is one with a message unread at its agent: of the deletes of one report, which
are sent back to back, the agent may read the first and never be told of the others, a
shortcoming of the code that the property admits and names. Where there is one route and nothing
waits at the agent, it goes, with its stream.

`Excuse` names each assertion that may fail and the situation in which it does: a timer
that fires, always (`consume_fd` is given the fd 0, which it asserts not to get); a timer
that fires between the extraction of its event and the close of its fd; an answer
for an xApp that left, when its route is gone already, or is removed a second time.
In the fair environment none of them exists and `NoAbort` says that nothing fails.
The assertions that the function of an answer is that of its route (`ran_func_id`, in `WorkerFind`)
never fail. Assertions outside of all runs: `ric_req_id > 0` after the wrap; the type of a
route found for a delete when two xApps share a function.

## 4. The xApp SDK (`XappRequests`)

| TLA+ | code |
|------|------|
| `pc`, `call`, `handles` | the user thread in `report_sm_sync_xapp`, `rm_report_sm_sync_xapp`, `control_sm_sync_xapp`, `try_stop_xapp_api` |
| `After` | the order of the steps of a call: a subscription adds its pending event before it sends, a delete and a control after |
| `flag` | `sync_ui_t.flag_sync` |
| `reg`, `nextKey` | `act_proc_t.reg`, whose keys only grow |
| `pending`, `timers` | `pending_event_xapp_ds_t` and its timer fds |
| `lpc`, `lmsg`, `lfd` | the event loop inside a handler: entry extracted, fd closed, caller signalled |
| `queue`, `cb` | the dispatcher (`tsn_queue`) and the callback it runs |
| `active`, `toRic`, `toXapp` | the RIC as environment |

Environments. `timely`: an answer comes after the caller has reached its wait and before
any timer. `prompt`: it may overtake the caller. `silent`: it may also come late or not at all.
Nothing in the code enforces `timely`; a network round trip makes it likely. All properties are
stated for every environment. `NoAbort` says which assertion may fail in which of
them, and where (`Excuse`):

| assertion | cause |
|-----------|-------|
| `extract_pending` | an early answer: that of a delete or a control is handled between the send and the addition of the pending event |
| `sync_timeout` | an early answer, signalled before the caller waited (the lost wake-up); or none: for a delete or a control the 6 s of the wait run out before the 10 s of the timer |
| `request_timeout` | no answer: the timer of a subscription |
| any | with `timely`: none |

`CallsReturn`: each call returns, and the stop, unless one of these assertions ends the xApp; with
`timely` they do return.

| run | question | result |
|-----|----------|--------|
| `xapp` | all interleavings of the three threads with a timely, prompt or silent RIC: which assertions fail and why, what returns, what is left over, who gets an indication, and the refinement of `RequestService` | holds |
| `xapp_lost_wakeup` | a prompt RIC: the wait is answered | violated |

Bounds: three calls give a report, a later one and a control, with deletes between;
two RAN functions tell two callbacks apart; two indications can sit in the queue across a
delete and a new report; one resend gives two setup responses. One user thread: the SDK
has one `sync_ui` flag, two concurrent callers are a hazard without a property.
Fairness: weak, of the three threads and of the RIC's answers.

## 5. The task manager (`SeqRing`, `TaskManager`, `TaskPool`)

`SeqRing` has the ring of `task_manager.c` with its 32 bit head and tail (`IdxMod`), its
mask and its enlargement. `TaskManager` has one ring, mutex (`held`) and condition
variable (a `wait` position) per thread; the submitter (the RIC's event loop) tries each
mutex before it blocks; a thread searches all queues `Rounds` times per
queue, takes a batch, and blocks on its own queue when it found none. Spurious wakeups are
an action. `free_task_manager` sets the flags, signals, and joins.

Run `tasks`: order, no lost wakeup, refinement of `TaskPool` (no task is lost, doubled or
invented, also under stealing), every task runs and the stop returns (`TasksRun`). Bounds: two threads (the
code's default), rings that start at 4 entries and enlarge, counters that start at 7 of 8
and wrap at once (`FirstPos`, `IdxMod`), four tasks, batches of two, one search round (three
in the code: each is the same). Fairness: weak for every thread; strong for the
submitter's blocking lock, because the queue's thread may wake up spuriously and take the
mutex any number of times; a mutex that a waiter never gets is not something POSIX threads
do. Tasks left in a queue when the pool is freed may never run: `TaskPool` allows it and
the code does it.

## 6. The E2 agent (`E2Agent`)

| TLA+ | code |
|------|------|
| `ind` | `e2_agent_t.ind_event`; an aperiodic entry has the fd 0 (`SameFd`) |
| `queue`, `bytes`, `wakeup` | `aind`, the bytes in the pipe, the edge-triggered report of the pipe |
| `batch` | the events the loop popped and reads bytes for (`ReadSize`) |
| `pend`, `transId`, `setups` | pending setup entries, `trans_id_setup_req`, requests sent |
| `rpc`, `rid` | RAN threads in `e2_async_event_agent`: find, push, write |
| `ric`, `up`, `lost` | the RIC as environment, which may end and be replaced |

Environments. `calm`: the RAN reports events of a subscription between its registration
and the call that frees it, and none while the agent is freed; the RIC answers one setup
request and has one aperiodic subscription at a time. `rough`: none of this. What fails in
`rough` only: `bi_map`'s comparison when two aperiodic subscriptions share the key 0;
"ric_req_id not found" for an event outside its subscription; a second setup response;
an event under way when the agent is freed. With ids of five digits (`Digits`) the byte
count of the pipe fails too; ids start at 1021, so the run has four.

Run `agent`: `PipeMatchesQueue`, `StreamsAgree`, `RanInformed` and the assertions in every
interleaving; events are sent, a setup is repeated until answered. Bounds:
two ids, two RAN threads (the least that interleave push and write), two events, two setup
requests, one lost RIC, two requests. Fairness: `epoll_wait` rotates its ready list, so
each ready source is served in turn (weak fairness of each handler group), the RAN threads
run, and a RIC answers in the end.

## 7. E2 nodes at the RIC (`NodeLifecycle`)

| TLA+ | code |
|------|------|
| `sads` | `e2ap_ep_ric_t.e2_nodes` (bimap address/node) |
| `conn` | `near_ric_t.conn_e2_nodes` under its mutex |
| `reg` | `e42_iapp_t.e2_nodes` |
| `lpc` | the event loop inside `notification_handle_ric`: address, `conn`, registry |
| `wpc` | a worker inside the setup request: address, registry, `conn`, response |
| `ipc`, `imsg`, `idel` | the iApp thread: a node checked in the registry, looked up by its address later |
| `mpc` | the main thread in `free_near_ric` |
| `node`, `addr`, `joins` | E2 nodes as environment: each association has an address of its own |

Environments and what may fail in each (`Excused`): `calm` nothing; `repeats` (a setup
request is sent again after 3 s) `add_reg_e2_node` and `bi_map_extract_right`; `leaves` (a node
in use leaves, or crashes without an SCTP shutdown, for which the endpoint does not
subscribe) the lookups and removals; `hasty` (the RIC stops while xApps talk to it)
use of freed memory, since `free_near_ric` frees endpoint, nodes and pending events before
it stops the iApp's thread. The part of `NodesSettle` about nodes that are gone needs
`calm` or `hasty`: a repeated request handled after its node left registers a node nobody
removes. An xApp that is gone is noticed, if at all, by a failed send to it (`SendReported`),
which needs a subscription whose node reports.

| run | question | result |
|-----|----------|--------|
| `nodes` | do the three registries agree while loop, workers, iApp and stop run; do nodes that come or go settle, does the stop return | holds |
| `nodes_unsubscribe` | a delete for a node that is gone: its address is found | violated |

Bounds: two nodes, or one that comes back with a new address (`MaxJoins = 2`), one xApp and
one subscription, two workers, one repetition. The stop is taken only where nodes
neither repeat nor leave in use (`MainStop`), to keep the run small. Fairness: weak, of
every thread and of the delivery of setup responses.

## 8. Registration of xApps (`XappRegistration`)

| TLA+ | code |
|------|------|
| `nextId`, `id` | `e42_iapp_t.xapp_id`, 32 bits wide, of which 16 are sent; `e42_xapp_t.id` |
| `entries` | `map_xapps_sockaddr_t`, in the order in which entries were added; nothing removes one |
| `AddrOf`, `FindId` | the two lookups; `find_map_xapps_xid` meets the oldest of several entries with one address first |
| `rx`, `edge` | the socket of the iApp: a queue, and the edge that reading one message uses up |
| `failing` | failed sends the kernel has not reported yet; a report names the address |
| `subs` | the subscriptions `rm_if_pending_subs` would find |
| `phase`, `addr` | xApp processes and the addresses of their sockets |

An xApp whose setup is not answered within a second asks again, and goes on asking
while its timer is alive; each request the iApp reads is answered and registered with a new id.
The xApp takes the first response that arrives, the iApp's lookup by address finds the
first entry: `IdsLeadHome` says that these are the same one, for every order of requests,
responses and repetitions, and that the 16 bit ids run out before one is given twice
(the assertion of `add_map_xapps_sad` then ends the RIC; no id is ever given back).

Environments. `timely`: an xApp repeats its request only when the iApp had nothing to do,
which is what a second is to a local network. `slow`: at any time. `reused`: as `slow`, and a
new socket may get the address of a closed one. The first entry of an address is then the
id of the process that had it first: a late report of a failed send finds that id,
so `LivingKeepSubscriptions` holds also there; but the second process with the
address is never found when it is gone, so `GoneReclaimed` excludes this environment.

Run `registration`. Bounds: two processes, two addresses (one may be used twice),
ids from 2 modulo 4 (from 7 modulo 2^16 in the code) so that they run out within the run,
three ids before repetitions stop, two unread messages of a kind and address. Fairness:
the loops of iApp and xApps run, the setup timer fires, a node with a subscription goes
on reporting, and the kernel reports each failed send in the end. `XappsConnect` needs the
repetition: without it (the mutant) a setup request left unread in the edge-triggered socket
is never read.

## 9. Associative containers (`RbTree`, `Registry`, `OrderedBag`)

`RbTree` has nodes with parent, children and colour, the shared dummy node whose parent is
written during a deletion, and one step for each turn of a loop: descent, fixup
after an insertion, fixup after an extraction. `RedBlack` holds in every turn, with the
node at which the fixup is at work as the one exception; `TreeIsBag` shows that only the linking
of a new node and the unlinking of an extracted one change what the tree holds, and how.
`Registry` has the array of `assoc_reg.c` with its erased buckets, the binary search, the
compaction and the growth and shrinking of the capacity, with the keys counted in 32 bits and
used in 16 by `act_proc`; `RegistryIsBag` relates it to the same `OrderedBag`.
`LookupsFind` is about the lookups of both, which change nothing.

Run `containers`. Bounds: keys 1 to 6 with a second node for key 4, in every order of insertions
and extractions: seven nodes reach every case of both fixups. The registry: 11 ids for 2^16, 12 keys, a capacity from 4 (16 in
the code), which doubles and is halved again. `KeyFits` is the assertion on the key's width.

Not modelled: `bimap.c`, two trees with each other's keys as values, of which the modules that
use it state what matters (an extraction by a key that several entries have takes any
of them); the hash table, which no program uses; `remove_if_range_reg`, called from
commented-out code only. Comparators are taken to be consistent orders.

## 10. The database of an xApp (`IndicationStore`, `IndicationLog`)

The event loop pushes copies of indications (`Push`); the writer reads the size of the queue
under one lock section, takes a batch of 100, of 10 or of 1 under the next (`ReadSize`,
`Pop`) and writes it element by element; the thread that frees the xApp sets the stop token
without the lock, signals under it, waits for `stopped`, frees the queue and joins (`SetStopToken`
to `JoinWriter`). `StoreIsLog` is the refinement of `IndicationLog`, with its fairness: each
indication stored once and in order, no waiting for ever, a close that ends with what is in
the writer's hands stored and what is left in the queue dropped. It is checked in
the run `containers`, as a third kind of behaviour. Bounds: batches of 3 and 2, eight
indications, so that each batch size is used more than once (the static arrays are
filled from the start each time). Fairness: writer and closing thread run, the disk answers.

## 11. Proofs

A `*Proofs` module states the inductive invariant, has a lemma per process of the system
(or per action where one is long) with a step per conjunct the action can disturb, and
ends with the theorems. The containers, whose operations are loops, have lemmas per loop and
state the invariant after them. TLC checked every inductive invariant on the instance of the
run (that of `RbTree` with the witnesses computed from the tree, that of `RicRouting` also
with xApps that leave, late nodes and ids that do not wrap). The theorems hold for all
constants that satisfy the `ASSUME`s of the module (TLC evaluates them on the run's) and the
hypotheses given here. `[]TypeOK`, where it is not stated by itself, is a conjunct of the
invariant.

**`RicRouting`**

* `TypeCorrect`: one step per action; `FirstRouteFound` needs that a nonempty set of
  xApp ids has a least element (well-foundedness of `<` on Nat).
* `RoutesAreOneToOne`: `[]RoutesOneToOne` when `FirstReqId + MaxServed <= ReqIdMod`. The
  property is not inductive; `IdInv` adds `IdsGivenOnce` (all ids in use are below the next
  one, which is `FirstReqId + served`) and `KeysUsedOnce` (every request unread, in the
  iApp's hand or in the map has its own key, below the xApp's next). Without the hypothesis
  an id may be given while its earlier owner still holds it; 16 bits starting at 1021
  give 64515 requests.
* `DeletesResolveToOwn`: `[]DeletesOwnSubscription` when no two xApps use the same
  function; `OwnInv` adds that everything that carries a request carries a function of
  its xApp. `routing_shared_answer` shows why the hypothesis is needed.
* `CalmInvariant`, under `Calm`: no two xApps use the same function, and the ids are positive
  and do not wrap. xApps may leave and nodes may be late: this covers the environment of
  `routing_fair` and that of `routing_leave`. `routing_shared_answer`
  shows why functions must not be shared. `ReportsOwned` says that an indication on its way is
  of the function of the route of its id, which with `Living` for the answers excludes the
  `ran_func_id` assertions. `RicInv` adds to `IdInv` and `OwnInv`:
  * `PastInv`: neither the id nor the key of a route that a thread holds a copy of is used
    again (`HeldOnce`), nor the id of what is sent, answered or handled (`TokensGiven`);
  * `Living`, the life of a request. A message to or from a node (a token) is awaited by the
    xApp of its route until that xApp is told, or is left over from an xApp that left:
    its route is gone, or it is a delete of it (`TokensAwaited`, `Stray`). It is in one place: at the node, received, or
    with one worker, but for the second delete of a report (`TokensOnce`, `Again`, `WorkersSure`).
    A request that is not sent yet has no token, and a delete finds its route (`RequestsFirst`).
    An answer at the xApp's door is the last of its request (`AnswersEnd`). Subscriptions held
    are served (`HeldServed`), and a node serves a route between the answers to its subscription
    and to its delete (`StreamsRouted`). Pending events and timers are those of the tokens at
    these places (`PendingMatches`), control routes have a token (`ControlsUnderWay`), ids
    are positive (`IdsPositive`);
  * `Running \/ Stopped`: the RIC runs, or stopped at an assertion of `Excuse` for its cause. `Living`
    holds in the stopped state too.
* `NeverAborts` (`NoAbort`, with what it excuses), `AnswersAreExpected` (`AnswersExpected`) and
  `SubscriptionsAreServed` (`SubscriptionsServed`) follow from it. `PendingIsRouted` (`PendingRouted`)
  needs xApps that stay as well: when one is found to be gone, the answer to the delete of its
  subscription may be handled before the answer to the subscription, whose pending event
  then outlives the route.
* `ImplementsService`: `Spec => ServiceSpec` under `Calm`. `Live`, the routes with the one whose
  request is sent and that is being added, decides `Streams`; a route enters and leaves
  `Live` only while no node serves it (`IdleRouteUnseen`), so only nodes' answers move streams.
  An xApp that leaves is a step of the service, and so is the end of its streams.
* Assumption `NoReqAssumption`: the model value `NoReq` is no request.

**`XappRequests`**

* `XappInvariant`. `XappInv` relates the three threads: `Dialogue` says where the request of
  the call is (unsent, at the RIC, answered, in the loop's hand) for each position of the
  caller and of the loop; `Alarms` that pending events and timers are those of that request
  or of the setup; `Registered` that the registry has the call and the handles, with
  keys below the next; `Served` what the RIC serves meanwhile; `Indications` that whatever
  the dispatcher holds was looked up in the registry of its time.
* `NothingLeftOver`, `CallbacksAreOwn`, `StreamsAreRegistered` follow, in every environment:
  `IdleClean`, `CallbackOwn`, `StreamsRegistered`.
* `XappNeverAborts`: `[]NoAbort`, in every environment. `Outstanding` says that the pending event
  of a request that is out is there while its answer is, but where the caller has yet to add it:
  hence no extraction fails elsewhere. `InTime`, for a timely RIC only: the answer is
  under way until the caller is told, and the loop handles it only while the caller waits.
  `Assertions` joins them with `NoAbort`, which holds on after the process stopped.
* `ImplementsService`: `Spec => ServiceSpec`. A step of the SDK is a step of
  `RequestService` (ask, serve, end, return) or leaves `Asked` and `Streams` as they are.
  Model values: `NoCall` is no call and no request of the service.

**`SeqRing` and `TaskManager`**

* Lemmas on `SeqRing` have the arithmetic: `&` with a mask is `%`; a position is found again
  after head and tail have wrapped; what a push, an enlargement and the erasure of a
  prefix do to `Contents`. It needs that the width of the counters and the smallest
  ring are powers of two (`RingAssumption` says it by divisors, which is all that is used);
  in the code they are 2^32 and 32768.
* `TaskInvariant`, `TypeCorrect`: `TaskInv` adds to the types that every ring is well formed
  (its capacity a divisor of `IdxMod`, no more entries than it holds), that positions say who
  holds a mutex and nobody else does (`Exclusion`), and that a task is in one queue or one
  batch and was not executed (`Places`).
* `TasksInOrder` (`OrderKept`), `NoLostWakeup` (`NoSleepOverWork`: whoever pushed or set
  `stop` holds a signal still to be sent, or the sleeper is awake).
* `ImplementsPool`: `Spec => PoolSpec`; tasks in rings and batches are those submitted
  and not yet executed, each in one place.
* Hypothesis: `MaxTasks < IdxMod`. Head and tail start anywhere (`FirstPos`), so their
  wrap is covered; a ring cannot hold 2^32 tasks, because its size is a 32 bit number too.

**`E2Agent`**

* `PipeFollowsQueue`: `[]PipeMatchesQueue` if `Digits = 4`. `PipeInv` counts the RAN threads
  between push and write (their set is finite), and says where the loop is with its batch.
  With five digits the property is false.
* `AgentKeepsItsWord`, `RanIsInformed`: `StreamsAgree`, `RanInformed` from `Dialogues`
  and `Informed`, which say for each request under way (at the loop, in its hand, answered)
  whether the entry is in `ind` and at the RAN already.
* `AgentNeverAborts`: `[]NoAbort` if `Digits = 4`. `CalmInv` has three parts for the calm
  environment: `SetupInv` (one pending setup event while none is answered), `AperInv` (one
  aperiodic entry at a time), `ThreadInv` (a RAN thread that looks for its
  subscription finds it, and none runs when the agent is stopped).

**`XappRegistration`**

* `RegistrationInvariant`: `RegInv` has the entries of the map in the order of their ids, and
  that a response on its way to an address carries the id of an entry of that
  address, in the order of the entries; an xApp takes the first it gets.
* `IdsAreSafe` (`IdsLeadHome`), and `ReportsSpareTheLiving`, an action property: a
  failed send that is reported, or will be, was to an address whose oldest entry is not that of an
  xApp connected there now or later (`Departed`).

**`NodeLifecycle`**

* `RegistryInvariant`, in every environment. Besides the types, `RegistryInv` says that the event
  loop and the workers end before memory is freed and the iApp after (`StopOrder`); that
  an address is of one node and a request in one place (`Addresses`, `Once`); that the addresses of
  a node are as many as its registrations, done or about to be done (`Balance`); at which stage
  a registered node is, and that it is connected once (`OneStage`); and that what is unread of a node's earlier
  associations comes before its latest request (`InOrder`), so that nothing done for that
  request is undone (`Reachable`). From it follow `TypeCorrect`, `RegistriesHoldTheSame`
  (`RegistriesAgree`) and `AnsweredNodesReachable` (`AnsweredIsReachable`).
* `NodesNeverAbort`: `[]NoAbort`. Four more parts, each under what its environment
  promises: what the iApp works on is up (`InUse`) and a shutdown finds its node in all three
  registries, once (`Leaving`), where nodes leave in order; a request is asked once
  (`AskedOnce`) and each registered node is up, being set up or leaving (`Accounted`), where
  they do not repeat it either.
* Assumptions: the workers are finitely many, and `NoMsg` is no message and no node.

**`IndicationStore`**

* `StoreInvariant`, for batches of any two sizes above one. `StoreInv` numbers the
  indications through table, batch and queue (`Numbered`), says that the writer that read a
  size still finds as many (`InHand`: nobody else takes, and the close frees the queue only when
  the writer is past it, `CloseOrder`).
* `WriterNeverAborts`, `StoresInOrder`, `ClosesClean` follow.
* `StoreImplementsLog`: `StoreSpec => Log!Spec`, the safety part of `StoreIsLog`. Taking a
  batch leaves `batch \o queue` as it is; the facts about sequences come from `SequenceTheorems`.
  The rest of `StoreIsLog`, that nothing waits for ever and closing ends, is liveness.

**`RbTree`** (`RbTreeProofs`, `ContainersProofs`)

* The inductive invariant `TreeInv` says that there are an order `o` of the linked nodes, numbers
  `p` by their places in it, intervals `e` and black heights `h` that fit the links (`Fits`). The nodes below
  `n` are an interval around `p[n]`, and each child has what is left of it on its side (`Shape`): a
  statement about neighbours that says what the recursive walks would, and that a rotation or an unlinking
  disturbs for a few nodes only. The height of `n` is that of either child and one
  for a black `n`; where `deleteFixup` is at work one is missing (`Heights`, `GapAt`).
  Descents go on towards the place where the key belongs (`Descent`, `Search`).
* `RbTreeProofs` shows for each operator (`Rotate`, the two fixups case by case, `Transplant`,
  `Unlinked`, the linking of a leaf) that it leads from fitting values to fitting ones, and that
  walks of bounded depth compute `o` and the heights (`WalkIs`); `ContainersProofs` has one lemma per action.
* `TreeStaysRedBlack`: `[]RedBlack`. `TreeAlwaysFinds`: `[]TreeFinds`, half of `LookupsFind`; the
  successor of a node is the next in `o`, by the right child or by climbing.
  `TreeImplementsBag`: `TreeSpec => TreeIsBag`; `InOrder` is `o`, to which only `InsertLink` adds
  (behind as many nodes as have no larger key) and from which only `Unlink` takes.
* Assumptions: finitely many nodes, keys that are integers (any, and any number equal); `Dummy` and `Null` are no nodes.

**`Registry`**

* `RegistryAlwaysFinds`: `[]RegistryFinds`, half of `LookupsFind`. `RegInv` says that the keys in
  the array ascend, erased buckets included, and are below `keyId`; that `sz` counts the live
  buckets; and that there is room for one more. The binary search is a recursive function over
  the ranges within the array: a range that it cannot answer for, of the least length, leads to a
  shorter one (`LeastNatural`).
* `RegistryImplementsBag`: `RegSpec => RegistryIsBag`; `Live`, the loop of `copy_if`, keeps the live
  buckets in order (`IsLive`), so that compacting changes no key.
* Assumptions: a minimal capacity of at least 2; the number of ids and of keys is any.

**`MCContainers`**

* `EachByItself`: the composition implements the three specifications, so each of the theorems holds
  there; `LookupsAlwaysFind`: `Spec => []LookupsFind`.

**Model-checked only.** Liveness under fairness, and ENABLED, are beyond this prover:
all temporal properties but the refinements above stay with TLC. The request path after its ids
have wrapped is neither proved nor in a run.

## 12. Not modelled

See `components` in PROJECT.json for each part and its reason. Codecs, service models,
SQL and SWIG bindings and the Python experiments carry no shared state or ordering of their
own; SCTP is modelled by what the code relies on. The share of the repository's lines the
models cover is small because most of them are generated (ASN.1 codecs), vendored
(SQLite) or tables of a standard (service models).

The RIC's direct API (`near_ric_api.c`) is called by one test, in a build without the iApp
(`TEST_AGENT_RIC`). In a build with the iApp it would not work: the answer to a direct
request has no route, and the iApp asserts that it has one.

Known hazards outside of the models: `ind_event` of the agent is changed without the mutex
under which RAN threads walk it (`msg_handler_agent.c:89`); the loop of the agent reads four
bytes per event, which fits ids of four digits (`e2_agent.c:581`; `Digits` is 4 in the run, with
5 `PipeMatchesQueue` fails); two user threads of an xApp share one `sync_ui` flag
(`e42_xapp.c:439`); `conn_e2_nodes` copies nodes shallowly and `e2_nodes_near_ric_api`
follows their pointers after the unlock (`near_ric.c:582`).

## 13. Plan

Order: the request path first (it is what the RIC is for), then what it stands on. Done
are the modules above. Next, in this order:

1. Proofs. `RicRouting` with ids that wrap: what still holds as long as no id is given while its
   earlier owner holds it.
2. The bimap over two `OrderedBag`s, with what a lookup by a key of several entries returns.
