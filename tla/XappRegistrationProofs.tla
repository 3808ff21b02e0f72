------------------------ MODULE XappRegistrationProofs ------------------------
(***************************************************************************)
(* Theorems about XappRegistration, for any number of processes and        *)
(* addresses, any width of the ids and every environment.                  *)
(***************************************************************************)
EXTENDS XappRegistration, FiniteSetTheorems, FunctionTheorems, WellFoundedInduction, TLAPS

-----------------------------------------------------------------------------
(* The inductive invariant.                                                *)

IdValues == 0 .. IdMod - 1
Entry == [id : IdValues, addr : Addrs]
Message == [kind : {"setup", "failed"}, addr : Addrs]
           \union [kind : {"subscribe"}, addr : Addrs, proc : Procs, id : IdValues]

Types ==
  /\ addr \in [Procs -> Addrs \union {NoOne}]
  /\ phase \in [Procs -> {"new", "waiting", "connected", "gone"}]
  /\ id \in [Procs -> 0 .. IdMod]
  /\ rx \in Seq(Message) /\ failing \subseteq Addrs
  /\ toXapp \in [Addrs -> Seq(IdValues)]
  /\ entries \in Seq(Entry) /\ nextId = FirstId + Len(entries)
  /\ subs \subseteq [proc : Procs, id : IdValues]

Has(a) == \E e \in 1 .. Len(entries) : entries[e].addr = a
IsEntry(i, a) == \E e \in 1 .. Len(entries) : entries[e].id = i /\ entries[e].addr = a

\* i is the id of the oldest entry with address a.
IsFirst(i, a) ==
  \E e \in 1 .. Len(entries) : /\ entries[e].id = i /\ entries[e].addr = a
                               /\ \A f \in 1 .. e - 1 : entries[f].addr # a

\* Messages in the socket's queue; ids on their way to an address.
Unheard == {rx[k] : k \in 1 .. Len(rx)}
Coming(a) == {toXapp[a][k] : k \in 1 .. Len(toXapp[a])}

Phases ==
  \A p \in Procs : /\ phase[p] = "new" <=> addr[p] = NoOne
                   /\ phase[p] \in {"new", "waiting"} => id[p] = NoId
                   /\ phase[p] = "connected" => id[p] # NoId

\* Whose address is whose.
Addresses ==
  /\ \A p, q \in Procs : Alive(p) /\ Alive(q) /\ addr[p] = addr[q] => p = q
  /\ env # "reused" =>
       /\ \A p, q \in Procs : addr[p] = addr[q] /\ addr[p] # NoOne => p = q
       /\ \A a \in Addrs : Has(a) \/ (\E m \in Unheard : m.addr = a)
                             => \E p \in Procs : addr[p] = a

\* Ids are given one after the other, and none twice.
Ids ==
  /\ \A e \in 1 .. Len(entries) : entries[e].id = (FirstId + e - 1) % IdMod
  /\ \A e, f \in 1 .. Len(entries) : entries[e].id = entries[f].id => e = f
  /\ \A p \in Procs : id[p] # NoId => IsEntry(id[p], addr[p])
  /\ \A p, q \in Procs : id[p] = id[q] /\ id[p] # NoId => p = q

\* The responses on their way to an address: entries with that address that
\* nobody has taken, for the xApp that is there.
Responses ==
  \A a \in Addrs :
    /\ toXapp[a] # <<>> => Holders(a) # {}
    /\ \A i \in Coming(a) : IsEntry(i, a) /\ \A p \in Procs : id[p] # i
    /\ \A j, k \in 1 .. Len(toXapp[a]) : toXapp[a][j] = toXapp[a][k] => j = k

\* The first response an xApp gets has the id of the first entry.
FirstHome ==
  env # "reused" => \A p \in Procs :
    /\ id[p] # NoId => IsFirst(id[p], addr[p])
    /\ phase[p] = "waiting" /\ Has(addr[p]) =>
         toXapp[addr[p]] # <<>> /\ IsFirst(Head(toXapp[addr[p]]), addr[p])

\* A subscription has the id of the xApp that made it.
OwnIds ==
  /\ \A s \in subs : id[s.proc] = s.id
  /\ \A m \in Unheard : m.kind = "subscribe" => id[m.proc] = m.id

\* A send that failed was to an xApp that is gone: the oldest entry with the address
\* is not that of an xApp that is there now, nor will it be.
Departed(a) ==
  /\ Has(a)
  /\ \A p \in Procs : phase[p] = "connected" /\ addr[p] = a => ~IsFirst(id[p], a)
  /\ \A i \in Coming(a) : ~IsFirst(i, a)

Reported(a) == a \in failing \/ \E m \in Unheard : m.kind = "failed" /\ m.addr = a

Reports == \A a \in Addrs : Reported(a) => Departed(a)

RegInv == /\ Types /\ Phases /\ Addresses /\ Ids /\ Responses /\ FirstHome
          /\ OwnIds /\ Reports
          /\ ~Running => Len(entries) >= IdMod

-----------------------------------------------------------------------------
(* Lemmas about the queue of the socket and the lookups of the map.        *)

\* A message that arrives is at most added, one that is read is removed.
LEMMA QueueGrows ==
  ASSUME rx \in Seq(Message), NEW m \in Message, Arrives(rx, m)
  PROVE  rx' \in Seq(Message) /\ Unheard' \subseteq Unheard \union {m}
<1>1. CASE rx' = Append(rx, m)
  <2>1. /\ rx' \in Seq(Message) /\ Len(rx') = Len(rx) + 1 /\ Len(rx) \in Nat
        /\ \A k \in 1 .. Len(rx) : rx'[k] = rx[k]
        /\ rx'[Len(rx) + 1] = m
    BY <1>1
  <2> QED  BY <2>1 DEF Unheard
<1>2. CASE rx' = rx
  BY <1>2 DEF Unheard
<1> QED  BY <1>1, <1>2 DEF Arrives

\* The head of the socket's queue is a message not yet read; reading it adds none.
LEMMA QueueReads ==
  ASSUME rx \in Seq(Message), rx # <<>>
  PROVE  /\ Head(rx) \in Unheard /\ Head(rx) \in Message
         /\ rx' = Tail(rx) => rx' \in Seq(Message) /\ Unheard' \subseteq Unheard
<1>1. /\ Len(rx) \in Nat \ {0} /\ Head(rx) = rx[1] /\ rx[1] \in Message
      /\ Tail(rx) \in Seq(Message) /\ Len(Tail(rx)) = Len(rx) - 1
      /\ \A k \in 1 .. Len(Tail(rx)) : Tail(rx)[k] = rx[k + 1]
  OBVIOUS
<1> QED  BY <1>1 DEF Unheard

\* No two entries have one id: the map leads to the one with this id.
LEMMA AddrOfId ==
  ASSUME Types, Ids, NEW i, NEW a, IsEntry(i, a)
  PROVE  AddrOf(i) = a
<1>1. DOMAIN entries = 1 .. Len(entries)
  BY DEF Types
<1>2. PICK e \in 1 .. Len(entries) : entries[e].id = i /\ entries[e].addr = a
  BY DEF IsEntry
<1>3. \A f \in DOMAIN entries : entries[f].id = i => f = e
  BY <1>1, <1>2 DEF Ids
<1> QED  BY <1>1, <1>2, <1>3 DEF AddrOf

\* The walk from the front ends at the first entry with the address.
LEMMA FindIdOfFirst ==
  ASSUME Types, NEW i, NEW a, IsFirst(i, a)
  PROVE  FindId(a) = i
<1>1. DOMAIN entries = 1 .. Len(entries) /\ Len(entries) \in Nat
  BY DEF Types
<1>2. PICK e \in 1 .. Len(entries) : /\ entries[e].id = i /\ entries[e].addr = a
                                    /\ \A f \in 1 .. e - 1 : entries[f].addr # a
  BY DEF IsFirst
<1>3. ASSUME NEW g \in DOMAIN entries, entries[g].addr = a,
             \A f \in 1 .. g - 1 : entries[f].addr # a
      PROVE  g = e
  BY <1>1, <1>2, <1>3
<1> QED  BY <1>1, <1>2, <1>3 DEF FindId

\* If the map has the address at all, one entry with it is the first.
LEMMA HasFirst ==
  ASSUME Types, NEW a, Has(a)
  PROVE  \E e \in 1 .. Len(entries) : IsFirst(entries[e].id, a)
<1> DEFINE With == {e \in 1 .. Len(entries) : entries[e].addr = a}
           R == OpToRel(<, Nat)
<1>1. Len(entries) \in Nat
  BY DEF Types
<1>2. With # {} /\ With \subseteq Nat
  BY <1>1 DEF Has
<1>3. PICK e \in With : \A f \in With : ~(<<f, e>> \in R)
  <2>1. IsWellFoundedOn(R, Nat)
    BY NatLessThanWellFounded
  <2> HIDE DEF R, With
  <2> QED  BY <1>2, <2>1, WFMin
<1>4. ASSUME NEW f \in With
      PROVE  ~(f < e)
  BY <1>2, <1>3, Zenon DEF OpToRel
<1>5. \A f \in 1 .. e - 1 : entries[f].addr # a
  BY <1>1, <1>4
<1> QED  BY <1>5 DEF IsFirst

-----------------------------------------------------------------------------
(* The steps.                                                              *)

\* Where nobody is, and an entry was left, a failed send is about the past.
LEMMA NobodyThere ==
  ASSUME RegInv, NEW a \in Addrs, Has(a), Holders(a) = {}
  PROVE  Departed(a)
<1>1. toXapp[a] = <<>>
  BY DEF RegInv, Responses
<1>2. Coming(a) = {}
  BY <1>1 DEF Coming
<1>3. \A p \in Procs : phase[p] = "connected" => addr[p] # a
  BY DEF Holders, Alive
<1> QED  BY <1>2, <1>3 DEF Departed

\* Nothing happens, or nothing but an abort when every id was given.
LEMMA FrozenStep ==
  ASSUME RegInv, fault' = fault \/ Len(entries) >= IdMod,
         UNCHANGED <<env, addr, phase, id, rx, edge, failing, toXapp, nextId, entries, subs>>
  PROVE  RegInv'
<1>1. /\ \A b : Has(b)' = Has(b) /\ Coming(b)' = Coming(b) /\ Holders(b)' = Holders(b)
      /\ Unheard' = Unheard
  BY DEF Has, Coming, Holders, Alive, Unheard
<1>2. Types'
  BY DEF RegInv, Types
<1>3. Phases'
  BY DEF RegInv, Phases
<1>4. Addresses'
  BY <1>1 DEF RegInv, Addresses, Alive
<1>5. Ids'
  BY DEF RegInv, Ids, IsEntry
<1>6. OwnIds'
  BY <1>1 DEF RegInv, OwnIds
<1>7. Responses'
  BY <1>1 DEF RegInv, Responses, IsEntry
<1>8. FirstHome'
  BY <1>1 DEF RegInv, FirstHome, IsFirst
<1>9. Reports'
  BY <1>1 DEF RegInv, Reports, Reported, Departed, IsFirst
<1>10. (~Running => Len(entries) >= IdMod)'
  BY DEF RegInv, Running
<1> QED  BY <1>2, <1>3, <1>4, <1>5, <1>6, <1>7, <1>8, <1>9, <1>10 DEF RegInv

\* Steps that leave the xApps, the map and the responses alone.
LEMMA QuietStep ==
  ASSUME RegInv, UNCHANGED <<env, addr, phase, id, toXapp, nextId, entries>>,
         rx' \in Seq(Message), failing' \subseteq Addrs,
         subs' \subseteq [proc : Procs, id : IdValues],
         \A s \in subs' : id[s.proc] = s.id,
         \A m \in Unheard' : \/ m \in Unheard
                             \/ /\ \E p \in Procs : addr[p] = m.addr
                                /\ m.kind = "subscribe" => id[m.proc] = m.id
                                /\ m.kind = "failed" => Departed(m.addr)
                             \/ /\ env = "reused"
                                /\ m.kind = "failed" /\ Departed(m.addr),
         \A a \in failing' : a \in failing \/ Departed(a),
         fault' = fault
  PROVE  RegInv'
<1>1. Types' /\ Phases'
  BY DEF RegInv, Types, Phases
<1>2. \A a : Has(a)' = Has(a) /\ Coming(a)' = Coming(a) /\ Departed(a)' = Departed(a)
  BY DEF Has, Coming, Departed, IsFirst
<1>3. Addresses'
  BY <1>2 DEF RegInv, Addresses, Alive
<1>4. Ids'
  BY DEF RegInv, Ids, IsEntry
<1>5. Responses'
  BY <1>2 DEF RegInv, Responses, Holders, Alive, IsEntry
<1>6. FirstHome'
  BY <1>2 DEF RegInv, FirstHome, IsFirst
<1>7. OwnIds'
  BY DEF RegInv, OwnIds
<1>8. Reports'
  <2> SUFFICES ASSUME NEW a \in Addrs, Reported(a)' PROVE Departed(a)
    BY <1>2 DEF Reports
  <2>1. CASE a \in failing'
    BY <2>1 DEF RegInv, Reports, Reported
  <2>2. CASE \E m \in Unheard' : m.kind = "failed" /\ m.addr = a
    BY <2>2 DEF RegInv, Reports, Reported
  <2> QED  BY <2>1, <2>2 DEF Reported
<1>9. (~Running => Len(entries) >= IdMod)'
  BY DEF RegInv, Running
<1> QED  BY <1>1, <1>3, <1>4, <1>5, <1>6, <1>7, <1>8, <1>9 DEF RegInv

\* An xApp that resends its setup or subscribes keeps the invariant.
LEMMA QuietXapp ==
  ASSUME RegInv, NEW p \in Procs, Resend(p) \/ SendSubscription(p)
  PROVE  RegInv'
<1>1. addr[p] \in Addrs
  BY DEF RegInv, Types, Phases, Resend, AsksAgain, SendSubscription
<1>2. CASE Resend(p)
  <2>1. [kind |-> "setup", addr |-> addr[p]] \in Message
    BY <1>1 DEF Message
  <2>2. /\ rx' \in Seq(Message)
        /\ Unheard' \subseteq Unheard \union {[kind |-> "setup", addr |-> addr[p]]}
    BY <1>2, <2>1, QueueGrows DEF Resend, RegInv, Types
  <2> QED  BY <1>2, <2>2, QuietStep DEF Resend, RegInv, Types, OwnIds
<1>3. CASE SendSubscription(p)
  <2> DEFINE m == [kind |-> "subscribe", addr |-> addr[p], proc |-> p, id |-> id[p]]
  <2>1. m \in Message
    BY <1>1, <1>3, RegistrationAssumption
       DEF SendSubscription, RegInv, Types, Phases, NoId, Message, IdValues
  <2>2. rx' \in Seq(Message) /\ Unheard' \subseteq Unheard \union {m}
    BY <1>3, <2>1, QueueGrows DEF SendSubscription, RegInv, Types
  <2> QED  BY <1>3, <2>2, QuietStep DEF SendSubscription, RegInv, Types, OwnIds
<1> QED  BY <1>2, <1>3

\* The iApp handling a subscription or a failed send keeps the invariant.
LEMMA QuietIapp ==
  ASSUME RegInv, HandleSubscription \/ HandleFailedSend
  PROVE  RegInv'
<1>1. rx # <<>>
  BY DEF HandleSubscription, HandleFailedSend, Reads
<1>2. /\ Head(rx) \in Unheard /\ Head(rx) \in Message
      /\ rx' \in Seq(Message) /\ Unheard' \subseteq Unheard
  BY <1>1, QueueReads DEF HandleSubscription, HandleFailedSend, RegInv, Types
<1>3. CASE HandleSubscription
  <2> DEFINE s == [proc |-> Head(rx).proc, id |-> Head(rx).id]
  <2>1. s \in [proc : Procs, id : IdValues] /\ id[s.proc] = s.id
    BY <1>2, <1>3 DEF HandleSubscription, Reads, RegInv, OwnIds, Message
  <2> QED  BY <1>2, <1>3, <2>1, QuietStep DEF HandleSubscription, RegInv, Types, OwnIds
<1>4. CASE HandleFailedSend
  <2>1. Has(Head(rx).addr)
    BY <1>2, <1>4 DEF HandleFailedSend, Reads, RegInv, Reports, Reported, Departed, Message
  <2>2. \E e \in DOMAIN entries : entries[e].addr = Head(rx).addr
    BY <2>1 DEF Has, RegInv, Types
  <2>3. subs' \subseteq subs /\ fault' = fault
    BY <1>4, <2>2 DEF HandleFailedSend
  <2> QED  BY <1>2, <1>4, <2>3, QuietStep DEF HandleFailedSend, RegInv, Types, OwnIds
<1> QED  BY <1>3, <1>4

\* Indications and the kernel's reports keep the invariant.
LEMMA QuietKernel ==
  ASSUME RegInv, (\E s \in subs : Indicate(s)) \/ (\E a \in Addrs : Report(a))
  PROVE  RegInv'
<1>1. ASSUME NEW s \in subs, Indicate(s)
      PROVE  RegInv'
  <2>1. s.proc \in Procs /\ s.id \in IdValues /\ id[s.proc] = s.id
    BY DEF RegInv, Types, OwnIds
  <2> DEFINE a == addr[s.proc]
  <2>2. IsEntry(s.id, a)
    BY <2>1, RegistrationAssumption DEF RegInv, Ids, NoId, IdValues
  <2>3. AddrOf(s.id) = a
    BY <2>2, AddrOfId DEF RegInv
  <2>4. Has(a) /\ a \in Addrs
    <3>1. PICK e \in 1 .. Len(entries) : entries[e].id = s.id /\ entries[e].addr = a
      BY <2>2 DEF IsEntry
    <3>2. entries[e] \in Entry
      BY <3>1 DEF RegInv, Types
    <3> QED  BY <3>1, <3>2 DEF Has, Entry
  <2>5. failing' = failing \union {a} /\ Holders(a) = {}
    BY <1>1, <2>3 DEF Indicate, SendFails
  <2>6. Departed(a)
    BY <2>4, <2>5, NobodyThere
  <2> HIDE DEF a
  <2>7. rx' = rx
    BY <1>1 DEF Indicate
  <2>8. Unheard' = Unheard
    BY <2>7 DEF Unheard
  <2> QED  BY <1>1, <2>4, <2>5, <2>6, <2>7, <2>8, QuietStep
              DEF Indicate, RegInv, Types, OwnIds
<1>2. ASSUME NEW a \in Addrs, Report(a)
      PROVE  RegInv'
  <2>1. Departed(a)
    BY <1>2 DEF Report, RegInv, Reports, Reported
  <2>2. env # "reused" => \E p \in Procs : addr[p] = a
    BY <2>1 DEF Departed, RegInv, Addresses
  <2>3. /\ rx' \in Seq(Message)
        /\ Unheard' \subseteq Unheard \union {[kind |-> "failed", addr |-> a]}
    BY <1>2, QueueGrows DEF Report, RegInv, Types, Message
  <2> QED  BY <1>2, <2>1, <2>2, <2>3, QuietStep DEF Report, RegInv, Types, OwnIds
<1> QED  BY <1>1, <1>2

\* An xApp that starts keeps the invariant.
LEMMA StartStep ==
  ASSUME RegInv, NEW p \in Procs, Start(p)
  PROVE  RegInv'
<1>1. PICK a \in Addrs : /\ Holders(a) = {}
                         /\ env # "reused" => \A q \in Procs : addr[q] # a
                         /\ addr' = [addr EXCEPT ![p] = a]
                         /\ Arrives(rx, [kind |-> "setup", addr |-> a])
  BY DEF Start
<1>2. /\ rx' \in Seq(Message)
      /\ Unheard' \subseteq Unheard \union {[kind |-> "setup", addr |-> a]}
  BY <1>1, QueueGrows DEF Message, RegInv, Types
<1>3. /\ phase[p] = "new" /\ phase' = [phase EXCEPT ![p] = "waiting"]
      /\ addr[p] = NoOne /\ id[p] = NoId /\ a # NoOne
      /\ UNCHANGED <<env, id, failing, toXapp, nextId, entries, subs, fault>>
  BY RegistrationAssumption DEF Start, RegInv, Phases
<1>4. \A q \in Procs : q # p => addr'[q] = addr[q] /\ phase'[q] = phase[q]
  BY <1>1, <1>3 DEF RegInv, Types
<1>5. addr'[p] = a /\ phase'[p] = "waiting"
  BY <1>1, <1>3 DEF RegInv, Types
<1>6. \A q \in Procs : Alive(q) => addr[q] # a
  BY <1>1 DEF Holders
<1>7. Types' /\ Phases'
  BY <1>1, <1>2, <1>3, <1>4, <1>5 DEF RegInv, Types, Phases
<1>8. \A b : Has(b)' = Has(b) /\ Coming(b)' = Coming(b)
  BY <1>3 DEF Has, Coming
<1>9. Addresses'
  <2>1. \A q, r \in Procs : Alive(q)' /\ Alive(r)' /\ addr'[q] = addr'[r] => q = r
    BY <1>4, <1>5, <1>6 DEF RegInv, Addresses, Alive
  <2>2. env # "reused" =>
          \A q, r \in Procs : addr'[q] = addr'[r] /\ addr'[q] # NoOne => q = r
    BY <1>1, <1>4, <1>5 DEF RegInv, Addresses
  <2>3. ASSUME env # "reused", NEW b \in Addrs, Has(b) \/ \E m \in Unheard' : m.addr = b
        PROVE  \E q \in Procs : addr'[q] = b
    <3>1. CASE b = a
      BY <1>5, <3>1
    <3>2. CASE b # a
      <4>1. PICK q \in Procs : addr[q] = b
        BY <1>2, <2>3, <3>2 DEF RegInv, Addresses
      <4> QED  BY <1>3, <1>4, <4>1, RegistrationAssumption
    <3> QED  BY <3>1, <3>2
  <2> QED  BY <1>3, <1>8, <2>1, <2>2, <2>3 DEF Addresses
<1>10. Ids'
  BY <1>3, <1>4 DEF RegInv, Ids, IsEntry
<1>11. Responses'
  <2>1. \A b \in Addrs : Holders(b) \subseteq Holders(b)'
    BY <1>3, <1>4 DEF Holders, Alive
  <2> QED  BY <1>3, <1>8, <2>1 DEF RegInv, Responses, IsEntry
<1>12. FirstHome'
  <2>1. env # "reused" => ~Has(a)
    BY <1>1 DEF RegInv, Addresses
  <2> QED  BY <1>3, <1>4, <1>5, <1>8, <2>1 DEF RegInv, FirstHome, IsFirst
<1>13. OwnIds'
  BY <1>2, <1>3 DEF RegInv, OwnIds
<1>14. Reports'
  <2> SUFFICES ASSUME NEW b \in Addrs, Reported(b)' PROVE Departed(b)'
    BY DEF Reports
  <2>1. Departed(b)
    BY <1>2, <1>3 DEF RegInv, Reports, Reported
  <2> QED  BY <1>3, <1>4, <1>5, <1>8, <2>1 DEF Departed, IsFirst
<1>15. (~Running => Len(entries) >= IdMod)'
  BY <1>3 DEF RegInv, Running
<1> QED  BY <1>7, <1>9, <1>10, <1>11, <1>12, <1>13, <1>14, <1>15 DEF RegInv

\* An xApp that leaves keeps the invariant.
LEMMA LeaveStep ==
  ASSUME RegInv, NEW p \in Procs, Leave(p)
  PROVE  RegInv'
<1> DEFINE a == addr[p]
<1>1. /\ phase' = [phase EXCEPT ![p] = "gone"] /\ toXapp' = [toXapp EXCEPT ![a] = <<>>]
      /\ UNCHANGED <<env, addr, id, rx, nextId, entries, subs, fault>>
      /\ Alive(p)
  BY DEF Leave
<1>2. a \in Addrs
  BY <1>1 DEF RegInv, Types, Phases, Alive
<1>3. /\ failing' \subseteq failing \union {a}
      /\ failing' # failing => toXapp[a] # <<>>
  BY DEF Leave, SendFails
<1>4. /\ \A q \in Procs : q # p => phase'[q] = phase[q]
      /\ phase'[p] = "gone"
      /\ toXapp'[a] = <<>> /\ \A b \in Addrs : b # a => toXapp'[b] = toXapp[b]
  BY <1>1, <1>2 DEF RegInv, Types
<1>5. toXapp[a] # <<>> => Has(a)
  <2> SUFFICES ASSUME toXapp[a] # <<>> PROVE Has(a)
    OBVIOUS
  <2>1. toXapp[a] \in Seq(IdValues)
    BY <1>2 DEF RegInv, Types
  <2>2. 1 \in 1 .. Len(toXapp[a])
    BY <2>1
  <2>3. toXapp[a][1] \in Coming(a)
    BY <2>2 DEF Coming
  <2>4. IsEntry(toXapp[a][1], a)
    BY <1>2, <2>3 DEF RegInv, Responses
  <2> QED  BY <2>4 DEF IsEntry, Has
<1> HIDE DEF a
<1>6. Types'
  BY <1>1, <1>2, <1>3 DEF RegInv, Types
<1>7. Phases'
  BY <1>1, <1>4 DEF RegInv, Types, Phases, Alive
<1>8. Unheard' = Unheard /\ \A b : Has(b)' = Has(b)
  BY <1>1 DEF Unheard, Has
<1>9. Addresses' /\ Ids' /\ OwnIds'
  BY <1>1, <1>4, <1>8 DEF RegInv, Addresses, Alive, Ids, IsEntry, OwnIds
<1>10. \A b \in Addrs : Coming(b)' = IF b = a THEN {} ELSE Coming(b)
  BY <1>4 DEF Coming
<1>11. \A b \in Addrs : b # a => Holders(b)' = Holders(b)
  BY <1>1, <1>4 DEF Holders, Alive, a
<1>12. Responses'
  <2> SUFFICES ASSUME NEW b \in Addrs
               PROVE  /\ toXapp'[b] # <<>> => Holders(b)' # {}
                      /\ \A i \in Coming(b)' : /\ IsEntry(i, b)'
                                               /\ \A q \in Procs : id'[q] # i
                      /\ \A j, k \in 1 .. Len(toXapp'[b]) :
                           toXapp'[b][j] = toXapp'[b][k] => j = k
    BY DEF Responses
  <2>1. CASE b = a
    BY <1>4, <1>10, <2>1
  <2>2. CASE b # a
    BY <1>1, <1>4, <1>10, <1>11, <2>2 DEF RegInv, Responses, IsEntry
  <2> QED  BY <2>1, <2>2
<1>13. FirstHome'
  <2> SUFFICES ASSUME env # "reused", NEW q \in Procs
               PROVE  /\ id[q] # NoId => IsFirst(id[q], addr[q])
                      /\ phase'[q] = "waiting" /\ Has(addr[q]) =>
                           /\ toXapp'[addr[q]] # <<>>
                           /\ IsFirst(Head(toXapp'[addr[q]]), addr[q])
    BY <1>1, <1>8 DEF FirstHome, IsFirst
  <2>1. phase'[q] = "waiting" => addr[q] # a /\ addr[q] \in Addrs
    BY <1>1, <1>4 DEF RegInv, Types, Phases, Addresses, Alive, a
  <2>2. phase'[q] = "waiting" => toXapp'[addr[q]] = toXapp[addr[q]] /\ phase[q] = "waiting"
    BY <1>4, <2>1
  <2> QED  BY <2>2 DEF RegInv, FirstHome
<1>14. Reports'
  <2> SUFFICES ASSUME NEW b \in Addrs, Reported(b)' PROVE Departed(b)'
    BY DEF Reports
  <2>1. CASE Reported(b)
    <3>1. Departed(b)
      BY <2>1 DEF RegInv, Reports
    <3> QED  BY <1>1, <1>4, <1>8, <1>10, <3>1 DEF Departed, IsFirst
  <2>2. CASE b = a /\ Has(a)
    <3>1. \A q \in Procs : phase'[q] = "connected" => addr[q] # a
      BY <1>1, <1>4 DEF RegInv, Addresses, Alive, a
    <3> QED  BY <1>1, <1>8, <1>10, <2>2, <3>1 DEF Departed
  <2> QED  BY <1>3, <1>5, <1>8, <2>1, <2>2 DEF Reported
<1>15. (~Running => Len(entries) >= IdMod)'
  BY <1>1 DEF RegInv, Running
<1> QED  BY <1>6, <1>7, <1>9, <1>12, <1>13, <1>14, <1>15 DEF RegInv

\* What is left of a sequence without repetitions when its head is taken.
Elements(s) == {s[k] : k \in 1 .. Len(s)}
NoRepeats(s) == \A j, k \in 1 .. Len(s) : s[j] = s[k] => j = k

\* What taking the head of a sequence leaves of its elements.
LEMMA TakeHead ==
  ASSUME NEW S, NEW s \in Seq(S), s # <<>>
  PROVE  /\ Head(s) \in S /\ Head(s) \in Elements(s) /\ Tail(s) \in Seq(S)
         /\ Elements(Tail(s)) \subseteq Elements(s)
         /\ NoRepeats(s) => Head(s) \notin Elements(Tail(s)) /\ NoRepeats(Tail(s))
<1>1. /\ Len(s) \in Nat \ {0} /\ Head(s) = s[1] /\ s[1] \in S
      /\ Tail(s) \in Seq(S) /\ Len(Tail(s)) = Len(s) - 1
      /\ \A k \in 1 .. Len(Tail(s)) : Tail(s)[k] = s[k + 1]
  OBVIOUS
<1> QED  BY <1>1 DEF Elements, NoRepeats

\* What appending to a sequence adds to its elements.
LEMMA AddLast ==
  ASSUME NEW S, NEW s \in Seq(S), NEW i \in S
  PROVE  /\ Append(s, i) \in Seq(S) /\ Append(s, i) # <<>>
         /\ Elements(Append(s, i)) = Elements(s) \union {i}
         /\ NoRepeats(s) /\ i \notin Elements(s) => NoRepeats(Append(s, i))
         /\ s = <<>> => Head(Append(s, i)) = i
         /\ s # <<>> => Head(Append(s, i)) = Head(s) /\ Head(s) \in Elements(s)
<1>1. Append(s, i) \in Seq(S) /\ Len(s) \in Nat /\ Len(Append(s, i)) = Len(s) + 1
  OBVIOUS
<1>2. /\ \A k \in 1 .. Len(s) : Append(s, i)[k] = s[k]
      /\ Append(s, i)[Len(s) + 1] = i
  OBVIOUS
<1>3. Append(s, i) # <<>> /\ Head(Append(s, i)) = Append(s, i)[1]
  BY <1>1
<1>4. /\ s = <<>> => Len(s) = 0
      /\ s # <<>> => 1 \in 1 .. Len(s) /\ Head(s) = s[1]
  OBVIOUS
<1>5. Elements(Append(s, i)) = Elements(s) \union {i}
  BY <1>1, <1>2 DEF Elements
<1>6. NoRepeats(s) /\ i \notin Elements(s) => NoRepeats(Append(s, i))
  BY <1>1, <1>2 DEF Elements, NoRepeats
<1> QED  BY <1>1, <1>2, <1>3, <1>4, <1>5, <1>6 DEF Elements

\* The first response to arrive makes the xApp connected; a later one is dropped.
LEMMA SetupResponseStep ==
  ASSUME RegInv, NEW p \in Procs, SetupResponse(p)
  PROVE  RegInv'
<1>1. PICK a : a = addr[p]
  OBVIOUS
<1>2. /\ Alive(p) /\ toXapp[a] # <<>>
      /\ toXapp' = [toXapp EXCEPT ![a] = Tail(toXapp[a])]
      /\ UNCHANGED <<env, addr, rx, failing, nextId, entries, subs, fault>>
  BY <1>1 DEF SetupResponse
<1>3. a \in Addrs /\ toXapp[a] \in Seq(IdValues)
  BY <1>1, <1>2 DEF RegInv, Types, Phases, Alive
<1>4. PICK i : i = Head(toXapp[a])
  OBVIOUS
<1>5. NoRepeats(toXapp[a]) /\ \A b : Coming(b) = Elements(toXapp[b])
  BY <1>3 DEF RegInv, Responses, NoRepeats, Coming, Elements
<1>6. /\ i \in IdValues /\ i \in Coming(a) /\ Tail(toXapp[a]) \in Seq(IdValues)
      /\ Elements(Tail(toXapp[a])) \subseteq Coming(a)
      /\ i \notin Elements(Tail(toXapp[a])) /\ NoRepeats(Tail(toXapp[a]))
  BY <1>2, <1>3, <1>4, <1>5, TakeHead
<1>7. IsEntry(i, a) /\ \A q \in Procs : id[q] # i
  BY <1>3, <1>6 DEF RegInv, Responses
<1>8. /\ \A b \in Addrs : b # a => toXapp'[b] = toXapp[b]
      /\ toXapp'[a] = Tail(toXapp[a])
  BY <1>2, <1>3 DEF RegInv, Types
<1>9. /\ \A b \in Addrs : Coming(b)' \subseteq Coming(b)
      /\ i \notin Coming(a)'
  <2>1. \A b : Coming(b)' = Elements(toXapp'[b])
    BY DEF Coming, Elements
  <2> QED  BY <1>5, <1>6, <1>8, <2>1
<1>10. \/ phase[p] = "connected" /\ UNCHANGED <<id, phase>>
       \/ /\ phase[p] = "waiting" /\ id' = [id EXCEPT ![p] = i]
          /\ phase' = [phase EXCEPT ![p] = "connected"]
  BY <1>1, <1>2, <1>4 DEF SetupResponse, FirstResponse, Alive
<1>11. /\ \A q \in Procs : q # p => id'[q] = id[q] /\ phase'[q] = phase[q]
       /\ phase'[p] = "connected"
       /\ \/ phase[p] = "waiting" /\ id[p] = NoId /\ id'[p] = i
          \/ phase[p] = "connected" /\ id[p] # NoId /\ id'[p] = id[p]
  BY <1>10 DEF RegInv, Types, Phases
<1>12. \A b : Has(b)' = Has(b)
  BY <1>2 DEF Has
<1>13. i # NoId /\ i \in 0 .. IdMod
  BY <1>6, RegistrationAssumption DEF IdValues, NoId
<1>14. Types'
  <2>1. toXapp' \in [Addrs -> Seq(IdValues)]
    BY <1>2, <1>3, <1>6 DEF RegInv, Types
  <2>2. id' \in [Procs -> 0 .. IdMod]
    BY <1>10, <1>13 DEF RegInv, Types
  <2> QED  BY <1>2, <1>10, <2>1, <2>2 DEF RegInv, Types
<1>15. Phases'
  BY <1>2, <1>10, <1>11, <1>13 DEF RegInv, Types, Phases, Alive
<1>16. Addresses'
  <2>1. \A q \in Procs : Alive(q)' => Alive(q)
    BY <1>2, <1>11 DEF Alive
  <2> QED  BY <1>2, <1>12, <2>1 DEF RegInv, Addresses, Unheard
<1>17. Ids'
  <2>1. \A q \in Procs : id'[q] # NoId => IsEntry(id'[q], addr[q])
    BY <1>1, <1>7, <1>11 DEF RegInv, Ids
  <2>2. \A q, r \in Procs : id'[q] = id'[r] /\ id'[q] # NoId => q = r
    BY <1>7, <1>11 DEF RegInv, Ids
  <2> QED  BY <1>2, <2>1, <2>2 DEF RegInv, Ids, IsEntry
<1>18. Responses'
  <2> SUFFICES ASSUME NEW b \in Addrs
               PROVE  /\ toXapp'[b] # <<>> => Holders(b)' # {}
                      /\ \A j \in Coming(b)' : /\ IsEntry(j, b)'
                                               /\ \A q \in Procs : id'[q] # j
                      /\ NoRepeats(toXapp'[b])
    BY DEF Responses, NoRepeats
  <2>1. toXapp'[b] # <<>> => Holders(b)' # {}
    <3>1. Holders(b)' = Holders(b)
      BY <1>2, <1>11 DEF Holders, Alive
    <3>2. toXapp'[b] # <<>> => toXapp[b] # <<>>
      BY <1>2, <1>8
    <3> QED  BY <3>1, <3>2 DEF RegInv, Responses
  <2>2. ASSUME NEW j \in Coming(b)'
        PROVE  IsEntry(j, b)' /\ \A q \in Procs : id'[q] # j
    <3>1. j \in Coming(b) /\ IsEntry(j, b) /\ \A q \in Procs : id[q] # j
      BY <1>9, <2>2 DEF RegInv, Responses
    <3>2. j # i
      <4>1. CASE b = a
        BY <1>9, <2>2, <4>1
      <4>2. CASE b # a
        BY <1>7, <3>1, <4>2 DEF RegInv, Ids, IsEntry
      <4> QED  BY <4>1, <4>2
    <3> QED  BY <1>2, <1>11, <3>1, <3>2 DEF IsEntry
  <2>3. NoRepeats(toXapp'[b])
    <3>1. NoRepeats(toXapp[b])
      BY DEF RegInv, Responses, NoRepeats
    <3> QED  BY <1>6, <1>8, <3>1
  <2> QED  BY <2>1, <2>2, <2>3
<1>19. FirstHome'
  <2> SUFFICES ASSUME env # "reused", NEW q \in Procs
               PROVE  /\ id'[q] # NoId => IsFirst(id'[q], addr[q])
                      /\ phase'[q] = "waiting" /\ Has(addr[q]) =>
                           /\ toXapp'[addr[q]] # <<>>
                           /\ IsFirst(Head(toXapp'[addr[q]]), addr[q])
    BY <1>2, <1>12 DEF FirstHome, IsFirst
  <2>1. Has(a)
    BY <1>7 DEF IsEntry, Has
  <2>2. CASE q = p
    <3>1. phase[p] = "waiting" => IsFirst(i, a)
      BY <1>1, <1>4, <2>1 DEF RegInv, FirstHome
    <3>2. phase[p] = "connected" => IsFirst(id[p], a)
      BY <1>1, <1>11 DEF RegInv, FirstHome
    <3> QED  BY <1>1, <1>11, <2>2, <3>1, <3>2
  <2>3. CASE q # p
    <3>1. phase[q] = "waiting" => addr[q] # a /\ addr[q] \in Addrs
      BY <1>1, <1>2, <2>3 DEF RegInv, Types, Phases, Addresses, Alive
    <3>2. phase[q] = "waiting" => toXapp'[addr[q]] = toXapp[addr[q]]
      BY <1>8, <3>1
    <3> QED  BY <1>11, <2>3, <3>2 DEF RegInv, FirstHome
  <2> QED  BY <2>2, <2>3
<1>20. OwnIds'
  <2>1. \A q \in Procs : id[q] # NoId => id'[q] = id[q]
    BY <1>11
  <2>2. \A s \in subs : s.proc \in Procs /\ s.id # NoId
    BY RegistrationAssumption DEF RegInv, Types, IdValues, NoId
  <2>3. \A m \in Unheard : m \in Message
    BY DEF RegInv, Types, Unheard
  <2>4. \A m \in Unheard : m.kind = "subscribe" => m.proc \in Procs /\ m.id # NoId
    BY <2>3, RegistrationAssumption DEF Message, IdValues, NoId
  <2>5. Unheard' = Unheard
    BY <1>2 DEF Unheard
  <2> QED  BY <1>2, <2>1, <2>2, <2>4, <2>5 DEF RegInv, OwnIds
<1>21. Reports'
  <2> SUFFICES ASSUME NEW b \in Addrs, Reported(b)' PROVE Departed(b)'
    BY DEF Reports
  <2>1. Departed(b)
    <3>1. Unheard' = Unheard
      BY <1>2 DEF Unheard
    <3> QED  BY <1>2, <3>1 DEF RegInv, Reports, Reported
  <2>2. ASSUME NEW q \in Procs, phase'[q] = "connected", addr[q] = b
        PROVE  ~IsFirst(id'[q], b)
    <3>1. CASE q = p /\ phase[p] = "waiting"
      BY <1>1, <1>6, <1>11, <2>1, <2>2, <3>1 DEF Departed
    <3>2. CASE ~(q = p /\ phase[p] = "waiting")
      BY <1>11, <2>1, <2>2, <3>2 DEF Departed
    <3> QED  BY <3>1, <3>2
  <2> QED  BY <1>2, <1>9, <1>12, <2>1, <2>2 DEF Departed, IsFirst
<1>22. (~Running => Len(entries) >= IdMod)'
  BY <1>2 DEF RegInv, Running
<1> QED  BY <1>14, <1>15, <1>16, <1>17, <1>18, <1>19, <1>20, <1>21, <1>22 DEF RegInv

\* Two numbers with one remainder are a multiple of the divisor apart.
LEMMA SameRemainder ==
  ASSUME NEW m \in Nat \ {0}, NEW x \in Nat, NEW y \in Nat, x < y, x % m = y % m
  PROVE  y - x >= m
<1>1. PICK p \in Int : p = x \div m
  OBVIOUS
<1>2. PICK q \in Int : q = y \div m
  OBVIOUS
<1>3. m * p \in Int /\ m * q \in Int /\ m * (q - p) = m * q - m * p
  OBVIOUS
<1>4. x % m \in Int /\ y % m \in Int
  OBVIOUS
<1>5. x % m = x - m * p
  BY <1>1
<1>6. y % m = y - m * q
  BY <1>2
<1>7. y - x = m * (q - p)
  BY <1>3, <1>4, <1>5, <1>6
<1>8. q - p >= 1
  <2>1. ASSUME q - p <= 0 PROVE m * (q - p) <= 0
    BY <2>1
  <2> QED  BY <1>7, <2>1
<1>9. m * (q - p) >= m
  BY <1>8
<1> QED  BY <1>7, <1>9

\* The iApp numbers an xApp and answers, or, when every id was given, aborts.
LEMMA HandleSetupStep ==
  ASSUME RegInv, HandleSetup
  PROVE  RegInv'
<1>1. rx # <<>> /\ Head(rx).kind = "setup"
  BY DEF HandleSetup, Reads
<1>2. PICK a : a = Head(rx).addr
  OBVIOUS
<1>3. PICK i : i = nextId % IdMod
  OBVIOUS
<1>4. /\ Head(rx) \in Unheard /\ Head(rx) \in Message /\ a \in Addrs
      /\ rx' = Tail(rx) => rx' \in Seq(Message) /\ Unheard' \subseteq Unheard
  BY <1>1, <1>2, QueueReads DEF RegInv, Types, Message
<1>5. /\ Len(entries) \in Nat /\ DOMAIN entries = 1 .. Len(entries)
      /\ i \in IdValues /\ i \in 0 .. IdMod
      /\ i = (FirstId + Len(entries)) % IdMod
  BY <1>3, RegistrationAssumption DEF RegInv, Types, IdValues
<1>6. CASE Registered(i)
  <2>1. PICK e \in 1 .. Len(entries) : entries[e].id = i
    BY <1>5, <1>6 DEF Registered
  <2>2. FirstId + e - 1 \in Nat /\ FirstId + Len(entries) \in Nat
    BY <1>5, RegistrationAssumption
  <2>3. (FirstId + e - 1) % IdMod = (FirstId + Len(entries)) % IdMod
    BY <1>5, <2>1 DEF RegInv, Ids
  <2>4. (FirstId + Len(entries)) - (FirstId + e - 1) >= IdMod
    BY <1>5, <2>2, <2>3, SameRemainder, RegistrationAssumption
  <2>5. Len(entries) >= IdMod
    BY <1>5, <2>4, RegistrationAssumption
  <2>6. UNCHANGED <<env, addr, phase, id, rx, edge, failing, toXapp, nextId, entries, subs>>
    BY <1>2, <1>3, <1>6 DEF HandleSetup
  <2> QED  BY <2>5, <2>6, FrozenStep
<1>7. CASE ~Registered(i)
  <2>1. /\ nextId' = nextId + 1 /\ entries' = Append(entries, [id |-> i, addr |-> a])
        /\ rx' = Tail(rx) /\ UNCHANGED <<env, addr, phase, id, subs, fault>>
        /\ \/ /\ Holders(a) # {} /\ toXapp' = [toXapp EXCEPT ![a] = Append(toXapp[a], i)]
              /\ failing' = failing
           \/ Holders(a) = {} /\ failing' = failing \union {a} /\ toXapp' = toXapp
    BY <1>2, <1>3, <1>7 DEF HandleSetup, SendFails
  <2>2. /\ entries' \in Seq(Entry) /\ Len(entries') = Len(entries) + 1
        /\ \A e \in 1 .. Len(entries) : entries'[e] = entries[e]
        /\ entries'[Len(entries) + 1] = [id |-> i, addr |-> a]
    BY <1>4, <1>5, <2>1 DEF RegInv, Types, Entry
  <2>3. \A e \in 1 .. Len(entries) : entries[e].id # i
    BY <1>5, <1>7 DEF Registered
  <2>4. \A b : Has(b)' <=> Has(b) \/ b = a
    BY <1>5, <2>2 DEF Has
  <2>5. \A j, b : IsEntry(j, b)' <=> IsEntry(j, b) \/ (j = i /\ b = a)
    BY <1>5, <2>2 DEF IsEntry
  <2>6. \A b : ~IsEntry(i, b)
    BY <2>3 DEF IsEntry
  <2>7. \A j, b : IsFirst(j, b)' <=> IsFirst(j, b) \/ (j = i /\ b = a /\ ~Has(a))
    BY <1>5, <2>2 DEF IsFirst, Has
  <2>8. PICK s \in Seq(IdValues) : s = toXapp[a]
    BY <1>4 DEF RegInv, Types
  <2>9. /\ Append(s, i) \in Seq(IdValues) /\ Append(s, i) # <<>>
        /\ Elements(Append(s, i)) = Elements(s) \union {i}
        /\ NoRepeats(s) /\ i \notin Elements(s) => NoRepeats(Append(s, i))
        /\ s = <<>> => Head(Append(s, i)) = i
        /\ s # <<>> => Head(Append(s, i)) = Head(s) /\ Head(s) \in Elements(s)
    BY <1>5, AddLast
  <2>10. /\ toXapp' \in [Addrs -> Seq(IdValues)]
         /\ \A b \in Addrs : b # a => toXapp'[b] = toXapp[b]
         /\ Holders(a) # {} => toXapp'[a] = Append(s, i)
         /\ Holders(a) = {} => toXapp'[a] = s
    <3>1. toXapp' = [toXapp EXCEPT ![a] = IF Holders(a) # {} THEN Append(s, i) ELSE s]
      BY <1>4, <2>1, <2>8 DEF RegInv, Types
    <3> QED  BY <1>4, <2>9, <3>1 DEF RegInv, Types
  <2>11. \A b : Coming(b) = Elements(toXapp[b]) /\ Coming(b)' = Elements(toXapp'[b])
    BY DEF Coming, Elements
  <2>12. /\ \A b \in Addrs : b # a => Coming(b)' = Coming(b)
         /\ Coming(a)' = IF Holders(a) # {} THEN Coming(a) \union {i} ELSE Coming(a)
    BY <2>8, <2>9, <2>10, <2>11
  <2>13. /\ \A j \in Coming(a) : IsEntry(j, a)
         /\ i \notin Coming(a)
         /\ s # <<>> => Has(a)
    <3>1. \A j \in Coming(a) : IsEntry(j, a)
      BY <1>4 DEF RegInv, Responses
    <3>2. s # <<>> => Head(s) \in Coming(a)
      BY <2>8, <2>9, <2>11
    <3>3. \A j : IsEntry(j, a) => Has(a)
      BY DEF IsEntry, Has
    <3> QED  BY <2>6, <3>1, <3>2, <3>3
  <2>14. \A b : Holders(b)' = Holders(b)
    BY <2>1 DEF Holders, Alive
  <2>15. \A q \in Procs : id[q] # i
    <3>1. i # NoId
      BY <1>5, RegistrationAssumption DEF NoId, IdValues
    <3> QED  BY <2>6, <3>1 DEF RegInv, Ids
  <2>16. Types' /\ Phases'
    <3>1. nextId' = FirstId + Len(entries')
      BY <1>5, <2>1, <2>2, RegistrationAssumption DEF RegInv, Types
    <3>2. failing' \subseteq Addrs
      BY <1>4, <2>1 DEF RegInv, Types
    <3> QED  BY <1>4, <2>1, <2>2, <2>10, <3>1, <3>2 DEF RegInv, Types, Phases
  <2>17. Addresses'
    BY <1>2, <1>4, <2>1, <2>4 DEF RegInv, Addresses, Alive
  <2>18. Ids'
    <3>1. \A e \in 1 .. Len(entries') : entries'[e].id = (FirstId + e - 1) % IdMod
      <4> DEFINE Nth(e) == (FirstId + e - 1) % IdMod
      <4>1. \A e \in 1 .. Len(entries) : entries[e].id = Nth(e)
        BY DEF RegInv, Ids
      <4>2. FirstId + (Len(entries) + 1) - 1 = FirstId + Len(entries)
        BY <1>5, RegistrationAssumption
      <4>3. entries'[Len(entries) + 1].id = Nth(Len(entries) + 1)
        BY <1>5, <2>2, <4>2
      <4> HIDE DEF Nth
      <4>4. \A e \in 1 .. Len(entries') : entries'[e].id = Nth(e)
        BY <1>5, <2>2, <4>1, <4>3
      <4> QED  BY <4>4 DEF Nth
    <3>2. \A e, f \in 1 .. Len(entries') : entries'[e].id = entries'[f].id => e = f
      BY <1>5, <2>2, <2>3 DEF RegInv, Ids
    <3> QED  BY <2>1, <2>5, <3>1, <3>2 DEF RegInv, Ids
  <2>19. Responses'
    <3> SUFFICES ASSUME NEW b \in Addrs
                 PROVE  /\ toXapp'[b] # <<>> => Holders(b)' # {}
                        /\ \A j \in Coming(b)' : IsEntry(j, b)' /\ \A q \in Procs : id[q] # j
                        /\ NoRepeats(toXapp'[b])
      BY <2>1 DEF Responses, NoRepeats
    <3>1. CASE b # a
      BY <2>5, <2>10, <2>12, <2>14, <3>1 DEF RegInv, Responses, NoRepeats
    <3>2. CASE b = a
      <4>1. NoRepeats(s) /\ NoRepeats(Append(s, i))
        BY <1>4, <2>8, <2>9, <2>11, <2>13 DEF RegInv, Responses, NoRepeats
      <4>2. NoRepeats(toXapp'[a])
        BY <2>10, <4>1
      <4>3. toXapp'[a] # <<>> => Holders(a) # {}
        BY <1>4, <2>8, <2>10 DEF RegInv, Responses
      <4>4. \A j \in Coming(a)' : IsEntry(j, a)' /\ \A q \in Procs : id[q] # j
        BY <1>4, <2>5, <2>12, <2>15 DEF RegInv, Responses
      <4> QED  BY <2>14, <3>2, <4>2, <4>3, <4>4
    <3> QED  BY <3>1, <3>2
  <2>20. FirstHome'
    <3> SUFFICES ASSUME env # "reused", NEW q \in Procs
                 PROVE  (/\ id[q] # NoId => IsFirst(id[q], addr[q])
                         /\ phase[q] = "waiting" /\ Has(addr[q]) =>
                              toXapp[addr[q]] # <<>> /\ IsFirst(Head(toXapp[addr[q]]), addr[q]))'
      BY <2>1 DEF FirstHome
    <3>1. PICK c : c = addr[q]
      OBVIOUS
    <3>2. (id[q] # NoId => IsFirst(id[q], addr[q]))'
      BY <2>1, <2>7 DEF RegInv, FirstHome
    <3>3. ASSUME phase[q] = "waiting", Has(c)'
          PROVE  toXapp'[c] # <<>> /\ \E j : j = Head(toXapp'[c]) /\ IsFirst(j, c)'
      <4>1. c \in Addrs
        BY <3>1, <3>3 DEF RegInv, Types, Phases
      <4>2. Has(c) => toXapp[c] # <<>> /\ IsFirst(Head(toXapp[c]), c)
        BY <3>1, <3>3 DEF RegInv, FirstHome
      <4>3. CASE c # a
        BY <2>4, <2>7, <2>10, <3>3, <4>1, <4>2, <4>3
      <4>4. CASE c = a
        <5>1. toXapp'[a] = Append(s, i)
          BY <2>10, <3>1, <3>3, <4>4 DEF Holders, Alive
        <5> QED  BY <2>7, <2>8, <2>9, <2>13, <4>2, <4>4, <5>1
      <4> QED  BY <4>3, <4>4
    <3>4. (phase[q] = "waiting" /\ Has(addr[q]) =>
             toXapp[addr[q]] # <<>> /\ IsFirst(Head(toXapp[addr[q]]), addr[q]))'
      BY <2>1, <3>1, <3>3 DEF Has, IsFirst
    <3> QED  BY <3>2, <3>4
  <2>21. OwnIds'
    BY <1>4, <2>1 DEF RegInv, OwnIds
  <2>22. Reports'
    <3> SUFFICES ASSUME NEW b \in Addrs, Reported(b)' PROVE Departed(b)'
      BY DEF Reports
    <3>1. CASE Reported(b)
      <4>1. Departed(b)
        BY <3>1 DEF RegInv, Reports
      <4>2. \A j : IsFirst(j, b) => IsEntry(j, b)
        BY DEF IsFirst, IsEntry
      <4>3. \A j : IsFirst(j, b)' => IsFirst(j, b) /\ j # i
        BY <2>6, <2>7, <4>1, <4>2 DEF Departed
      <4>4. Coming(b)' \subseteq Coming(b) \union {i}
        BY <2>12
      <4> QED  BY <2>1, <2>4, <4>1, <4>3, <4>4 DEF Departed
    <3>2. CASE b = a /\ Holders(a) = {}
      <4>1. Coming(a)' = {}
        <5>1. s = <<>>
          BY <1>4, <2>8, <3>2 DEF RegInv, Responses
        <5> QED  BY <2>10, <2>11, <3>2, <5>1 DEF Elements
      <4>2. \A q \in Procs : phase[q] = "connected" => addr[q] # a
        BY <3>2 DEF Holders, Alive
      <4> QED  BY <2>1, <2>4, <3>2, <4>1, <4>2 DEF Departed
    <3> QED  BY <1>4, <2>1, <3>1, <3>2 DEF Reported
  <2>23. (~Running => Len(entries) >= IdMod)'
    BY <1>5, <2>1, <2>2, RegistrationAssumption DEF RegInv, Running
  <2> QED
    BY <2>16, <2>17, <2>18, <2>19, <2>20, <2>21, <2>22, <2>23 DEF RegInv
<1> QED  BY <1>6, <1>7

-----------------------------------------------------------------------------
(* The theorems.                                                           *)

\* What the iApp knows of its xApps stays consistent: ids are given one after the
\* other and none twice, each to the address of the xApp that has it, and a failed
\* send is only reported of an address whose first xApp is gone.
THEOREM RegistrationInvariant == Spec => []RegInv
<1>1. ASSUME Init PROVE RegInv
  <2> USE <1>1 DEF Init
  <2>1. Unheard = {} /\ \A a : ~Has(a)
    BY DEF Unheard, Has
  <2>2. \A a \in Addrs : Coming(a) = {}
    BY DEF Coming
  <2>3. Types
    BY RegistrationAssumption DEF Types, NoId
  <2>4. Phases /\ OwnIds /\ Reports
    BY <2>1 DEF Phases, OwnIds, Reports, Reported
  <2>5. Addresses
    BY <2>1 DEF Addresses, Alive
  <2>6. Ids
    BY DEF Ids
  <2>7. Responses
    BY <2>2 DEF Responses
  <2>8. FirstHome
    BY <2>1 DEF FirstHome
  <2> QED  BY <2>3, <2>4, <2>5, <2>6, <2>7, <2>8 DEF RegInv, Running
<1>2. ASSUME RegInv, [Next]_vars PROVE RegInv'
  <2>1. CASE UNCHANGED vars
    BY <1>2, <2>1, FrozenStep DEF vars
  <2>2. CASE \E p \in Procs : \/ Start(p) \/ Resend(p) \/ SetupResponse(p)
                              \/ SendSubscription(p) \/ Leave(p)
    BY <1>2, <2>2, StartStep, QuietXapp, SetupResponseStep, LeaveStep
  <2>3. CASE Handle
    BY <1>2, <2>3, HandleSetupStep, QuietIapp DEF Handle
  <2>4. CASE (\E s \in subs : Indicate(s)) \/ (\E a \in Addrs : Report(a))
    BY <1>2, <2>4, QuietKernel
  <2> QED  BY <1>2, <2>1, <2>2, <2>3, <2>4 DEF Next
<1> QED  BY <1>1, <1>2, PTL DEF Spec

\* What is sent to an id reaches the one xApp that has it, however often xApps
\* register again, and the iApp aborts only when every id was given.
THEOREM IdsAreSafe == Spec => []IdsLeadHome
<1>1. ASSUME RegInv PROVE IdsLeadHome
  <2> USE <1>1
  <2>1. \A p, q \in Procs : id[p] = id[q] /\ id[p] # NoId => p = q
    BY DEF RegInv, Ids
  <2>2. ASSUME NEW p \in Procs, id[p] # NoId
        PROVE  AddrOf(id[p]) = addr[p] /\ (env # "reused" => FindId(addr[p]) = id[p])
    <3>1. IsEntry(id[p], addr[p]) /\ (env # "reused" => IsFirst(id[p], addr[p]))
      BY <2>2 DEF RegInv, Ids, FirstHome
    <3> QED  BY <3>1, AddrOfId, FindIdOfFirst DEF RegInv
  <2>3. ~Running => Cardinality({entries[e].id : e \in DOMAIN entries}) = IdMod
    <3> SUFFICES ASSUME ~Running PROVE Cardinality({entries[e].id : e \in DOMAIN entries}) = IdMod
      OBVIOUS
    <3>1. PICK n \in Nat : n = Len(entries) /\ DOMAIN entries = 1 .. n /\ n >= IdMod
      BY DEF RegInv, Types
    <3>2. PICK f : f = [e \in 1 .. n |-> entries[e].id]
      OBVIOUS
    <3>3. PICK S : S = {entries[e].id : e \in 1 .. n}
      OBVIOUS
    <3>4. \A e \in 1 .. n : f[e] \in IdValues /\ f[e] = entries[e].id
      <4>1. \A e \in 1 .. n : entries[e] \in Entry
        BY <3>1 DEF RegInv, Types
      <4>2. \A e \in 1 .. n : entries[e].id \in IdValues
        BY <4>1 DEF Entry
      <4> QED  BY <3>2, <4>2
    <3>5. f \in [1 .. n -> S] /\ S \subseteq IdValues
      BY <3>2, <3>3, <3>4
    <3>6. \A d, e \in 1 .. n : f[d] = f[e] => d = e
      BY <3>1, <3>4 DEF RegInv, Ids
    <3>7. f \in Bijection(1 .. n, S)
      <4>1. \A t \in S : \E e \in 1 .. n : f[e] = t
        BY <3>3, <3>4
      <4> QED  BY <3>5, <3>6, <4>1, Fun_IsBij
    <3>8. Cardinality(S) = n
      BY <3>7, FS_CountingElements DEF ExistsBijection
    <3>9. IsFiniteSet(IdValues) /\ Cardinality(IdValues) = IdMod
      <4>1. PICK m \in Int : m = IdMod - 1 /\ ~(0 > m) /\ m - 0 + 1 = IdMod
        BY RegistrationAssumption
      <4>2. /\ IsFiniteSet(0 .. m)
            /\ Cardinality(0 .. m) = IF 0 > m THEN 0 ELSE m - 0 + 1
        BY <4>1, FS_Interval
      <4> QED  BY <4>1, <4>2 DEF IdValues
    <3>10. Cardinality(S) <= IdMod
      BY <3>5, <3>9, FS_Subset
    <3>11. {entries[e].id : e \in DOMAIN entries} = S
      BY <3>1, <3>3
    <3>12. n = IdMod
      BY <3>1, <3>8, <3>10, RegistrationAssumption
    <3> QED  BY <3>8, <3>11, <3>12
  <2> QED  BY <2>1, <2>2, <2>3 DEF IdsLeadHome
<1> QED  BY <1>1, RegistrationInvariant, PTL

\* A late report of a failed send removes the subscriptions of the xApp that had the
\* address first, which is not one that is there now.
THEOREM ReportsSpareTheLiving == Spec => LivingKeepSubscriptions
<1>1. ASSUME RegInv, [Next]_vars, NEW s \in subs, phase[s.proc] = "connected"
      PROVE  s \in subs'
  <2>1. CASE ~HandleFailedSend
    BY <1>1, <2>1 DEF Next, vars, Start, Resend, SetupResponse, SendSubscription, Leave,
       Handle, HandleSetup, HandleSubscription, Indicate, Report
  <2>2. CASE HandleFailedSend
    <3>1. PICK p : p = s.proc
      OBVIOUS
    <3>2. p \in Procs /\ id[p] = s.id /\ phase[p] = "connected"
      BY <1>1, <3>1 DEF RegInv, Types, OwnIds
    <3>3. PICK a : a = Head(rx).addr
      OBVIOUS
    <3>4. rx # <<>> /\ Head(rx).kind = "failed"
      BY <2>2 DEF HandleFailedSend, Reads
    <3>5. a \in Addrs /\ Departed(a)
      <4>1. Head(rx) \in Unheard /\ Head(rx) \in Message
        BY <1>1, <3>4, QueueReads DEF RegInv, Types
      <4> QED  BY <1>1, <3>3, <3>4, <4>1 DEF RegInv, Reports, Reported, Message
    <3>6. PICK e \in 1 .. Len(entries) : IsFirst(entries[e].id, a)
      BY <1>1, <3>5, HasFirst DEF RegInv, Departed
    <3>7. FindId(a) = entries[e].id
      BY <1>1, <3>6, FindIdOfFirst DEF RegInv
    <3>8. s.id # FindId(a)
      <4>1. SUFFICES ASSUME s.id = entries[e].id PROVE FALSE
        BY <3>7
      <4>2. IsEntry(id[p], addr[p])
        <5>1. id[p] # NoId
          BY <1>1, <3>2 DEF RegInv, Phases
        <5> QED  BY <1>1, <3>2, <5>1 DEF RegInv, Ids
      <4>3. IsEntry(id[p], a)
        BY <3>2, <3>6, <4>1 DEF IsFirst, IsEntry
      <4>4. addr[p] = a
        BY <1>1, <4>2, <4>3 DEF IsEntry, RegInv, Ids
      <4> QED  BY <3>2, <3>5, <3>6, <4>1, <4>4 DEF Departed
    <3> QED  BY <1>1, <2>2, <3>3, <3>8 DEF HandleFailedSend
  <2> QED  BY <2>1, <2>2
<1>2. RegInv /\ [Next]_vars
        => [\A s \in subs : phase[s.proc] = "connected" => s \in subs']_vars
  BY <1>1
<1> QED  BY <1>2, RegistrationInvariant, PTL DEF Spec, LivingKeepSubscriptions
===============================================================================
