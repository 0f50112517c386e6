--------------------- MODULE BroadcastDestinationsProofs ---------------------
(***************************************************************************)
(* Theorems about BroadcastDestinations for every set of destinations,     *)
(* clients and command IDs, every sequence Alana starts from and every     *)
(* budget: it is well typed, Alana runs stored snapshots only, commands    *)
(* take effect in the order they were stored, and a recorded success is    *)
(* real.                                                                   *)
(***************************************************************************)
EXTENDS BroadcastDestinations, SequenceTheorems, TLAPS

Stored(c) == commands[c] # None

Named(version) == version \in 1..Len(selections)

\* A payload is the snapshot of its version, and a stored command names it.
Good(p) == /\ Named(p.version)
           /\ p.pins = selections[p.version]
           /\ \E c \in Commands : Stored(c) /\ commands[c].version = p.version

\* The inductive invariant, part by part.

\* A stored command that carries destinations names a snapshot.
CommandsNamed ==
    \A c \in Commands : Stored(c) /\ commands[c].request.action # "stop" =>
                            Named(commands[c].version)

\* An open request agrees with what it has resolved and stored so far.
Backed(r) ==
    /\ r.request.version \in 0..Len(selections)
    /\ r.request.action # "stop" /\ r.stage = "resolved" => Named(r.version)
    /\ r.stage \in {"calling", "answered"} =>
          /\ Stored(r.cmd)
          /\ commands[r.cmd].request = r.request
          /\ commands[r.cmd].seq = r.seq
          /\ commands[r.cmd].version = r.version
    /\ r.call = r.request.action \/ (r.call = "reload" /\ r.request.action = "start")

RequestsBacked ==
    \A client \in Clients : requests[client].stage # "closed" => Backed(requests[client])

\* A call carries its command's sequence and a good payload, unless it is a stop.
Carries(m) == /\ Stored(m.cmd)
              /\ commands[m.cmd].seq = m.seq
              /\ m.call # "stop" => m.payload # None
              /\ m.payload # None => Good(m.payload)

WireCarries == \A m \in wire : Carries(m)

AlanaGood == /\ alana.active # None => Good(alana.active)
             /\ alana.pending # None => Good(alana.pending)

\* A client waits for at most one call, which is its command's.
Waits(client, m) == /\ requests[client].stage = "calling"
                    /\ requests[client].cmd = m.cmd
                    /\ requests[client].call = m.call

Wired == /\ \A m \in wire : m.from # None => Waits(m.from, m)
         /\ \A m, n \in wire : m.from # None /\ m.from = n.from => m = n

\* The commands have the sequences that follow AlanaSequence, in the order stored.
Ordered ==
    /\ \A i \in 1..Len(order) : Stored(order[i]) /\ commands[order[i]].seq = AlanaSequence + i
    /\ \A c \in Commands : Stored(c) => \E i \in 1..Len(order) : order[i] = c

\* No sequence anyone has seen is past the last one stored.
Seen(seq) == AlanaSequence <= seq /\ seq <= AlanaSequence + Len(order)

Bounded ==
    /\ runtime <= AlanaSequence + Len(order) + 1
    /\ \A next \in reads : next <= AlanaSequence + Len(order) + 1
    /\ \A client \in Clients : requests[client].stage # "closed" => Seen(requests[client].last)
    /\ Seen(alana.last)

\* What Alana accepted are stored commands, none above its last sequence.
AcceptedStored ==
    \A a \in accepted : Stored(a.cmd) /\ a.seq = commands[a.cmd].seq /\ a.seq <= alana.last

\* A positive answer to a start says what Alana took.
Answers ==
    \A client \in Clients :
        LET r == requests[client]
        IN  r.stage = "answered" /\ r.call = "start" /\ r.ok =>
                \E a \in accepted : a.cmd = r.cmd /\ a.runs = r.ack

Carrying == CommandsNamed /\ RequestsBacked /\ WireCarries /\ AlanaGood /\ Wired
Sequenced == Ordered /\ Bounded /\ AcceptedStored
IInv == TypeOK /\ Carrying /\ Sequenced /\ Answers /\ SuccessIsReal

--------------------------------------------------------------------------------
\* What is stored stays stored

Grows ==
    /\ Len(selections) <= Len(selections')
    /\ \A v \in 1..Len(selections) : selections'[v] = selections[v]
    /\ \A c \in Commands : Stored(c) =>
          /\ Stored(c)'
          /\ commands'[c].request = commands[c].request
          /\ commands'[c].seq = commands[c].seq
          /\ commands'[c].version = commands[c].version

\* A good payload stays good.
LEMMA GoodStays ==
    ASSUME selections \in Seq(Selection), (selections \in Seq(Selection))', Grows,
           NEW p, Good(p)
    PROVE  Good(p)'
  BY LenProperties DEF Good, Named, Grows

\* What a request has resolved and stored stays so.
LEMMA BackedStays ==
    ASSUME selections \in Seq(Selection), (selections \in Seq(Selection))', Grows,
           NEW r \in Open, Backed(r)
    PROVE  Backed(r)'
  <1>0. Len(selections) \in Nat /\ Len(selections') \in Nat
    BY LenProperties
  <1> QED BY <1>0 DEF Backed, Named, Grows, Open, Request

\* A call keeps what it carries.
LEMMA CarriesStays ==
    ASSUME selections \in Seq(Selection), (selections \in Seq(Selection))', Grows,
           NEW m \in Call, Carries(m)
    PROVE  Carries(m)'
  BY GoodStays DEF Carries, Grows, Call

\* Nothing is stored or snapshotted.
LEMMA StoreRests ==
    ASSUME selections \in Seq(Selection), UNCHANGED <<selections, commands>>
    PROVE  Grows
  BY LenProperties DEF Grows, Stored

\* The snapshot of a named version is a payload.
LEMMA PayloadType ==
    ASSUME TypeOK, NEW v, Named(v)
    PROVE  SelectionPayload(v) \in Payload /\ SelectionPayload(v) # None
  <1>1. selections[v] \in Selection /\ v \in Nat
    BY ElementOfSeq, LenProperties DEF TypeOK, Named
  <1> QED BY <1>1, BroadcastAssumption DEF SelectionPayload, Payload

--------------------------------------------------------------------------------
\* Requests and calls

\* A request nobody closes is open.
LEMMA OpenType ==
    ASSUME TypeOK, NEW client \in Clients
    PROVE  /\ requests[client].stage # "closed" => requests[client] \in Open
           /\ requests[client].stage = "closed" => requests[client] = Closed
  BY DEF TypeOK, Open, Closed

\* The requests when only one client's changes.
LEMMA OneRequest ==
    ASSUME TypeOK, NEW client \in Clients, NEW r \in Open \cup {Closed},
           requests' = [requests EXCEPT ![client] = r]
    PROVE  /\ requests' \in [Clients -> Open \cup {Closed}]
           /\ requests'[client] = r
           /\ \A k \in Clients \ {client} : requests'[k] = requests[k]
  BY DEF TypeOK

\* A request that neither was nor becomes "calling" disturbs no waiting client.
LEMMA WiredStays ==
    ASSUME TypeOK, Wired, NEW client \in Clients, UNCHANGED wire,
           requests[client].stage # "calling",
           \A k \in Clients \ {client} : requests'[k] = requests[k]
    PROVE  Wired'
  <1>1. ASSUME NEW m \in wire, m.from # None PROVE Waits(m.from, m)'
    <2>1. m.from \in Clients /\ Waits(m.from, m)
      BY <1>1 DEF Wired, TypeOK, Call
    <2>2. requests'[m.from] = requests[m.from]
      BY <2>1 DEF Waits
    <2> QED BY <2>1, <2>2 DEF Waits
  <1> QED BY <1>1 DEF Wired

\* The client has its answer to the call.
HasAnswer(k, m, ok, ack) ==
    /\ requests[k].stage = "calling" /\ requests[k] \in Open
    /\ requests[k].cmd = m.cmd /\ requests[k].call = m.call
    /\ requests'[k] = [requests[k] EXCEPT !.stage = "answered", !.ok = ok, !.ack = ack]

\* An answer goes to the client that waits for the call, if one still does.
LEMMA ReplyKeeps ==
    ASSUME TypeOK, Wired, NEW m \in wire, NEW ok \in BOOLEAN,
           NEW ack \in Payload \cup {None}, Reply(m, ok, ack)
    PROVE  /\ requests' \in [Clients -> Open \cup {Closed}]
           /\ wire' \subseteq wire
           /\ Wired'
           /\ \A k \in Clients : requests'[k] = requests[k] \/ HasAnswer(k, m, ok, ack)
  <1>1. wire' \subseteq wire
    BY DEF Reply
  <1>2. CASE m.from = None
    <2>1. requests' = requests
      BY <1>2 DEF Reply
    <2> QED BY <1>1, <2>1 DEF Wired, Waits, TypeOK
  <1>3. CASE m.from # None
    <2> DEFINE k == m.from
               r == [requests[k] EXCEPT !.stage = "answered", !.ok = ok, !.ack = ack]
    <2>1. k \in Clients /\ Waits(k, m)
      BY <1>3 DEF Wired, TypeOK, Call
    <2>2. requests[k] \in Open
      BY <2>1, OpenType DEF Waits
    <2>3. r \in Open
      BY <2>2 DEF Open
    <2>4. requests' = [requests EXCEPT ![k] = r]
      BY <1>3 DEF Reply
    <2> HIDE DEF r
    <2>5. /\ requests' \in [Clients -> Open \cup {Closed}]
          /\ requests'[k] = r
          /\ \A j \in Clients \ {k} : requests'[j] = requests[j]
      BY <2>1, <2>3, <2>4, OneRequest
    <2>6. ASSUME NEW n \in wire', n.from # None PROVE Waits(n.from, n)'
      <3>1. n \in wire /\ n # m
        BY <2>6 DEF Reply
      <3>2. n.from # k /\ n.from \in Clients /\ Waits(n.from, n)
        BY <3>1, <2>6 DEF Wired, TypeOK, Call
      <3> QED BY <3>2, <2>5 DEF Waits
    <2>7. Wired'
      BY <1>1, <2>6 DEF Wired
    <2> QED BY <1>1, <2>1, <2>2, <2>5, <2>7 DEF Waits, r, HasAnswer
  <1> QED BY <1>2, <1>3

\* A prepared request sends its call.
LEMMA SendKeeps ==
    ASSUME IInv, Grows, UNCHANGED <<selections, accepted>>, NEW client \in Clients,
           requests[client].stage \notin {"closed", "calling"},
           NEW r \in Open, r.last = requests[client].last,
           commands'[r.cmd] # None, commands'[r.cmd].request = r.request,
           commands'[r.cmd].seq = r.seq, commands'[r.cmd].version = r.version,
           r.request.version \in 0..Len(selections),
           r.call = r.request.action \/ (r.call = "reload" /\ r.request.action = "start"),
           r.call # "stop" => Named(r.version),
           Send(client, r)
    PROVE  /\ requests' \in [Clients -> Open \cup {Closed}]
           /\ wire' \subseteq Call
           /\ RequestsBacked' /\ WireCarries' /\ Wired' /\ Answers'
           /\ requests'[client].last = requests[client].last
           /\ \A k \in Clients \ {client} : requests'[k] = requests[k]
  <1> USE DEF IInv, Carrying
  <1> DEFINE q == [r EXCEPT !.stage = "calling"]
  <1>0. selections \in Seq(Selection) /\ (selections \in Seq(Selection))'
    BY DEF TypeOK
  <1>1. q \in Open
    BY DEF Open
  <1>2. PICK p \in Payload \cup {None}, m \in Call :
           /\ p = IF r.call = "stop" THEN None ELSE SelectionPayload(r.version)
           /\ m = [from |-> client, call |-> r.call, cmd |-> r.cmd, seq |-> r.seq,
                   payload |-> p]
           /\ wire' = wire \cup {m}
           /\ requests' = [requests EXCEPT ![client] = q]
    <2>1. (IF r.call = "stop" THEN None ELSE SelectionPayload(r.version)) \in Payload \cup {None}
      BY PayloadType
    <2> QED BY <2>1 DEF Send, Call, Open
  <1>3. /\ requests' \in [Clients -> Open \cup {Closed}]
        /\ requests'[client] = q
        /\ \A k \in Clients \ {client} : requests'[k] = requests[k]
    BY <1>1, <1>2, OneRequest
  <1>5. Backed(q)'
    BY <1>1 DEF Backed, Stored, Named, Open
  <1>6. RequestsBacked'
    <2> SUFFICES ASSUME NEW k \in Clients, requests'[k].stage # "closed"
                 PROVE  Backed(requests[k])'
      BY DEF RequestsBacked
    <2>1. CASE k = client
      <3>1. requests'[k] = q
        BY <2>1, <1>3
      <3> QED BY <3>1, <1>5 DEF Backed, Stored, Named
    <2>2. CASE k # client
      <3>1. requests'[k] = requests[k] /\ Backed(requests[k]) /\ requests[k] \in Open
        BY <2>2, <1>3, OpenType DEF RequestsBacked
      <3>2. Backed(requests[k])'
        BY <3>1, <1>0, BackedStays
      <3> QED BY <3>1, <3>2 DEF Backed, Stored, Named
    <2> QED BY <2>1, <2>2
  <1>7. Carries(m)'
    <2>1. r.cmd \in Commands
      BY DEF Open
    <2>2. r.call # "stop" => p # None /\ Good(p)'
      BY <1>2, <2>1, PayloadType DEF Good, Named, Stored, SelectionPayload
    <2> QED BY <1>2, <2>2 DEF Carries, Stored
  <1>8. WireCarries'
    <2>1. \A n \in wire : Carries(n)'
      BY <1>0, CarriesStays DEF WireCarries, TypeOK
    <2> QED BY <1>2, <1>7, <2>1 DEF WireCarries
  <1>9. Wired'
    <2>1. \A n \in wire : n.from # client
      BY BroadcastAssumption DEF Wired, Waits
    <2>2. \A n \in wire : n.from # None => Waits(n.from, n)'
      BY <2>1, <1>3 DEF Wired, Waits, TypeOK, Call
    <2>3. Waits(client, m)'
      BY <1>2, <1>3 DEF Waits, Open
    <2> QED BY <1>2, <2>1, <2>2, <2>3 DEF Wired
  <1>10. Answers'
    BY <1>1, <1>3 DEF Answers, Open
  <1> QED BY <1>1, <1>2, <1>3, <1>6, <1>8, <1>9, <1>10 DEF TypeOK, Open

--------------------------------------------------------------------------------
\* Parts of the invariant that a step which stores no command keeps

\* Snapshots and commands are kept, whatever else happens to them.
LEMMA CarryingStays ==
    ASSUME IInv, Grows, (selections \in Seq(Selection))',
           \A c \in Commands : Stored(c)' => Stored(c)
    PROVE  /\ CommandsNamed'
           /\ UNCHANGED order => Ordered'
           /\ UNCHANGED wire => WireCarries'
           /\ UNCHANGED alana => AlanaGood'
           /\ UNCHANGED <<accepted, alana>> => AcceptedStored'
  <1> USE DEF IInv, Carrying, Sequenced
  <1>0. selections \in Seq(Selection) /\ Len(selections) \in Nat /\ Len(selections') \in Nat
    BY LenProperties DEF TypeOK
  <1>1. CommandsNamed'
    BY <1>0 DEF CommandsNamed, Grows, Named, Stored
  <1>2. UNCHANGED order => Ordered'
    <2>1. \A i \in 1..Len(order) : order[i] \in Commands
      BY ElementOfSeq DEF TypeOK
    <2> QED BY <2>1 DEF Ordered, Grows, Stored
  <1>3. UNCHANGED wire => WireCarries'
    BY <1>0, CarriesStays DEF WireCarries, TypeOK
  <1>4. UNCHANGED alana => AlanaGood'
    BY <1>0, GoodStays DEF AlanaGood
  <1>5. UNCHANGED <<accepted, alana>> => AcceptedStored'
    BY DEF AcceptedStored, Grows, TypeOK, Stored
  <1> QED BY <1>1, <1>2, <1>3, <1>4, <1>5

\* The successes there were are still real.
LEMMA SuccessStays ==
    ASSUME IInv, Grows, accepted \subseteq accepted',
           NEW c \in Commands, Stored(c), commands[c].status = "succeeded",
           commands[c].request.action = "start"
    PROVE  \E a \in accepted' :
              a.cmd = c /\ a.runs = [version |-> commands'[c].version,
                                     pins |-> selections'[commands'[c].version]]
  <1>1. PICK a \in accepted :
           a.cmd = c /\ a.runs = [version |-> commands[c].version,
                                  pins |-> selections[commands[c].version]]
    BY DEF IInv, SuccessIsReal, Stored
  <1>2. Named(commands[c].version)
    BY DEF IInv, Carrying, CommandsNamed
  <1>3. /\ commands'[c].version = commands[c].version
        /\ selections'[commands[c].version] = selections[commands[c].version]
    BY <1>2 DEF Grows, Named
  <1> QED BY <1>1, <1>3

\* A request that has not been sent yet moves on or is closed.
LEMMA RequestKeeps ==
    ASSUME IInv, NEW client \in Clients, NEW r \in Open \cup {Closed},
           requests' = [requests EXCEPT ![client] = r],
           requests[client].stage # "calling", r.stage \notin {"calling", "answered"},
           r.stage # "closed" => Backed(r)' /\ Seen(r.last),
           Grows, (selections \in Seq(Selection))', (left \in [Kinds -> Nat])',
           UNCHANGED <<catalog, commands, runtime, reads, wire, alana, accepted, order>>
    PROVE  IInv'
  <1> USE DEF IInv, Carrying, Sequenced
  <1>1. /\ requests' \in [Clients -> Open \cup {Closed}]
        /\ requests'[client] = r
        /\ \A k \in Clients \ {client} : requests'[k] = requests[k]
    BY OneRequest
  <1>2. TypeOK'
    BY <1>1 DEF TypeOK
  <1>3. CommandsNamed' /\ Ordered' /\ WireCarries' /\ AlanaGood' /\ AcceptedStored'
    BY CarryingStays DEF Stored
  <1>4. Wired'
    BY <1>1, WiredStays
  <1>5. RequestsBacked'
    <2> SUFFICES ASSUME NEW k \in Clients, requests'[k].stage # "closed"
                 PROVE  Backed(requests[k])'
      BY DEF RequestsBacked
    <2>1. CASE k = client
      BY <2>1, <1>1 DEF Backed, Stored, Named
    <2>2. CASE k # client
      <3>1. requests'[k] = requests[k] /\ Backed(requests[k]) /\ requests[k] \in Open
        BY <2>2, <1>1, OpenType DEF RequestsBacked
      <3>2. ASSUME NEW q \in Open, Backed(q) PROVE Backed(q)'
        BY <3>2, BackedStays DEF TypeOK
      <3> QED BY <3>1, <3>2 DEF Backed, Stored, Named
    <2> QED BY <2>1, <2>2
  <1>6. Bounded'
    BY <1>1 DEF Bounded, Seen
  <1>7. Answers'
    BY <1>1 DEF Answers
  <1>8. SuccessIsReal'
    BY SuccessStays DEF SuccessIsReal, Stored
  <1> QED BY <1>2, <1>3, <1>4, <1>5, <1>6, <1>7, <1>8

--------------------------------------------------------------------------------
\* The catalog and the program state

LEMMA SpendType ==
    ASSUME TypeOK, NEW kind \in Kinds, Spend(kind)
    PROVE  (left \in [Kinds -> Nat])'
  BY DEF TypeOK, Spend

\* Steps that leave requests, calls, Alana and the stored commands alone.
LEMMA BystanderKeeps ==
    ASSUME IInv, TypeOK', Bounded',
           UNCHANGED <<selections, commands, requests, wire, alana, accepted, order>>
    PROVE  IInv'
  <1> USE DEF IInv, Carrying, Sequenced
  <1>1. Grows
    BY StoreRests DEF TypeOK
  <1>2. CommandsNamed' /\ Ordered' /\ WireCarries' /\ AlanaGood' /\ AcceptedStored'
    BY <1>1, CarryingStays DEF TypeOK, Stored
  <1>3. RequestsBacked'
    BY DEF RequestsBacked, Backed, Stored, Named
  <1>4. Wired' /\ Answers' /\ SuccessIsReal'
    BY DEF Wired, Waits, Answers, SuccessIsReal
  <1> QED BY <1>2, <1>3, <1>4

LEMMA EditDestinationKeeps ==
    ASSUME IInv, NEW d \in Destinations, NEW pin \in Pins, EditDestination(d, pin)
    PROVE  IInv'
  <1>1. TypeOK'
    BY SpendType DEF IInv, TypeOK, EditDestination, Kinds
  <1>2. Bounded'
    BY DEF IInv, Sequenced, Bounded, Seen, EditDestination
  <1> QED BY <1>1, <1>2, BystanderKeeps DEF EditDestination

LEMMA SetRetiredKeeps ==
    ASSUME IInv, NEW d \in Destinations, NEW retired \in BOOLEAN, SetRetired(d, retired)
    PROVE  IInv'
  <1>1. TypeOK'
    BY SpendType DEF IInv, TypeOK, SetRetired, Kinds
  <1>2. Bounded'
    BY DEF IInv, Sequenced, Bounded, Seen, SetRetired
  <1> QED BY <1>1, <1>2, BystanderKeeps DEF SetRetired

\* A sequence above everything seen is at most one past the last stored.
LEMMA NextSequenceBound ==
    ASSUME IInv, NEW last \in Nat, Seen(last)
    PROVE  /\ NextSequence(last) \in Nat
           /\ AlanaSequence < NextSequence(last)
           /\ NextSequence(last) <= AlanaSequence + Len(order) + 1
  <1>1. runtime \in Nat /\ Len(order) \in Nat /\ AlanaSequence \in Nat
    BY LenProperties, BroadcastAssumption DEF IInv, TypeOK
  <1> QED BY <1>1 DEF IInv, Sequenced, Bounded, Seen, NextSequence, Larger

LEMMA StateReadsKeeps ==
    ASSUME IInv, StateReads
    PROVE  IInv'
  <1>1. alana.last \in Nat /\ Seen(alana.last)
    BY DEF IInv, TypeOK, Sequenced, Bounded
  <1>2. /\ NextSequence(alana.last) \in Nat
        /\ NextSequence(alana.last) <= AlanaSequence + Len(order) + 1
    BY <1>1, NextSequenceBound
  <1>3. TypeOK'
    BY <1>2, SpendType DEF IInv, TypeOK, StateReads, store, Kinds
  <1>4. Bounded'
    BY <1>2 DEF IInv, Sequenced, Bounded, Seen, StateReads, store
  <1> QED BY <1>3, <1>4, BystanderKeeps DEF StateReads, store

LEMMA StateWritesKeeps ==
    ASSUME IInv, NEW next \in reads, StateWrites(next)
    PROVE  IInv'
  <1>1. TypeOK'
    BY DEF IInv, TypeOK, StateWrites
  <1>2. Bounded'
    BY DEF IInv, Sequenced, Bounded, Seen, StateWrites
  <1> QED BY <1>1, <1>2, BystanderKeeps DEF StateWrites

--------------------------------------------------------------------------------
\* Alana

\* What an answered call leaves to show: the rest is Alana's own state.
LEMMA AnsweredKeeps ==
    ASSUME IInv, NEW m \in wire, NEW ok \in BOOLEAN, NEW ack \in Payload \cup {None},
           Reply(m, ok, ack), UNCHANGED <<store, reads>>,
           accepted \subseteq accepted',
           m.call = "start" /\ ok => \E a \in accepted' : a.cmd = m.cmd /\ a.runs = ack
    PROVE  /\ requests' \in [Clients -> Open \cup {Closed}]
           /\ wire' \subseteq Call
           /\ Grows /\ CommandsNamed' /\ RequestsBacked' /\ WireCarries' /\ Wired' /\ Ordered'
           /\ \A k \in Clients : requests'[k].stage # "closed" =>
                 requests[k].stage # "closed" /\ requests'[k].last = requests[k].last
           /\ Answers' /\ SuccessIsReal'
  <1>0. TypeOK /\ Wired
    BY DEF IInv, Carrying
  <1>1. /\ requests' \in [Clients -> Open \cup {Closed}]
        /\ wire' \subseteq wire
        /\ Wired'
        /\ \A k \in Clients : requests'[k] = requests[k] \/ HasAnswer(k, m, ok, ack)
    BY <1>0, ReplyKeeps
  <1> USE DEF IInv, Carrying, Sequenced
  <1>2. Grows
    BY StoreRests DEF store, TypeOK
  <1>3. CommandsNamed' /\ Ordered'
    BY <1>2, CarryingStays DEF store, TypeOK, Stored
  <1>4. WireCarries'
    BY <1>1, <1>2, CarriesStays DEF WireCarries, TypeOK, store
  <1>5. RequestsBacked'
    <2> SUFFICES ASSUME NEW k \in Clients, requests'[k].stage # "closed"
                 PROVE  Backed(requests[k])'
      BY DEF RequestsBacked
    <2>1. requests[k].stage # "closed" /\ Backed(requests[k])
      BY <1>1 DEF RequestsBacked, HasAnswer
    <2>2. requests[k] \in Open
      BY <2>1, OpenType
    <2>3. CASE requests'[k] = requests[k]
      BY <2>1, <2>3 DEF Backed, Stored, Named, store
    <2>4. CASE HasAnswer(k, m, ok, ack)
      BY <2>1, <2>2, <2>4 DEF Backed, Stored, Named, store, Open, HasAnswer
    <2> QED BY <1>1, <2>3, <2>4
  <1>6. \A k \in Clients : requests'[k].stage # "closed" =>
           requests[k].stage # "closed" /\ requests'[k].last = requests[k].last
    BY <1>1 DEF Open, HasAnswer
  <1>7. Answers'
    <2> SUFFICES ASSUME NEW k \in Clients, requests'[k].stage = "answered",
                        requests'[k].call = "start", requests'[k].ok
                 PROVE  \E a \in accepted' : a.cmd = requests'[k].cmd /\ a.runs = requests'[k].ack
      BY DEF Answers
    <2>1. CASE requests'[k] = requests[k]
      BY <2>1 DEF Answers
    <2>2. CASE HasAnswer(k, m, ok, ack)
      BY <2>2 DEF Open, HasAnswer
    <2> QED BY <1>1, <2>1, <2>2
  <1>8. SuccessIsReal'
    BY <1>2, SuccessStays DEF SuccessIsReal, store, Stored
  <1> QED BY <1>1, <1>2, <1>3, <1>4, <1>5, <1>6, <1>7, <1>8 DEF TypeOK

\* What Alana shows after a call it took or refused.
AlanaKeeps ==
    /\ (alana \in [on : BOOLEAN, active : Payload \cup {None},
                   pending : Payload \cup {None}, last : Nat])'
    /\ (accepted \subseteq [cmd : Commands, call : Actions, seq : Nat,
                            runs : Payload \cup {None}])'
    /\ (left \in [Kinds -> Nat])'
    /\ AlanaGood' /\ AcceptedStored' /\ Seen(alana.last)'

\* An answered call keeps the invariant when Alana's state does.
LEMMA AlanaStep ==
    ASSUME IInv, NEW m \in wire, NEW ok \in BOOLEAN, NEW ack \in Payload \cup {None},
           Reply(m, ok, ack), UNCHANGED <<store, reads>>, AlanaKeeps,
           accepted \subseteq accepted',
           m.call = "start" /\ ok => \E a \in accepted' : a.cmd = m.cmd /\ a.runs = ack
    PROVE  IInv'
  <1>1. /\ requests' \in [Clients -> Open \cup {Closed}]
        /\ wire' \subseteq Call
        /\ Grows /\ CommandsNamed' /\ RequestsBacked' /\ WireCarries' /\ Wired' /\ Ordered'
        /\ \A k \in Clients : requests'[k].stage # "closed" =>
              requests[k].stage # "closed" /\ requests'[k].last = requests[k].last
        /\ Answers' /\ SuccessIsReal'
    BY AnsweredKeeps
  <1> USE DEF IInv, Carrying, Sequenced
  <1>2. TypeOK'
    BY <1>1 DEF TypeOK, AlanaKeeps, store
  <1>3. Bounded'
    BY <1>1 DEF Bounded, Seen, AlanaKeeps, store
  <1> QED BY <1>1, <1>2, <1>3 DEF AlanaKeeps

\* A refused call changes nothing of Alana.
LEMMA Refused ==
    ASSUME IInv, UNCHANGED <<store, alana, accepted, left>>
    PROVE  AlanaKeeps
  <1>1. Grows
    BY StoreRests DEF store, IInv, TypeOK
  <1>2. AlanaGood' /\ AcceptedStored'
    BY <1>1, CarryingStays DEF store, IInv, TypeOK, Stored
  <1> QED BY <1>2 DEF AlanaKeeps, IInv, TypeOK, Sequenced, Bounded, Seen, store

\* What the fields of a call on the wire are, and what it is the call of.
LEMMA CallFields ==
    ASSUME IInv, NEW m \in wire
    PROVE  /\ m.cmd \in Commands /\ m.seq \in Nat
           /\ m.payload \in Payload \cup {None}
           /\ m.call # "stop" => m.payload \in Payload /\ Good(m.payload)
           /\ Stored(m.cmd) /\ m.seq = commands[m.cmd].seq /\ Seen(m.seq)
           /\ Len(order) \in Nat /\ AlanaSequence \in Nat
  <1>1. m \in Call /\ Carries(m)
    BY DEF IInv, TypeOK, Carrying, WireCarries
  <1>2. m.cmd \in Commands /\ m.seq \in Nat /\ m.payload \in Payload \cup {None}
    BY <1>1 DEF Call
  <1>3. PICK i \in 1..Len(order) : order[i] = m.cmd
    BY <1>1, <1>2 DEF Carries, IInv, Sequenced, Ordered
  <1>4. Len(order) \in Nat /\ AlanaSequence \in Nat
    BY LenProperties, BroadcastAssumption DEF IInv, TypeOK
  <1>5. commands[m.cmd].seq = AlanaSequence + i
    BY <1>3 DEF IInv, Sequenced, Ordered
  <1>6. Seen(m.seq)
    BY <1>1, <1>4, <1>5 DEF Carries, Seen
  <1> QED BY <1>1, <1>2, <1>4, <1>6 DEF Carries

LEMMA TakesReloadKeeps ==
    ASSUME IInv, NEW m \in wire, TakesReload(m), UNCHANGED <<store, reads>>
    PROVE  IInv'
  <1>1. CASE alana.on
    <2>1. Reply(m, FALSE, None) /\ UNCHANGED <<alana, accepted, left>>
      BY <1>1 DEF TakesReload
    <2>2. AlanaKeeps
      BY <2>1, Refused
    <2> QED BY <2>1, <2>2, AlanaStep
  <1>2. CASE ~alana.on
    <2>1. /\ Reply(m, TRUE, m.payload) /\ UNCHANGED <<accepted, left>>
          /\ alana' = [alana EXCEPT !.pending = m.payload]
          /\ m.call = "reload"
      BY <1>2 DEF TakesReload
    <2>2. m.payload \in Payload /\ Good(m.payload)
      BY <2>1, CallFields
    <2>3. AlanaGood'
      BY <2>1, <2>2 DEF IInv, TypeOK, Carrying, AlanaGood, Good, Named, Stored, store
    <2>4. AlanaKeeps
      BY <2>1, <2>2, <2>3
      DEF AlanaKeeps, IInv, TypeOK, Sequenced, Bounded, AcceptedStored, Seen, Stored, store
    <2> QED BY <2>1, <2>2, <2>4, AlanaStep
  <1> QED BY <1>1, <1>2

\* Alana accepts a command newer than any before.
LEMMA AcceptKeeps ==
    ASSUME IInv, NEW m \in wire, m.seq > alana.last, UNCHANGED <<store, reads>>,
           NEW call \in Actions, NEW runs \in Payload \cup {None},
           accepted' = accepted \cup {[cmd |-> m.cmd, call |-> call, seq |-> m.seq,
                                       runs |-> runs]},
           alana'.last = m.seq
    PROVE  /\ AcceptedStored' /\ Seen(alana.last)'
           /\ (accepted \subseteq [cmd : Commands, call : Actions, seq : Nat,
                                   runs : Payload \cup {None}])'
  <1>1. /\ m.cmd \in Commands /\ m.seq \in Nat
        /\ Stored(m.cmd) /\ m.seq = commands[m.cmd].seq /\ Seen(m.seq)
    BY CallFields
  <1>2. AcceptedStored'
    <2>1. alana.last \in Nat /\ \A a \in accepted : a.seq \in Nat
      BY DEF IInv, TypeOK
    <2>2. \A a \in accepted : Stored(a.cmd) /\ a.seq = commands[a.cmd].seq /\ a.seq <= alana.last
      BY DEF IInv, Sequenced, AcceptedStored
    <2> QED BY <1>1, <2>1, <2>2 DEF AcceptedStored, Stored, store
  <1> QED BY <1>1, <1>2 DEF IInv, TypeOK, Seen, store

LEMMA TakesStartKeeps ==
    ASSUME IInv, NEW m \in wire, TakesStart(m), UNCHANGED <<store, reads>>
    PROVE  IInv'
  <1>1. CASE ~Newer(m.seq) \/ (alana.pending # None /\ alana.pending # m.payload)
    <2>1. Reply(m, FALSE, None) /\ UNCHANGED <<alana, accepted, left>>
      BY <1>1 DEF TakesStart
    <2>2. AlanaKeeps
      BY <2>1, Refused
    <2> QED BY <2>1, <2>2, AlanaStep
  <1>2. CASE ~(~Newer(m.seq) \/ (alana.pending # None /\ alana.pending # m.payload))
    <2>1. PICK partial \in BOOLEAN :
             /\ IF partial THEN Spend("fault") ELSE UNCHANGED left
             /\ alana' = [on |-> TRUE, active |-> IF partial THEN None ELSE m.payload,
                          pending |-> None, last |-> m.seq]
             /\ accepted' = accepted \cup {[cmd |-> m.cmd, call |-> "start", seq |-> m.seq,
                                            runs |-> IF partial THEN None ELSE m.payload]}
             /\ Reply(m, TRUE, IF partial THEN None ELSE m.payload)
      BY <1>2 DEF TakesStart
    <2> DEFINE runs == IF partial THEN None ELSE m.payload
    <2>2. /\ m.payload \in Payload /\ Good(m.payload) /\ m.seq \in Nat
          /\ m.seq > alana.last /\ m.call = "start"
      BY <1>2, CallFields DEF TakesStart, Newer
    <2>3. runs \in Payload \cup {None}
      BY <2>2
    <2>4. AlanaGood'
      BY <2>1, <2>2 DEF AlanaGood, Good, Named, Stored, store
    <2>5. /\ AcceptedStored' /\ Seen(alana.last)'
          /\ (accepted \subseteq [cmd : Commands, call : Actions, seq : Nat,
                                  runs : Payload \cup {None}])'
      BY <2>1, <2>2, <2>3, AcceptKeeps DEF Actions
    <2>6. (left \in [Kinds -> Nat])'
      BY <2>1, SpendType DEF IInv, TypeOK, Kinds
    <2>7. AlanaKeeps
      BY <2>1, <2>2, <2>4, <2>5, <2>6 DEF AlanaKeeps
    <2>8. \E a \in accepted' : a.cmd = m.cmd /\ a.runs = runs
      <3> DEFINE a == [cmd |-> m.cmd, call |-> "start", seq |-> m.seq, runs |-> runs]
      <3>1. a \in accepted'
        BY <2>1
      <3>2. a.cmd = m.cmd /\ a.runs = runs
        OBVIOUS
      <3> QED BY <3>1, <3>2
    <2>9. Reply(m, TRUE, runs) /\ accepted \subseteq accepted'
      BY <2>1
    <2> HIDE DEF runs
    <2> QED BY <2>3, <2>7, <2>8, <2>9, AlanaStep
  <1> QED BY <1>1, <1>2

LEMMA TakesStopKeeps ==
    ASSUME IInv, NEW m \in wire, TakesStop(m), UNCHANGED <<store, reads>>
    PROVE  IInv'
  <1>1. CASE ~Newer(m.seq)
    <2>1. Reply(m, FALSE, None) /\ UNCHANGED <<alana, accepted, left>>
      BY <1>1 DEF TakesStop
    <2>2. AlanaKeeps
      BY <2>1, Refused
    <2> QED BY <2>1, <2>2, AlanaStep
  <1>2. CASE Newer(m.seq)
    <2>1. /\ alana' = [on |-> FALSE, active |-> None, pending |-> alana.active, last |-> m.seq]
          /\ accepted' = accepted \cup {[cmd |-> m.cmd, call |-> "stop", seq |-> m.seq,
                                         runs |-> None]}
          /\ Reply(m, TRUE, None) /\ UNCHANGED left /\ m.call = "stop"
          /\ m.seq > alana.last
      BY <1>2 DEF TakesStop, Newer
    <2>2. m.seq \in Nat
      BY CallFields
    <2>3. AlanaGood'
      BY <2>1 DEF IInv, Carrying, AlanaGood, Good, Named, Stored, store
    <2>4. /\ AcceptedStored' /\ Seen(alana.last)'
          /\ (accepted \subseteq [cmd : Commands, call : Actions, seq : Nat,
                                  runs : Payload \cup {None}])'
      BY <2>1, AcceptKeeps DEF Actions
    <2>5. AlanaKeeps
      BY <2>1, <2>2, <2>3, <2>4 DEF AlanaKeeps, IInv, TypeOK
    <2> QED BY <2>1, <2>5, AlanaStep
  <1> QED BY <1>1, <1>2

LEMMA AlanaTakesKeeps ==
    ASSUME IInv, NEW m \in wire, AlanaTakes(m)
    PROVE  IInv'
  BY TakesReloadKeeps, TakesStartKeeps, TakesStopKeeps DEF AlanaTakes

--------------------------------------------------------------------------------
\* A command request

LEMMA BeginKeeps ==
    ASSUME IInv, NEW client \in Clients, NEW cmd \in Commands, NEW action \in Actions,
           NEW ids \in SUBSET Destinations, NEW version \in 0..Len(selections),
           Begin(client, cmd, [action |-> action, ids |-> ids, version |-> version])
    PROVE  IInv'
  <1> DEFINE request == [action |-> action, ids |-> ids, version |-> version]
  <1>1. Len(selections) \in Nat
    BY LenProperties DEF IInv, TypeOK
  <1>2. request \in Request
    BY <1>1 DEF Request
  <1>3. PICK r \in Open :
           r = [stage |-> "asked", cmd |-> cmd, request |-> request,
                call |-> action, stopped |-> ~alana.on, last |-> alana.last,
                seq |-> 0, version |-> 0, ok |-> FALSE, ack |-> None]
    <2> DEFINE q == [stage |-> "asked", cmd |-> cmd, request |-> request,
                     call |-> action, stopped |-> ~alana.on, last |-> alana.last,
                     seq |-> 0, version |-> 0, ok |-> FALSE, ack |-> None]
    <2>1. q \in Open
      BY <1>2 DEF Open, IInv, TypeOK, Actions
    <2> HIDE DEF q
    <2>2. \E r \in Open : r = q
      BY <2>1
    <2> QED BY <2>2 DEF q
  <1>4. requests' = [requests EXCEPT ![client] = r] /\ requests[client] = Closed
    BY <1>3 DEF Begin
  <1>5. Grows /\ UNCHANGED <<store, reads, wire, alana, accepted>>
    BY StoreRests DEF Begin, store, IInv, TypeOK
  <1>6. Backed(r)'
    BY <1>3, <1>5 DEF Backed, store
  <1>7. Seen(r.last)
    BY <1>3 DEF IInv, Sequenced, Bounded
  <1>8. (left \in [Kinds -> Nat])'
    BY SpendType DEF Begin, Kinds, IInv
  <1>9. r.stage = "asked" /\ requests[client].stage = "closed"
    BY <1>3, <1>4 DEF Closed
  <1>10. /\ (selections \in Seq(Selection))'
         /\ UNCHANGED <<catalog, commands, runtime, reads, wire, alana, accepted, order>>
    BY <1>5 DEF store, IInv, TypeOK
  <1> QED BY <1>3, <1>4, <1>5, <1>6, <1>7, <1>8, <1>9, <1>10, RequestKeeps

\* A request is closed without having been sent.
LEMMA CloseKeeps ==
    ASSUME IInv, NEW client \in Clients, Close(client), requests[client].stage # "calling",
           UNCHANGED <<store, reads, wire, alana, accepted, left>>
    PROVE  IInv'
  <1>1. Grows
    BY StoreRests DEF store, IInv, TypeOK
  <1>2. Closed.stage = "closed"
    BY DEF Closed
  <1> QED BY <1>1, <1>2, RequestKeeps DEF Close, store, IInv, TypeOK

\* A prepared command is sent: what remains to show is its place in the order.
LEMMA SendFirstKeeps ==
    ASSUME IInv, NEW client \in Clients, NEW seq \in Nat, NEW version \in Nat,
           requests[client].stage \in {"asked", "resolved"},
           SendFirst(client, seq, version), Grows,
           commands'[requests[client].cmd] # None,
           commands'[requests[client].cmd].request = requests[client].request,
           commands'[requests[client].cmd].seq = seq,
           commands'[requests[client].cmd].version = version,
           requests[client].request.action # "stop" => Named(version),
           UNCHANGED <<selections, accepted>>
    PROVE  /\ requests' \in [Clients -> Open \cup {Closed}]
           /\ wire' \subseteq Call
           /\ RequestsBacked' /\ WireCarries' /\ Wired' /\ Answers'
           /\ requests'[client].last = requests[client].last
           /\ \A k \in Clients \ {client} : requests'[k] = requests[k]
  <1> DEFINE r == requests[client]
             q == [r EXCEPT !.seq = seq, !.version = version,
                            !.call = IF @ = "start" /\ r.stopped THEN "reload" ELSE @]
  <1>1. r \in Open
    BY OpenType DEF IInv
  <1>2. q \in Open
    BY <1>1 DEF Open, Actions
  <1>3. /\ q.last = r.last /\ q.cmd = r.cmd /\ q.request = r.request
        /\ q.seq = seq /\ q.version = version
        /\ q.call = r.call \/ (q.call = "reload" /\ r.call = "start")
    BY <1>1 DEF Open
  <1>4. Send(client, q)
    BY DEF SendFirst
  <1>5. /\ r.request.version \in 0..Len(selections)
        /\ r.call = r.request.action \/ (r.call = "reload" /\ r.request.action = "start")
    BY DEF IInv, Carrying, RequestsBacked, Backed
  <1> HIDE DEF q
  <1> QED BY <1>2, <1>3, <1>4, <1>5, SendKeeps

LEMMA LookUpKeeps ==
    ASSUME IInv, NEW client \in Clients, LookUp(client)
    PROVE  IInv'
  <1> DEFINE r == requests[client]
             prior == commands[r.cmd]
  <1>0. /\ r.stage = "asked" /\ r \in Open
        /\ UNCHANGED <<store, reads, alana, accepted, left>>
        /\ Grows
    BY OpenType, StoreRests DEF LookUp, store, IInv, TypeOK
  <1>1. CASE prior = None
    <2>0. PICK q \in Open : q = [r EXCEPT !.stage = "new"]
      BY <1>0 DEF Open
    <2>1. requests' = [requests EXCEPT ![client] = q] /\ UNCHANGED wire
      BY <1>1, <2>0 DEF LookUp
    <2>2. q.stage = "new" /\ q.last = r.last
      BY <1>0, <2>0 DEF Open
    <2>3. Backed(r)
      BY <1>0 DEF IInv, Carrying, RequestsBacked
    <2>4. q.request = r.request /\ q.call = r.call
      BY <1>0, <2>0 DEF Open
    <2>5. Seen(q.last)
      BY <1>0, <2>2 DEF IInv, Sequenced, Bounded
    <2>6. Backed(q)'
      BY <1>0, <2>2, <2>3, <2>4 DEF Backed, Named, store
    <2>7. /\ (selections \in Seq(Selection))' /\ (left \in [Kinds -> Nat])'
          /\ UNCHANGED <<catalog, commands, runtime, reads, wire, alana, accepted, order>>
      BY <1>0, <2>1 DEF store, IInv, TypeOK
    <2>8. r.stage # "calling" /\ q.stage \notin {"calling", "answered"}
      BY <1>0, <2>2
    <2> QED BY <1>0, <2>1, <2>2, <2>5, <2>6, <2>7, <2>8, RequestKeeps
  <1>2. CASE prior # None /\ (prior.request # r.request \/ prior.status = "succeeded")
    BY <1>0, <1>2, CloseKeeps DEF LookUp
  <1>3. CASE prior # None /\ prior.request = r.request /\ prior.status # "succeeded"
    <2>1. SendFirst(client, prior.seq, prior.version)
      BY <1>3 DEF LookUp
    <2>2. prior \in Command /\ r.cmd \in Commands
      BY <1>0, <1>3 DEF IInv, TypeOK, Open
    <2>3. prior.seq \in Nat /\ prior.version \in Nat
      BY <2>2 DEF Command
    <2>4. r.request.action # "stop" => Named(prior.version)
      BY <1>3, <2>2 DEF IInv, Carrying, CommandsNamed, Stored
    <2>5. /\ commands'[r.cmd] = prior /\ UNCHANGED <<selections, accepted>>
      BY <1>0 DEF store
    <2>6. /\ requests' \in [Clients -> Open \cup {Closed}]
          /\ wire' \subseteq Call
          /\ RequestsBacked' /\ WireCarries' /\ Wired' /\ Answers'
          /\ requests'[client].last = r.last
          /\ \A k \in Clients \ {client} : requests'[k] = requests[k]
      BY <1>0, <1>3, <2>1, <2>3, <2>4, <2>5, SendFirstKeeps
    <2>7. TypeOK'
      BY <1>0, <2>6 DEF IInv, TypeOK, store
    <2>8. CommandsNamed' /\ Ordered' /\ AlanaGood' /\ AcceptedStored'
      BY <1>0, CarryingStays DEF IInv, TypeOK, store, Stored
    <2>9. Bounded'
      BY <1>0, <2>6 DEF IInv, Sequenced, Bounded, Seen, store
    <2>10. SuccessIsReal'
      BY <1>0, SuccessStays DEF SuccessIsReal, store, Stored
    <2> QED BY <2>6, <2>7, <2>8, <2>9, <2>10 DEF IInv, Carrying, Sequenced
  <1> QED BY <1>1, <1>2, <1>3

\* A new snapshot leaves the others where they are.
LEMMA SnapshotGrows ==
    ASSUME IInv, NEW snapshot \in Selection, UNCHANGED commands,
           selections' = Append(selections, snapshot)
    PROVE  /\ Grows /\ (selections \in Seq(Selection))'
           /\ Len(selections') = Len(selections) + 1
  <1>1. selections \in Seq(Selection) /\ Len(selections) \in Nat
    BY LenProperties DEF IInv, TypeOK
  <1>2. /\ selections' \in Seq(Selection)
        /\ Len(selections') = Len(selections) + 1
        /\ \A v \in 1..Len(selections) : selections'[v] = selections[v]
    BY <1>1, AppendProperties
  <1> QED BY <1>1, <1>2 DEF Grows, Stored

\* A request whose selection is resolved names one that exists.
LEMMA ResolvedKeeps ==
    ASSUME IInv, NEW client \in Clients, requests[client].stage = "new", NEW v \in Nat,
           requests' = [requests EXCEPT ![client] =
                           [requests[client] EXCEPT !.stage = "resolved", !.version = v]],
           Grows, (selections \in Seq(Selection))',
           requests[client].request.action # "stop" => Named(v)',
           UNCHANGED <<catalog, commands, runtime, order, reads, wire, alana, accepted, left>>
    PROVE  IInv'
  <1> DEFINE r == requests[client]
  <1>1. r \in Open /\ Backed(r) /\ Seen(r.last)
    BY OpenType DEF IInv, Carrying, RequestsBacked, Sequenced, Bounded
  <1>2. PICK q \in Open : q = [r EXCEPT !.stage = "resolved", !.version = v]
    BY <1>1 DEF Open
  <1>3. /\ q.stage = "resolved" /\ q.last = r.last /\ q.version = v
        /\ q.request = r.request /\ q.call = r.call
    BY <1>1, <1>2 DEF Open
  <1>4. Backed(q)'
    <2>1. ASSUME NEW s \in Open, Backed(s) PROVE Backed(s)'
      BY <2>1, BackedStays DEF IInv, TypeOK
    <2>2. PICK s \in Open : s = r
      BY <1>1
    <2>3. Backed(s)'
      BY <1>1, <2>1, <2>2
    <2> QED BY <1>3, <2>2, <2>3 DEF Backed, Named
  <1>5. requests' = [requests EXCEPT ![client] = q]
    BY <1>2
  <1>6. (left \in [Kinds -> Nat])' /\ r.stage # "calling"
    BY DEF IInv, TypeOK
  <1> QED BY <1>1, <1>3, <1>4, <1>5, <1>6, RequestKeeps

LEMMA ResolveKeeps ==
    ASSUME IInv, NEW client \in Clients, Resolve(client)
    PROVE  IInv'
  <1> DEFINE r == requests[client]
             ids == r.request.ids
             version == r.request.version
             resolved(v) == requests' = [requests EXCEPT ![client] =
                                            [r EXCEPT !.stage = "resolved", !.version = v]]
  <1>0. /\ r.stage = "new" /\ r \in Open /\ Backed(r)
        /\ UNCHANGED <<catalog, commands, runtime, order, reads, wire, alana, accepted, left>>
        /\ Len(selections) \in Nat
    BY OpenType, LenProperties DEF Resolve, IInv, TypeOK, Carrying, RequestsBacked
  <1>1. UNCHANGED selections => Grows /\ (selections \in Seq(Selection))'
    BY <1>0, StoreRests DEF IInv, TypeOK
  <1>2. CASE /\ r.request.action = "stop"
             /\ resolved(0) /\ UNCHANGED selections
    BY <1>0, <1>1, <1>2, ResolvedKeeps
  <1>3. CASE /\ r.request.action # "stop" /\ version # 0
             /\ resolved(version) /\ UNCHANGED selections
    <2>1. PICK v \in Nat : v = version
      BY <1>0 DEF Backed
    <2>2. Named(v)' /\ resolved(v)
      BY <1>0, <1>3, <2>1 DEF Backed, Named
    <2> QED BY <1>0, <1>1, <1>3, <2>2, ResolvedKeeps
  <1>4. CASE /\ r.request.action # "stop" /\ version = 0 /\ Selectable(ids)
             /\ selections' = Append(selections, [d \in ids |-> catalog[d].pin])
             /\ resolved(Len(selections'))
    <2>1. [d \in ids |-> catalog[d].pin] \in Selection
      <3>1. ids \in (SUBSET Destinations) \ {{}}
        BY <1>0, <1>4 DEF Selectable, Open, Request
      <3>2. [d \in ids |-> catalog[d].pin] \in [ids -> Pins]
        BY <3>1 DEF IInv, TypeOK
      <3> QED BY <3>1, <3>2 DEF Selection
    <2>2. /\ Grows /\ (selections \in Seq(Selection))'
          /\ Len(selections') = Len(selections) + 1
      BY <1>0, <1>4, <2>1, SnapshotGrows
    <2>3. PICK v \in Nat : v = Len(selections')
      BY <1>0, <2>2
    <2>4. Named(v)' /\ resolved(v)
      BY <1>0, <1>4, <2>2, <2>3 DEF Named
    <2> QED BY <1>0, <2>2, <2>4, ResolvedKeeps
  <1>5. CASE Close(client) /\ UNCHANGED selections
    BY <1>0, <1>5, CloseKeeps DEF store
  <1> QED BY <1>2, <1>3, <1>4, <1>5 DEF Resolve

\* A storable sequence is the one after the last stored.
LEMMA SequencesAreContiguous ==
    ASSUME IInv, NEW cmd \in Commands, NEW last \in Nat, Seen(last),
           Storable(cmd, NextSequence(last))
    PROVE  NextSequence(last) = AlanaSequence + Len(order) + 1
  <1> DEFINE seq == NextSequence(last)
  <1>1. /\ seq \in Nat /\ AlanaSequence < seq /\ seq <= AlanaSequence + Len(order) + 1
        /\ Len(order) \in Nat /\ AlanaSequence \in Nat
    BY NextSequenceBound, LenProperties, BroadcastAssumption DEF IInv, TypeOK
  <1>2. ASSUME NEW i \in 1..Len(order) PROVE seq # AlanaSequence + i
    <2>1. /\ order[i] \in Commands /\ Stored(order[i])
          /\ commands[order[i]].seq = AlanaSequence + i
      BY ElementOfSeq DEF IInv, TypeOK, Sequenced, Ordered
    <2> QED BY <2>1 DEF Storable, Stored
  <1> HIDE DEF seq
  <1>3. seq - AlanaSequence \in 1..Len(order) => FALSE
    BY <1>1, <1>2
  <1>4. seq = AlanaSequence + Len(order) + 1
    BY <1>1, <1>3
  <1> QED BY <1>4 DEF seq

LEMMA StoreKeeps ==
    ASSUME IInv, NEW client \in Clients, Store(client)
    PROVE  IInv'
  <1> DEFINE r == requests[client]
             seq == NextSequence(r.last)
  <1>0. /\ r.stage = "resolved" /\ r \in Open /\ Backed(r) /\ Seen(r.last)
        /\ UNCHANGED <<catalog, selections, reads, alana, accepted, left>>
        /\ r.cmd \in Commands /\ r.last \in Nat /\ r.version \in Nat /\ r.request \in Request
    BY OpenType DEF Store, IInv, Carrying, RequestsBacked, Sequenced, Bounded, Open
  <1>1. CASE ~Storable(r.cmd, seq)
    BY <1>0, <1>1, CloseKeeps DEF Store, store
  <1>2. CASE Storable(r.cmd, seq)
    <2>1. PICK n \in Nat : n = seq
      BY <1>0, NextSequenceBound
    <2>2. PICK command \in Command :
             command = [request |-> r.request, seq |-> n, version |-> r.version,
                        status |-> "pending"]
      BY <1>0 DEF Command
    <2>3. /\ runtime' = n + 1
          /\ commands' = [commands EXCEPT ![r.cmd] = command]
          /\ order' = Append(order, r.cmd)
          /\ SendFirst(client, n, r.version)
      BY <1>2, <2>1, <2>2 DEF Store
    <2>4. /\ n = AlanaSequence + Len(order) + 1
          /\ commands[r.cmd] = None
          /\ Len(order) \in Nat /\ AlanaSequence \in Nat
      BY <1>0, <1>2, <2>1, SequencesAreContiguous, LenProperties, BroadcastAssumption
      DEF Storable, IInv, TypeOK
    <2>5. /\ commands' \in [Commands -> Command \cup {None}]
          /\ commands'[r.cmd] = command /\ command # None
          /\ \A c \in Commands \ {r.cmd} : commands'[c] = commands[c]
      BY <1>0, <2>3, BroadcastAssumption DEF IInv, TypeOK
    <2>6. /\ command.request = r.request /\ command.seq = n
          /\ command.version = r.version /\ command.status = "pending"
      BY <2>2
    <2>7. Grows
      BY <1>0, <2>4, <2>5, LenProperties DEF Grows, Stored, IInv, TypeOK
    <2>8. /\ requests' \in [Clients -> Open \cup {Closed}]
          /\ wire' \subseteq Call
          /\ RequestsBacked' /\ WireCarries' /\ Wired' /\ Answers'
          /\ requests'[client].last = r.last
          /\ \A k \in Clients \ {client} : requests'[k] = requests[k]
      <3>1. r.request.action # "stop" => Named(r.version)
        BY <1>0 DEF Backed
      <3> QED BY <1>0, <2>3, <2>5, <2>6, <2>7, <3>1, SendFirstKeeps
    <2>9. order' \in Seq(Commands) /\ Len(order') = Len(order) + 1 /\ order'[Len(order) + 1] = r.cmd
          /\ \A i \in 1..Len(order) : order'[i] = order[i]
      BY <1>0, <2>3, <2>4, AppendProperties DEF IInv, TypeOK
    <2>10. TypeOK'
      BY <1>0, <2>3, <2>5, <2>8, <2>9 DEF IInv, TypeOK
    <2>11. CommandsNamed'
      BY <1>0, <2>5, <2>6 DEF IInv, Carrying, CommandsNamed, Stored, Named, Backed
    <2>12. AlanaGood'
      BY <1>0, <2>7, GoodStays DEF IInv, TypeOK, Carrying, AlanaGood
    <2>13. AcceptedStored'
      BY <1>0, <2>7 DEF IInv, TypeOK, Sequenced, AcceptedStored, Grows, Stored
    <2>14. Ordered'
      <3>1. ASSUME NEW i \in 1..Len(order')
            PROVE  commands'[order'[i]] # None /\ commands'[order'[i]].seq = AlanaSequence + i
        <4>1. CASE i \in 1..Len(order)
          <5>1. order'[i] = order[i] /\ order[i] \in Commands
            BY <2>9, <4>1, ElementOfSeq DEF IInv, TypeOK
          <5> QED BY <4>1, <5>1, <2>7 DEF IInv, Sequenced, Ordered, Grows, Stored
        <4>2. CASE i = Len(order) + 1
          BY <2>4, <2>5, <2>6, <2>9, <4>2
        <4> QED BY <2>4, <2>9, <4>1, <4>2
      <3>2. ASSUME NEW c \in Commands, commands'[c] # None
            PROVE  \E i \in 1..Len(order') : order'[i] = c
        <4>1. CASE c = r.cmd
          BY <2>4, <2>9, <4>1
        <4>2. CASE c # r.cmd
          BY <2>4, <2>5, <2>9, <3>2, <4>2 DEF IInv, Sequenced, Ordered, Stored
        <4> QED BY <4>1, <4>2
      <3> QED BY <3>1, <3>2 DEF Ordered, Stored
    <2>15. Bounded'
      <3>1. \A s \in Nat : Seen(s) => Seen(s)'
        BY <2>4, <2>9 DEF Seen
      <3>2. \A k \in Clients : requests'[k].stage # "closed" => Seen(requests[k].last)'
        <4>1. r.stage # "closed"
          BY <1>0
        <4>2. \A k \in Clients : requests'[k].stage # "closed" =>
                 /\ requests[k].stage # "closed" /\ requests[k] \in Open
                 /\ requests'[k].last = requests[k].last
          BY <1>0, <2>8, OpenType DEF IInv
        <4>3. \A k \in Clients : requests[k].stage # "closed" /\ requests[k] \in Open =>
                 requests[k].last \in Nat /\ Seen(requests[k].last)
          BY DEF IInv, Sequenced, Bounded, Open
        <4> QED BY <3>1, <4>2, <4>3 DEF Seen
      <3>3. Seen(alana.last)'
        BY <1>0, <3>1 DEF IInv, TypeOK, Sequenced, Bounded, Seen
      <3>4. /\ runtime' <= AlanaSequence + Len(order') + 1
            /\ \A next \in reads' : next <= AlanaSequence + Len(order') + 1
        BY <1>0, <2>3, <2>4, <2>9 DEF IInv, TypeOK, Sequenced, Bounded
      <3> QED BY <3>2, <3>3, <3>4 DEF Bounded
    <2>16. SuccessIsReal'
      <3> SUFFICES ASSUME NEW c \in Commands, commands'[c] # None,
                          commands'[c].status = "succeeded",
                          commands'[c].request.action = "start"
                   PROVE  \E a \in accepted' :
                             a.cmd = c /\ a.runs = [version |-> commands'[c].version,
                                                    pins |-> selections'[commands'[c].version]]
        BY DEF SuccessIsReal
      <3>1. c # r.cmd
        BY <2>5, <2>6
      <3>2. commands'[c] = commands[c]
        BY <2>5, <3>1
      <3> QED BY <1>0, <2>7, <3>2, SuccessStays DEF Stored
    <2> QED BY <2>8, <2>10, <2>11, <2>12, <2>13, <2>14, <2>15, <2>16
            DEF IInv, Carrying, Sequenced
  <1> QED BY <1>1, <1>2

\* Nobody waits for the calls of these clients any more.
LEMMA AbandonKeeps ==
    ASSUME IInv, NEW clients \in SUBSET Clients, Abandon(clients), Grows,
           (selections \in Seq(Selection))',
           \A k \in Clients \ clients : requests'[k] = requests[k]
    PROVE  (wire \subseteq Call)' /\ WireCarries' /\ Wired'
  <1>1. \A n \in wire' : \E m \in wire : \/ n = m /\ m.from \notin clients
                                         \/ n = [m EXCEPT !.from = None]
    BY DEF Abandon
  <1>2. wire' \subseteq Call
    BY <1>1, ZenonT(60) DEF IInv, TypeOK, Call
  <1>3. WireCarries'
    <2> SUFFICES ASSUME NEW n \in wire' PROVE Carries(n)'
      BY DEF WireCarries
    <2>1. PICK m \in wire : n = m \/ n = [m EXCEPT !.from = None]
      BY <1>1
    <2>2. m \in Call /\ Carries(m)'
      BY CarriesStays DEF IInv, TypeOK, Carrying, WireCarries
    <2>3. n.cmd = m.cmd /\ n.seq = m.seq /\ n.call = m.call /\ n.payload = m.payload
      BY <2>1, <2>2 DEF Call
    <2> QED BY <2>2, <2>3 DEF Carries
  <1>4. \A n \in wire' : n.from # None => n \in wire /\ n.from \in Clients \ clients
    BY <1>1 DEF IInv, TypeOK, Call
  <1>5. Wired'
    <2>1. ASSUME NEW n \in wire', n.from # None PROVE Waits(n.from, n)'
      <3>1. Waits(n.from, n) /\ requests'[n.from] = requests[n.from]
        BY <1>4, <2>1 DEF IInv, Carrying, Wired
      <3> QED BY <3>1 DEF Waits
    <2> QED BY <1>4, <2>1 DEF IInv, Carrying, Wired
  <1> QED BY <1>2, <1>3, <1>5

\* The outcome of a command changes nothing else of it.
LEMMA RecordGrows ==
    ASSUME IInv, NEW client \in Clients, requests[client].stage \in {"calling", "answered"},
           NEW status \in {"succeeded", "failed"}, Record(client, status),
           UNCHANGED selections
    PROVE  LET r == requests[client]
           IN  /\ Grows
               /\ r \in Open /\ r.cmd \in Commands /\ Stored(r.cmd)
               /\ commands[r.cmd].request = r.request
               /\ commands[r.cmd].version = r.version
               /\ commands' \in [Commands -> Command \cup {None}]
               /\ commands'[r.cmd].request = r.request
               /\ commands'[r.cmd].version = r.version
               /\ commands'[r.cmd].status = status
               /\ \A c \in Commands \ {r.cmd} : commands'[c] = commands[c]
  <1> DEFINE r == requests[client]
  <1>1. /\ r \in Open /\ r.cmd \in Commands /\ commands[r.cmd] \in Command
        /\ Stored(r.cmd) /\ commands[r.cmd].request = r.request
        /\ commands[r.cmd].version = r.version
    <2>1. r \in Open /\ Backed(r)
      BY OpenType DEF IInv, Carrying, RequestsBacked
    <2> QED BY <2>1 DEF IInv, TypeOK, Open, Backed, Stored
  <1>2. PICK command \in Command : command = [commands[r.cmd] EXCEPT !.status = status]
    BY <1>1 DEF Command
  <1>3. /\ command.request = commands[r.cmd].request /\ command.seq = commands[r.cmd].seq
        /\ command.version = commands[r.cmd].version /\ command.status = status
    BY <1>1, <1>2 DEF Command
  <1>4. /\ commands' \in [Commands -> Command \cup {None}]
        /\ commands'[r.cmd] = command /\ command # None
        /\ \A c \in Commands \ {r.cmd} : commands'[c] = commands[c]
    BY <1>1, <1>2, BroadcastAssumption DEF Record, IInv, TypeOK
  <1>5. Grows
    <2>1. ASSUME NEW c \in Commands, Stored(c)
          PROVE  /\ commands'[c] # None
                 /\ commands'[c].request = commands[c].request
                 /\ commands'[c].seq = commands[c].seq
                 /\ commands'[c].version = commands[c].version
      <3>1. CASE c = r.cmd
        BY <1>3, <1>4, <3>1
      <3>2. CASE c # r.cmd
        BY <1>4, <2>1, <3>2 DEF Stored
      <3> QED BY <3>1, <3>2
    <2>2. selections' = selections /\ Len(selections) \in Nat
      BY LenProperties DEF IInv, TypeOK
    <2> QED BY <2>1, <2>2 DEF Grows, Stored
  <1> QED BY <1>1, <1>3, <1>4, <1>5

\* A command gets its outcome and its request is closed.
LEMMA RecordKeeps ==
    ASSUME IInv, NEW client \in Clients, requests[client].stage \in {"calling", "answered"},
           NEW status \in {"succeeded", "failed"}, Record(client, status),
           status = "succeeded" => /\ requests[client].stage = "answered"
                                   /\ Acknowledged(requests[client])
                                   /\ requests[client].call = requests[client].request.action,
           (wire \subseteq Call)' /\ WireCarries' /\ Wired',
           (left \in [Kinds -> Nat])',
           UNCHANGED <<catalog, selections, runtime, order, reads, alana, accepted>>
    PROVE  IInv'
  <1> DEFINE r == requests[client]
  <1>1. /\ Grows
        /\ r \in Open /\ r.cmd \in Commands /\ Stored(r.cmd)
        /\ commands[r.cmd].request = r.request
        /\ commands' \in [Commands -> Command \cup {None}]
        /\ commands'[r.cmd].request = r.request
        /\ commands'[r.cmd].version = r.version
        /\ commands'[r.cmd].status = status
        /\ \A c \in Commands \ {r.cmd} : commands'[c] = commands[c]
    BY RecordGrows
  <1>5. /\ requests' \in [Clients -> Open \cup {Closed}]
        /\ requests'[client] = Closed
        /\ \A k \in Clients \ {client} : requests'[k] = requests[k]
    BY OneRequest DEF Record, Close, IInv
  <1>7. TypeOK'
    BY <1>1, <1>5 DEF IInv, TypeOK
  <1>8. CommandsNamed' /\ Ordered' /\ AlanaGood' /\ AcceptedStored'
    BY <1>1, CarryingStays DEF IInv, TypeOK, Stored
  <1>9. \A k \in Clients : requests'[k].stage # "closed" =>
           /\ requests'[k] = requests[k] /\ requests[k] \in Open
           /\ Backed(requests[k]) /\ Seen(requests[k].last)
    BY <1>5, OpenType DEF IInv, Carrying, RequestsBacked, Sequenced, Bounded, Closed
  <1>10. RequestsBacked'
    <2> SUFFICES ASSUME NEW k \in Clients, requests'[k].stage # "closed"
                 PROVE  Backed(requests[k])'
      BY DEF RequestsBacked
    <2>1. ASSUME NEW q \in Open, Backed(q) PROVE Backed(q)'
      BY <1>1, <2>1, BackedStays DEF IInv, TypeOK
    <2> QED BY <1>9, <2>1 DEF Backed, Stored, Named
  <1>11. Bounded'
    BY <1>9 DEF IInv, Sequenced, Bounded, Seen
  <1>12. Answers'
    BY <1>5, <1>9 DEF IInv, Answers, Closed
  <1>13. SuccessIsReal'
    <2> SUFFICES ASSUME NEW c \in Commands, commands'[c] # None,
                        commands'[c].status = "succeeded",
                        commands'[c].request.action = "start"
                 PROVE  \E a \in accepted' :
                           a.cmd = c /\ a.runs = [version |-> commands'[c].version,
                                                  pins |-> selections'[commands'[c].version]]
      BY DEF SuccessIsReal
    <2>1. CASE c # r.cmd
      <3>1. commands'[c] = commands[c]
        BY <1>1, <2>1
      <3> QED BY <1>1, <3>1, SuccessStays DEF Stored
    <2>2. CASE c = r.cmd
      <3>1. r.stage = "answered" /\ Acknowledged(r) /\ r.call = "start"
        BY <1>1, <2>2
      <3>2. r.ok /\ r.ack = SelectionPayload(r.version)
        BY <3>1 DEF Acknowledged
      <3>3. PICK a \in accepted : a.cmd = r.cmd /\ a.runs = r.ack
        BY <3>1, <3>2 DEF IInv, Answers
      <3>4. commands'[c].version = r.version
        BY <1>1, <2>2
      <3> QED BY <2>2, <3>2, <3>3, <3>4 DEF SelectionPayload
    <2> QED BY <2>1, <2>2
  <1> QED BY <1>7, <1>8, <1>10, <1>11, <1>12, <1>13 DEF IInv, Carrying, Sequenced

LEMMA AnsweredStep ==
    ASSUME IInv, NEW client \in Clients, Answered(client)
    PROVE  IInv'
  <1> DEFINE r == requests[client]
  <1>0. /\ r.stage = "answered" /\ r \in Open /\ Backed(r)
        /\ UNCHANGED <<catalog, selections, runtime, order, reads, alana, accepted, left>>
    BY OpenType DEF Answered, IInv, Carrying, RequestsBacked
  <1>1. CASE Acknowledged(r) /\ r.call # r.request.action
    <2>1. PICK q \in Open : q = [r EXCEPT !.call = r.request.action]
      BY <1>0 DEF Open, Request
    <2>2. /\ q.last = r.last /\ q.cmd = r.cmd /\ q.request = r.request
          /\ q.seq = r.seq /\ q.version = r.version /\ q.call = r.request.action
      BY <1>0, <2>1 DEF Open
    <2>3. Send(client, q) /\ UNCHANGED commands
      BY <1>1, <2>1 DEF Answered
    <2>4. Grows
      BY <1>0, <2>3, StoreRests DEF IInv, TypeOK
    <2>5. /\ commands[r.cmd] # None /\ commands[r.cmd].request = r.request
          /\ commands[r.cmd].seq = r.seq /\ commands[r.cmd].version = r.version
          /\ r.cmd \in Commands
      BY <1>0 DEF Backed, Stored, Open
    <2>6. r.request.action # "stop" => Named(r.version)
      BY <2>5 DEF IInv, Carrying, CommandsNamed, Stored
    <2>7. r.request.version \in 0..Len(selections)
      BY <1>0 DEF Backed
    <2>8. /\ requests' \in [Clients -> Open \cup {Closed}]
          /\ wire' \subseteq Call
          /\ RequestsBacked' /\ WireCarries' /\ Wired' /\ Answers'
          /\ requests'[client].last = r.last
          /\ \A k \in Clients \ {client} : requests'[k] = requests[k]
      BY <1>0, <2>2, <2>3, <2>4, <2>5, <2>6, <2>7, SendKeeps
    <2>9. TypeOK'
      BY <1>0, <2>3, <2>8 DEF IInv, TypeOK
    <2>10. CommandsNamed' /\ Ordered' /\ AlanaGood' /\ AcceptedStored'
      BY <1>0, <2>3, <2>4, CarryingStays DEF IInv, TypeOK, Stored
    <2>11. Bounded'
      BY <1>0, <2>8 DEF IInv, Sequenced, Bounded, Seen
    <2>12. SuccessIsReal'
      BY <1>0, <2>3, <2>4, SuccessStays DEF SuccessIsReal, Stored
    <2> QED BY <2>8, <2>9, <2>10, <2>11, <2>12 DEF IInv, Carrying, Sequenced
  <1>2. CASE ~(Acknowledged(r) /\ r.call # r.request.action)
    <2>1. PICK status \in {"succeeded", "failed"} :
             /\ Record(client, status) /\ UNCHANGED wire
             /\ status = "succeeded" => Acknowledged(r)
      BY <1>2 DEF Answered
    <2>2. Grows
      BY <1>0, <2>1, RecordGrows
    <2>3. WireCarries'
      BY <1>0, <2>1, <2>2, CarriesStays DEF IInv, TypeOK, Carrying, WireCarries
    <2>4. Wired'
      <3>1. \A k \in Clients \ {client} : requests'[k] = requests[k]
        BY <2>1, OneRequest DEF Record, Close, IInv
      <3> QED BY <1>0, <2>1, <3>1, WiredStays DEF IInv, Carrying
    <2>5. (wire \subseteq Call)' /\ (left \in [Kinds -> Nat])'
      BY <1>0, <2>1 DEF IInv, TypeOK
    <2> QED BY <1>0, <1>2, <2>1, <2>3, <2>4, <2>5, RecordKeeps
  <1> QED BY <1>1, <1>2

LEMMA CallFailsKeeps ==
    ASSUME IInv, NEW client \in Clients, CallFails(client)
    PROVE  IInv'
  <1> DEFINE r == requests[client]
  <1>0. /\ r.stage \in {"calling", "answered"} /\ r \in Open /\ Backed(r)
        /\ UNCHANGED <<catalog, selections, runtime, order, reads, alana, accepted>>
        /\ Record(client, "failed") /\ Abandon({client})
    BY OpenType DEF CallFails, IInv, Carrying, RequestsBacked
  <1>1. (left \in [Kinds -> Nat])'
    BY SpendType DEF CallFails, Kinds, IInv
  <1>2. Grows
    BY <1>0, RecordGrows
  <1>3. \A k \in Clients \ {client} : requests'[k] = requests[k]
    BY <1>0, OneRequest DEF Record, Close, IInv
  <1>4. (wire \subseteq Call)' /\ WireCarries' /\ Wired'
    BY <1>0, <1>2, <1>3, AbandonKeeps DEF IInv, TypeOK
  <1> QED BY <1>0, <1>1, <1>4, RecordKeeps

LEMMA RestartKeeps ==
    ASSUME IInv, Restart
    PROVE  IInv'
  <1>0. /\ UNCHANGED <<store, alana, accepted>> /\ Abandon(Clients) /\ reads' = {}
        /\ \A k \in Clients : requests'[k] = Closed
        /\ requests' \in [Clients -> Open \cup {Closed}]
    BY DEF Restart
  <1>1. Grows
    BY <1>0, StoreRests DEF IInv, TypeOK, store
  <1>2. (wire \subseteq Call)' /\ WireCarries' /\ Wired'
    BY <1>0, <1>1, AbandonKeeps DEF IInv, TypeOK, store
  <1>3. (left \in [Kinds -> Nat])'
    BY SpendType DEF Restart, Kinds, IInv
  <1>4. TypeOK'
    BY <1>0, <1>2, <1>3 DEF IInv, TypeOK, store
  <1>5. CommandsNamed' /\ Ordered' /\ AlanaGood' /\ AcceptedStored'
    BY <1>0, <1>1, CarryingStays DEF IInv, TypeOK, store, Stored
  <1>6. RequestsBacked' /\ Answers'
    BY <1>0 DEF RequestsBacked, Answers, Closed
  <1>7. Bounded'
    BY <1>0 DEF IInv, Sequenced, Bounded, Seen, store, Closed
  <1>8. SuccessIsReal'
    BY <1>0, <1>1, SuccessStays DEF SuccessIsReal, store, Stored
  <1> QED BY <1>2, <1>4, <1>5, <1>6, <1>7, <1>8 DEF IInv, Carrying, Sequenced

--------------------------------------------------------------------------------
\* The theorems

LEMMA InitIInv == Init => IInv
  <1> SUFFICES ASSUME Init PROVE IInv
    OBVIOUS
  <1> USE DEF Init
  <1>1. TypeOK
    <2>1. selections \in Seq(Selection) /\ order \in Seq(Commands)
      BY EmptySeq
    <2>2. requests \in [Clients -> Open \cup {Closed}]
      OBVIOUS
    <2>3. alana \in [on : BOOLEAN, active : Payload \cup {None},
                     pending : Payload \cup {None}, last : Nat]
      BY BroadcastAssumption
    <2>4. catalog \in [Destinations -> [pin : Pins, retired : BOOLEAN]]
      OBVIOUS
    <2> QED BY <2>1, <2>2, <2>3, <2>4, BroadcastAssumption DEF TypeOK
  <1>2. Carrying
    BY DEF Carrying, CommandsNamed, Stored, RequestsBacked, Closed, WireCarries, AlanaGood, Wired
  <1>3. Sequenced
    BY BroadcastAssumption
    DEF Sequenced, Ordered, Stored, Bounded, Seen, Closed, AcceptedStored
  <1>4. Answers /\ SuccessIsReal
    BY DEF Answers, Closed, SuccessIsReal
  <1> QED BY <1>1, <1>2, <1>3, <1>4 DEF IInv

LEMMA NextIInv == IInv /\ [Next]_vars => IInv'
  <1> SUFFICES ASSUME IInv, [Next]_vars PROVE IInv'
    OBVIOUS
  <1>1. ASSUME NEW d \in Destinations, NEW pin \in Pins, EditDestination(d, pin)
        PROVE  IInv'
    BY <1>1, EditDestinationKeeps
  <1>2. ASSUME NEW d \in Destinations, NEW retired \in BOOLEAN, SetRetired(d, retired)
        PROVE  IInv'
    BY <1>2, SetRetiredKeeps
  <1>3. ASSUME NEW client \in Clients, NEW cmd \in Commands, NEW action \in Actions,
               NEW ids \in SUBSET Destinations, NEW version \in 0..Len(selections),
               Begin(client, cmd, [action |-> action, ids |-> ids, version |-> version])
        PROVE  IInv'
    BY <1>3, BeginKeeps
  <1>4. ASSUME NEW client \in Clients, CommandStep(client)
        PROVE  IInv'
    BY <1>4, LookUpKeeps, ResolveKeeps, StoreKeeps, AnsweredStep DEF CommandStep
  <1>5. ASSUME NEW client \in Clients, CallFails(client)
        PROVE  IInv'
    BY <1>5, CallFailsKeeps
  <1>6. ASSUME NEW m \in wire, AlanaTakes(m)
        PROVE  IInv'
    BY <1>6, AlanaTakesKeeps
  <1>7. CASE StateReads
    BY <1>7, StateReadsKeeps
  <1>8. ASSUME NEW next \in reads, StateWrites(next)
        PROVE  IInv'
    BY <1>8, StateWritesKeeps
  <1>9. CASE Restart
    BY <1>9, RestartKeeps
  <1>10. CASE UNCHANGED vars
    <2>1. TypeOK' /\ Bounded'
      BY <1>10 DEF IInv, TypeOK, Sequenced, Bounded, Seen, vars
    <2> QED BY <1>10, <2>1, BystanderKeeps DEF vars
  <1> QED BY <1>1, <1>2, <1>3, <1>4, <1>5, <1>6, <1>7, <1>8, <1>9, <1>10 DEF Next

LEMMA Inductive == Spec => []IInv
  BY InitIInv, NextIInv, PTL DEF Spec

\* Every reachable state is well typed (prisma schema and the client types).
THEOREM TypeCorrect == Spec => []TypeOK
  <1>1. IInv => TypeOK
    BY DEF IInv
  <1> QED BY <1>1, Inductive, PTL

\* What Alana runs is the snapshot a stored command names, whatever catalog edits,
\* retries, late calls and restarts do (resolveSelection, selectionPayload).
THEOREM SnapshotsRun == Spec => []RunsTheSnapshot
  <1>1. IInv => RunsTheSnapshot
    BY DEF IInv, Carrying, AlanaGood, Good, Named, Stored, RunsTheSnapshot
  <1> QED BY <1>1, Inductive, PTL

\* A start recorded as succeeded was accepted by Alana with the exact selection
\* (applyStart, finishCommand).
THEOREM SuccessesAreReal == Spec => []SuccessIsReal
  <1>1. IInv => SuccessIsReal
    BY DEF IInv
  <1> QED BY <1>1, Inductive, PTL

\* What is accepted in a step is newer than all Alana accepted before.
LEMMA AcceptedIsNewer ==
    ASSUME IInv, Next, NEW a \in accepted', a \notin accepted
    PROVE  \E m \in wire : a.cmd = m.cmd /\ m.seq > alana.last
  <1>1. PICK m \in wire : AlanaTakes(m)
    BY ZenonT(60) DEF Next, EditDestination, SetRetired, Begin, CommandStep, LookUp, Resolve, Store,
           Answered, CallFails, StateReads, StateWrites, Restart
  <1>2. CASE TakesReload(m)
    BY <1>2 DEF TakesReload
  <1>3. CASE TakesStart(m)
    <2>1. /\ m.seq > alana.last
          /\ \E runs : accepted' = accepted \cup {[cmd |-> m.cmd, call |-> "start",
                                                    seq |-> m.seq, runs |-> runs]}
      BY <1>3 DEF TakesStart, Newer
    <2>2. a.cmd = m.cmd
      BY <2>1
    <2> QED BY <2>1, <2>2
  <1>4. CASE TakesStop(m)
    <2>1. /\ m.seq > alana.last
          /\ accepted' = accepted \cup {[cmd |-> m.cmd, call |-> "stop", seq |-> m.seq,
                                         runs |-> None]}
      BY <1>4 DEF TakesStop, Newer
    <2>2. a.cmd = m.cmd
      BY <2>1
    <2> QED BY <2>1, <2>2
  <1> QED BY <1>1, <1>2, <1>3, <1>4 DEF AlanaTakes

\* Alana accepts commands in the order they were stored, each once at most
\* (allocateSequence in prepareCommand, and Alana's own sequence check).
THEOREM OrderKept == Spec => TakesEffectInOrder
  <1> DEFINE InOrder == \A a \in accepted' \ accepted :
                 ~\E later \in accepted, i, j \in 1..Len(order) :
                     i <= j /\ order[i] = a.cmd /\ order[j] = later.cmd
  <1>1. IInv /\ [Next]_vars => [InOrder]_vars
    <2> SUFFICES ASSUME IInv, Next, NEW a \in accepted', a \notin accepted,
                        NEW later \in accepted, NEW i \in 1..Len(order),
                        NEW j \in 1..Len(order),
                        i <= j, order[i] = a.cmd, order[j] = later.cmd
                 PROVE  FALSE
      OBVIOUS
    <2>1. PICK m \in wire : a.cmd = m.cmd /\ m.seq > alana.last
      BY AcceptedIsNewer
    <2>2. m.seq = commands[a.cmd].seq
      BY <2>1, CallFields
    <2>3. later.seq = commands[later.cmd].seq /\ later.seq <= alana.last
      BY DEF IInv, Sequenced, AcceptedStored
    <2>4. /\ commands[a.cmd].seq = AlanaSequence + i
          /\ commands[later.cmd].seq = AlanaSequence + j
      BY DEF IInv, Sequenced, Ordered
    <2>5. AlanaSequence \in Nat /\ alana.last \in Nat /\ i \in Nat /\ j \in Nat
      BY BroadcastAssumption, LenProperties DEF IInv, TypeOK
    <2> QED BY <2>1, <2>2, <2>3, <2>4, <2>5
  <1>2. TakesEffectInOrder <=> [][InOrder]_vars
    BY DEF TakesEffectInOrder
  <1> HIDE DEF InOrder
  <1> QED BY <1>1, <1>2, Inductive, PTL DEF Spec

==============================================================================
