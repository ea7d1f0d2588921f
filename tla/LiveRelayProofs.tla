-------------------------- MODULE LiveRelayProofs ---------------------------
(***************************************************************************)
(* Proofs about LiveRelay: its type invariant, the invariant that orders   *)
(* every message by the place where it waits, and from it that the relay   *)
(* with its reconnecting hooks implements LossyFeed, for every set of      *)
(* clients, every number of messages and of sockets.                       *)
(***************************************************************************)
EXTENDS LiveRelay, SequenceTheorems, FiniteSetTheorems, TLAPS

----------------------------------------------------------------------------
\* The inductive invariant.

\* No element of q comes before message m.
NoneBefore(m, q) == \A i \in 1 .. Len(q) : m <= q[i]

\* q is in the order of publication.
Rising(q) == \A i, j \in 1 .. Len(q) : i <= j => q[i] <= q[j]

\* What the relay has yet to send is not older than message m.
RelayAt(m) ==
    /\ relay = "broadcasting" => m <= broadcast.message
    /\ NoneBefore(m, inbox)

\* The subscription holds published messages in order, after the one being sent.
InboxInOrder ==
    /\ Rising(inbox)
    /\ \A i \in 1 .. Len(inbox) : inbox[i] \in 1 .. sent
    /\ relay = "broadcasting" =>
          broadcast.message \in 1 .. sent /\ NoneBefore(broadcast.message, inbox)

\* Only the socket its client uses now carries messages.
LiveWires == \A s \in Socket : wire[s] # <<>> => Alive(s)

\* A socket carries published messages in order, none after what the relay
\* has yet to send.
WiresInOrder ==
    \A s \in Socket :
        /\ Rising(wire[s])
        /\ \A i \in 1 .. Len(wire[s]) : wire[s][i] \in 1 .. sent /\ RelayAt(wire[s][i])

\* Nothing a client has yet to be handed is older than what it was handed last.
ClientsInOrder ==
    \A c \in Client :
        /\ last[c] <= sent /\ RelayAt(last[c])
        /\ \A s \in Socket : s[1] = c => NoneBefore(last[c], wire[s])

\* A hook that is connected, or about to be, has opened a socket.
HooksHaveSockets ==
    \A c \in Client : hook[c] \in {"connecting", "open"} => opened[c] # 0

BroadcastType == [message : Nat, ahead : SUBSET Socket, dead : SUBSET Socket,
                  size : Nat, joined : BOOLEAN]

Typed == TypeOK /\ IsFiniteSet(connections) /\ HooksHaveSockets

OrderInv == InboxInOrder /\ LiveWires /\ WiresInOrder /\ ClientsInOrder

----------------------------------------------------------------------------
\* Sequences of messages.

LEMMA AppendRises ==
    ASSUME NEW q \in Seq(Nat), NEW m \in Nat, Rising(q),
           \A i \in 1 .. Len(q) : q[i] <= m
    PROVE  Rising(Append(q, m))
  BY DEF Rising

LEMMA TailRises ==
    ASSUME NEW q \in Seq(Nat), q # <<>>, Rising(q)
    PROVE  /\ Rising(Tail(q))
           /\ Head(q) = q[1]
           /\ NoneBefore(Head(q), Tail(q))
           /\ \A i \in 1 .. Len(Tail(q)) : Tail(q)[i] = q[i + 1] /\ i + 1 \in 1 .. Len(q)
  BY DEF Rising, NoneBefore

LEMMA NoneBeforeTail ==
    ASSUME NEW q \in Seq(Nat), q # <<>>, NEW m \in Nat, NoneBefore(m, q)
    PROVE  m <= Head(q) /\ NoneBefore(m, Tail(q))
  BY DEF NoneBefore

LEMMA NoneBeforeAppend ==
    ASSUME NEW q \in Seq(Nat), NEW m \in Nat, NEW n \in Nat, NoneBefore(m, q), m <= n
    PROVE  NoneBefore(m, Append(q, n))
  BY DEF NoneBefore

LEMMA EmptyIsInOrder ==
    Rising(<<>>) /\ \A m \in Nat : NoneBefore(m, <<>>)
  BY DEF Rising, NoneBefore

----------------------------------------------------------------------------
\* Type correctness.

LEMMA InitTyped == Init => Typed
  BY BoundAssumption, FS_EmptySet
     DEF Init, TypeOK, Typed, HooksHaveSockets, Idle, Socket

\* The socket of a connected hook is one.
LEMMA SocketOfHook ==
    ASSUME Typed, NEW c \in Client, hook[c] \in {"connecting", "open"}
    PROVE  SocketOf(c) \in Socket
  BY DEF Typed, TypeOK, HooksHaveSockets, SocketOf, Socket

LEMMA NextTyped ==
    ASSUME Typed, InboxInOrder, [Next]_vars
    PROVE  Typed'
<1> USE DEF Typed, TypeOK, HooksHaveSockets, hooks, Idle, BroadcastType
<1>0. /\ MaxMessages \in Nat /\ MaxSockets \in Nat
      /\ Cardinality(connections) \in Nat
  BY BoundAssumption, FS_CardinalityType
<1>1. CASE Publish
  BY <1>0, <1>1 DEF Publish
<1>2. CASE Subscribe
  BY <1>0, <1>2 DEF Subscribe
<1>3. CASE StartBroadcast
  <2>1. CASE connections = {}
    BY <1>3, <2>1 DEF StartBroadcast
  <2>2. CASE connections # {}
    <3>1. /\ relay' = "broadcasting" /\ inbox' = Tail(inbox) /\ inbox # <<>>
          /\ UNCHANGED <<sent, connections, wire, hook, opened, last>>
      BY <1>3, <2>2 DEF StartBroadcast
    <3>4. Tail(inbox) \in Seq(Nat) /\ Head(inbox) = inbox[1] /\ 1 \in 1 .. Len(inbox)
      BY <3>1
    <3>5. Head(inbox) \in Nat \ {0}
      BY <3>4 DEF InboxInOrder
    <3>2. broadcast' = [message |-> Head(inbox), ahead |-> connections, dead |-> {},
                        size |-> Cardinality(connections), joined |-> FALSE]
      BY <1>3, <2>2 DEF StartBroadcast
    <3>3. QED
      BY <1>0, <3>1, <3>2, <3>4, <3>5
  <2>3. QED
    BY <2>1, <2>2
<1>4. CASE EndBroadcast
  BY <1>0, <1>4, FS_Difference DEF EndBroadcast
<1>5. CASE BroadcastRaises
  BY <1>0, <1>5 DEF BroadcastRaises, Ended, Dropped
<1>6. ASSUME NEW s \in Socket, Send(s)
      PROVE  Typed'
  <2>1. broadcast' \in BroadcastType
        /\ broadcast'.message = broadcast.message
    <3>1. CASE broadcast' = [broadcast EXCEPT !.ahead = @ \ {s}]
      BY <3>1
    <3>2. ASSUME NEW dead \in {{}, {s}},
                 broadcast' = [broadcast EXCEPT !.ahead = @ \ {s}, !.dead = @ \cup dead]
          PROVE  /\ broadcast' \in BroadcastType
                 /\ broadcast'.message = broadcast.message
      BY <3>2
    <3>3. QED
      BY <1>6, <3>1, <3>2 DEF Send
  <2>2. wire' \in [Socket -> Seq(Nat)]
    <3>1. wire' = wire \/ wire' = [wire EXCEPT ![s] = Append(wire[s], broadcast.message)]
      BY <1>6 DEF Send
    <3>2. wire[s] \in Seq(Nat) /\ broadcast.message \in Nat
      OBVIOUS
    <3>3. Append(wire[s], broadcast.message) \in Seq(Nat)
      BY <3>2
    <3>4. QED
      BY <3>1, <3>3
  <2>3. QED
    BY <1>6, <2>1, <2>2 DEF Send
<1>7. ASSUME NEW s \in Socket, Discard(s)
      PROVE  Typed'
  BY <1>0, <1>7, FS_RemoveElement DEF Discard
<1>8. ASSUME NEW c \in Client, Admit(c)
      PROVE  Typed'
  <2>1. SocketOf(c) \in Socket
    BY <1>8, SocketOfHook DEF Admit
  <2>2. /\ broadcast' \in BroadcastType
        /\ broadcast'.message = broadcast.message
        /\ connections' \in SUBSET Socket
    <3>1. connections' \in SUBSET Socket
      BY <1>8, <2>1 DEF Admit
    <3>2. ASSUME NEW ahead \in SUBSET connections',
                 broadcast' = [broadcast EXCEPT !.ahead = ahead, !.joined = TRUE]
          PROVE  /\ broadcast' \in BroadcastType
                 /\ broadcast'.message = broadcast.message
      BY <3>1, <3>2
    <3>3. QED
      BY <1>8, <3>1, <3>2 DEF Admit
  <2>3. QED
    BY <1>0, <1>8, <2>1, <2>2, FS_AddElement DEF Admit
<1>9. ASSUME NEW c \in Client, Connect(c)
      PROVE  Typed'
  BY <1>0, <1>9 DEF Connect
<1>10. ASSUME NEW c \in Client, OnOpen(c)
       PROVE  Typed'
  BY <1>0, <1>10 DEF OnOpen
<1>11. ASSUME NEW c \in Client, OnMessage(c)
       PROVE  Typed'
  <2>1. SocketOf(c) \in Socket
    BY <1>11, SocketOfHook DEF OnMessage
  <2>2. last' \in [Client -> Nat] /\ wire' \in [Socket -> Seq(Nat)]
    BY <1>11, <2>1 DEF OnMessage
  <2>3. QED
    BY <1>11, <2>2 DEF OnMessage
<1>12. ASSUME NEW c \in Client, OnClose(c)
       PROVE  Typed'
  <2>1. wire' \in [Socket -> Seq(Nat)]
    <3>1. <<>> \in Seq(Nat)
      OBVIOUS
    <3>2. wire' = [wire EXCEPT ![SocketOf(c)] = <<>>]
      BY <1>12 DEF OnClose
    <3>3. QED
      BY <3>1, <3>2
  <2>2. QED
    BY <1>12, <2>1 DEF OnClose
<1>13. ASSUME NEW c \in Client, Unmount(c)
       PROVE  Typed'
  <2>1. wire' \in [Socket -> Seq(Nat)]
    <3>1. wire' = [t \in Socket |-> IF t[1] = c THEN <<>> ELSE wire[t]]
      BY <1>13 DEF Unmount
    <3>2. \A t \in Socket : (IF t[1] = c THEN <<>> ELSE wire[t]) \in Seq(Nat)
      OBVIOUS
    <3>3. QED
      BY <3>1, <3>2
  <2>2. QED
    BY <1>13, <2>1 DEF Unmount
<1>14. CASE UNCHANGED vars
  BY <1>14 DEF vars
<1>15. QED
  BY <1>1, <1>2, <1>3, <1>4, <1>5, <1>6, <1>7, <1>8, <1>9, <1>10, <1>11, <1>12,
     <1>13, <1>14 DEF Next

----------------------------------------------------------------------------
\* Order.

LEMMA InitOrdered == Init => OrderInv
<1> SUFFICES ASSUME Init PROVE OrderInv
  OBVIOUS
<1>1. inbox = <<>> /\ relay = "sleeping" /\ sent = 0
  BY DEF Init
<1>2. RelayAt(0)
  BY <1>1, EmptyIsInOrder DEF RelayAt
<1>3. \A s \in Socket : wire[s] = <<>>
  BY DEF Init
<1>4. InboxInOrder
  BY <1>1, EmptyIsInOrder DEF InboxInOrder
<1>5. LiveWires /\ WiresInOrder
  BY <1>3, EmptyIsInOrder DEF LiveWires, WiresInOrder
<1>6. ClientsInOrder
  BY <1>1, <1>2, <1>3, EmptyIsInOrder DEF ClientsInOrder, Init
<1>7. QED
  BY <1>4, <1>5, <1>6 DEF OrderInv

\* A step of Redis or of the relay that leaves sockets and hooks alone keeps
\* their order if what the relay has yet to send grows no older.
LEMMA RelayStep ==
    ASSUME Typed, Typed', OrderInv, UNCHANGED <<wire, hook, opened, last>>,
           sent <= sent',
           \A m \in Nat : m <= sent /\ RelayAt(m) => RelayAt(m)'
    PROVE  LiveWires' /\ WiresInOrder' /\ ClientsInOrder'
<1>1. LiveWires'
  BY DEF OrderInv, LiveWires, Alive
<1>2. WiresInOrder'
  <2> SUFFICES ASSUME NEW s \in Socket
               PROVE  /\ Rising(wire[s])
                      /\ \A i \in 1 .. Len(wire[s]) :
                            wire[s][i] \in 1 .. sent' /\ RelayAt(wire[s][i])'
    BY DEF WiresInOrder
  <2>1. Rising(wire[s])
    BY DEF OrderInv, WiresInOrder
  <2>2. ASSUME NEW i \in 1 .. Len(wire[s])
        PROVE  wire[s][i] \in 1 .. sent' /\ RelayAt(wire[s][i])'
    <3>1. wire[s][i] \in 1 .. sent /\ RelayAt(wire[s][i])
      BY <2>2 DEF OrderInv, WiresInOrder
    <3>2. wire[s][i] \in Nat /\ wire[s][i] <= sent
      BY <3>1 DEF Typed, TypeOK
    <3>3. RelayAt(wire[s][i])'
      BY <3>1, <3>2
    <3>4. wire[s][i] \in 1 .. sent'
      BY <3>1 DEF Typed, TypeOK
    <3>5. QED
      BY <3>3, <3>4
  <2>3. QED
    BY <2>1, <2>2
<1>3. ClientsInOrder'
  <2> SUFFICES ASSUME NEW c \in Client
               PROVE  /\ last[c] <= sent' /\ RelayAt(last[c])'
                      /\ \A s \in Socket : s[1] = c => NoneBefore(last[c], wire[s])
    BY DEF ClientsInOrder
  <2>1. /\ last[c] \in Nat /\ last[c] <= sent /\ RelayAt(last[c])
        /\ \A s \in Socket : s[1] = c => NoneBefore(last[c], wire[s])
    BY DEF OrderInv, ClientsInOrder, Typed, TypeOK
  <2>2. QED
    BY <2>1 DEF Typed, TypeOK
<1>4. QED
  BY <1>1, <1>2, <1>3

LEMMA PublishOrdered ==
    ASSUME Typed, Typed', OrderInv, Publish
    PROVE  OrderInv'
<1>1. /\ sent \in Nat /\ sent' = sent + 1 /\ inbox \in Seq(Nat)
      /\ UNCHANGED <<relay, broadcast, wire, hook, opened, last>>
  BY DEF Publish, hooks, Typed, TypeOK
<1>2. /\ Rising(inbox)
      /\ \A i \in 1 .. Len(inbox) : inbox[i] \in 1 .. sent
      /\ relay = "broadcasting" =>
            broadcast.message \in 1 .. sent /\ NoneBefore(broadcast.message, inbox)
  BY DEF OrderInv, InboxInOrder
<1>3. \A m \in Nat : m <= sent /\ NoneBefore(m, inbox) => NoneBefore(m, inbox')
  <2> SUFFICES ASSUME NEW m \in Nat, m <= sent, NoneBefore(m, inbox)
               PROVE  NoneBefore(m, inbox')
    OBVIOUS
  <2>1. NoneBefore(m, Append(inbox, sent + 1))
    BY <1>1, NoneBeforeAppend
  <2>2. QED
    BY <2>1 DEF Publish
<1>4. \A m \in Nat : m <= sent /\ RelayAt(m) => RelayAt(m)'
  BY <1>1, <1>3 DEF RelayAt
<1>5. InboxInOrder'
  <2>1. Rising(inbox')
    <3>1. \A i \in 1 .. Len(inbox) : inbox[i] <= sent + 1
      BY <1>1, <1>2
    <3>2. Rising(Append(inbox, sent + 1))
      BY <1>1, <1>2, <3>1, AppendRises
    <3>3. QED
      BY <1>2, <3>2 DEF Publish
  <2>2. \A i \in 1 .. Len(inbox') : inbox'[i] \in 1 .. sent'
    <3>1. CASE inbox' = inbox
      BY <1>1, <1>2, <3>1
    <3>2. CASE inbox' = Append(inbox, sent + 1)
      BY <1>1, <1>2, <3>2
    <3>3. QED
      BY <3>1, <3>2 DEF Publish
  <2>3. relay' = "broadcasting" =>
            broadcast'.message \in 1 .. sent' /\ NoneBefore(broadcast'.message, inbox')
    BY <1>1, <1>2, <1>3
  <2>4. QED
    BY <2>1, <2>2, <2>3 DEF InboxInOrder
<1>6. QED
  BY <1>1, <1>4, <1>5, RelayStep DEF OrderInv

LEMMA StartBroadcastOrdered ==
    ASSUME Typed, Typed', OrderInv, StartBroadcast
    PROVE  OrderInv'
<1>1. /\ inbox \in Seq(Nat) /\ inbox # <<>> /\ inbox' = Tail(inbox) /\ sent \in Nat
      /\ UNCHANGED <<sent, wire, hook, opened, last>>
      /\ relay = "subscribed"
      /\ \/ UNCHANGED <<relay, broadcast>>
         \/ relay' = "broadcasting" /\ broadcast'.message = Head(inbox)
  BY DEF StartBroadcast, hooks, Typed, TypeOK, Idle
<1>2. Rising(inbox) /\ \A i \in 1 .. Len(inbox) : inbox[i] \in 1 .. sent
  BY DEF OrderInv, InboxInOrder
<1>3. /\ Rising(Tail(inbox)) /\ Head(inbox) = inbox[1] /\ NoneBefore(Head(inbox), Tail(inbox))
      /\ \A i \in 1 .. Len(Tail(inbox)) :
            Tail(inbox)[i] = inbox[i + 1] /\ i + 1 \in 1 .. Len(inbox)
  BY <1>1, <1>2, TailRises
<1>4. Head(inbox) \in 1 .. sent /\ Tail(inbox) \in Seq(Nat)
  BY <1>1, <1>2, <1>3
<1>5. InboxInOrder'
  BY <1>1, <1>2, <1>3, <1>4 DEF InboxInOrder
<1>6. \A m \in Nat : m <= sent /\ RelayAt(m) => RelayAt(m)'
  <2> SUFFICES ASSUME NEW m \in Nat, NoneBefore(m, inbox)
               PROVE  RelayAt(m)'
    BY DEF RelayAt
  <2>1. m <= Head(inbox) /\ NoneBefore(m, Tail(inbox))
    BY <1>1, NoneBeforeTail
  <2>2. QED
    BY <1>1, <2>1 DEF RelayAt
<1>7. QED
  BY <1>1, <1>5, <1>6, RelayStep DEF OrderInv

\* The broadcast ends, either way: nothing is being sent.
LEMMA EndBroadcastOrdered ==
    ASSUME Typed, Typed', OrderInv, EndBroadcast \/ BroadcastRaises \/ Subscribe
    PROVE  OrderInv'
<1>1. /\ relay' # "broadcasting"
      /\ inbox' = inbox \/ inbox' = <<>>
      /\ UNCHANGED <<sent, wire, hook, opened, last>>
  BY DEF EndBroadcast, BroadcastRaises, Subscribe, Dropped, hooks
<1>2. InboxInOrder'
  BY <1>1, EmptyIsInOrder DEF OrderInv, InboxInOrder
<1>3. \A m \in Nat : m <= sent /\ RelayAt(m) => RelayAt(m)'
  BY <1>1, EmptyIsInOrder DEF RelayAt
<1>4. sent <= sent'
  BY <1>1 DEF Typed, TypeOK
<1>5. QED
  BY <1>1, <1>2, <1>3, <1>4, RelayStep DEF OrderInv

\* A step that leaves the relay alone keeps the order on its side.
LEMMA RelayAlone ==
    ASSUME OrderInv, UNCHANGED <<sent, relay, inbox>>, broadcast'.message = broadcast.message
    PROVE  InboxInOrder' /\ \A m : RelayAt(m)' <=> RelayAt(m)
  BY DEF OrderInv, InboxInOrder, RelayAt

\* A hook that opens its next socket or loses one hands nothing over.
LEMMA HookStep ==
    ASSUME Typed, Typed', OrderInv, UNCHANGED <<sent, relay, inbox, last>>,
           broadcast'.message = broadcast.message,
           \A s \in Socket : wire'[s] = wire[s] \/ wire'[s] = <<>>,
           LiveWires'
    PROVE  OrderInv'
<1>1. InboxInOrder' /\ \A m : RelayAt(m)' <=> RelayAt(m)
  BY RelayAlone
<1>2. WiresInOrder'
  <2> SUFFICES ASSUME NEW s \in Socket
               PROVE  /\ Rising(wire'[s])
                      /\ \A i \in 1 .. Len(wire'[s]) :
                            wire'[s][i] \in 1 .. sent /\ RelayAt(wire'[s][i])
    BY <1>1 DEF WiresInOrder
  <2>1. CASE wire'[s] = wire[s]
    BY <2>1 DEF OrderInv, WiresInOrder
  <2>2. CASE wire'[s] = <<>>
    BY <2>2, EmptyIsInOrder
  <2>3. QED
    BY <2>1, <2>2
<1>3. ClientsInOrder'
  <2> SUFFICES ASSUME NEW c \in Client
               PROVE  /\ last[c] <= sent /\ RelayAt(last[c])
                      /\ \A s \in Socket : s[1] = c => NoneBefore(last[c], wire'[s])
    BY <1>1 DEF ClientsInOrder
  <2>1. /\ last[c] \in Nat /\ last[c] <= sent /\ RelayAt(last[c])
        /\ \A s \in Socket : s[1] = c => NoneBefore(last[c], wire[s])
    BY DEF OrderInv, ClientsInOrder, Typed, TypeOK
  <2>2. QED
    BY <2>1, EmptyIsInOrder
<1>4. QED
  BY <1>1, <1>2, <1>3 DEF OrderInv

LEMMA SendOrdered ==
    ASSUME Typed, Typed', OrderInv, NEW s \in Socket, Send(s)
    PROVE  OrderInv'
<1>1. /\ relay = "broadcasting"
      /\ UNCHANGED <<sent, relay, inbox, hook, opened, last>>
      /\ \/ Alive(s) /\ wire' = [wire EXCEPT ![s] = Append(wire[s], broadcast.message)]
         \/ wire' = wire
  BY DEF Send, hooks
<1>2. /\ broadcast'.message = broadcast.message
      /\ broadcast.message \in Nat /\ wire \in [Socket -> Seq(Nat)]
  BY DEF Send, Typed, TypeOK
<1>3. InboxInOrder' /\ \A m : RelayAt(m)' <=> RelayAt(m)
  BY <1>1, <1>2, RelayAlone
<1>4. broadcast.message \in 1 .. sent /\ RelayAt(broadcast.message)
  BY <1>1, <1>2 DEF OrderInv, InboxInOrder, RelayAt
<1>5. CASE wire' = wire
  <2>1. LiveWires' /\ WiresInOrder' /\ ClientsInOrder'
    BY <1>1, <1>3, <1>5 DEF OrderInv, LiveWires, Alive, WiresInOrder, ClientsInOrder
  <2>2. QED
    BY <1>3, <2>1 DEF OrderInv
<1>6. CASE Alive(s) /\ wire' = [wire EXCEPT ![s] = Append(wire[s], broadcast.message)]
  <2>1. /\ Rising(wire[s])
        /\ \A i \in 1 .. Len(wire[s]) : wire[s][i] \in 1 .. sent /\ RelayAt(wire[s][i])
    BY DEF OrderInv, WiresInOrder
  <2>2. \A i \in 1 .. Len(wire[s]) : wire[s][i] <= broadcast.message
    BY <1>1, <2>1 DEF RelayAt
  <2>3. wire[s] \in Seq(Nat) /\ wire'[s] = Append(wire[s], broadcast.message)
        /\ \A t \in Socket : t # s => wire'[t] = wire[t]
    BY <1>2, <1>6
  <2>4. Rising(wire'[s])
    BY <1>2, <2>1, <2>2, <2>3, AppendRises
  <2>5. \A i \in 1 .. Len(wire'[s]) : wire'[s][i] \in 1 .. sent /\ RelayAt(wire'[s][i])
    <3> SUFFICES ASSUME NEW i \in 1 .. Len(wire'[s])
                 PROVE  wire'[s][i] \in 1 .. sent /\ RelayAt(wire'[s][i])
      OBVIOUS
    <3>1. CASE i <= Len(wire[s])
      <4>1. i \in 1 .. Len(wire[s]) /\ wire'[s][i] = wire[s][i]
        BY <1>2, <2>3, <3>1
      <4>2. QED
        BY <2>1, <4>1
    <3>2. CASE ~ (i <= Len(wire[s]))
      <4>1. wire'[s][i] = broadcast.message
        BY <1>2, <2>3, <3>2
      <4>2. QED
        BY <1>4, <4>1
    <3>3. QED
      BY <3>1, <3>2
  <2>6. WiresInOrder'
    BY <1>1, <1>3, <2>3, <2>4, <2>5 DEF OrderInv, WiresInOrder
  <2>7. LiveWires'
    BY <1>1, <1>6, <2>3 DEF OrderInv, LiveWires, Alive
  <2>8. ClientsInOrder'
    <3> SUFFICES ASSUME NEW c \in Client, NEW t \in Socket, t[1] = c
                 PROVE  NoneBefore(last[c], wire'[t])
      BY <1>1, <1>3 DEF OrderInv, ClientsInOrder
    <3>1. /\ last[c] \in Nat /\ NoneBefore(last[c], wire[t])
          /\ last[c] <= broadcast.message
      BY <1>1 DEF OrderInv, ClientsInOrder, RelayAt, Typed, TypeOK
    <3>2. NoneBefore(last[c], Append(wire[t], broadcast.message))
      BY <1>2, <3>1, NoneBeforeAppend
    <3>3. QED
      BY <2>3, <3>1, <3>2
  <2>9. QED
    BY <1>3, <2>6, <2>7, <2>8 DEF OrderInv
<1>7. QED
  BY <1>1, <1>5, <1>6

LEMMA OnMessageOrdered ==
    ASSUME Typed, Typed', OrderInv, NEW c \in Client, OnMessage(c)
    PROVE  /\ OrderInv'
           /\ \E m \in 1 .. sent :
                  /\ last[c] <= m
                  /\ last' = [last EXCEPT ![c] = m]
<1> DEFINE s == SocketOf(c)
           m == Head(wire[s])
<1>1. s \in Socket /\ s[1] = c
  BY SocketOfHook DEF OnMessage, SocketOf
<1>2. /\ UNCHANGED <<sent, relay, inbox, broadcast, hook, opened>>
      /\ wire[s] # <<>> /\ wire[s] \in Seq(Nat)
      /\ wire' = [wire EXCEPT ![s] = Tail(wire[s])] /\ last' = [last EXCEPT ![c] = m]
  BY <1>1 DEF OnMessage, Typed, TypeOK
<1> HIDE DEF s
<1>3. InboxInOrder' /\ \A n : RelayAt(n)' <=> RelayAt(n)
  BY <1>2, RelayAlone
<1>4. /\ Rising(wire[s])
      /\ \A i \in 1 .. Len(wire[s]) : wire[s][i] \in 1 .. sent /\ RelayAt(wire[s][i])
  BY <1>1 DEF OrderInv, WiresInOrder
<1>5. /\ Rising(Tail(wire[s])) /\ m = wire[s][1] /\ NoneBefore(m, Tail(wire[s]))
      /\ \A i \in 1 .. Len(Tail(wire[s])) :
            Tail(wire[s])[i] = wire[s][i + 1] /\ i + 1 \in 1 .. Len(wire[s])
  BY <1>2, <1>4, TailRises
<1>6. 1 \in 1 .. Len(wire[s])
  BY <1>2
<1>7. m \in 1 .. sent /\ RelayAt(m)
  BY <1>4, <1>5, <1>6
<1>8. last[c] <= m
  <2>1. NoneBefore(last[c], wire[s])
    BY <1>1 DEF OrderInv, ClientsInOrder
  <2>2. QED
    BY <1>5, <1>6, <2>1 DEF NoneBefore
<1> HIDE DEF m
<1>9. wire'[s] = Tail(wire[s]) /\ \A t \in Socket : t # s => wire'[t] = wire[t]
  BY <1>1, <1>2 DEF Typed, TypeOK
<1>10. LiveWires'
  BY <1>2, <1>9 DEF OrderInv, LiveWires, Alive
<1>11. WiresInOrder'
  <2>1. \A i \in 1 .. Len(wire'[s]) : wire'[s][i] \in 1 .. sent /\ RelayAt(wire'[s][i])
    BY <1>4, <1>5, <1>9
  <2>2. QED
    BY <1>2, <1>3, <1>5, <1>9, <2>1 DEF OrderInv, WiresInOrder
<1>12. ClientsInOrder'
  <2> SUFFICES ASSUME NEW d \in Client
               PROVE  /\ last'[d] <= sent /\ RelayAt(last'[d])
                      /\ \A t \in Socket : t[1] = d => NoneBefore(last'[d], wire'[t])
    BY <1>2, <1>3 DEF ClientsInOrder
  <2>1. CASE d # c
    <3>1. last'[d] = last[d]
      BY <1>2, <2>1 DEF Typed, TypeOK
    <3>2. \A t \in Socket : t[1] = d => wire'[t] = wire[t]
      BY <1>1, <1>9, <2>1
    <3>3. QED
      BY <3>1, <3>2 DEF OrderInv, ClientsInOrder
  <2>2. CASE d = c
    <3>1. last'[d] = m
      BY <1>2, <2>2 DEF Typed, TypeOK
    <3>2. m <= sent
      BY <1>7 DEF Typed, TypeOK
    <3>3. ASSUME NEW t \in Socket, t[1] = c
          PROVE  NoneBefore(m, wire'[t])
      <4>1. CASE t = s
        BY <1>5, <1>9, <4>1
      <4>2. CASE t # s
        <5>1. ~ Alive(t)
          BY <1>1, <3>3, <4>2 DEF s, SocketOf, Alive, Socket
        <5>2. wire[t] = <<>>
          BY <5>1 DEF OrderInv, LiveWires
        <5>3. QED
          BY <1>7, <1>9, <4>2, <5>2, EmptyIsInOrder
      <4>3. QED
        BY <4>1, <4>2
    <3>4. QED
      BY <1>7, <2>2, <3>1, <3>2, <3>3
  <2>3. QED
    BY <2>1, <2>2
<1>13. OrderInv'
  BY <1>3, <1>10, <1>11, <1>12 DEF OrderInv
<1>14. QED
  BY <1>2, <1>7, <1>8, <1>13

\* The endpoint and the hook, whatever the socket's fate.
LEMMA HookOrdered ==
    ASSUME Typed, Typed', OrderInv, NEW c \in Client,
           Connect(c) \/ OnOpen(c) \/ OnClose(c) \/ Unmount(c)
    PROVE  OrderInv'
<1>1. UNCHANGED <<sent, relay, inbox, broadcast, last>>
  BY DEF Connect, OnOpen, OnClose, Unmount
<1>2. /\ wire \in [Socket -> Seq(Nat)] /\ hook \in [Client -> {"closed", "connecting", "open", "unmounted"}]
      /\ opened \in [Client -> 0 .. MaxSockets]
      /\ \A s \in Socket : s[1] \in Client /\ s = <<s[1], s[2]>>
  <2>1. \A s \in Socket : s[1] \in Client /\ s = <<s[1], s[2]>>
    BY DEF Socket
  <2>2. QED
    BY <2>1 DEF Typed, TypeOK
<1>3. \A s \in Socket : wire'[s] = wire[s] \/ wire'[s] = <<>>
  <2>1. CASE Connect(c) \/ OnOpen(c)
    BY <2>1 DEF Connect, OnOpen
  <2>2. CASE OnClose(c)
    BY <1>2, <2>2 DEF OnClose
  <2>3. CASE Unmount(c)
    BY <1>2, <2>3 DEF Unmount
  <2>4. QED
    BY <2>1, <2>2, <2>3
<1>4. LiveWires'
  <2> SUFFICES ASSUME NEW s \in Socket, wire'[s] # <<>>
               PROVE  Alive(s)'
    BY DEF LiveWires
  <2>1. wire[s] # <<>> /\ Alive(s)
    BY <1>3 DEF OrderInv, LiveWires
  <2>2. CASE s[1] # c
    BY <1>2, <2>1, <2>2 DEF Alive, Connect, OnOpen, OnClose, Unmount
  <2>3. CASE s[1] = c
    <3>1. hook[c] \in {"connecting", "open"} /\ opened[c] = s[2]
      BY <2>1, <2>3 DEF Alive
    <3>2. ~ Connect(c)
      BY <3>1 DEF Connect
    <3>3. ~ OnClose(c)
      <4>1. s = SocketOf(c)
        BY <1>2, <2>3, <3>1 DEF SocketOf
      <4>2. QED
        BY <1>2, <4>1 DEF OnClose
    <3>4. ~ Unmount(c)
      BY <2>3 DEF Unmount
    <3>5. OnOpen(c)
      BY <3>2, <3>3, <3>4
    <3>6. QED
      BY <1>2, <2>3, <3>1, <3>5 DEF OnOpen, Alive
  <2>4. QED
    BY <2>2, <2>3
<1>5. QED
  BY <1>1, <1>3, <1>4, HookStep

LEMMA EndpointOrdered ==
    ASSUME Typed, Typed', OrderInv,
           UNCHANGED <<sent, relay, inbox, wire, hook, opened, last>>,
           broadcast'.message = broadcast.message
    PROVE  OrderInv'
<1>1. LiveWires'
  BY DEF OrderInv, LiveWires, Alive
<1>2. QED
  BY <1>1, HookStep

LEMMA NextOrdered ==
    ASSUME Typed, OrderInv, [Next]_vars
    PROVE  Typed' /\ OrderInv'
<1>0. Typed'
  BY NextTyped DEF OrderInv
<1>1. CASE Publish
  BY <1>0, <1>1, PublishOrdered
<1>2. CASE Subscribe \/ EndBroadcast \/ BroadcastRaises
  BY <1>0, <1>2, EndBroadcastOrdered
<1>3. CASE StartBroadcast
  BY <1>0, <1>3, StartBroadcastOrdered
<1>4. ASSUME NEW s \in Socket, Send(s)
      PROVE  OrderInv'
  BY <1>0, <1>4, SendOrdered
<1>5. ASSUME NEW s \in Socket, Discard(s)
      PROVE  OrderInv'
  <2>1. broadcast'.message = broadcast.message
    BY <1>5 DEF Discard, Typed, TypeOK
  <2>2. QED
    BY <1>0, <1>5, <2>1, EndpointOrdered DEF Discard, hooks
<1>6. ASSUME NEW c \in Client, Admit(c)
      PROVE  OrderInv'
  <2>1. broadcast'.message = broadcast.message
    BY <1>6 DEF Admit, Typed, TypeOK
  <2>2. QED
    BY <1>0, <1>6, <2>1, EndpointOrdered DEF Admit, hooks
<1>7. ASSUME NEW c \in Client, Connect(c) \/ OnOpen(c) \/ OnClose(c) \/ Unmount(c)
      PROVE  OrderInv'
  BY <1>0, <1>7, HookOrdered
<1>8. ASSUME NEW c \in Client, OnMessage(c)
      PROVE  OrderInv'
  BY <1>0, <1>8, OnMessageOrdered
<1>9. CASE UNCHANGED vars
  BY <1>0, <1>9, EndpointOrdered DEF vars
<1>10. QED
  BY <1>0, <1>1, <1>2, <1>3, <1>4, <1>5, <1>6, <1>7, <1>8, <1>9 DEF Next

----------------------------------------------------------------------------
\* THEOREMS

\* Sockets, subscriptions and hooks keep their shape, a connected hook has a
\* socket, and everything on its way is in the order of publication: on the
\* subscription, on each socket, and between them and what a client heard last
\* (redis_relay.py, manager.py, useLiveChannel.ts).
THEOREM OrderIsKept == Spec => [](Typed /\ OrderInv)
<1>1. Init => Typed /\ OrderInv
  BY InitTyped, InitOrdered
<1>2. Typed /\ OrderInv /\ [Next]_vars => (Typed /\ OrderInv)'
  BY NextOrdered
<1>3. QED
  BY <1>1, <1>2, PTL DEF Spec

\* The variables of the relay and of its clients keep their types; a message
\* is being broadcast exactly while the relay iterates over its connections.
THEOREM TypeCorrect == Spec => []TypeOK
<1>1. Typed /\ OrderInv => TypeOK
  BY DEF Typed
<1>2. QED
  BY <1>1, OrderIsKept, PTL

\* A step of the relay, of the endpoint or of a hook is a step of the feed
\* that may lose messages and repeat the last one, or none the feed sees.
LEMMA NextIsFeedStep ==
    ASSUME Typed, OrderInv, [Next]_vars
    PROVE  [Feed!Next]_<<sent, last>>
<1>0. Typed'
  BY NextTyped DEF OrderInv
<1>1. CASE Publish
  BY <1>1 DEF Publish, hooks, Feed!Next, Feed!Publish
<1>2. ASSUME NEW c \in Client, OnMessage(c)
      PROVE  Feed!Next
  <2>1. PICK m \in 1 .. sent : last[c] <= m /\ last' = [last EXCEPT ![c] = m]
    BY <1>0, <1>2, OnMessageOrdered
  <2>2. m <= sent /\ sent' = sent
    BY <1>2 DEF OnMessage, Typed, TypeOK
  <2>3. Feed!HandOver(c, m)
    BY <2>1, <2>2 DEF Feed!HandOver
  <2>4. QED
    BY <2>3 DEF Feed!Next
<1>3. ASSUME ~ Publish, \A c \in Client : ~ OnMessage(c)
      PROVE  UNCHANGED <<sent, last>>
  <2>1. CASE Subscribe \/ StartBroadcast \/ EndBroadcast \/ BroadcastRaises
    BY <2>1 DEF hooks, Subscribe, StartBroadcast, EndBroadcast, BroadcastRaises
  <2>2. ASSUME NEW s \in Socket, Send(s) \/ Discard(s)
        PROVE  UNCHANGED <<sent, last>>
    BY <2>2 DEF hooks, Send, Discard
  <2>3. ASSUME NEW c \in Client,
               Admit(c) \/ Connect(c) \/ OnOpen(c) \/ OnClose(c) \/ Unmount(c)
        PROVE  UNCHANGED <<sent, last>>
    BY <2>3 DEF hooks, Admit, Connect, OnOpen, OnClose, Unmount
  <2>4. CASE UNCHANGED vars
    BY <2>4 DEF vars
  <2>5. QED
    BY <1>3, <2>1, <2>2, <2>3, <2>4 DEF Next
<1>4. QED
  BY <1>1, <1>2, <1>3

\* Every mounted hook is handed published messages in the order of their
\* publication, whichever connections, subscriptions and pages come and go:
\* the relay implements the feed that may lose messages.
THEOREM RelayImplementsLossyFeed == Spec => ImplementsLossyFeed
<1>1. Init => Feed!Init
  BY DEF Init, Feed!Init
<1>2. Typed /\ OrderInv /\ [Next]_vars => [Feed!Next]_<<sent, last>>
  BY NextIsFeedStep
<1>3. QED
  BY <1>1, <1>2, OrderIsKept, PTL DEF Spec, ImplementsLossyFeed, Feed!Spec
=============================================================================
