----------------------------- MODULE LiveRelay ------------------------------
(***************************************************************************)
(* One live channel from Redis to the browsers: the relay task             *)
(* (backend/app/websockets/redis_relay.py), the set of connections it      *)
(* broadcasts over (manager.py, routes.py) and each client's reconnecting  *)
(* hook (frontend/src/hooks/useLiveChannel.ts).                            *)
(*                                                                         *)
(* broadcast awaits a send for every member of the live set, and a client  *)
(* may connect or disconnect meanwhile: Python's set iterator raises when  *)
(* the size it finds is not the size it started with.  The exception ends  *)
(* the subscription; the relay sleeps and subscribes again, and what was   *)
(* published in between is lost.  When somebody left and somebody joined   *)
(* the size is the same and the iterator goes on over the table's slots:   *)
(* the newcomer may sit behind it, and if the table was resized to take it *)
(* any member may, so one is passed over or sent the message twice.        *)
(*                                                                         *)
(* A socket is a pair <<client, n>>: its client's n-th.  Abstracted: the   *)
(* payloads (message m is the m-th published), the length of the pauses    *)
(* (useLiveChannel.ts:52, redis_relay.py:43).                              *)
(***************************************************************************)
EXTENDS Naturals, Sequences, SequencesExt, FiniteSets

CONSTANTS Client, MaxMessages, MaxSockets

ASSUME BoundAssumption == MaxMessages \in Nat /\ MaxSockets \in Nat \ {0}

VARIABLES
    sent,         \* messages published on the channel
    relay,        \* "subscribed", "broadcasting" or "sleeping"
    inbox,        \* messages the subscription holds for the relay
    broadcast,    \* the message being sent, the members ahead of the iterator,
                  \* those that refused it, the size of the set at the start,
                  \* and whether somebody has joined since
    connections,  \* the manager's set for the channel
    wire,         \* messages on their way on each socket
    hook,         \* each client's connection state, or "unmounted"
    opened,       \* how many sockets each client has opened
    last          \* the last message each client handed to onMessage

vars == <<sent, relay, inbox, broadcast, connections, wire, hook, opened, last>>
hooks == <<hook, opened, last>>

Socket == Client \X (1 .. MaxSockets)
SocketOf(c) == <<c, opened[c]>>

\* Whether a socket's browser end is still there.
Alive(s) == opened[s[1]] = s[2] /\ hook[s[1]] \in {"connecting", "open"}

Idle == [message |-> 0, ahead |-> {}, dead |-> {}, size |-> 0, joined |-> FALSE]

Init ==
    /\ sent = 0
    /\ relay = "sleeping" /\ inbox = <<>> /\ broadcast = Idle
    /\ connections = {} /\ wire = [s \in Socket |-> <<>>]
    /\ hook = [c \in Client |-> "closed"] /\ opened = [c \in Client |-> 0]
    /\ last = [c \in Client |-> 0]

----------------------------------------------------------------------------
\* Redis and the relay task.

\* Redis keeps a publication for a subscriber, and for nobody else.
Publish ==
    /\ sent < MaxMessages
    /\ sent' = sent + 1
    /\ inbox' = IF relay = "sleeping" THEN inbox ELSE Append(inbox, sent + 1)
    /\ UNCHANGED <<relay, broadcast, connections, wire, hooks>>

\* _relay_forever calls relay_channel, the first time or after its pause.
Subscribe ==
    /\ relay = "sleeping"
    /\ relay' = "subscribed"
    /\ UNCHANGED <<sent, inbox, broadcast, connections, wire, hooks>>

\* listen() yields a message and broadcast starts to iterate; over an empty
\* set it ends before anybody else runs.
StartBroadcast ==
    /\ relay = "subscribed"
    /\ inbox # <<>>
    /\ inbox' = Tail(inbox)
    /\ IF connections = {} THEN UNCHANGED <<relay, broadcast>>
       ELSE /\ relay' = "broadcasting"
            /\ broadcast' = [Idle EXCEPT !.message = Head(inbox), !.ahead = connections,
                                         !.size = Cardinality(connections)]
    /\ UNCHANGED <<sent, connections, wire, hooks>>

SizeUnchanged == Cardinality(connections) = broadcast.size

\* await ws.send_text to a member ahead of the iterator; a socket whose browser is
\* gone may refuse the send, or take it and lose it.
Send(s) ==
    /\ relay = "broadcasting"
    /\ s \in broadcast.ahead
    /\ SizeUnchanged
    /\ \/ /\ Alive(s)
          /\ wire' = [wire EXCEPT ![s] = Append(@, broadcast.message)]
          /\ broadcast' = [broadcast EXCEPT !.ahead = @ \ {s}]
       \/ /\ ~Alive(s)
          /\ wire' = wire
          /\ \E dead \in {{}, {s}} :
                broadcast' = [broadcast EXCEPT !.ahead = @ \ {s}, !.dead = @ \cup dead]
    /\ UNCHANGED <<sent, relay, inbox, connections, hooks>>

\* No member is ahead of the iterator: the dead ones are dropped, listen() goes on.
EndBroadcast_AfterFirst ==   \* mutant: one send ends the loop
    /\ relay = "broadcasting"
    /\ SizeUnchanged
    /\ broadcast.ahead # connections
    /\ connections' = connections \ broadcast.dead
    /\ relay' = "subscribed"
    /\ broadcast' = Idle
    /\ UNCHANGED <<sent, inbox, wire, hooks>>

EndBroadcast ==
    /\ relay = "broadcasting"
    /\ SizeUnchanged
    /\ broadcast.ahead = {}
    /\ connections' = connections \ broadcast.dead
    /\ relay' = "subscribed"
    /\ broadcast' = Idle
    /\ UNCHANGED <<sent, inbox, wire, hooks>>

\* RuntimeError: Set changed size during iteration.  The finally clause
\* unsubscribes, and the messages already received by the client are dropped.
Dropped_Requeued == Append(inbox, broadcast.message)   \* mutant
Dropped == <<>>

Ended_Midway == [broadcast EXCEPT !.size = 0]   \* mutant: the iterator is kept
Ended == Idle

BroadcastRaises ==
    /\ relay = "broadcasting"
    /\ ~SizeUnchanged
    /\ relay' = "sleeping"
    /\ broadcast' = Ended
    /\ inbox' = Dropped
    /\ UNCHANGED <<sent, connections, wire, hooks>>

----------------------------------------------------------------------------
\* The endpoint: accept, add to the set, wait for the disconnect.

\* manager.connect, after the handshake: until then a message misses the socket.
\* Under a broadcast it takes a slot on either side of the iterator, and the set's
\* table may be rebuilt to hold it: who is ahead then is up to the hashes.
Admit(c) ==
    /\ hook[c] = "open"
    /\ SocketOf(c) \notin connections
    /\ connections' = connections \cup {SocketOf(c)}
    /\ IF relay = "broadcasting"
       THEN \E ahead \in SUBSET connections' :
                broadcast' = [broadcast EXCEPT !.ahead = ahead, !.joined = TRUE]
       ELSE broadcast' = broadcast
    /\ UNCHANGED <<sent, relay, inbox, wire, hooks>>

\* receive_text raises WebSocketDisconnect; an iterator finds the slot empty.
Discard(s) ==
    /\ s \in connections
    /\ ~Alive(s)
    /\ connections' = connections \ {s}
    /\ broadcast' = [broadcast EXCEPT !.ahead = @ \ {s}]
    /\ UNCHANGED <<sent, relay, inbox, wire, hooks>>

----------------------------------------------------------------------------
\* The hook.

\* connect(): on mount, and when the reconnect timer fires.
Connect_Once(c) ==   \* mutant: the timer is never set
    /\ hook[c] = "closed"
    /\ opened[c] = 0
    /\ hook' = [hook EXCEPT ![c] = "connecting"]
    /\ opened' = [opened EXCEPT ![c] = @ + 1]
    /\ UNCHANGED <<sent, relay, inbox, broadcast, connections, wire, last>>

Connect(c) ==
    /\ hook[c] = "closed"
    /\ opened[c] < MaxSockets
    /\ hook' = [hook EXCEPT ![c] = "connecting"]
    /\ opened' = [opened EXCEPT ![c] = @ + 1]
    /\ UNCHANGED <<sent, relay, inbox, broadcast, connections, wire, last>>

OnOpen(c) ==
    /\ hook[c] = "connecting"
    /\ hook' = [hook EXCEPT ![c] = "open"]
    /\ UNCHANGED <<sent, relay, inbox, broadcast, connections, wire, opened, last>>

OnMessage(c) ==
    /\ hook[c] = "open"
    /\ wire[SocketOf(c)] # <<>>
    /\ last' = [last EXCEPT ![c] = Head(wire[SocketOf(c)])]
    /\ wire' = [wire EXCEPT ![SocketOf(c)] = Tail(@)]
    /\ UNCHANGED <<sent, relay, inbox, broadcast, connections, hook, opened>>

\* onclose: the connection is lost with all that was on it, and setTimeout
\* will connect again.
OnClose(c) ==
    /\ hook[c] \in {"connecting", "open"}
    /\ opened[c] < MaxSockets
    /\ hook' = [hook EXCEPT ![c] = "closed"]
    /\ wire' = [wire EXCEPT ![SocketOf(c)] = <<>>]
    /\ UNCHANGED <<sent, relay, inbox, broadcast, connections, opened, last>>

\* The cleanup of the effect: cancelled, the timer cleared, the socket closed.
Unmount(c) ==
    /\ hook[c] # "unmounted"
    /\ hook' = [hook EXCEPT ![c] = "unmounted"]
    /\ wire' = [s \in Socket |-> IF s[1] = c THEN <<>> ELSE wire[s]]
    /\ UNCHANGED <<sent, relay, inbox, broadcast, connections, opened, last>>

Next ==
    \/ Publish \/ Subscribe \/ StartBroadcast \/ EndBroadcast \/ BroadcastRaises
    \/ \E s \in Socket : Send(s) \/ Discard(s)
    \/ \E c \in Client :
          Admit(c) \/ Connect(c) \/ OnOpen(c) \/ OnMessage(c) \/ OnClose(c) \/ Unmount(c)

Spec == Init /\ [][Next]_vars

\* The two event loops run what is ready.  Nobody is obliged to publish, and
\* no connection to break or page to leave.
Fairness ==
    /\ WF_vars(Subscribe) /\ WF_vars(StartBroadcast)
    /\ WF_vars(\E s \in Socket : Send(s))
    /\ WF_vars(EndBroadcast) /\ WF_vars(BroadcastRaises)
    /\ \A s \in Socket : WF_vars(Discard(s))
    /\ \A c \in Client :
          WF_vars(Admit(c)) /\ WF_vars(Connect(c)) /\ WF_vars(OnOpen(c)) /\ WF_vars(OnMessage(c))

FairSpec == Spec /\ Fairness

----------------------------------------------------------------------------
\* PROPERTIES

TypeOK ==
    /\ sent \in Nat
    /\ relay \in {"subscribed", "broadcasting", "sleeping"} /\ inbox \in Seq(Nat)
    /\ broadcast \in [message : Nat, ahead : SUBSET Socket, dead : SUBSET Socket,
                     size : Nat, joined : BOOLEAN]
    /\ broadcast.message # 0 <=> relay = "broadcasting"
    /\ connections \in SUBSET Socket
    /\ wire \in [Socket -> Seq(Nat)]
    /\ hook \in [Client -> {"closed", "connecting", "open", "unmounted"}]
    /\ opened \in [Client -> 0 .. MaxSockets]
    /\ last \in [Client -> Nat]

\* Through dropped connections, new sockets and lost subscriptions each client
\* hears published messages in the order of publication.  (One may be sent to
\* a client again: somebody may leave the set and somebody join it during a
\* broadcast, which does not change the size.)
Feed == INSTANCE LossyFeed
ImplementsLossyFeed == Feed!Spec

JoinedDuring(m) == broadcast.message = m /\ broadcast.joined

\* A message the relay has for a connected client reaches it, unless the
\* subscription or that connection is lost, or somebody joins during that
\* message's broadcast: a client that leaves costs the others a broadcast only by
\* way of a new subscription.
HeardWhileConnected ==
    \A c \in Client, m \in 1 .. MaxMessages :
        /\ hook[c] = "open" /\ SocketOf(c) \in connections
        /\ relay # "sleeping" /\ Contains(inbox, m)
        ~> last[c] >= m \/ relay = "sleeping" \/ hook[c] # "open" \/ JoinedDuring(m)

\* False of the code, of which redis_relay.py:1-4 says that it rebroadcasts each
\* message to the channel's connected clients: the set is iterated while it
\* changes (manager.py:24), so a leave and a join during one broadcast, which
\* keep its size, may move a client out of the iterator's way.
HeardByAllConnected ==
    \A c \in Client, m \in 1 .. MaxMessages :
        /\ hook[c] = "open" /\ SocketOf(c) \in connections
        /\ relay # "sleeping" /\ Contains(inbox, m)
        ~> last[c] >= m \/ relay = "sleeping" \/ hook[c] # "open"

\* A mounted client comes back to its feed, whoever dropped the connection.
HookRecovers ==
    \A c \in Client : hook[c] = "closed" ~> hook[c] \in {"open", "unmounted"}

=============================================================================
