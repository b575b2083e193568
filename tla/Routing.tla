------------------------------- MODULE Routing -------------------------------
(***************************************************************************)
(* How a client's TCP stream finds its connection, and what the connection *)
(* does with it (gameserver/src/network: tcp.rs, router.rs, connection.rs).*)
(*                                                                         *)
(* Every accepted socket has a ConnectionHandler task: it reads the token, *)
(* looks it up in the RoutingTable, answers the client, and passes the     *)
(* stream on through the sender it found.  Every Connection, polled by the *)
(* client handler that owns it, holds the receiving end of one routing     *)
(* channel, at most one stream, and a buffer of messages.                  *)
(*                                                                         *)
(* A connection is known by the order of registration, a stream by a       *)
(* number.  Messages are numbered per connection in the order they are     *)
(* queued.  What the client sends after its token is in ClientHandlers,    *)
(* the bytes on the wire are left to TCP.  The lock of the table is held   *)
(* for one lookup or one insertion: both are single steps.                 *)
(***************************************************************************)
EXTENDS Naturals, Sequences, FiniteSets

CONSTANTS
    Tokens,          \* the tokens clients may present
    MaxConnections,  \* bound on the connections ever created
    MaxStreams,      \* bound on the sockets ever accepted
    MaxMessages      \* bound on the messages queued per connection

ASSUME RoutingAssumption ==
    /\ MaxConnections \in Nat
    /\ MaxStreams \in Nat
    /\ MaxMessages \in Nat

Connections == 1 .. MaxConnections
Streams     == 1 .. MaxStreams
None        == 0     \* no stream, no connection

VARIABLES
    token,             \* the tokens of the connections created so far
    status,            \* per connection: whether its handler task runs
    routing_channels,  \* RoutingTable: token -> the connection that holds
                       \* the receiving end of the channel
    routing_chan,      \* per connection: streams sent to it
    stream,            \* per connection: its StreamState
    buffer,            \* per connection: messages not yet on a stream
    queued,            \* per connection: number of messages queued so far
    handler,           \* per stream: HandlerState of its ConnectionHandler
    claim,             \* per stream: the token its client presents
    handle,            \* per stream: whose sender an Accepting holds
    broken,            \* the streams that failed or that the client closed
    match_over,        \* the match has dropped the event channel
    told,              \* history: last connection event sent to the match
    adopted,           \* history: the streams a connection had, in order
    written,           \* history: the messages put on a stream
    disconnects        \* history: streams a connection lost to an error

tableVars   == <<token, routing_channels>>
socketVars  == <<handler, claim, handle>>
historyVars == <<told, adopted, written, disconnects>>
vars == <<tableVars, status, routing_chan, stream, buffer, queued, socketVars,
          broken, match_over, historyVars>>

Insert(map, k, v) == [x \in DOMAIN map \union {k} |-> IF x = k THEN v ELSE map[x]]

Init ==
    /\ token = <<>>
    /\ status = [c \in Connections |-> "none"]
    /\ routing_channels = [t \in {} |-> None]
    /\ routing_chan = [c \in Connections |-> <<>>]
    /\ stream = [c \in Connections |-> None]
    /\ buffer = [c \in Connections |-> <<>>]
    /\ queued = [c \in Connections |-> 0]
    /\ handler = [s \in Streams |-> "none"]
    /\ claim = [s \in {} |-> None]
    /\ handle = [s \in Streams |-> None]
    /\ broken = {}
    /\ match_over = FALSE
    /\ told = [c \in Connections |-> "disconnected"]
    /\ adopted = [c \in Connections |-> <<>>]
    /\ written = [s \in Streams |-> <<>>]
    /\ disconnects = [c \in Connections |-> 0]
-----------------------------------------------------------------------------
(* The match and the clients *)

\* Connection::new registers the token; a sender that was there is dropped.
Register(t) ==
    /\ Len(token) < MaxConnections
    /\ LET c == Len(token) + 1 IN
        /\ token' = Append(token, t)
        /\ status' = [status EXCEPT ![c] = "running"]
        /\ routing_channels' = Insert(routing_channels, t, c)
    /\ UNCHANGED <<routing_chan, stream, buffer, queued, socketVars, broken,
                   match_over, historyVars>>

\* Connection::send, while the match is there to ask for it.
Send(c) ==
    /\ status[c] = "running" /\ ~match_over
    /\ queued[c] < MaxMessages
    /\ queued' = [queued EXCEPT ![c] = @ + 1]
    /\ buffer' = [buffer EXCEPT ![c] = Append(@, queued[c] + 1)]
    /\ UNCHANGED <<tableVars, status, routing_chan, stream, socketVars, broken,
                   match_over, historyVars>>

MatchEnds ==
    /\ ~match_over
    /\ match_over' = TRUE
    /\ UNCHANGED <<tableVars, status, routing_chan, stream, buffer, queued,
                   socketVars, broken, historyVars>>

\* A client connects with a token; Listener::handle_connections spawns a task.
Incoming(s, t) ==
    /\ handler[s] = "none"
    /\ \A r \in Streams : r < s => handler[r] # "none"
    /\ handler' = [handler EXCEPT ![s] = "waiting"]
    /\ claim' = Insert(claim, s, t)
    /\ UNCHANGED <<tableVars, status, routing_chan, stream, buffer, queued,
                   handle, broken, match_over, historyVars>>

\* The client closes the socket, or the network does.
Break(s) ==
    /\ handler[s] # "none" /\ s \notin broken
    /\ broken' = broken \union {s}
    /\ UNCHANGED <<tableVars, status, routing_chan, stream, buffer, queued,
                   socketVars, match_over, historyVars>>
-----------------------------------------------------------------------------
(* ConnectionHandler *)

\* Mutant: the sender is moved out of the table, not cloned.
routes_left_taken(t) == [u \in DOMAIN routing_channels \ {t} |-> routing_channels[u]]

\* RoutingTable::get clones the sender, which stays in the table.
routes_left(t) == routing_channels

\* Mutant: the connection registered last is taken, whatever the token.
get_latest(t) == Len(token)

get(t) == routing_channels[t]

\* Waiting: the token is read and looked up.
Lookup(s) ==
    /\ handler[s] = "waiting"
    /\ IF claim[s] \in DOMAIN routing_channels
       THEN /\ handler' = [handler EXCEPT ![s] = "accepting"]
            /\ handle' = [handle EXCEPT ![s] = get(claim[s])]
            /\ routing_channels' = routes_left(claim[s])
       ELSE /\ handler' = [handler EXCEPT ![s] = "refusing"]
            /\ UNCHANGED <<handle, routing_channels>>
    /\ UNCHANGED <<token, status, routing_chan, stream, buffer, queued, claim,
                   broken, match_over, historyVars>>

\* Mutant: the task keeps the sender.
Accept_kept(s) ==
    /\ handler[s] = "accepting"
    /\ IF status[handle[s]] = "running"
       THEN /\ handler' = [handler EXCEPT ![s] = "done"]
            /\ routing_chan' = [routing_chan EXCEPT ![handle[s]] = Append(@, s)]
       ELSE /\ handler' = [handler EXCEPT ![s] = "panicked"]
            /\ UNCHANGED routing_chan
    /\ UNCHANGED <<tableVars, status, stream, buffer, queued, claim, handle,
                   broken, match_over, historyVars>>

\* Accepting: the client was told of the success, the stream is passed on, and
\* the sender is dropped.  If the receiver is gone, the unwrap panics.
Accept(s) ==
    /\ handler[s] = "accepting"
    /\ IF status[handle[s]] = "running"
       THEN /\ handler' = [handler EXCEPT ![s] = "done"]
            /\ routing_chan' = [routing_chan EXCEPT ![handle[s]] = Append(@, s)]
       ELSE /\ handler' = [handler EXCEPT ![s] = "panicked"]
            /\ UNCHANGED routing_chan
    /\ handle' = [handle EXCEPT ![s] = None]
    /\ UNCHANGED <<tableVars, status, stream, buffer, queued, claim, broken,
                   match_over, historyVars>>

\* Refusing: the error is sent, the socket is closed.
Refuse(s) ==
    /\ handler[s] = "refusing"
    /\ handler' = [handler EXCEPT ![s] = "done"]
    /\ broken' = broken \union {s}
    /\ UNCHANGED <<tableVars, status, routing_chan, stream, buffer, queued,
                   claim, handle, match_over, historyVars>>

\* An error on the socket, or its end, panics the task; so does a request that
\* does not decode, which counts as a broken socket here.
HandshakeFails(s) ==
    /\ s \in broken
    /\ handler[s] \in {"waiting", "accepting", "refusing"}
    /\ handler' = [handler EXCEPT ![s] = "panicked"]
    /\ handle' = [handle EXCEPT ![s] = None]
    /\ UNCHANGED <<tableVars, status, routing_chan, stream, buffer, queued,
                   claim, broken, match_over, historyVars>>
-----------------------------------------------------------------------------
(* Connection::poll, called by the running handler of c *)

\* The handler dispatches what poll returned; without a match that panics.
Tell(c, content) ==
    IF match_over
    THEN status' = [status EXCEPT ![c] = "no match"] /\ UNCHANGED told
    ELSE told' = [told EXCEPT ![c] = content] /\ UNCHANGED status

\* Mutant: a stream is only taken while there is none.
Adopt_first(c) ==
    /\ status[c] = "running"
    /\ routing_chan[c] # <<>> /\ stream[c] = None
    /\ stream' = [stream EXCEPT ![c] = Head(routing_chan[c])]
    /\ routing_chan' = [routing_chan EXCEPT ![c] = Tail(@)]
    /\ adopted' = [adopted EXCEPT ![c] = Append(@, Head(routing_chan[c]))]
    /\ Tell(c, "connected")
    /\ UNCHANGED <<tableVars, buffer, queued, socketVars, broken, match_over,
                   written, disconnects>>

\* The next stream of the routing channel replaces the one there is, if any,
\* which is dropped without an event.
Adopt(c) ==
    /\ status[c] = "running"
    /\ routing_chan[c] # <<>>
    /\ stream' = [stream EXCEPT ![c] = Head(routing_chan[c])]
    /\ routing_chan' = [routing_chan EXCEPT ![c] = Tail(@)]
    /\ adopted' = [adopted EXCEPT ![c] = Append(@, Head(routing_chan[c]))]
    /\ Tell(c, "connected")
    /\ UNCHANGED <<tableVars, buffer, queued, socketVars, broken, match_over,
                   written, disconnects>>

\* A routing channel is closed when no sender is left: none in the table and
\* none in a task that is accepting.
Closed(c) ==
    /\ \A t \in DOMAIN routing_channels : routing_channels[t] # c
    /\ \A s \in Streams : handle[s] # c

\* panic!("router channel closed")
RouterChannelClosed(c) ==
    /\ status[c] = "running"
    /\ routing_chan[c] = <<>>
    /\ Closed(c)
    /\ status' = [status EXCEPT ![c] = "router channel closed"]
    /\ UNCHANGED <<tableVars, routing_chan, stream, buffer, queued, socketVars,
                   broken, match_over, historyVars>>

\* Mutant: the message stays in the buffer until it is known to have arrived.
buffer_left_kept(c) == buffer[c]

\* self.buffer.remove(0)
buffer_left(c) == Tail(buffer[c])

\* Mutant: one message is flushed, the rest waits for the next stream.
Flush_once(c) ==
    /\ status[c] = "running"
    /\ stream[c] # None
    /\ buffer[c] # <<>> /\ written[stream[c]] = <<>>
    /\ buffer' = [buffer EXCEPT ![c] = buffer_left(c)]
    /\ written' = [written EXCEPT ![stream[c]] = Append(@, Head(buffer[c]))]
    /\ UNCHANGED <<tableVars, status, routing_chan, stream, queued, socketVars,
                   broken, match_over, told, adopted, disconnects>>

\* One round of flush_buffer that the stream accepts, broken or not.
Flush(c) ==
    /\ status[c] = "running"
    /\ stream[c] # None
    /\ buffer[c] # <<>>
    /\ buffer' = [buffer EXCEPT ![c] = buffer_left(c)]
    /\ written' = [written EXCEPT ![stream[c]] = Append(@, Head(buffer[c]))]
    /\ UNCHANGED <<tableVars, status, routing_chan, stream, queued, socketVars,
                   broken, match_over, told, adopted, disconnects>>

\* Mutant: the state is left Connected.
Disconnect_kept(c) ==
    /\ UNCHANGED stream
    /\ disconnects' = [disconnects EXCEPT ![c] = @ + 1]
    /\ Tell(c, "disconnected")

Disconnect(c) ==
    /\ stream' = [stream EXCEPT ![c] = None]
    /\ disconnects' = [disconnects EXCEPT ![c] = @ + 1]
    /\ Tell(c, "disconnected")

\* Mutant: the ConnectionState goes with the stream.
buffer_rest_none(c) == {<<>>}

\* When it is start_send that fails, the message it was given is already out of
\* the buffer.
buffer_rest(c) == {buffer[c]} \union
                  {Tail(b) : b \in {buffer[c]} \ {<<>>}}

\* A write or a read fails, or the stream has ended.
StreamFails(c) ==
    /\ status[c] = "running"
    /\ stream[c] \in broken
    /\ Disconnect(c)
    /\ \E rest \in buffer_rest(c) : buffer' = [buffer EXCEPT ![c] = rest]
    /\ UNCHANGED <<tableVars, routing_chan, queued, socketVars, broken,
                   match_over, adopted, written>>
-----------------------------------------------------------------------------
Handshake(s) == Lookup(s) \/ Accept(s) \/ Refuse(s) \/ HandshakeFails(s)

Poll(c) == Adopt(c) \/ RouterChannelClosed(c) \/ Flush(c) \/ StreamFails(c)

Next ==
    \/ \E t \in Tokens : Register(t) \/ \E s \in Streams : Incoming(s, t)
    \/ \E s \in Streams : Break(s) \/ Handshake(s)
    \/ \E c \in Connections : Send(c) \/ Poll(c)
    \/ MatchEnds

Spec == Init /\ [][Next]_vars

\* The executor runs the tasks: a socket that is readable wakes the task that
\* waits for it, a stream sent to a routing channel wakes its connection.
\* Adopt, StreamFails and RouterChannelClosed are what a poll finds first.
Fairness ==
    /\ \A s \in Streams : WF_vars(Handshake(s))
    /\ \A c \in Connections :
        /\ WF_vars(Adopt(c) \/ RouterChannelClosed(c))
        /\ WF_vars(Flush(c) \/ StreamFails(c))

FairSpec == Spec /\ Fairness
-----------------------------------------------------------------------------
(* Properties *)

\* Types of the state of the table, the tasks and the connections.
TypeOK ==
    /\ token \in Seq(Tokens) /\ Len(token) <= MaxConnections
    /\ status \in [Connections ->
           {"none", "running", "router channel closed", "no match"}]
    /\ DOMAIN routing_channels \subseteq Tokens
    /\ \A t \in DOMAIN routing_channels : routing_channels[t] \in 1 .. Len(token)
    /\ routing_chan \in [Connections -> Seq(Streams)]
    /\ stream \in [Connections -> Streams \union {None}]
    /\ buffer \in [Connections -> Seq(1 .. MaxMessages)]
    /\ queued \in [Connections -> 0 .. MaxMessages]
    /\ handler \in [Streams -> {"none", "waiting", "accepting", "refusing",
                                "done", "panicked"}]
    /\ DOMAIN claim = {s \in Streams : handler[s] # "none"}
    /\ \A s \in DOMAIN claim : claim[s] \in Tokens
    /\ handle \in [Streams -> Connections \union {None}]
    /\ \A s \in Streams : handler[s] = "accepting" <=> handle[s] # None
    /\ broken \subseteq Streams
    /\ match_over \in BOOLEAN
    /\ told \in [Connections -> {"connected", "disconnected"}]
    /\ adopted \in [Connections -> Seq(Streams)]
    /\ written \in [Streams -> Seq(1 .. MaxMessages)]
    /\ disconnects \in [Connections -> Nat]

Elements(q)   == {q[i] : i \in DOMAIN q}
Increasing(q) == \A i, j \in DOMAIN q : i < j => q[i] < q[j]
Before(q, r)  == \A i \in DOMAIN q, j \in DOMAIN r : q[i] < r[j]

\* A client gets its messages in order and none twice, over any number of
\* reconnects: a message is never on two streams, nor a later one on an earlier
\* stream, and what is still in the buffer comes last.
InOrderAndOnce ==
    \A c \in Connections :
        /\ Increasing(buffer[c])
        /\ \A i \in DOMAIN adopted[c] :
            /\ Increasing(written[adopted[c][i]])
            /\ Before(written[adopted[c][i]], buffer[c])
            /\ \A j \in DOMAIN adopted[c] : i < j =>
                    Before(written[adopted[c][i]], written[adopted[c][j]])

Lost(c) == 1 .. queued[c] \
    (Elements(buffer[c]) \union
     UNION {Elements(written[adopted[c][i]]) : i \in DOMAIN adopted[c]})

\* A message that is neither on a stream nor in the buffer was lost to a stream
\* that failed, and each failure loses at most one.  (What is on a stream that
\* fails or is replaced may be lost as well: that is not counted here.)
OneLossPerDisconnect ==
    \A c \in Connections : Cardinality(Lost(c)) <= disconnects[c]

\* A stream reaches at most one connection, once, and one that was registered
\* for the token its client presented.
StreamReachesItsConnection ==
    \A c, d \in Connections :
        \A i \in DOMAIN adopted[c], j \in DOMAIN adopted[d] :
            /\ claim[adopted[c][i]] = token[c]
            /\ adopted[c][i] = adopted[d][j] => c = d /\ i = j

\* Only a connection whose token was registered again can find its routing
\* channel closed: handshakes, refused, failed or lost, never close it.
OnlyReplacedRoutesClose ==
    \A c \in Connections : status[c] = "router channel closed" =>
        \E d \in DOMAIN token : d > c /\ token[d] = token[c]

\* While the handler runs, the last connection event the match was sent tells
\* whether the connection has a stream.
MatchKnowsConnection ==
    \A c \in Connections :
        status[c] = "running" => (stream[c] # None <=> told[c] = "connected")

\* A client that was told of success gets its stream adopted, unless it leaves
\* or the handler of its connection is gone.
AcceptedIsAdopted ==
    \A s \in Streams : \A c \in Connections :
        (handler[s] = "accepting" /\ handle[s] = c) ~>
            \/ \E i \in DOMAIN adopted[c] : adopted[c][i] = s
            \/ s \in broken
            \/ status[c] # "running"

\* A message of a connection that has a stream gets onto a stream, or is lost
\* with it, or the connection is left without a stream.
BufferIsFlushed ==
    \A c \in Connections : \A n \in 1 .. MaxMessages :
        (stream[c] # None /\ \E i \in DOMAIN buffer[c] : buffer[c][i] = n) ~>
            \/ \A i \in DOMAIN buffer[c] : buffer[c][i] # n
            \/ stream[c] = None
            \/ status[c] # "running"
=============================================================================
