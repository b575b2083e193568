--------------------------- MODULE ClientHandlers ---------------------------
(***************************************************************************)
(* The ClientHandler tasks of a match                                      *)
(* (gameserver/src/utils/client_handler.rs, message_handler.rs): one for   *)
(* the control client, whose ClientId is 0, and one per player that was    *)
(* added to the lobby.  A handler moves commands of the match to its       *)
(* connection and turns what happens on the connection into events, all of *)
(* which go through the one event channel of the match.                    *)
(*                                                                         *)
(* The tasks run on a thread pool, so every round of a loop of             *)
(* ClientHandler::poll is a step of its own that interleaves with the      *)
(* other tasks.  When a time-out is delivered is abstracted away (any time *)
(* after the request, see RequestHandler for the timer); what the client   *)
(* does is arbitrary.  A payload is represented by the sort of message it  *)
(* encodes and the one number in it that something depends on.             *)
(***************************************************************************)
EXTENDS Naturals, Sequences, FiniteSets

CONSTANTS
    MaxClients,   \* bound on the players ever added to the lobby
    MaxStimuli    \* bound on the messages and connection changes of clients

ASSUME HandlersAssumption == MaxClients \in Nat /\ MaxStimuli \in Nat

Ctrl      == 0
PlayerClients == 1 .. MaxClients
ClientIds == 0 .. MaxClients

\* Commands to a handler.  The num of a request is its request_num, that of a
\* state its turn, that of a message about a client the ClientId.
Bodies == {"gameState", "playerAction", "finalState",
           "playerConnected", "playerDisconnected",
           "addPlayerResponse", "removePlayerResponse", "startGameResponse"}

Commands == [kind: {"message", "request", "response"}, body: Bodies, num: Nat]

LobbyRequests == {"addPlayer", "removePlayer", "startGame"}

\* Events from a handler.  The num of a response is the number of the request
\* it answers, that of a removePlayer message the ClientId to remove.
Events == [client_id: ClientIds,
           content: {"connected", "disconnected", "message", "response"},
           value: LobbyRequests \union {"other", "ok", "timeout"},
           num: Nat]

VARIABLES
    handlers,        \* the clients whose handler task is running
    connected,       \* the clients whose StreamState is Connected
    ctrl_chan,       \* per client: commands the handler has yet to execute
    message_counter, \* per client: the next message id
    requests,        \* per client: pending message id -> request_num
    buffer,          \* per client: what was handed to the connection
    event_channel,   \* events the match has yet to handle
    channel_open,    \* the match still holds the receiving end
    stimuli          \* messages and connection changes of clients so far

handlerVars == <<handlers, connected, ctrl_chan, message_counter, requests,
                 buffer, event_channel, channel_open, stimuli>>

Insert(map, k, v) == [x \in DOMAIN map \union {k} |-> IF x = k THEN v ELSE map[x]]
Remove(map, k)    == [x \in DOMAIN map \ {k} |-> map[x]]

\* The control handler is spawned with the lobby.
HandlersInit ==
    /\ handlers = {Ctrl}
    /\ connected = {}
    /\ ctrl_chan = [c \in ClientIds |-> <<>>]
    /\ message_counter = [c \in ClientIds |-> 0]
    /\ requests = [c \in ClientIds |-> [id \in {} |-> 0]]
    /\ buffer = [c \in ClientIds |-> <<>>]
    /\ event_channel = <<>>
    /\ channel_open = TRUE
    /\ stimuli = 0

\* dispatch_event, while the match is there to receive.
Dispatch(c, content, value, num) ==
    /\ channel_open
    /\ event_channel' = Append(event_channel,
                               [client_id |-> c, content |-> content,
                                value |-> value, num |-> num])

\* A client does something on its own account.
Stimulus ==
    /\ stimuli < MaxStimuli
    /\ stimuli' = stimuli + 1
-----------------------------------------------------------------------------
\* One round of handle_commands.  A message and a request take a fresh id; a
\* response is sent under the id of the message it responds to.
HandleCommand(c) ==
    /\ c \in handlers
    /\ ctrl_chan[c] # <<>>
    /\ LET cmd == Head(ctrl_chan[c])
           id  == message_counter[c]
       IN
        /\ ctrl_chan' = [ctrl_chan EXCEPT ![c] = Tail(@)]
        /\ buffer' = [buffer EXCEPT ![c] = Append(@, cmd)]
        /\ message_counter' = [message_counter EXCEPT ![c] =
                                   IF cmd.kind = "response" THEN @ ELSE @ + 1]
        /\ requests' = [requests EXCEPT ![c] =
                           IF cmd.kind = "request" THEN Insert(@, id, cmd.num)
                                                   ELSE @]
    /\ UNCHANGED <<handlers, connected, event_channel, channel_open, stimuli>>

\* Mutant: the request is looked up and left pending.
Answer_keep(c, value) ==
    /\ UNCHANGED requests
    /\ \E id \in DOMAIN requests[c] :
        Dispatch(c, "response", value, requests[c][id])

\* Mutant: the request is removed and the game is not told.
Answer_silent(c, value) ==
    /\ UNCHANGED event_channel
    /\ \E id \in DOMAIN requests[c] :
        requests' = [requests EXCEPT ![c] = Remove(@, id)]

\* A pending request is removed and its answer is dispatched.
Answer(c, value) ==
    \E id \in DOMAIN requests[c] :
        /\ requests' = [requests EXCEPT ![c] = Remove(@, id)]
        /\ Dispatch(c, "response", value, requests[c][id])

\* One round of handle_timeouts that finds a pending request expired.
HandleTimeout(c) ==
    /\ c \in handlers
    /\ Answer(c, "timeout")
    /\ UNCHANGED <<handlers, connected, ctrl_chan, message_counter, buffer,
                   channel_open, stimuli>>

\* poll_client_connection: the routing channel delivers a stream, which
\* replaces the current one, if any, without a Disconnected event.
Connect(c) ==
    /\ c \in handlers
    /\ Stimulus
    /\ connected' = connected \union {c}
    /\ Dispatch(c, "connected", "other", 0)
    /\ UNCHANGED <<handlers, ctrl_chan, message_counter, requests, buffer,
                   channel_open>>

\* Mutant: the stream is dropped without an event.
Disconnect_silent(c) ==
    /\ c \in handlers \intersect connected
    /\ Stimulus
    /\ connected' = connected \ {c}
    /\ UNCHANGED <<handlers, ctrl_chan, message_counter, requests, buffer,
                   event_channel, channel_open>>

\* The stream ends or fails.
Disconnect(c) ==
    /\ c \in handlers \intersect connected
    /\ Stimulus
    /\ connected' = connected \ {c}
    /\ Dispatch(c, "disconnected", "other", 0)
    /\ UNCHANGED <<handlers, ctrl_chan, message_counter, requests, buffer,
                   channel_open>>

\* handle_packet of a response to a pending request.  Any other response is
\* unsolicited and changes nothing.
HandleResponse(c) ==
    /\ c \in handlers \intersect connected
    /\ Answer(c, "ok")
    /\ UNCHANGED <<handlers, connected, ctrl_chan, message_counter, buffer,
                   channel_open, stimuli>>

\* handle_packet of a message.
HandleMessage(c, request, num) ==
    /\ c \in handlers \intersect connected
    /\ Stimulus
    /\ Dispatch(c, "message", request, num)
    /\ UNCHANGED <<handlers, connected, ctrl_chan, message_counter, requests, buffer,
                   channel_open>>

\* dispatch_event panics once the match has dropped the receiving end: the
\* task is gone, with the commands and the messages it had not sent.
DispatchFails(c) ==
    /\ c \in handlers
    /\ ~channel_open
    /\ handlers' = handlers \ {c}
    /\ UNCHANGED <<connected, ctrl_chan, message_counter, requests, buffer,
                   event_channel, channel_open, stimuli>>
-----------------------------------------------------------------------------
HandlersTypeOK ==
    /\ handlers \subseteq ClientIds
    /\ connected \subseteq ClientIds
    /\ ctrl_chan \in [ClientIds -> Seq(Commands)]
    /\ message_counter \in [ClientIds -> Nat]
    /\ DOMAIN requests = ClientIds
    /\ \A c \in ClientIds :
        /\ requests[c] = [id \in DOMAIN requests[c] |-> requests[c][id]]
        /\ DOMAIN requests[c] \subseteq Nat
        /\ \A id \in DOMAIN requests[c] : requests[c][id] \in Nat
    /\ buffer \in [ClientIds -> Seq(Commands)]
    /\ event_channel \in Seq(Events)
    /\ channel_open \in BOOLEAN
    /\ stimuli \in 0 .. MaxStimuli
=============================================================================
