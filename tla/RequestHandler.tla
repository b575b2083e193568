--------------------------- MODULE RequestHandler ---------------------------
(***************************************************************************)
(* One ClientHandler task of the game server                               *)
(* (gameserver/src/utils/client_handler.rs) with the MessageHandler and    *)
(* the TimeoutHeap it owns, the tokio Delay inside the heap, and the       *)
(* wake-up rule of the executor: a task is polled only when something it   *)
(* registered with has notified it.                                        *)
(*                                                                         *)
(* The controller issues requests through its ClientHandle, the client     *)
(* answers with arbitrary message ids (late, twice, never, or an id it was *)
(* never given), and the handler turns every request into one Response     *)
(* event, carrying the data of the client or ResponseError::Timeout.       *)
(*                                                                         *)
(* Time is a counter of timer ticks.  tokio rounds a deadline up to its    *)
(* next tick, so a Delay has elapsed when now > delay.  The key_set of the *)
(* heap is written and never read, and is left out.  Command::Response,    *)
(* which touches no request, and the connection events are in PwMatch.     *)
(***************************************************************************)
EXTENDS Integers, Sequences, FiniteSets

CONSTANTS
    Timeout,        \* time between a request and its deadline
    MaxTime,        \* bound on the clock
    MaxRequests,    \* bound on the number of requests issued
    MaxMessages,    \* bound on the number of plain messages sent
    MaxOutstanding, \* how many unanswered requests the controller allows
    MaxInbox        \* bound on the packets in flight from the client

ASSUME ConstantsAssumption ==
    /\ Timeout \in Nat
    /\ MaxTime \in Nat
    /\ MaxRequests \in Nat
    /\ MaxMessages \in Nat
    /\ MaxOutstanding \in Nat
    /\ MaxInbox \in Nat

VARIABLES
    now,             \* the clock
    request_counter, \* ClientHandle: number of the next request
    due,             \* history: the deadline each request was issued with
    ctrl_chan,       \* commands from the controller to the handler
    pc,              \* where the task is in ClientHandler::poll
    notified,        \* the executor will poll the task
    message_counter, \* MessageHandler: next message id
    requests,        \* MessageHandler: pending message id -> request_num
    deadlines,       \* TimeoutHeap: the set of [key, instant] in the heap
    delay,           \* TimeoutHeap: deadline of its Delay
    registered,      \* the Delay will notify the task when it elapses
    outbox,          \* messages handed to the connection, oldest first
    inbox,           \* message ids of the responses waiting on the socket
    event_channel    \* Response events sent to the game, oldest first

handleVars  == <<request_counter, due, ctrl_chan>>
bookVars    == <<message_counter, requests, outbox>>
heapVars    == <<deadlines, delay>>
vars == <<now, handleVars, pc, notified, bookVars, heapVars, registered,
          inbox, event_channel>>

NoRequest   == -1
RequestNums == 0 .. MaxRequests - 1
MessageIds  == 0 .. MaxRequests + MaxMessages - 1
Times       == 0 .. MaxTime

Commands == [kind: {"request", "message"},
             request_num: RequestNums \union {NoRequest},
             deadline: Times]
Posts    == [message_id: MessageIds, request_num: RequestNums \union {NoRequest}]
Events   == [request_num: RequestNums, value: {"response", "timeout"}]

\* Adding a key to a HashMap, and removing one.
Insert(map, k, v) == [x \in DOMAIN map \union {k} |-> IF x = k THEN v ELSE map[x]]
Remove(map, k)    == [x \in DOMAIN map \ {k} |-> map[x]]

\* A Delay is ready from the tick after its deadline until it is reset.
Elapsed == now > delay

\* The tops of the binary heap: the earliest deadlines, ties in any order.
Tops == {d \in deadlines : \A e \in deadlines : d.instant <= e.instant}

Init ==
    /\ now = 0
    /\ request_counter = 0
    /\ due = [n \in {} |-> 0]
    /\ ctrl_chan = <<>>
    /\ pc = "idle"
    /\ notified = TRUE                    \* a spawned task is polled once
    /\ message_counter = 0
    /\ requests = [id \in {} |-> 0]
    /\ deadlines = {}
    /\ delay = 0                          \* Delay::new(Instant::now())
    /\ registered = FALSE
    /\ outbox = <<>>
    /\ inbox = <<>>
    /\ event_channel = <<>>
-----------------------------------------------------------------------------
(* The controller's side: ClientHandle *)

\* ClientHandle::request, with the deadline prompt_players gives it.
Request ==
    /\ request_counter < MaxRequests
    /\ request_counter - Len(event_channel) < MaxOutstanding
    /\ now + Timeout < MaxTime            \* so that every deadline can pass
    /\ ctrl_chan' = Append(ctrl_chan, [kind |-> "request",
                                       request_num |-> request_counter,
                                       deadline |-> now + Timeout])
    /\ request_counter' = request_counter + 1
    /\ due' = Insert(due, request_counter, now + Timeout)
    /\ notified' = TRUE
    /\ UNCHANGED <<now, pc, bookVars, heapVars, registered, inbox,
                   event_channel>>

\* ClientHandle::send
Send ==
    /\ message_counter + Len(ctrl_chan) - request_counter < MaxMessages
    /\ ctrl_chan' = Append(ctrl_chan, [kind |-> "message",
                                       request_num |-> NoRequest,
                                       deadline |-> now])
    /\ notified' = TRUE
    /\ UNCHANGED <<now, request_counter, due, pc, bookVars, heapVars,
                   registered, inbox, event_channel>>

\* The client puts a response on the wire, under any message id it likes.
ClientRespond ==
    /\ Len(inbox) < MaxInbox
    /\ \E id \in MessageIds : inbox' = Append(inbox, id)
    /\ notified' = TRUE
    /\ UNCHANGED <<now, handleVars, pc, bookVars, heapVars, registered,
                   event_channel>>
-----------------------------------------------------------------------------
(* The executor and the timer *)

Tick ==
    /\ now < MaxTime
    /\ now' = now + 1
    /\ UNCHANGED <<handleVars, pc, notified, bookVars, heapVars, registered,
                   inbox, event_channel>>

\* The timer notifies the task of an elapsed Delay, once per registration.
FireDelay ==
    /\ registered /\ Elapsed
    /\ registered' = FALSE
    /\ notified' = TRUE
    /\ UNCHANGED <<now, handleVars, pc, bookVars, heapVars, inbox,
                   event_channel>>

\* The executor polls a notified task.
BeginPoll ==
    /\ pc = "idle" /\ notified
    /\ pc' = "commands"
    /\ notified' = FALSE
    /\ UNCHANGED <<now, handleVars, bookVars, heapVars, registered, inbox,
                   event_channel>>
-----------------------------------------------------------------------------
(* ClientHandler::poll: commands, then time-outs, then the connection *)

\* TimeoutHeap::set_timeout
set_timeout(key, instant) ==
    /\ delay' = IF instant < delay \/ deadlines = {} THEN instant ELSE delay
    /\ deadlines' = deadlines \union {[key |-> key, instant |-> instant]}

\* Mutant: the time-out is set under the id after the one that is sent.
create_request_next_key(cmd) ==
    /\ message_counter' = message_counter + 1
    /\ set_timeout(message_counter + 1, cmd.deadline)
    /\ requests' = Insert(requests, message_counter, cmd.request_num)

\* MessageHandler::create_request
create_request(cmd) ==
    /\ message_counter' = message_counter + 1
    /\ set_timeout(message_counter, cmd.deadline)
    /\ requests' = Insert(requests, message_counter, cmd.request_num)

\* Mutant: a plain message does not use up its id.
create_message_same_id ==
    UNCHANGED <<message_counter, requests, heapVars>>

\* MessageHandler::create_message
create_message ==
    /\ message_counter' = message_counter + 1
    /\ UNCHANGED <<requests, heapVars>>

\* One round of the loop of handle_commands.
HandleCommand ==
    /\ pc = "commands" /\ ctrl_chan # <<>>
    /\ LET cmd == Head(ctrl_chan) IN
        /\ IF cmd.kind = "request" THEN create_request(cmd) ELSE create_message
        /\ outbox' = Append(outbox, [message_id |-> message_counter,
                                     request_num |-> cmd.request_num])
    /\ ctrl_chan' = Tail(ctrl_chan)
    /\ UNCHANGED <<now, request_counter, due, pc, notified, registered, inbox,
                   event_channel>>

CommandsNotReady ==
    /\ pc = "commands" /\ ctrl_chan = <<>>
    /\ pc' = "timeouts"
    /\ UNCHANGED <<now, handleVars, notified, bookVars, heapVars, registered,
                   inbox, event_channel>>

Dispatch(num, value) ==
    event_channel' = Append(event_channel,
                            [request_num |-> num, value |-> value])

\* Mutant: the request is looked up and left pending.
Answer_keep(id, value) ==
    /\ IF id \in DOMAIN requests THEN Dispatch(requests[id], value)
                                ELSE UNCHANGED event_channel
    /\ UNCHANGED requests

\* Mutant: the message id is dispatched where the request number is due.
Answer_message_id(id, value) ==
    /\ IF id \in DOMAIN requests THEN Dispatch(id, value)
                                ELSE UNCHANGED event_channel
    /\ requests' = Remove(requests, id)

\* self.requests.remove(&message_id): a pending request is answered; an id that
\* is not pending is stale in poll_timeout and unsolicited in handle_message.
Answer(id, value) ==
    /\ IF id \in DOMAIN requests THEN Dispatch(requests[id], value)
                                ELSE UNCHANGED event_channel
    /\ requests' = Remove(requests, id)

\* Mutant: nobody compares the deadline with the time.
Expired_unchecked(d) == TRUE

Expired(d) == now > d.instant

\* One round of handle_timeouts: TimeoutHeap::poll yields the key on top when
\* the Delay is ready and the key has expired.
HandleTimeout ==
    /\ pc = "timeouts" /\ Elapsed
    /\ \E top \in Tops :
        /\ Expired(top)
        /\ deadlines' = deadlines \ {top}
        /\ Answer(top.key, "timeout")
    /\ UNCHANGED <<now, handleVars, pc, notified, message_counter, outbox,
                   delay, registered, inbox>>

\* Mutant: the task is not registered with the Delay.
TimeoutsNotReady_unregistered ==
    /\ pc = "timeouts"
    /\ Elapsed => \A top \in Tops : ~Expired(top)
    /\ pc' = "connection"
    /\ UNCHANGED <<now, handleVars, notified, bookVars, heapVars, registered,
                   inbox, event_channel>>

\* TimeoutHeap::poll is not ready.  Only a Delay that is itself not ready has
\* registered the task; an elapsed one is left as it is.
TimeoutsNotReady ==
    /\ pc = "timeouts"
    /\ Elapsed => \A top \in Tops : ~Expired(top)
    /\ pc' = "connection"
    /\ registered' = (registered \/ ~Elapsed)
    /\ UNCHANGED <<now, handleVars, notified, bookVars, heapVars, inbox,
                   event_channel>>

\* handle_packet of a Response.
HandlePacket ==
    /\ pc = "connection" /\ inbox # <<>>
    /\ Answer(Head(inbox), "response")
    /\ inbox' = Tail(inbox)
    /\ UNCHANGED <<now, handleVars, pc, notified, message_counter, outbox,
                   heapVars, registered>>

ConnectionNotReady ==
    /\ pc = "connection" /\ inbox = <<>>
    /\ pc' = "idle"
    /\ UNCHANGED <<now, handleVars, notified, bookVars, heapVars, registered,
                   inbox, event_channel>>

\* The steps of a task the executor has started to poll.
Handler ==
    \/ BeginPoll
    \/ HandleCommand \/ CommandsNotReady
    \/ HandleTimeout \/ TimeoutsNotReady
    \/ HandlePacket  \/ ConnectionNotReady

Next ==
    \/ Request \/ Send \/ ClientRespond
    \/ Tick \/ FireDelay
    \/ Handler

Spec == Init /\ [][Next]_vars

\* The executor runs every notified task, the timer fires every registered
\* Delay and time passes.  The connection loop of a poll ends when the socket
\* is drained: the client is assumed not to outrun the server for ever.
\* Nothing makes the controller ask or the client answer.
Fairness ==
    /\ WF_vars(Handler)
    /\ SF_vars(ConnectionNotReady)
    /\ WF_vars(FireDelay)
    /\ WF_vars(Tick)

FairSpec == Spec /\ Fairness
-----------------------------------------------------------------------------
(* Properties *)

\* Types of the handler's state, within the bounds.
TypeOK ==
    /\ now \in Times
    /\ request_counter \in 0 .. MaxRequests
    /\ due \in [0 .. request_counter - 1 -> Times]
    /\ ctrl_chan \in Seq(Commands)
    /\ pc \in {"idle", "commands", "timeouts", "connection"}
    /\ notified \in BOOLEAN
    /\ message_counter \in 0 .. MaxRequests + MaxMessages
    /\ DOMAIN requests \subseteq MessageIds
    /\ \A id \in DOMAIN requests : requests[id] \in RequestNums
    /\ deadlines \subseteq [key: MessageIds, instant: Times]
    /\ delay \in Times
    /\ registered \in BOOLEAN
    /\ outbox \in Seq(Posts)
    /\ inbox \in Seq(MessageIds)
    /\ event_channel \in Seq(Events)

\* The three places a request can be in: on its way to the handler, pending
\* in the MessageHandler, answered.
Travelling == {i \in DOMAIN ctrl_chan : ctrl_chan[i].kind = "request"}

PlacesOf(n) ==
    {<<"ctrl_chan", i>> : i \in {j \in Travelling : ctrl_chan[j].request_num = n}}
    \union {<<"requests", id>> : id \in {k \in DOMAIN requests : requests[k] = n}}
    \union {<<"event_channel", i>> :
               i \in {j \in DOMAIN event_channel : event_channel[j].request_num = n}}

\* An issued request is in exactly one of the three places: no race between a
\* response and a time-out answers it twice, and none drops it.
EveryRequestInOnePlace ==
    \A n \in 0 .. request_counter - 1 : Cardinality(PlacesOf(n)) = 1

\* A pending request is still in the time-out heap, under the id it was sent
\* with and the deadline it was issued with: popping stale keys never loses it.
PendingHasDeadline ==
    \A id \in DOMAIN requests :
        [key |-> id, instant |-> due[requests[id]]] \in deadlines

\* The message ids the client sees are unique, so a response naming the id of
\* a pending request is a response to that request and to nothing else.
ResponseNamesItsRequest ==
    /\ \A i, j \in DOMAIN outbox :
          outbox[i].message_id = outbox[j].message_id => i = j
    /\ \A id \in DOMAIN requests : \E i \in DOMAIN outbox :
          outbox[i] = [message_id |-> id, request_num |-> requests[id]]

\* Every step is a step of AnswerOnce: one answer per request, no time-out
\* before the deadline, whatever the client sends and however often.
Promise == INSTANCE AnswerOnce WITH
    clock <- now, deadline <- due, answers <- event_channel
ImplementsAnswerOnce == Promise!Spec

\* A pending request whose deadline is the one the Delay was set to is
\* answered in the end: the time-out reaches the game without any traffic.
AimedTimeoutDelivered ==
    \A id \in MessageIds :
        (id \in DOMAIN requests /\ delay = due[requests[id]])
            ~> (id \notin DOMAIN requests)

\* The next poll after the deadline answers a pending request, however many
\* stale keys the heap holds before its own: any traffic brings the time-out.
OverdueAnsweredOnPoll ==
    \A id \in MessageIds :
        (id \in DOMAIN requests /\ now > due[requests[id]] /\ notified)
            ~> (id \notin DOMAIN requests)

\* timeout_heap.rs says a Deadline "Marks when a timeout should be yielded for
\* a key": every request that is pending is answered or timed out in the end.
EveryRequestAnswered ==
    \A id \in MessageIds : (id \in DOMAIN requests) ~> (id \notin DOMAIN requests)
=============================================================================
