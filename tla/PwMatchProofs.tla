---------------------------- MODULE PwMatchProofs ----------------------------
(***************************************************************************)
(* Proofs about PwMatch, for any number of clients, turns and stimuli: the *)
(* match and its turns, and, from "How the log of a client grows", what it *)
(* tells its clients.                                                      *)
(***************************************************************************)
EXTENDS PwMatch, FiniteSetTheorems, SequenceTheorems, TLAPS

\* What the match takes out of the event channel: the answer of a client is
\* its own or a time-out, and the channel is closed and empty after the match.
EventsOK ==
    /\ \A i \in 1 .. Len(event_channel) :
        event_channel[i].content = "response" =>
            event_channel[i].value \in {"ok", "timeout"}
    /\ channel_open <=> phase \in {"lobby", "playing"}
    /\ ~channel_open => event_channel = <<>>

\* Until the game starts there is no game, and nobody was prompted.
LobbyOK ==
    IF phase = "lobby"
    THEN /\ turn_num = 0
         /\ players = {} /\ waiting_for = {} /\ alive = {}
         /\ DOMAIN commands = {} /\ DOMAIN client_player = {}
         /\ \A c \in ClientIds : request_counter[c] = 0
    ELSE lobby_players = {}

\* No two clients play for one player, and only players in the game answer.
\* While it is on, those in the game are the living, those waited for the ones
\* that have not answered, and each was prompted once per turn.
GameOK ==
    /\ \A c, d \in DOMAIN client_player : client_player[c] = client_player[d] => c = d
    /\ \A p \in players : \E c \in DOMAIN client_player : client_player[c] = p
    /\ DOMAIN commands \subseteq players
    /\ phase = "playing" =>
        /\ alive = players
        /\ waiting_for = players \ DOMAIN commands
        /\ waiting_for = {} => players = {}
        /\ turn_num > 0 => ~is_finished(alive, turn_num)
        /\ \A c \in DOMAIN client_player :
              client_player[c] \in players => request_counter[c] = turn_num + 1

Asks(cmd)     == cmd.kind = "request"
Answers(e, c) == e.content = "response" /\ e.client_id = c

\* The requests to client c in each of the three places.
Sent(c)     == {i \in 1 .. Len(ctrl_chan[c]) : Asks(ctrl_chan[c][i])}
Pending(c)  == DOMAIN requests[c]
Answered(c) == {i \in 1 .. Len(event_channel) : Answers(event_channel[i], c)}

\* They are all of this turn.
Current(c) ==
    /\ \A i \in Sent(c) : ctrl_chan[c][i].num = turn_num
    /\ \A id \in Pending(c) : requests[c][id] = turn_num
    /\ \A i \in Answered(c) : event_channel[i].num = turn_num

\* There is at most one.
AtMostOne(c) ==
    /\ \A i, j \in Sent(c) : i = j
    /\ \A i, j \in Pending(c) : i = j
    /\ \A i, j \in Answered(c) : i = j
    /\ Sent(c) # {} => Pending(c) = {} /\ Answered(c) = {}
    /\ Pending(c) # {} => Answered(c) = {}

\* There is one just if the client's player is waited for.
Owed(c) == Awaited(c) <=> Sent(c) # {} \/ Pending(c) # {} \/ Answered(c) # {}

RequestsOK ==
    phase \in {"lobby", "playing"} =>
        \A c \in ClientIds : Current(c) /\ AtMostOne(c) /\ Owed(c)

\* The inductive invariant.
IInv == TypeOK /\ EventsOK /\ LobbyOK /\ GameOK /\ RequestsOK

USE HandlersAssumption, MaxTurnsAssumption

-----------------------------------------------------------------------------
(* Maps from numbers to numbers, such as the pending requests of a client *)

NumberMap(f) ==
    /\ f = [k \in DOMAIN f |-> f[k]]
    /\ DOMAIN f \subseteq Nat
    /\ \A k \in DOMAIN f : f[k] \in Nat

LEMMA InsertFacts ==
  ASSUME NEW f, NEW k, NEW v
  PROVE  /\ DOMAIN Insert(f, k, v) = DOMAIN f \union {k}
         /\ Insert(f, k, v)[k] = v
         /\ \A x \in DOMAIN f : x # k => Insert(f, k, v)[x] = f[x]
BY DEF Insert

LEMMA InsertNumber ==
  ASSUME NEW f, NumberMap(f), NEW k \in Nat, NEW v \in Nat
  PROVE  NumberMap(Insert(f, k, v))
<1> DEFINE g == [x \in DOMAIN f \union {k} |-> IF x = k THEN v ELSE f[x]]
<1>1. /\ DOMAIN g = DOMAIN f \union {k} /\ g[k] = v
      /\ \A x \in DOMAIN f : x # k => g[x] = f[x]
      /\ g = [x \in DOMAIN g |-> g[x]]
  OBVIOUS
<1>2. Insert(f, k, v) = g
  BY DEF Insert
<1> HIDE DEF g
<1> QED
  BY <1>1, <1>2 DEF NumberMap

LEMMA RemoveFacts ==
  ASSUME NEW f, NEW k
  PROVE  /\ DOMAIN Remove(f, k) = DOMAIN f \ {k}
         /\ \A x \in DOMAIN f : x # k => Remove(f, k)[x] = f[x]
         /\ NumberMap(f) => NumberMap(Remove(f, k))
<1> DEFINE g == [x \in DOMAIN f \ {k} |-> f[x]]
<1>1. Remove(f, k) = g
  BY DEF Remove
<1>2. /\ DOMAIN g = DOMAIN f \ {k}
      /\ \A x \in DOMAIN f : x # k => g[x] = f[x]
      /\ g = [x \in DOMAIN g |-> g[x]]
  OBVIOUS
<1>3. NumberMap(f) => NumberMap(g)
  <2> HIDE DEF g
  <2> QED
    BY <1>2 DEF NumberMap
<1> QED
  BY <1>1, <1>2, <1>3

-----------------------------------------------------------------------------
(* The three places a request can be in *)

LEMMA PlayerIdsAre == PlayerIds = 0 .. MaxClients - 1 /\ Ctrl \notin PlayerClients
BY DEF PlayerIds, PlayerClients, Ctrl

\* An event that is dispatched adds an answer of its client, or none.
LEMMA EventAdded ==
  ASSUME event_channel \in Seq(Events), NEW e \in Events,
         event_channel' = Append(event_channel, e), NEW c \in ClientIds
  PROVE  /\ Answered(c)' = IF Answers(e, c) THEN Answered(c) \union {Len(event_channel) + 1}
                                            ELSE Answered(c)
         /\ \A i \in 1 .. Len(event_channel) : event_channel'[i] = event_channel[i]
         /\ event_channel'[Len(event_channel) + 1] = e
BY DEF Answered, Answers

\* The match takes the first event, and all answers behind it move up.
LEMMA EventTaken ==
  ASSUME event_channel \in Seq(Events), event_channel # <<>>,
         event_channel' = Tail(event_channel), NEW c \in ClientIds
  PROVE  /\ \A i \in Answered(c)' :
              i + 1 \in Answered(c) /\ event_channel'[i] = event_channel[i + 1]
         /\ \A i \in Answered(c) : i # 1 => i - 1 \in Answered(c)'
         /\ 1 \in Answered(c) <=> Answers(Event, c)
         /\ Event \in Events /\ Event = event_channel[1]
         /\ event_channel' \in Seq(Events) /\ Len(event_channel') = Len(event_channel) - 1
         /\ \A i \in 1 .. Len(event_channel') : event_channel'[i] = event_channel[i + 1]
BY DEF Answered, Answers, Event

\* Taking an event that is not an answer of c leaves the requests to c alone.
LEMMA NotTaken ==
  ASSUME event_channel \in Seq(Events), event_channel # <<>>,
         event_channel' = Tail(event_channel), NEW c \in ClientIds,
         ~Answers(Event, c), UNCHANGED <<ctrl_chan[c], requests[c], turn_num, Awaited(c)>>,
         Current(c), AtMostOne(c), Owed(c)
  PROVE  Current(c)' /\ AtMostOne(c)' /\ Owed(c)'
<1>1. /\ \A i \in Answered(c)' :
           i + 1 \in Answered(c) /\ event_channel'[i] = event_channel[i + 1]
      /\ \A i \in Answered(c) : i - 1 \in Answered(c)'
      /\ Answered(c)' \subseteq Nat
  BY EventTaken DEF Answered
<1>2. Sent(c)' = Sent(c) /\ Pending(c)' = Pending(c)
  BY DEF Sent, Pending
<1>3. Current(c)'
  BY ZenonT(40), <1>1, <1>2 DEF Current, Sent
<1>4. AtMostOne(c)'
  BY <1>1, <1>2 DEF AtMostOne
<1>5. Owed(c)'
  BY <1>1, <1>2 DEF Owed
<1> QED
  BY <1>3, <1>4, <1>5

\* The commands to c that are left when the handler took the first.
LEMMA CommandTaken ==
  ASSUME NEW c \in ClientIds, ctrl_chan[c] \in Seq(Commands), ctrl_chan[c] # <<>>,
         ctrl_chan'[c] = Tail(ctrl_chan[c])
  PROVE  /\ Head(ctrl_chan[c]) = ctrl_chan[c][1] /\ ctrl_chan[c][1] \in Commands
         /\ 1 \in Sent(c) <=> Asks(ctrl_chan[c][1])
         /\ \A i \in Sent(c)' : i + 1 \in Sent(c) /\ ctrl_chan'[c][i] = ctrl_chan[c][i + 1]
         /\ \A i \in Sent(c) : i # 1 => i - 1 \in Sent(c)'
BY DEF Sent, Asks

-----------------------------------------------------------------------------
LEMMA InitInv == Init => IInv
<1> SUFFICES ASSUME Init PROVE IInv
  OBVIOUS
<1> USE DEF Init, HandlersInit
<1>1. TypeOK
  BY DEF TypeOK, HandlersTypeOK, ClientIds, Ctrl
<1>2. EventsOK /\ LobbyOK /\ GameOK
  BY DEF EventsOK, LobbyOK, GameOK
<1>3. RequestsOK
  <2> SUFFICES ASSUME NEW c \in ClientIds
               PROVE  Current(c) /\ AtMostOne(c) /\ Owed(c)
    BY DEF RequestsOK
  <2>1. Sent(c) = {} /\ Pending(c) = {} /\ Answered(c) = {} /\ ~Awaited(c)
    BY DEF Sent, Pending, Answered, Awaited
  <2> QED
    BY <2>1 DEF Current, AtMostOne, Owed
<1> QED
  BY <1>1, <1>2, <1>3 DEF IInv

-----------------------------------------------------------------------------
(* Steps of the handlers *)

\* They leave the match alone, so its part of the invariant with it.
LEMMA MatchUnchanged ==
  ASSUME IInv, UNCHANGED matchVars, HandlersTypeOK',
         UNCHANGED channel_open
  PROVE  /\ TypeOK' /\ LobbyOK' /\ GameOK'
         /\ \A c \in ClientIds : Awaited(c)' = Awaited(c)
<1> USE DEF IInv, matchVars, lobbyVars, gameVars
<1>1. TypeOK'
  BY DEF TypeOK
<1>2. LobbyOK'
  BY DEF LobbyOK
<1>3. GameOK'
  BY DEF GameOK, is_finished
<1> QED
  BY <1>1, <1>2, <1>3 DEF Awaited

LEMMA HandleCommandInv ==
  ASSUME IInv, NEW c \in ClientIds, HandleCommand(c), UNCHANGED matchVars
  PROVE  IInv'
<1> DEFINE cmd == Head(ctrl_chan[c])
           id  == message_counter[c]
<1> USE DEF IInv
<1>0. /\ ctrl_chan[c] \in Seq(Commands) /\ ctrl_chan[c] # <<>> /\ cmd \in Commands
      /\ id \in Nat /\ DOMAIN requests = ClientIds
      /\ ctrl_chan' = [ctrl_chan EXCEPT ![c] = Tail(@)]
      /\ requests' = [requests EXCEPT ![c] =
                         IF cmd.kind = "request" THEN Insert(@, id, cmd.num) ELSE @]
      /\ UNCHANGED <<event_channel, channel_open>>
  BY DEF HandleCommand, TypeOK, HandlersTypeOK
<1>1. HandlersTypeOK'
  <2>1. /\ handlers' \subseteq ClientIds /\ connected' \subseteq ClientIds
        /\ ctrl_chan' \in [ClientIds -> Seq(Commands)]
        /\ message_counter' \in [ClientIds -> Nat]
        /\ buffer' \in [ClientIds -> Seq(Commands)]
        /\ event_channel' \in Seq(Events) /\ channel_open' \in BOOLEAN
        /\ stimuli' \in 0 .. MaxStimuli
    BY <1>0 DEF HandleCommand, TypeOK, HandlersTypeOK
  <2>2. /\ DOMAIN requests' = ClientIds
        /\ \A d \in ClientIds : d # c => requests'[d] = requests[d]
        /\ requests'[c] = IF cmd.kind = "request" THEN Insert(requests[c], id, cmd.num)
                                                  ELSE requests[c]
    BY <1>0
  <2>3. cmd.num \in Nat
    BY <1>0 DEF Commands
  <2>4. ASSUME NEW d \in ClientIds
        PROVE  NumberMap(requests'[d])
    <3>1. NumberMap(requests[d])
      BY DEF NumberMap, TypeOK, HandlersTypeOK
    <3> QED
      BY <1>0, <2>2, <2>3, <3>1, InsertNumber
  <2> QED
    BY <2>1, <2>2, <2>4 DEF HandlersTypeOK, NumberMap
<1>2. TypeOK' /\ LobbyOK' /\ GameOK' /\ \A d \in ClientIds : Awaited(d)' = Awaited(d)
  BY <1>0, <1>1, MatchUnchanged
<1>3. EventsOK'
  BY <1>0 DEF EventsOK, matchVars
<1>4. RequestsOK'
  <2> SUFFICES ASSUME phase \in {"lobby", "playing"}, NEW d \in ClientIds
               PROVE  Current(d)' /\ AtMostOne(d)' /\ Owed(d)'
    BY DEF RequestsOK, matchVars
  <2>1. Current(d) /\ AtMostOne(d) /\ Owed(d)
    BY DEF RequestsOK
  <2>2. Answered(d)' = Answered(d) /\ turn_num' = turn_num
    BY <1>0 DEF Answered, matchVars, gameVars
  <2>3. CASE d # c
    <3>1. ctrl_chan'[d] = ctrl_chan[d] /\ requests'[d] = requests[d]
      BY <1>0, <2>3
    <3>2. Sent(d)' = Sent(d) /\ Pending(d)' = Pending(d)
      BY <3>1 DEF Sent, Pending
    <3> QED
      BY <1>0, <1>2, <2>1, <2>2, <3>1, <3>2 DEF Current, AtMostOne, Owed
  <2>4. CASE d = c
    <3>1. ctrl_chan'[c] = Tail(ctrl_chan[c])
      BY <1>0 DEF TypeOK, HandlersTypeOK
    <3>2. /\ cmd = ctrl_chan[c][1]
          /\ 1 \in Sent(c) <=> Asks(cmd)
          /\ \A i \in Sent(c)' : i + 1 \in Sent(c) /\ ctrl_chan'[c][i] = ctrl_chan[c][i + 1]
          /\ \A i \in Sent(c) : i # 1 => i - 1 \in Sent(c)'
      BY <1>0, <3>1, CommandTaken
    <3>3. Sent(c) \subseteq Nat /\ Sent(c)' \subseteq Nat /\ 0 \notin Sent(c)'
      BY DEF Sent
    <3>4. CASE Asks(cmd)
      <4>1. Sent(c) = {1} /\ Pending(c) = {} /\ Answered(c) = {} /\ Sent(c)' = {}
        BY <2>1, <2>4, <3>2, <3>3, <3>4 DEF AtMostOne
      <4>2. requests'[c] = Insert(requests[c], id, cmd.num)
        BY <1>0, <3>4 DEF Asks
      <4>3. Pending(c)' = {id} /\ requests'[c][id] = turn_num
        BY <2>1, <2>4, <3>2, <4>1, <4>2 DEF Insert, Pending, Current
      <4> QED
        BY <1>2, <2>1, <2>2, <2>4, <4>1, <4>3 DEF Current, AtMostOne, Owed
    <3>5. CASE ~Asks(cmd)
      <4>1. requests'[c] = requests[c] /\ Pending(c)' = Pending(c)
        BY <1>0, <3>5 DEF Asks, Pending
      <4>2. 1 \notin Sent(c)
        BY <3>2, <3>5
      <4>3. Current(c)'
        <5>1. \A i \in Sent(c)' : ctrl_chan'[c][i].num = turn_num'
          BY <2>1, <2>2, <2>4, <3>2 DEF Current
        <5>2. \A k \in Pending(c)' : requests'[c][k] = turn_num'
          BY <2>1, <2>2, <2>4, <4>1 DEF Current
        <5>3. \A i \in Answered(c)' : event_channel'[i].num = turn_num'
          BY <1>0, <2>1, <2>2, <2>4 DEF Current
        <5> QED
          BY <5>1, <5>2, <5>3 DEF Current
      <4>4. AtMostOne(c)'
        BY <2>1, <2>2, <2>4, <3>2, <3>3, <4>1 DEF AtMostOne
      <4>5. Owed(c)'
        BY <1>2, <2>1, <2>2, <2>4, <3>2, <3>3, <4>1, <4>2 DEF Owed
      <4> QED
        BY <2>4, <4>3, <4>4, <4>5
    <3> QED
      BY <3>4, <3>5
  <2> QED
    BY <2>3, <2>4
<1> QED
  BY <1>2, <1>3, <1>4

\* A pending request becomes an answer in the event channel.
LEMMA AnswerInv ==
  ASSUME IInv, NEW c \in ClientIds, NEW value \in {"ok", "timeout"}, Answer(c, value),
         UNCHANGED <<handlers, connected, ctrl_chan, message_counter, buffer,
                     channel_open, stimuli>>,
         UNCHANGED matchVars
  PROVE  IInv'
<1> USE DEF IInv
<1>1. PICK id \in DOMAIN requests[c] :
         /\ requests' = [requests EXCEPT ![c] = Remove(@, id)]
         /\ Dispatch(c, "response", value, requests[c][id])
  BY DEF Answer
<1> DEFINE e == [client_id |-> c, content |-> "response", value |-> value,
                 num |-> requests[c][id]]
<1>2. /\ channel_open /\ event_channel' = Append(event_channel, e)
      /\ event_channel \in Seq(Events) /\ DOMAIN requests = ClientIds
      /\ \A d \in ClientIds : NumberMap(requests[d])
  BY <1>1 DEF Dispatch, TypeOK, HandlersTypeOK, NumberMap
<1>3. e \in Events
  BY <1>2 DEF Events, NumberMap
<1>4. /\ DOMAIN requests' = ClientIds
      /\ \A d \in ClientIds : d # c => requests'[d] = requests[d]
      /\ requests'[c] = Remove(requests[c], id)
  BY <1>1, <1>2
<1>5. HandlersTypeOK'
  <2>1. NumberMap(Remove(requests[c], id))
    BY <1>2, RemoveFacts
  <2>2. \A d \in ClientIds : NumberMap(requests'[d])
    BY <1>2, <1>4, <2>1
  <2> QED
    BY <1>2, <1>3, <1>4, <2>2 DEF TypeOK, HandlersTypeOK, NumberMap
<1>6. TypeOK' /\ LobbyOK' /\ GameOK' /\ \A d \in ClientIds : Awaited(d)' = Awaited(d)
  BY <1>5, MatchUnchanged
<1>7. EventsOK'
  BY <1>2 DEF EventsOK, matchVars
<1>8. RequestsOK'
  <2> SUFFICES ASSUME phase \in {"lobby", "playing"}, NEW d \in ClientIds
               PROVE  Current(d)' /\ AtMostOne(d)' /\ Owed(d)'
    BY DEF RequestsOK, matchVars
  <2>1. Current(d) /\ AtMostOne(d) /\ Owed(d)
    BY DEF RequestsOK
  <2>2. Sent(d)' = Sent(d) /\ ctrl_chan' = ctrl_chan /\ turn_num' = turn_num
    BY DEF Sent, matchVars, gameVars
  <2>3. /\ Answered(d)' = IF c = d THEN Answered(d) \union {Len(event_channel) + 1}
                                  ELSE Answered(d)
        /\ \A i \in 1 .. Len(event_channel) : event_channel'[i] = event_channel[i]
        /\ event_channel'[Len(event_channel) + 1] = e
    BY <1>2, <1>3, EventAdded DEF Answers
  <2>4. Answered(d) \subseteq 1 .. Len(event_channel)
    BY DEF Answered
  <2>5. CASE d # c
    <3>1. Pending(d)' = Pending(d) /\ Answered(d)' = Answered(d) /\ requests'[d] = requests[d]
      BY <1>4, <2>3, <2>5 DEF Pending
    <3> QED
      BY <1>6, <2>1, <2>2, <2>3, <2>4, <3>1 DEF Current, AtMostOne, Owed
  <2>6. CASE d = c
    <3>1. /\ Pending(c) = {id} /\ Sent(c) = {} /\ Answered(c) = {}
          /\ requests[c][id] = turn_num
      BY <2>1, <2>6 DEF AtMostOne, Current, Pending
    <3>2. Answered(c)' = {Len(event_channel) + 1}
      BY <2>3, <2>6, <3>1
    <3>3. DOMAIN requests'[c] = DOMAIN requests[c] \ {id}
      BY <1>4, RemoveFacts
    <3>4. Pending(c)' = {}
      BY <3>1, <3>3 DEF Pending
    <3>5. e.num = turn_num
      BY <3>1
    <3> QED
      BY <1>6, <2>1, <2>2, <2>3, <2>6, <3>1, <3>2, <3>4, <3>5 DEF Current, AtMostOne, Owed
  <2> QED
    BY <2>5, <2>6
<1> QED
  BY <1>6, <1>7, <1>8

\* Every other event of a client leaves the requests alone.
LEMMA StimulusInv ==
  ASSUME IInv, NEW c \in ClientIds,
         NEW content \in {"connected", "disconnected", "message"},
         NEW value \in LobbyRequests \union {"other"}, NEW num \in Nat,
         Dispatch(c, content, value, num), Stimulus, connected' \subseteq ClientIds,
         UNCHANGED <<handlers, ctrl_chan, message_counter, requests, buffer, channel_open>>,
         UNCHANGED matchVars
  PROVE  IInv'
<1> USE DEF IInv
<1> DEFINE e == [client_id |-> c, content |-> content, value |-> value, num |-> num]
<1>1. /\ channel_open /\ event_channel' = Append(event_channel, e)
      /\ event_channel \in Seq(Events) /\ e \in Events
  BY DEF Dispatch, TypeOK, HandlersTypeOK, Events
<1>2. HandlersTypeOK'
  BY <1>1 DEF TypeOK, HandlersTypeOK, Stimulus
<1>3. TypeOK' /\ LobbyOK' /\ GameOK' /\ \A d \in ClientIds : Awaited(d)' = Awaited(d)
  BY <1>2, MatchUnchanged
<1>4. EventsOK'
  BY <1>1 DEF EventsOK, matchVars
<1>5. RequestsOK'
  <2> SUFFICES ASSUME phase \in {"lobby", "playing"}, NEW d \in ClientIds
               PROVE  Current(d)' /\ AtMostOne(d)' /\ Owed(d)'
    BY DEF RequestsOK, matchVars
  <2>1. Current(d) /\ AtMostOne(d) /\ Owed(d)
    BY DEF RequestsOK
  <2>2. Sent(d)' = Sent(d) /\ Pending(d)' = Pending(d) /\ turn_num' = turn_num
    BY DEF Sent, Pending, matchVars, gameVars
  <2>3. /\ Answered(d)' = Answered(d)
        /\ \A i \in Answered(d) : event_channel'[i] = event_channel[i]
    BY <1>1, EventAdded DEF Answers, Answered
  <2> QED
    BY <1>3, <2>1, <2>2, <2>3 DEF Current, AtMostOne, Owed
<1> QED
  BY <1>3, <1>4, <1>5

LEMMA DispatchFailsInv ==
  ASSUME IInv, NEW c \in ClientIds, DispatchFails(c), UNCHANGED matchVars
  PROVE  IInv'
<1> USE DEF IInv, DispatchFails
<1>1. HandlersTypeOK'
  BY DEF TypeOK, HandlersTypeOK
<1>2. TypeOK' /\ LobbyOK' /\ GameOK'
  BY <1>1, MatchUnchanged
<1>3. EventsOK'
  BY DEF EventsOK, matchVars
<1>4. RequestsOK'
  BY DEF EventsOK, RequestsOK, matchVars
<1> QED
  BY <1>2, <1>3, <1>4

LEMMA HandlerInv ==
  ASSUME IInv, NEW c \in ClientIds, Handler(c), UNCHANGED matchVars
  PROVE  IInv'
<1>1. CASE HandleTimeout(c)
  BY <1>1, AnswerInv DEF HandleTimeout
<1>2. CASE HandleResponse(c)
  BY <1>2, AnswerInv DEF HandleResponse
<1>3. CASE Connect(c)
  BY <1>3, StimulusInv DEF Connect, IInv, TypeOK, HandlersTypeOK
<1>4. CASE Disconnect(c)
  BY <1>4, StimulusInv DEF Disconnect, IInv, TypeOK, HandlersTypeOK
<1>5. CASE HandleMessage(c, "other", 0)
  BY <1>5, StimulusInv DEF HandleMessage, IInv, TypeOK, HandlersTypeOK
<1> QED
  BY <1>1, <1>2, <1>3, <1>4, <1>5, HandleCommandInv, DispatchFailsInv DEF Handler

LEMMA ControlRequestInv ==
  ASSUME IInv, ControlRequest, UNCHANGED matchVars
  PROVE  IInv'
<1>1. \A value \in LobbyRequests, num \in Nat : HandleMessage(Ctrl, value, num) => IInv'
  <2> SUFFICES ASSUME NEW value \in LobbyRequests, NEW num \in Nat,
                      HandleMessage(Ctrl, value, num)
               PROVE  IInv'
    OBVIOUS
  <2> QED
    BY StimulusInv DEF HandleMessage, IInv, TypeOK, HandlersTypeOK, Ctrl, ClientIds
<1> QED
  BY <1>1 DEF ControlRequest, LobbyRequests, PlayerClients

-----------------------------------------------------------------------------
(* Steps of the lobby *)

\* A command that is no request makes none.
LEMMA SendCtrlFacts ==
  ASSUME TypeOK, NEW cmd \in Commands, SendCtrl(cmd), ~Asks(cmd)
  PROVE  /\ ctrl_chan' \in [ClientIds -> Seq(Commands)]
         /\ \A c \in ClientIds : Sent(c)' = Sent(c)
<1>1. ctrl_chan \in [ClientIds -> Seq(Commands)] /\ Ctrl \in ClientIds
  BY DEF TypeOK, HandlersTypeOK, Ctrl, ClientIds
<1>2. /\ ctrl_chan' \in [ClientIds -> Seq(Commands)]
      /\ ctrl_chan'[Ctrl] = Append(ctrl_chan[Ctrl], cmd)
      /\ \A c \in ClientIds : c # Ctrl => ctrl_chan'[c] = ctrl_chan[c]
  BY <1>1 DEF SendCtrl
<1>3. Sent(Ctrl)' = Sent(Ctrl)
  BY <1>1, <1>2 DEF Sent
<1>4. ASSUME NEW c \in ClientIds, c # Ctrl PROVE Sent(c)' = Sent(c)
  BY <1>2, <1>4 DEF Sent
<1> QED
  BY <1>2, <1>3, <1>4

\* While the match is in the lobby nobody is asked anything.
LEMMA LobbyInv ==
  ASSUME IInv, phase = "lobby", event_channel # <<>>, NextEvent, Unconcerned,
         UNCHANGED channel_open, UNCHANGED phase, UNCHANGED gameVars,
         handlers' \subseteq ClientIds, lobby_players' \subseteq PlayerClients,
         client_counter' \in 1 .. MaxClients + 1,
         ctrl_chan' \in [ClientIds -> Seq(Commands)],
         \A c \in ClientIds : Sent(c)' = Sent(c)
  PROVE  IInv'
<1> USE DEF IInv, gameVars, Unconcerned
<1>1. /\ event_channel \in Seq(Events) /\ event_channel' = Tail(event_channel)
      /\ event_channel' \in Seq(Events)
      /\ \A i \in 1 .. Len(event_channel') : event_channel'[i] = event_channel[i + 1]
      /\ Len(event_channel') = Len(event_channel) - 1
  <2>1. event_channel \in Seq(Events)
    BY DEF TypeOK, HandlersTypeOK
  <2> QED
    BY <2>1 DEF NextEvent
<1>2. TypeOK'
  <2>1. HandlersTypeOK'
    BY <1>1 DEF TypeOK, HandlersTypeOK
  <2> QED
    BY <2>1 DEF TypeOK
<1>3. LobbyOK' /\ GameOK'
  BY DEF LobbyOK, GameOK
<1>4. EventsOK'
  BY <1>1 DEF EventsOK
<1>5. RequestsOK'
  <2> SUFFICES ASSUME NEW c \in ClientIds
               PROVE  Current(c)' /\ AtMostOne(c)' /\ Owed(c)'
    BY DEF RequestsOK
  <2>1. ~Awaited(c) /\ ~Awaited(c)'
    BY DEF LobbyOK, Awaited
  <2>2. Sent(c) = {} /\ Pending(c) = {} /\ Answered(c) = {}
    BY <2>1 DEF RequestsOK, Owed
  <2>3. Sent(c)' = {} /\ Pending(c)' = {}
    BY <2>2 DEF Pending
  <2>4. Answered(c)' = {}
    BY <1>1, <2>2 DEF Answered
  <2> QED
    BY <2>1, <2>3, <2>4 DEF Current, AtMostOne, Owed
<1> QED
  BY <1>2, <1>3, <1>4, <1>5

LEMMA LobbyStepsInv ==
  ASSUME IInv,
         \/ LobbyAddPlayer \/ LobbyRemovePlayer \/ LobbyIgnore
         \/ LobbyConnection("connected", "playerConnected")
         \/ LobbyConnection("disconnected", "playerDisconnected")
  PROVE  IInv'
<1>1. /\ handlers \subseteq ClientIds /\ lobby_players \subseteq PlayerClients
      /\ client_counter \in 1 .. MaxClients + 1
      /\ ctrl_chan \in [ClientIds -> Seq(Commands)]
      /\ TypeOK /\ event_channel \in Seq(Events)
  BY DEF IInv, TypeOK, HandlersTypeOK
<1>2. event_channel # <<>> => Event \in Events
  BY <1>1 DEF Event
<1>3. CASE LobbyAddPlayer
  <2>1. client_counter \in ClientIds /\ client_counter \in PlayerClients
    BY <1>1, <1>3 DEF LobbyAddPlayer, ClientIds, PlayerClients
  <2>2. /\ Response("addPlayerResponse", client_counter) \in Commands
        /\ ~Asks(Response("addPlayerResponse", client_counter))
    BY <1>1 DEF Response, Commands, Bodies, Asks
  <2>3. client_counter' \in 1 .. MaxClients + 1
    BY <1>1, <1>3 DEF LobbyAddPlayer
  <2> QED
    BY <1>1, <1>3, <2>1, <2>2, <2>3, SendCtrlFacts, LobbyInv
       DEF LobbyAddPlayer, LobbyRequest, Lobby
<1>4. CASE LobbyRemovePlayer
  <2>1. Event \in Events
    BY <1>2, <1>4 DEF LobbyRemovePlayer, LobbyRequest, Lobby
  <2>2. /\ Response("removePlayerResponse", Event.num) \in Commands
        /\ ~Asks(Response("removePlayerResponse", Event.num))
    BY <2>1 DEF Response, Commands, Bodies, Asks, Events
  <2>3. lobby_players' \subseteq PlayerClients
    BY <1>1, <1>4 DEF LobbyRemovePlayer, remove_player
  <2> QED
    BY <1>1, <1>4, <2>2, <2>3, SendCtrlFacts, LobbyInv
       DEF LobbyRemovePlayer, LobbyRequest, Lobby
<1>5. CASE LobbyIgnore
  <2>1. \A c \in ClientIds : Sent(c)' = Sent(c)
    BY <1>5 DEF LobbyIgnore, Sent
  <2> QED
    BY <1>1, <1>5, <2>1, LobbyInv DEF LobbyIgnore, lobbyVars
<1>6. ASSUME NEW content, NEW body \in {"playerConnected", "playerDisconnected"},
             LobbyConnection(content, body)
      PROVE  IInv'
  <2>1. Event \in Events
    BY <1>2, <1>6 DEF LobbyConnection, Lobby
  <2>2. Message(body, Event.client_id) \in Commands /\ ~Asks(Message(body, Event.client_id))
    BY <2>1 DEF Message, Commands, Bodies, Asks, Events, ClientIds
  <2> QED
    BY <1>1, <1>6, <2>2, SendCtrlFacts, LobbyInv DEF LobbyConnection, Lobby, lobbyVars
<1> QED
  BY <1>3, <1>4, <1>5, <1>6

-----------------------------------------------------------------------------
(* Steps of the game *)

\* What a step of the game adds to the commands of each client.
LEMMA SendAllFacts ==
  ASSUME TypeOK, NEW out \in [ClientIds -> Seq(Commands)], SendAll(out)
  PROVE  /\ ctrl_chan' \in [ClientIds -> Seq(Commands)]
         /\ \A c \in ClientIds :
              /\ ctrl_chan'[c] = ctrl_chan[c] \o out[c]
              /\ Sent(c) \subseteq Sent(c)'
              /\ \A i \in Sent(c)' \ Sent(c) :
                    \E j \in 1 .. Len(out[c]) : /\ i = Len(ctrl_chan[c]) + j
                                                /\ Asks(out[c][j])
                                                /\ ctrl_chan'[c][i] = out[c][j]
              /\ \A j \in 1 .. Len(out[c]) : Asks(out[c][j]) => Len(ctrl_chan[c]) + j \in Sent(c)'
<1>1. ctrl_chan \in [ClientIds -> Seq(Commands)]
  BY DEF TypeOK, HandlersTypeOK
<1>2. ctrl_chan' = [c \in ClientIds |-> ctrl_chan[c] \o out[c]]
  BY DEF SendAll
<1>3. ctrl_chan' \in [ClientIds -> Seq(Commands)]
  <2>1. \A c \in ClientIds : ctrl_chan[c] \o out[c] \in Seq(Commands)
    BY <1>1
  <2> QED
    BY <1>2, <2>1
<1>4. ASSUME NEW c \in ClientIds
      PROVE  /\ ctrl_chan'[c] = ctrl_chan[c] \o out[c]
             /\ Sent(c) \subseteq Sent(c)'
             /\ \A i \in Sent(c)' \ Sent(c) :
                   \E j \in 1 .. Len(out[c]) : /\ i = Len(ctrl_chan[c]) + j
                                               /\ Asks(out[c][j])
                                               /\ ctrl_chan'[c][i] = out[c][j]
             /\ \A j \in 1 .. Len(out[c]) : Asks(out[c][j]) => Len(ctrl_chan[c]) + j \in Sent(c)'
  <2> DEFINE s == ctrl_chan[c]
             t == out[c]
             u == ctrl_chan'[c]
  <2>1. s \in Seq(Commands) /\ t \in Seq(Commands) /\ u = s \o t
    BY <1>1, <1>2
  <2>2. /\ Sent(c) = {i \in 1 .. Len(s) : Asks(s[i])}
        /\ Sent(c)' = {i \in 1 .. Len(u) : Asks(u[i])}
    BY DEF Sent, Asks
  <2> HIDE DEF s, t, u
  <2>3. /\ Len(s) \in Nat /\ Len(t) \in Nat /\ Len(u) = Len(s) + Len(t)
        /\ \A i \in 1 .. Len(s) : u[i] = s[i]
        /\ \A j \in 1 .. Len(t) : u[Len(s) + j] = t[j]
    BY <2>1
  <2>4. Sent(c) \subseteq Sent(c)'
    BY <2>2, <2>3
  <2>5. ASSUME NEW i \in Sent(c)' \ Sent(c)
        PROVE  \E j \in 1 .. Len(t) : i = Len(s) + j /\ Asks(t[j]) /\ u[i] = t[j]
    <3>1. i \in 1 .. Len(u) /\ Asks(u[i]) /\ i \notin 1 .. Len(s)
      BY <2>2, <2>3, <2>5
    <3>2. i - Len(s) \in 1 .. Len(t) /\ i = Len(s) + (i - Len(s))
      BY <2>3, <3>1
    <3> QED
      BY <2>3, <3>1, <3>2
  <2>6. \A j \in 1 .. Len(t) : Asks(t[j]) => Len(s) + j \in Sent(c)'
    BY <2>2, <2>3
  <2> QED
    BY <2>1, <2>4, <2>5, <2>6 DEF s, t, u
<1> QED
  BY <1>3, <1>4

\* A client that was asked nothing is asked just what the step asks it.
LEMMA SendAllFresh ==
  ASSUME TypeOK, NEW out \in [ClientIds -> Seq(Commands)], SendAll(out),
         NEW c \in ClientIds, Sent(c) = {}, NEW num,
         \A i, j \in 1 .. Len(out[c]) : Asks(out[c][i]) /\ Asks(out[c][j]) => i = j,
         \A j \in 1 .. Len(out[c]) : Asks(out[c][j]) => out[c][j].num = num
  PROVE  /\ \A i, j \in Sent(c)' : i = j
         /\ \A i \in Sent(c)' : ctrl_chan'[c][i].num = num
         /\ Sent(c)' # {} <=> \E j \in 1 .. Len(out[c]) : Asks(out[c][j])
<1>1. \A i \in Sent(c)' \ Sent(c) :
        \E j \in 1 .. Len(out[c]) : /\ i = Len(ctrl_chan[c]) + j
                                    /\ Asks(out[c][j])
                                    /\ ctrl_chan'[c][i] = out[c][j]
  BY SendAllFacts
<1>2. \A j \in 1 .. Len(out[c]) : Asks(out[c][j]) => Len(ctrl_chan[c]) + j \in Sent(c)'
  BY SendAllFacts
<1>3. ASSUME NEW i \in Sent(c)'
      PROVE  \E j \in 1 .. Len(out[c]) : /\ i = Len(ctrl_chan[c]) + j
                                         /\ Asks(out[c][j])
                                         /\ ctrl_chan'[c][i].num = num
  BY <1>1, <1>3
<1>4. ASSUME NEW i \in Sent(c)', NEW k \in Sent(c)' PROVE i = k
  <2>1. PICK j \in 1 .. Len(out[c]) : i = Len(ctrl_chan[c]) + j /\ Asks(out[c][j])
    BY <1>3
  <2>2. PICK l \in 1 .. Len(out[c]) : k = Len(ctrl_chan[c]) + l /\ Asks(out[c][l])
    BY <1>3
  <2> QED
    BY <2>1, <2>2
<1> QED
  BY <1>2, <1>3, <1>4

LEMMA StartGameInv == IInv /\ LobbyStartGame => IInv'
<1> SUFFICES ASSUME IInv, LobbyStartGame PROVE IInv'
  OBVIOUS
<1> USE DEF IInv
<1> DEFINE out == [c \in ClientIds |->
             IF c = Ctrl THEN <<Response("startGameResponse", 0),
                                Message("gameState", turn_num)>>
             ELSE IF c \in lobby_players THEN <<Prompt(c)>>
             ELSE <<>>]
<1>1. /\ phase = "lobby" /\ event_channel # <<>> /\ NextEvent /\ phase' = "playing"
      /\ client_player' \in Numberings
      /\ players' = {client_player'[c] : c \in lobby_players}
      /\ alive' = players' /\ waiting_for' = players'
      /\ SendAll(out)
      /\ lobby_players' = {} /\ Unconcerned
      /\ UNCHANGED <<handlers, channel_open, client_counter, commands, turn_num>>
  BY DEF LobbyStartGame, LobbyRequest, Lobby
<1>2. request_counter' = [c \in ClientIds |->
            IF c \in lobby_players THEN request_counter[c] + 1
                                   ELSE request_counter[c]]
  BY DEF LobbyStartGame
<1>3. /\ turn_num = 0 /\ DOMAIN commands = {} /\ DOMAIN client_player = {}
      /\ \A c \in ClientIds : request_counter[c] = 0
      /\ lobby_players \subseteq PlayerClients /\ Ctrl \notin lobby_players
      /\ lobby_players \subseteq ClientIds
  BY <1>1 DEF LobbyOK, TypeOK, Ctrl, PlayerClients, ClientIds
<1>4. /\ client_player' \in [lobby_players -> PlayerIds] /\ DOMAIN client_player' = lobby_players
      /\ \A c, d \in lobby_players : client_player'[c] = client_player'[d] => c = d
  BY <1>1 DEF Numberings
<1>5. out \in [ClientIds -> Seq(Commands)]
  <2>1. /\ Response("startGameResponse", 0) \in Commands
        /\ Message("gameState", turn_num) \in Commands
        /\ \A c \in lobby_players : Prompt(c) \in Commands
    BY <1>3 DEF Response, Message, Prompt, Commands, Bodies
  <2> QED
    BY <2>1
<1>6. /\ event_channel \in Seq(Events) /\ event_channel' = Tail(event_channel)
      /\ event_channel' \in Seq(Events)
      /\ \A i \in 1 .. Len(event_channel') : event_channel'[i] = event_channel[i + 1]
      /\ Len(event_channel') = Len(event_channel) - 1
  <2>1. event_channel \in Seq(Events)
    BY DEF TypeOK, HandlersTypeOK
  <2> QED
    BY <1>1, <2>1 DEF NextEvent
<1>7. TypeOK'
  <2>1. HandlersTypeOK'
    <3>1. ctrl_chan' \in [ClientIds -> Seq(Commands)]
      BY <1>1, <1>5, SendAllFacts
    <3> QED
      BY <1>1, <1>6, <3>1 DEF TypeOK, HandlersTypeOK, Unconcerned
  <2>2. request_counter' \in [ClientIds -> Nat]
    BY <1>2, <1>3
  <2>3. players' \subseteq PlayerIds
    BY <1>1, <1>4
  <2> QED
    BY <1>1, <1>3, <1>4, <2>1, <2>2, <2>3 DEF TypeOK
<1>8. EventsOK' /\ LobbyOK'
  BY <1>1, <1>6 DEF EventsOK, LobbyOK
<1>9. GameOK'
  <2>1. \A c \in lobby_players : request_counter'[c] = turn_num' + 1
    BY <1>1, <1>2, <1>3
  <2>2. players' \ DOMAIN commands' = players' /\ DOMAIN commands' = {} /\ ~(turn_num' > 0)
    BY <1>1, <1>3
  <2>3. \A p \in players' : \E c \in DOMAIN client_player' : client_player'[c] = p
    BY <1>1, <1>4
  <2> QED
    BY <1>1, <1>4, <2>1, <2>2, <2>3 DEF GameOK
<1>10. RequestsOK'
  <2> SUFFICES ASSUME NEW c \in ClientIds
               PROVE  Current(c)' /\ AtMostOne(c)' /\ Owed(c)'
    BY DEF RequestsOK
  <2>1. Sent(c) = {} /\ Pending(c) = {} /\ Answered(c) = {}
    BY <1>1, <1>3 DEF RequestsOK, Owed, Awaited
  <2>2. Pending(c)' = {} /\ Answered(c)' = {}
    BY <1>1, <1>6, <2>1 DEF Pending, Answered, Unconcerned
  <2>3. Awaited(c)' <=> c \in lobby_players
    BY <1>1, <1>4 DEF Awaited
  <2>4. /\ \A i, j \in 1 .. Len(out[c]) : Asks(out[c][i]) /\ Asks(out[c][j]) => i = j
        /\ \A j \in 1 .. Len(out[c]) : Asks(out[c][j]) => out[c][j].num = turn_num
        /\ c \in lobby_players <=> \E j \in 1 .. Len(out[c]) : Asks(out[c][j])
    BY <1>3 DEF Response, Message, Prompt, Asks
  <2> HIDE DEF out
  <2>5. /\ \A i, j \in Sent(c)' : i = j
        /\ \A i \in Sent(c)' : ctrl_chan'[c][i].num = turn_num
        /\ Sent(c)' # {} <=> \E j \in 1 .. Len(out[c]) : Asks(out[c][j])
    BY <1>1, <1>5, <2>1, <2>4, SendAllFresh
  <2> QED
    BY <1>1, <2>2, <2>3, <2>4, <2>5 DEF Current, AtMostOne, Owed
<1> QED
  BY <1>7, <1>8, <1>9, <1>10

\* An answer is one to the prompt of this turn from a player waited for.
LEMMA AnswerIsOwed ==
  ASSUME IInv, phase = "playing", event_channel # <<>>
  PROVE  /\ event_channel \in Seq(Events) /\ Event \in Events
         /\ IsResponse =>
              /\ Event.client_id \in DOMAIN client_player /\ Event.client_id \in ClientIds
              /\ Responder \in waiting_for /\ Responder \in PlayerIds
              /\ Event.num = turn_num /\ Event.value \in {"ok", "timeout"}
              /\ Sent(Event.client_id) = {} /\ Pending(Event.client_id) = {}
              /\ Answered(Event.client_id) = {1}
<1> USE DEF IInv
<1>1. /\ event_channel \in Seq(Events) /\ Event \in Events /\ Event = event_channel[1]
      /\ Event.client_id \in ClientIds /\ 1 \in 1 .. Len(event_channel)
  <2>1. event_channel \in Seq(Events)
    BY DEF TypeOK, HandlersTypeOK
  <2>2. Event \in Events /\ Event = event_channel[1] /\ 1 \in 1 .. Len(event_channel)
    BY <2>1 DEF Event
  <2> QED
    BY <2>1, <2>2 DEF Events
<1> SUFFICES ASSUME IsResponse
             PROVE  /\ Event.client_id \in DOMAIN client_player
                    /\ Responder \in waiting_for /\ Responder \in PlayerIds
                    /\ Event.num = turn_num /\ Event.value \in {"ok", "timeout"}
                    /\ Sent(Event.client_id) = {} /\ Pending(Event.client_id) = {}
                    /\ Answered(Event.client_id) = {1}
  BY <1>1
<1> DEFINE c == Event.client_id
<1>2. 1 \in Answered(c)
  BY <1>1 DEF Answered, Answers, IsResponse
<1>3. Current(c) /\ AtMostOne(c) /\ Owed(c)
  BY <1>1 DEF RequestsOK
<1>4. Sent(c) = {} /\ Pending(c) = {} /\ Answered(c) = {1} /\ Event.num = turn_num
  BY <1>1, <1>2, <1>3 DEF AtMostOne, Current
<1>5. c \in DOMAIN client_player /\ Responder \in waiting_for
  BY <1>2, <1>3 DEF Owed, Awaited, Responder
<1>6. Responder \in PlayerIds
  BY <1>5 DEF TypeOK, Responder
<1>7. Event.value \in {"ok", "timeout"}
  BY <1>1 DEF EventsOK, IsResponse
<1> QED
  BY <1>4, <1>5, <1>6, <1>7

\* The answers after an event, and the players waited for.
LEMMA CollectedFacts ==
  ASSUME IInv, phase = "playing", event_channel # <<>>
  PROVE  /\ DOMAIN Collected = IF IsResponse THEN DOMAIN commands \union {Responder}
                                             ELSE DOMAIN commands
         /\ DOMAIN Collected \subseteq players
         /\ StillWaiting = players \ DOMAIN Collected
         /\ \A p \in DOMAIN Collected : Collected[p] \in [value: {"ok", "timeout"}, num: Nat]
         /\ \A c \in ClientIds :
              (c \in DOMAIN client_player /\ client_player[c] \in StillWaiting)
                 <=> Awaited(c) /\ ~Answers(Event, c)
<1> USE DEF IInv
<1>1. waiting_for = players \ DOMAIN commands /\ DOMAIN commands \subseteq players
  BY DEF GameOK
<1>2. \A p \in DOMAIN commands : commands[p] \in [value: {"ok", "timeout"}, num: Nat]
  BY DEF TypeOK
<1>3. CASE ~IsResponse
  <2>1. Collected = commands /\ StillWaiting = waiting_for
    BY <1>3 DEF Collected, StillWaiting
  <2>2. \A c \in ClientIds : ~Answers(Event, c)
    BY <1>3 DEF IsResponse, Answers
  <2> QED
    BY <1>1, <1>2, <1>3, <2>1, <2>2 DEF Awaited
<1>4. CASE IsResponse
  <2> DEFINE a == [value |-> Event.value, num |-> Event.num]
  <2>1. /\ Event \in Events /\ Event.client_id \in DOMAIN client_player
        /\ Responder \in waiting_for /\ Event.value \in {"ok", "timeout"}
    BY <1>4, AnswerIsOwed
  <2>2. a \in [value: {"ok", "timeout"}, num: Nat]
    BY <2>1 DEF Events
  <2>3. Collected = Insert(commands, Responder, a) /\ StillWaiting = waiting_for \ {Responder}
    BY <1>4 DEF Collected, StillWaiting
  <2> HIDE DEF a
  <2>4. /\ DOMAIN Collected = DOMAIN commands \union {Responder}
        /\ Collected[Responder] = a
        /\ \A p \in DOMAIN commands : p # Responder => Collected[p] = commands[p]
    BY <2>3 DEF Insert
  <2>5. \A p \in DOMAIN Collected : Collected[p] \in [value: {"ok", "timeout"}, num: Nat]
    BY <1>2, <2>2, <2>4
  <2>6. ASSUME NEW c \in ClientIds
        PROVE  (c \in DOMAIN client_player /\ client_player[c] \in StillWaiting)
                  <=> Awaited(c) /\ ~Answers(Event, c)
    <3>1. \A d, e \in DOMAIN client_player : client_player[d] = client_player[e] => d = e
      BY DEF GameOK
    <3>2. Answers(Event, c) <=> c = Event.client_id
      BY <1>4 DEF IsResponse, Answers
    <3> QED
      BY <2>1, <2>3, <3>1, <3>2 DEF Awaited, Responder
  <2> QED
    BY <1>1, <1>4, <2>1, <2>3, <2>4, <2>5, <2>6
<1> QED
  BY <1>3, <1>4

\* When the match is over the channel is empty, and nothing is asked for.
LEMMA PlayingWaitInv == IInv /\ PlayingWait => IInv'
<1> SUFFICES ASSUME IInv, PlayingWait PROVE IInv'
  OBVIOUS
<1> USE DEF IInv
<1>1. /\ phase = "playing" /\ event_channel # <<>> /\ StillWaiting # {}
      /\ commands' = Collected /\ waiting_for' = StillWaiting
      /\ \/ phase' = "finished" /\ channel_open' = FALSE /\ event_channel' = <<>>
         \/ NextEvent /\ phase' = "playing" /\ channel_open' = channel_open
      /\ Unconcerned
      /\ UNCHANGED <<handlers, ctrl_chan, request_counter, client_player, players,
                     turn_num, alive>>
      /\ UNCHANGED <<lobby_players, client_counter>>
  BY DEF PlayingWait, lobbyVars
<1>2. /\ DOMAIN Collected \subseteq players /\ StillWaiting = players \ DOMAIN Collected
      /\ \A p \in DOMAIN Collected : Collected[p] \in [value: {"ok", "timeout"}, num: Nat]
  BY <1>1, CollectedFacts
<1>3. event_channel \in Seq(Events)
  BY DEF TypeOK, HandlersTypeOK
<1>4. /\ event_channel' \in Seq(Events)
      /\ \A i \in 1 .. Len(event_channel') :
           i + 1 \in 1 .. Len(event_channel) /\ event_channel'[i] = event_channel[i + 1]
  <2>1. CASE event_channel' = <<>>
    BY <2>1
  <2>2. CASE event_channel' = Tail(event_channel)
    BY <1>1, <1>3, <2>2
  <2> QED
    BY <1>1, <2>1, <2>2 DEF NextEvent
<1>5. TypeOK'
  <2>1. HandlersTypeOK'
    BY <1>1, <1>4 DEF TypeOK, HandlersTypeOK, Unconcerned
  <2> QED
    BY <1>1, <1>2, <2>1 DEF TypeOK
<1>6. EventsOK' /\ LobbyOK'
  <2>1. \A i \in 1 .. Len(event_channel') :
          event_channel'[i].content = "response" => event_channel'[i].value \in {"ok", "timeout"}
    BY <1>4 DEF EventsOK
  <2>2. /\ channel_open' <=> phase' \in {"lobby", "playing"}
        /\ ~channel_open' => event_channel' = <<>>
    <3>1. CASE phase' = "finished" /\ channel_open' = FALSE /\ event_channel' = <<>>
      BY <3>1
    <3>2. CASE NextEvent /\ phase' = "playing" /\ channel_open' = channel_open
      BY <1>1, <3>2 DEF EventsOK
    <3> QED
      BY <1>1, <3>1, <3>2
  <2> QED
    BY <1>1, <2>1, <2>2 DEF EventsOK, LobbyOK
<1>7. GameOK'
  BY <1>1, <1>2 DEF GameOK, is_finished
<1>8. RequestsOK'
  <2> SUFFICES ASSUME phase' \in {"lobby", "playing"}, NEW c \in ClientIds
               PROVE  Current(c)' /\ AtMostOne(c)' /\ Owed(c)'
    BY DEF RequestsOK
  <2>1. event_channel' = Tail(event_channel)
    BY <1>1 DEF NextEvent
  <2>2. Awaited(c)' <=> Awaited(c) /\ ~Answers(Event, c)
    BY <1>1, CollectedFacts DEF Awaited
  <2>3. Current(c) /\ AtMostOne(c) /\ Owed(c)
    BY <1>1 DEF RequestsOK
  <2>4. UNCHANGED <<ctrl_chan[c], requests[c], turn_num>>
    BY <1>1 DEF Unconcerned
  <2>5. CASE ~Answers(Event, c)
    <3>1. UNCHANGED Awaited(c)
      BY <2>2, <2>5 DEF Awaited
    <3> QED
      BY <1>1, <1>3, <2>1, <2>3, <2>4, <2>5, <3>1, NotTaken
  <2>6. CASE Answers(Event, c)
    <3>1. Sent(c) = {} /\ Pending(c) = {} /\ Answered(c) = {1}
      BY <1>1, <2>6, AnswerIsOwed DEF Answers, IsResponse
    <3>2. Sent(c)' = {} /\ Pending(c)' = {}
      BY <2>4, <3>1 DEF Sent, Pending
    <3>3. \A i \in Answered(c)' : i + 1 \in Answered(c) /\ i \in Nat /\ i # 0
      BY <1>1, <1>3, <2>1, EventTaken DEF Answered
    <3>4. Answered(c)' = {}
      BY <3>1, <3>3
    <3> QED
      BY <2>2, <2>6, <3>2, <3>4 DEF Current, AtMostOne, Owed
  <2> QED
    BY <2>5, <2>6
<1> QED
  BY <1>5, <1>6, <1>7, <1>8

\* What a step of the game says to each client: a player that is in the game
\* gets the report on its answer, and a final state or the next prompt.
Said(c, living, over) ==
    IF c = Ctrl THEN <<Message("gameState", turn_num + 1)>>
    ELSE IF c \in DOMAIN client_player /\ client_player[c] \in players
    THEN <<Message("playerAction", 0),
           IF over \/ client_player[c] \notin living
           THEN Message("finalState", turn_num + 1) ELSE Prompt(c)>>
    ELSE <<>>

LEMMA Pair ==
  ASSUME NEW S, NEW a \in S, NEW b \in S
  PROVE  <<a>> \o <<b>> = <<a, b>>
<1> DEFINE s == <<a>> \o <<b>>
           t == <<a, b>>
<1>1. s \in Seq(S) /\ Len(s) = 2 /\ s[1] = a /\ s[2] = b
  OBVIOUS
<1>2. t \in Seq(S) /\ Len(t) = 2 /\ t[1] = a /\ t[2] = b
  OBVIOUS
<1> HIDE DEF s, t
<1>3. \A i \in 1 .. Len(s) : s[i] = t[i]
  BY <1>1, <1>2
<1>4. s = t
  BY <1>1, <1>2, <1>3, SeqEqual
<1> QED
  BY <1>4 DEF s, t

LEMMA SaidFacts ==
  ASSUME IInv, phase = "playing", event_channel # <<>>, StillWaiting = {},
         NEW living, NEW over \in BOOLEAN, NEW c \in ClientIds
  PROVE  /\ TurnMessages(c, living, over) = Said(c, living, over)
         /\ Said(c, living, over) \in Seq(Commands)
<1> USE DEF IInv
<1>1. DOMAIN Collected = players
  BY CollectedFacts
<1>2. turn_num \in Nat /\ request_counter[c] \in Nat
  BY DEF TypeOK
<1>3. /\ Message("gameState", turn_num + 1) \in Commands
      /\ Message("playerAction", 0) \in Commands
      /\ Message("finalState", turn_num + 1) \in Commands
      /\ Prompt(c) \in Commands
  BY <1>2 DEF Message, Prompt, Commands, Bodies
<1>4. CASE c = Ctrl
  BY <1>3, <1>4 DEF Said, TurnMessages, LoggedTurn
<1>5. CASE c # Ctrl /\ c \in DOMAIN client_player
  <2> DEFINE p == client_player[c]
  <2>1. TurnMessages(c, living, over) = Report(p) \o Verdict(c, p, living, over)
    BY <1>5 DEF TurnMessages
  <2>2. CASE p \notin players
    BY <1>1, <1>5, <2>1, <2>2 DEF Said, Report, Verdict
  <2>3. CASE p \in players
    <3> DEFINE a == Message("playerAction", 0)
               b == IF over \/ p \notin living THEN Message("finalState", turn_num + 1)
                                               ELSE Prompt(c)
    <3>1. Report(p) = <<a>> /\ Verdict(c, p, living, over) = <<b>>
      BY <1>1, <2>3 DEF Report, Verdict
    <3>2. a \in Commands /\ b \in Commands
      BY <1>3
    <3>3. Said(c, living, over) = <<a, b>>
      BY <1>5, <2>3 DEF Said
    <3> HIDE DEF a, b
    <3>4. <<a>> \o <<b>> = <<a, b>>
      BY <3>2, Pair
    <3>5. <<a, b>> \in Seq(Commands)
      BY <3>2
    <3> QED
      BY <2>1, <3>1, <3>3, <3>4, <3>5
  <2> QED
    BY <2>2, <2>3
<1>6. CASE c # Ctrl /\ c \notin DOMAIN client_player
  BY <1>6 DEF Said, TurnMessages
<1> QED
  BY <1>4, <1>5, <1>6

LEMMA StepFacts ==
  ASSUME IInv, PlayingStep
  PROVE  \E living \in SUBSET players, over \in BOOLEAN :
           /\ over <=> is_finished(living, turn_num + 1)
           /\ alive' = living /\ players' = IF over THEN {} ELSE living
           /\ waiting_for' = players'
           /\ SendAll([c \in ClientIds |-> Said(c, living, over)])
           /\ [c \in ClientIds |-> Said(c, living, over)] \in [ClientIds -> Seq(Commands)]
           /\ request_counter' = [c \in ClientIds |->
                IF c \in DOMAIN client_player /\ client_player[c] \in players'
                THEN request_counter[c] + 1 ELSE request_counter[c]]
           /\ IF over
              THEN phase' = "finished" /\ channel_open' = FALSE /\ event_channel' = <<>>
              ELSE NextEvent /\ UNCHANGED <<phase, channel_open>>
<1>1. phase = "playing" /\ event_channel # <<>> /\ StillWaiting = {}
  BY DEF PlayingStep
<1>2. alive = players
  BY <1>1 DEF IInv, GameOK
<1>3. PICK living \in SUBSET alive :
        LET over == is_finished(living, turn_num + 1)
            next == IF over THEN {} ELSE players \intersect living
        IN
        /\ alive' = living
        /\ SendAll([c \in ClientIds |-> TurnMessages(c, living, over)])
        /\ players' = next
        /\ waiting_for' = next
        /\ request_counter' = [c \in ClientIds |->
                IF c \in DOMAIN client_player /\ client_player[c] \in next
                THEN request_counter[c] + 1 ELSE request_counter[c]]
        /\ IF over
           THEN phase' = "finished" /\ channel_open' = FALSE /\ event_channel' = <<>>
           ELSE NextEvent /\ UNCHANGED <<phase, channel_open>>
  BY DEF PlayingStep
<1> DEFINE over == is_finished(living, turn_num + 1)
<1>4. over \in BOOLEAN
  BY DEF is_finished
<1> HIDE DEF over
<1>5. /\ alive' = living /\ players' = IF over THEN {} ELSE players \intersect living
      /\ SendAll([c \in ClientIds |-> TurnMessages(c, living, over)])
      /\ waiting_for' = players'
      /\ request_counter' = [c \in ClientIds |->
                IF c \in DOMAIN client_player /\ client_player[c] \in players'
                THEN request_counter[c] + 1 ELSE request_counter[c]]
      /\ IF over
         THEN phase' = "finished" /\ channel_open' = FALSE /\ event_channel' = <<>>
         ELSE NextEvent /\ UNCHANGED <<phase, channel_open>>
  BY <1>3 DEF over
<1>6. \A c \in ClientIds : /\ TurnMessages(c, living, over) = Said(c, living, over)
                           /\ Said(c, living, over) \in Seq(Commands)
  BY <1>1, <1>4, SaidFacts
<1>7. /\ [c \in ClientIds |-> TurnMessages(c, living, over)] =
           [c \in ClientIds |-> Said(c, living, over)]
      /\ [c \in ClientIds |-> Said(c, living, over)] \in [ClientIds -> Seq(Commands)]
  BY <1>6
<1>8. over <=> is_finished(living, turn_num + 1)
  BY DEF over
<1>9. living \in SUBSET players /\ players' = IF over THEN {} ELSE living
  BY <1>2, <1>5
<1> QED
  BY <1>4, <1>5, <1>7, <1>8, <1>9

\* The last answer is taken and nobody is asked any more, before the next
\* prompts go out.
LEMMA NothingLeft ==
  ASSUME IInv, phase = "playing", event_channel # <<>>, StillWaiting = {}, NEW c \in ClientIds
  PROVE  Sent(c) = {} /\ Pending(c) = {} /\ Answered(c) \subseteq {1}
<1>1. Awaited(c) => Answers(Event, c)
  BY CollectedFacts DEF Awaited
<1>2. CASE Awaited(c)
  BY <1>1, <1>2, AnswerIsOwed DEF Answers, IsResponse
<1>3. CASE ~Awaited(c)
  BY <1>3 DEF IInv, RequestsOK, Owed
<1> QED
  BY <1>2, <1>3

LEMMA PlayingStepInv == IInv /\ PlayingStep => IInv'
<1> SUFFICES ASSUME IInv, PlayingStep PROVE IInv'
  OBVIOUS
<1> USE DEF IInv
<1>1. PICK living \in SUBSET players, over \in BOOLEAN :
           /\ over <=> is_finished(living, turn_num + 1)
           /\ alive' = living /\ players' = IF over THEN {} ELSE living
           /\ waiting_for' = players'
           /\ SendAll([c \in ClientIds |-> Said(c, living, over)])
           /\ [c \in ClientIds |-> Said(c, living, over)] \in [ClientIds -> Seq(Commands)]
           /\ request_counter' = [c \in ClientIds |->
                IF c \in DOMAIN client_player /\ client_player[c] \in players'
                THEN request_counter[c] + 1 ELSE request_counter[c]]
           /\ IF over
              THEN phase' = "finished" /\ channel_open' = FALSE /\ event_channel' = <<>>
              ELSE NextEvent /\ UNCHANGED <<phase, channel_open>>
  BY StepFacts
<1> DEFINE out == [c \in ClientIds |-> Said(c, living, over)]
<1>2. /\ phase = "playing" /\ event_channel # <<>> /\ StillWaiting = {}
      /\ DOMAIN commands' = {} /\ turn_num' = turn_num + 1 /\ turn_num \in Nat
      /\ Unconcerned
      /\ UNCHANGED <<handlers, lobby_players, client_counter, client_player>>
  BY DEF PlayingStep, CommandsLeft, lobbyVars, TypeOK
<1>3. event_channel \in Seq(Events)
  BY DEF TypeOK, HandlersTypeOK
<1>4. /\ event_channel' \in Seq(Events)
      /\ \A i \in 1 .. Len(event_channel') :
           i + 1 \in 1 .. Len(event_channel) /\ event_channel'[i] = event_channel[i + 1]
  <2>1. CASE event_channel' = <<>>
    BY <2>1
  <2>2. CASE event_channel' = Tail(event_channel)
    BY <1>2, <1>3, <2>2
  <2> QED
    BY <1>1, <2>1, <2>2 DEF NextEvent
<1>5. players' \subseteq players /\ DOMAIN client_player \subseteq ClientIds
  BY <1>1 DEF TypeOK, PlayerClients, ClientIds
<1>6. TypeOK'
  <2>1. ctrl_chan' \in [ClientIds -> Seq(Commands)]
    BY <1>1, SendAllFacts
  <2>2. phase' \in {"lobby", "playing", "finished", "exited"} /\ channel_open' \in BOOLEAN
    BY <1>1, <1>2 DEF TypeOK, HandlersTypeOK
  <2>3. HandlersTypeOK'
    BY <1>2, <1>4, <2>1, <2>2 DEF TypeOK, HandlersTypeOK, Unconcerned
  <2>4. request_counter' \in [ClientIds -> Nat]
    BY <1>1 DEF TypeOK
  <2> QED
    BY <1>1, <1>2, <1>5, <2>2, <2>3, <2>4 DEF TypeOK
<1>7. EventsOK' /\ LobbyOK'
  <2>1. \A i \in 1 .. Len(event_channel') :
          event_channel'[i].content = "response" => event_channel'[i].value \in {"ok", "timeout"}
    BY <1>4 DEF EventsOK
  <2>2. /\ channel_open' <=> phase' \in {"lobby", "playing"}
        /\ ~channel_open' => event_channel' = <<>>
    <3>1. CASE over
      BY <1>1, <3>1
    <3>2. CASE ~over
      BY <1>1, <1>2, <3>2 DEF EventsOK
    <3> QED
      BY <3>1, <3>2
  <2>3. phase' # "lobby" /\ lobby_players' = {}
    BY <1>1, <1>2 DEF LobbyOK
  <2> QED
    BY <2>1, <2>2, <2>3 DEF EventsOK, LobbyOK
<1>8. GameOK'
  <2>1. /\ \A c, d \in DOMAIN client_player' : client_player'[c] = client_player'[d] => c = d
        /\ \A p \in players' : \E c \in DOMAIN client_player' : client_player'[c] = p
        /\ DOMAIN commands' \subseteq players'
    BY <1>2, <1>5 DEF GameOK
  <2>2. ASSUME phase' = "playing"
        PROVE  /\ alive' = players' /\ waiting_for' = players' \ DOMAIN commands'
               /\ waiting_for' = {} => players' = {}
               /\ ~is_finished(alive', turn_num')
    BY <1>1, <1>2, <2>2
  <2>3. ASSUME NEW c \in DOMAIN client_player', client_player'[c] \in players', phase' = "playing"
        PROVE  request_counter'[c] = turn_num' + 1
    <3>1. request_counter[c] = turn_num + 1
      BY <1>2, <1>5, <2>3 DEF GameOK
    <3> QED
      BY <1>1, <1>2, <1>5, <2>3, <3>1
  <2>4. is_finished(alive, turn_num)' <=> is_finished(alive', turn_num')
    BY DEF is_finished
  <2> QED
    BY <2>1, <2>2, <2>3, <2>4 DEF GameOK
<1>9. RequestsOK'
  <2> SUFFICES ASSUME phase' \in {"lobby", "playing"}, NEW c \in ClientIds
               PROVE  Current(c)' /\ AtMostOne(c)' /\ Owed(c)'
    BY DEF RequestsOK
  <2>1. Sent(c) = {} /\ Pending(c) = {} /\ Answered(c) \subseteq {1}
    BY <1>2, NothingLeft
  <2>2. ~over /\ event_channel' = Tail(event_channel) /\ players' = living
    BY <1>1 DEF NextEvent
  <2>3. Pending(c)' = {}
    BY <1>2, <2>1 DEF Pending, Unconcerned
  <2>4. Answered(c)' = {}
    <3>1. \A i \in Answered(c)' : i + 1 \in Answered(c) /\ i \in Nat /\ i # 0
      BY <1>2, <1>3, <2>2, EventTaken DEF Answered
    <3> QED
      BY <2>1, <3>1
  <2>5. /\ \A i, j \in 1 .. Len(out[c]) : Asks(out[c][i]) /\ Asks(out[c][j]) => i = j
        /\ \A j \in 1 .. Len(out[c]) : Asks(out[c][j]) => out[c][j].num = turn_num + 1
        /\ (\E j \in 1 .. Len(out[c]) : Asks(out[c][j])) <=> Awaited(c)'
    <3>1. out[c] = Said(c, living, over)
      OBVIOUS
    <3>2. Awaited(c)' <=> c \in DOMAIN client_player /\ client_player[c] \in living
      BY <1>1, <1>2, <2>2 DEF Awaited
    <3>3. CASE c \in DOMAIN client_player /\ client_player[c] \in players
      <4> DEFINE b == IF client_player[c] \notin living
                      THEN Message("finalState", turn_num + 1) ELSE Prompt(c)
      <4>1. out[c] = <<Message("playerAction", 0), b>>
        <5>1. c # Ctrl
          BY <3>3, PlayerIdsAre DEF TypeOK
        <5> QED
          BY <2>2, <3>1, <3>3, <5>1 DEF Said
      <4>2. ~Asks(Message("playerAction", 0)) /\ (Asks(b) <=> client_player[c] \in living)
        BY DEF Asks, Message, Prompt
      <4>3. Asks(b) => b.num = turn_num + 1
        BY <1>2, <3>3 DEF Asks, Message, Prompt, GameOK
      <4> HIDE DEF b, out
      <4>4. /\ Len(out[c]) = 2 /\ out[c][1] = Message("playerAction", 0) /\ out[c][2] = b
        BY <4>1
      <4> QED
        BY <3>2, <3>3, <4>2, <4>3, <4>4
    <3>4. CASE ~(c \in DOMAIN client_player /\ client_player[c] \in players)
      <4>1. out[c] = <<>> \/ out[c] = <<Message("gameState", turn_num + 1)>>
        BY <3>1, <3>4 DEF Said
      <4>2. ~Awaited(c)'
        BY <1>1, <3>2, <3>4
      <4>3. ~Asks(Message("gameState", turn_num + 1))
        BY DEF Asks, Message
      <4> HIDE DEF out
      <4> QED
        BY <4>1, <4>2, <4>3
    <3> QED
      BY <3>3, <3>4
  <2> HIDE DEF out
  <2>6. /\ \A i, j \in Sent(c)' : i = j
        /\ \A i \in Sent(c)' : ctrl_chan'[c][i].num = turn_num + 1
        /\ Sent(c)' # {} <=> \E j \in 1 .. Len(out[c]) : Asks(out[c][j])
    <3>1. SendAll(out) /\ out \in [ClientIds -> Seq(Commands)]
      BY <1>1 DEF out
    <3> QED
      BY <2>1, <2>5, <3>1, SendAllFresh
  <2> QED
    BY <1>2, <2>3, <2>4, <2>5, <2>6 DEF Current, AtMostOne, Owed
<1> QED
  BY <1>6, <1>7, <1>8, <1>9

LEMMA ExitInv == IInv /\ Exit => IInv'
<1> SUFFICES ASSUME IInv, Exit PROVE IInv'
  OBVIOUS
<1> USE DEF IInv, Exit, Unconcerned, lobbyVars, gameVars
<1>1. TypeOK'
  <2>1. HandlersTypeOK'
    BY DEF TypeOK, HandlersTypeOK
  <2> QED
    BY <2>1 DEF TypeOK
<1>2. EventsOK' /\ LobbyOK' /\ GameOK' /\ RequestsOK'
  BY DEF EventsOK, LobbyOK, GameOK, RequestsOK
<1> QED
  BY <1>1, <1>2

LEMMA StutterInv == IInv /\ UNCHANGED vars => IInv'
<1> SUFFICES ASSUME IInv, UNCHANGED vars PROVE IInv'
  OBVIOUS
<1> USE DEF IInv, vars, handlerVars, lobbyVars, gameVars
<1>1. TypeOK'
  <2>1. HandlersTypeOK'
    BY DEF TypeOK, HandlersTypeOK
  <2> QED
    BY <2>1 DEF TypeOK
<1>2. EventsOK' /\ LobbyOK' /\ GameOK'
  BY DEF EventsOK, LobbyOK, GameOK, is_finished
<1>3. RequestsOK'
  BY DEF RequestsOK, Current, AtMostOne, Owed, Awaited, Sent, Pending, Answered, Asks, Answers
<1> QED
  BY <1>1, <1>2, <1>3

LEMMA NextInv == IInv /\ [Next]_vars => IInv'
<1> SUFFICES ASSUME IInv, [Next]_vars PROVE IInv'
  OBVIOUS
<1>1. CASE Match
  BY <1>1, LobbyStepsInv, StartGameInv, PlayingWaitInv, PlayingStepInv DEF Match
<1>2. CASE Exit
  BY <1>2, ExitInv
<1>3. CASE ControlRequest /\ UNCHANGED matchVars
  BY <1>3, ControlRequestInv
<1>4. ASSUME NEW c \in ClientIds, Handler(c), UNCHANGED matchVars PROVE IInv'
  BY <1>4, HandlerInv
<1>5. CASE UNCHANGED vars
  BY <1>5, StutterInv
<1> QED
  BY <1>1, <1>2, <1>3, <1>4, <1>5 DEF Next

-----------------------------------------------------------------------------
\* The invariant holds in every state a match can reach.
THEOREM Invariance == Spec => []IInv
<1>1. IInv /\ [Next]_vars => IInv'
  BY NextInv
<1> QED
  BY InitInv, <1>1, PTL DEF Spec

\* The state of the match and of its handlers (pw_controller.rs,
\* client_handler.rs) has its types for any number of clients and turns.
THEOREM TypeCorrect == Spec => []TypeOK
<1>1. IInv => TypeOK
  BY DEF IInv
<1> QED
  BY Invariance, <1>1, PTL

\* Where there is just one request, there is just one place.
LEMMA OnePlace == IInv => OneRequestPerAwaitedPlayer
<1> SUFFICES ASSUME IInv, phase \in {"lobby", "playing"}, NEW c \in ClientIds
             PROVE  Cardinality(Places(c)) = (IF Awaited(c) THEN 1 ELSE 0)
  BY DEF OneRequestPerAwaitedPlayer
<1>1. /\ DOMAIN ctrl_chan[c] = 1 .. Len(ctrl_chan[c])
      /\ DOMAIN event_channel = 1 .. Len(event_channel)
  BY DEF IInv, TypeOK, HandlersTypeOK
<1>2. Places(c) = {<<"ctrl_chan", i>> : i \in Sent(c)}
                    \union {<<"requests", id>> : id \in Pending(c)}
                    \union {<<"event_channel", i>> : i \in Answered(c)}
  <2>1. Sent(c) = {j \in DOMAIN ctrl_chan[c] : ctrl_chan[c][j].kind = "request"}
    BY <1>1 DEF Sent, Asks
  <2>2. Answered(c) = {j \in DOMAIN event_channel : /\ event_channel[j].client_id = c
                                                    /\ event_channel[j].content = "response"}
    BY <1>1 DEF Answered, Answers
  <2> QED
    BY <2>1, <2>2 DEF Places, Pending
<1>3. AtMostOne(c) /\ Owed(c)
  BY DEF IInv, RequestsOK
<1>4. CASE ~Awaited(c)
  <2>1. Sent(c) = {} /\ Pending(c) = {} /\ Answered(c) = {}
    BY <1>3, <1>4 DEF Owed
  <2>2. Places(c) = {}
    BY <1>2, <2>1
  <2> QED
    BY <1>4, <2>2, FS_EmptySet
<1>5. CASE Awaited(c)
  <2>1. PICK x : Places(c) = {x}
    <3>1. CASE Sent(c) # {}
      <4>1. PICK i : Sent(c) = {i}
        BY <1>3, <3>1 DEF AtMostOne
      <4>2. Pending(c) = {} /\ Answered(c) = {}
        BY <1>3, <3>1 DEF AtMostOne
      <4>3. Places(c) = {<<"ctrl_chan", i>>}
        BY <1>2, <4>1, <4>2
      <4> QED
        BY <4>3
    <3>2. CASE Pending(c) # {}
      <4>1. PICK i : Pending(c) = {i}
        BY <1>3, <3>2 DEF AtMostOne
      <4>2. Sent(c) = {} /\ Answered(c) = {}
        BY <1>3, <3>2 DEF AtMostOne
      <4>3. Places(c) = {<<"requests", i>>}
        BY <1>2, <4>1, <4>2
      <4> QED
        BY <4>3
    <3>3. CASE Answered(c) # {}
      <4>1. PICK i : Answered(c) = {i}
        BY <1>3, <3>3 DEF AtMostOne
      <4>2. Sent(c) = {} /\ Pending(c) = {}
        BY <1>3, <3>3 DEF AtMostOne
      <4>3. Places(c) = {<<"event_channel", i>>}
        BY <1>2, <4>1, <4>2
      <4> QED
        BY <4>3
    <3> QED
      BY <1>3, <1>5, <3>1, <3>2, <3>3 DEF Owed
  <2> QED
    BY <1>5, <2>1, FS_Singleton
<1> QED
  BY <1>4, <1>5

\* A response always is the answer to the current prompt: handle_event
\* (pw_controller.rs), which never looks at the request id, cannot take a late
\* answer for this turn's, for any number of players, turns and reconnects.
THEOREM OneRequest == Spec => []OneRequestPerAwaitedPlayer
BY Invariance, OnePlace, PTL

\* The unwrap()s of handle_event and execute_messages cannot fail: responses
\* and collected answers are of players that are in the game.
THEOREM NoUnwrapFails == Spec => []ResponsesComeFromPlayers
<1>1. IInv => ResponsesComeFromPlayers
  <2> SUFFICES ASSUME IInv PROVE ResponsesComeFromPlayers
    OBVIOUS
  <2> USE DEF IInv
  <2>1. event_channel \in Seq(Events) /\ DOMAIN event_channel = 1 .. Len(event_channel)
    BY DEF TypeOK, HandlersTypeOK
  <2>2. ASSUME NEW i \in DOMAIN event_channel, event_channel[i].content = "response"
        PROVE  /\ event_channel[i].client_id \in DOMAIN client_player
               /\ client_player[event_channel[i].client_id] \in players
    <3> DEFINE c == event_channel[i].client_id
    <3>1. c \in ClientIds /\ i \in Answered(c)
      <4>1. event_channel[i] \in Events /\ i \in 1 .. Len(event_channel)
        BY <2>1
      <4> QED
        BY <2>2, <4>1 DEF Answered, Answers, Events
    <3>2. phase \in {"lobby", "playing"}
      BY <2>1, <2>2 DEF EventsOK
    <3>3. Awaited(c)
      BY <3>1, <3>2 DEF RequestsOK, Owed
    <3>4. waiting_for \subseteq players
      BY <3>2 DEF LobbyOK, GameOK
    <3> QED
      BY <3>3, <3>4 DEF Awaited
  <2>3. DOMAIN commands \subseteq players
    BY DEF GameOK
  <2> QED
    BY <2>2, <2>3 DEF ResponsesComeFromPlayers
<1> QED
  BY Invariance, <1>1, PTL

-----------------------------------------------------------------------------
(* The match implements the turn barrier *)

Stage == CASE phase = "lobby"   -> "setup"
           [] phase = "playing" -> "turns"
           [] OTHER             -> "over"

AnswersGiven == [p \in DOMAIN commands |-> commands[p].num]

\* The end of the game is the same in both.
LEMMA SameOver ==
  ASSUME NEW left, NEW t
  PROVE  Barrier!Over(left, t) <=> is_finished(left, t)
<1>1. Barrier!Cardinality(left) = Cardinality(left)
  BY DEF Barrier!Cardinality, Cardinality
<1> QED
  BY <1>1 DEF Barrier!Over, is_finished

LEMMA LobbyRefined ==
  ASSUME IInv, LobbyStartGame
  PROVE  Barrier!Start
<1>1. /\ phase = "lobby" /\ phase' = "playing" /\ turn_num' = turn_num /\ commands' = commands
      /\ players' = {client_player'[c] : c \in lobby_players} /\ client_player' \in Numberings
  BY DEF LobbyStartGame, LobbyRequest, Lobby
<1>2. players' \in SUBSET PlayerIds
  BY <1>1 DEF Numberings
<1> QED
  BY <1>1, <1>2 DEF Barrier!Start

LEMMA WaitRefined ==
  ASSUME IInv, PlayingWait
  PROVE  Barrier!Next \/ UNCHANGED <<Stage, turn_num, players, AnswersGiven>>
<1> USE DEF IInv
<1>1. /\ phase = "playing" /\ event_channel # <<>> /\ StillWaiting # {}
      /\ commands' = Collected /\ waiting_for' = StillWaiting
      /\ UNCHANGED <<turn_num, players>>
  BY DEF PlayingWait
<1>2. Stage = "turns"
  BY <1>1 DEF Stage
<1>3. /\ alive = players /\ waiting_for = players \ DOMAIN commands
      /\ (turn_num > 0 => ~is_finished(alive, turn_num)) /\ turn_num \in Nat
  BY <1>1 DEF GameOK, TypeOK
<1>4. CASE is_finished(alive, turn_num)
  <2>1. turn_num = 0 /\ phase' = "finished"
    BY <1>3, <1>4 DEF PlayingWait
  <2>2. Barrier!Over(players, 0)
    <3>1. is_finished(players, 0)
      BY <1>3, <1>4, <2>1
    <3> QED
      BY <3>1, SameOver
  <2>3. Barrier!Abandon
    BY <1>1, <2>1, <2>2 DEF Barrier!Abandon
  <2> QED
    BY <2>3 DEF Barrier!Next
<1>5. CASE ~is_finished(alive, turn_num)
  <2>1. phase' = phase
    BY <1>5 DEF PlayingWait
  <2>2. CASE ~IsResponse
    <3>1. commands' = commands
      BY <1>1, <2>2 DEF Collected
    <3> QED
      BY <1>1, <2>1, <3>1 DEF Stage, AnswersGiven
  <2>3. CASE IsResponse
    <3>0. PICK p : p = Responder
      OBVIOUS
    <3>1. p \in waiting_for /\ Event.num = turn_num
      BY <1>1, <2>3, <3>0, AnswerIsOwed
    <3>2. /\ p \in Barrier!Unanswered /\ p \in players
          /\ Barrier!Unanswered # {p}
      BY <1>1, <1>3, <2>3, <3>0, <3>1 DEF Barrier!Unanswered, StillWaiting
    <3>3. commands' = Insert(commands, p, [value |-> Event.value, num |-> turn_num])
      BY <1>1, <2>3, <3>0, <3>1 DEF Collected
    <3>4. AnswersGiven' = [q \in DOMAIN AnswersGiven \union {p} |->
                              IF q = p THEN turn_num ELSE AnswersGiven[q]]
      BY <3>3 DEF AnswersGiven, Insert
    <3>5. Barrier!Collect(p)
      BY <1>1, <2>1, <3>2, <3>4 DEF Barrier!Collect, AnswersGiven
    <3>6. \E q \in players : Barrier!Collect(q)
      BY <3>2, <3>5
    <3> QED
      BY <3>6 DEF Barrier!Next
  <2> QED
    BY <2>2, <2>3
<1> QED
  BY <1>4, <1>5

LEMMA PlayRefined ==
  ASSUME IInv, PlayingStep
  PROVE  Barrier!Play
<1> USE DEF IInv
<1>1. PICK living \in SUBSET players, over \in BOOLEAN :
           /\ over <=> is_finished(living, turn_num + 1)
           /\ players' = IF over THEN {} ELSE living
           /\ IF over THEN phase' = "finished" ELSE phase' = phase
  BY StepFacts
<1>2. /\ phase = "playing" /\ event_channel # <<>> /\ StillWaiting = {}
      /\ DOMAIN commands' = {} /\ turn_num' = turn_num + 1
  BY DEF PlayingStep, CommandsLeft
<1>3. /\ waiting_for = players \ DOMAIN commands /\ (waiting_for = {} => players = {})
  BY <1>2 DEF GameOK
<1>4. Barrier!Unanswered = waiting_for
  BY <1>3 DEF Barrier!Unanswered
<1>5. Barrier!Cardinality(waiting_for) <= 1
  <2>1. waiting_for = {} \/ waiting_for = {Responder}
    BY <1>2, AnswerIsOwed DEF StillWaiting
  <2>2. Cardinality(waiting_for) <= 1
    <3>1. CASE waiting_for = {}
      <4>1. Cardinality(waiting_for) = 0
        BY <3>1, FS_EmptySet
      <4> QED
        BY <4>1
    <3>2. CASE waiting_for = {Responder}
      <4>1. Cardinality(waiting_for) = 1
        BY <3>2, FS_Singleton
      <4> QED
        BY <4>1
    <3> QED
      BY <2>1, <3>1, <3>2
  <2>3. Barrier!Cardinality(waiting_for) = Cardinality(waiting_for)
    BY DEF Barrier!Cardinality, Cardinality
  <2> QED
    BY <2>2, <2>3
<1>6. Barrier!Over(living, turn_num + 1) <=> over
  BY <1>1, SameOver
<1>7. Stage = "turns" /\ Stage' = IF over THEN "over" ELSE "turns"
  BY <1>1, <1>2 DEF Stage
<1> QED
  BY <1>1, <1>2, <1>3, <1>4, <1>5, <1>6, <1>7 DEF Barrier!Play, Stage

LEMMA StepRefined == IInv /\ [Next]_vars => [Barrier!Next]_(Barrier!vars)
<1> SUFFICES ASSUME IInv, [Next]_vars
             PROVE  Barrier!Next \/ UNCHANGED <<Stage, turn_num, players, AnswersGiven>>
  BY DEF Barrier!vars, Stage, AnswersGiven
<1>1. CASE LobbyStartGame
  BY <1>1, LobbyRefined DEF Barrier!Next
<1>2. CASE PlayingWait
  BY <1>2, WaitRefined
<1>3. CASE PlayingStep
  BY <1>3, PlayRefined DEF Barrier!Next
<1>4. CASE UNCHANGED <<phase, turn_num, players, commands>>
  BY <1>4 DEF Stage, AnswersGiven
<1>5. CASE LobbyAddPlayer \/ LobbyRemovePlayer \/ LobbyIgnore
  BY <1>4, <1>5 DEF LobbyAddPlayer, LobbyRemovePlayer, LobbyIgnore, gameVars
<1>6. ASSUME NEW content, NEW body, LobbyConnection(content, body)
      PROVE  UNCHANGED <<phase, turn_num, players, commands>>
  BY <1>6 DEF LobbyConnection, gameVars
<1>7. CASE Exit
  BY <1>7 DEF Exit, gameVars, Stage, AnswersGiven
<1>8. CASE UNCHANGED matchVars
  BY <1>4, <1>8 DEF matchVars, gameVars
<1>9. CASE UNCHANGED vars
  BY <1>4, <1>9 DEF vars, gameVars
<1> QED
  BY <1>1, <1>2, <1>3, <1>4, <1>5, <1>6, <1>7, <1>8, <1>9 DEF Next, Match

\* A match implements TurnBarrier: no turn is played (PwController::step)
\* before each living player has given one answer, to this turn's prompt.
THEOREM Refinement == Spec => ImplementsTurnBarrier
<1>1. Init => Barrier!Init
  BY DEF Init, Barrier!Init
<1>2. IInv /\ [Next]_vars => [Barrier!Next]_(Barrier!vars)
  BY StepRefined
<1> QED
  BY <1>1, <1>2, Invariance, PTL DEF Spec, ImplementsTurnBarrier, Barrier!Spec
-----------------------------------------------------------------------------
(* How the log of a client grows *)

LEMMA LogTypes ==
  ASSUME TypeOK, NEW c \in ClientIds
  PROVE  /\ Log(c) \in Seq(Commands) /\ buffer[c] \in Seq(Commands)
         /\ ctrl_chan[c] \in Seq(Commands)
         /\ DOMAIN Log(c) = 1 .. Len(Log(c)) /\ Len(Log(c)) \in Nat
BY DEF TypeOK, HandlersTypeOK, Log

\* What comes off the front of the second part goes to the end of the first.
LEMMA MoveOver ==
  ASSUME NEW S, NEW s \in Seq(S), NEW t \in Seq(S), t # <<>>
  PROVE  Append(s, Head(t)) \o Tail(t) = s \o t
<1> DEFINE u == Append(s, Head(t)) \o Tail(t)
           v == s \o t
<1>1. Append(s, Head(t)) \in Seq(S) /\ Tail(t) \in Seq(S) /\ Head(t) \in S
  OBVIOUS
<1>2. /\ u \in Seq(S) /\ Len(u) = Len(s) + Len(t)
      /\ v \in Seq(S) /\ Len(v) = Len(s) + Len(t)
  BY <1>1
<1>3. ASSUME NEW i \in 1 .. Len(u) PROVE u[i] = v[i]
  <2>1. CASE i <= Len(s)
    BY <1>1, <1>2, <2>1
  <2>2. CASE i = Len(s) + 1
    BY <1>1, <1>2, <2>2
  <2>3. CASE i > Len(s) + 1
    BY <1>1, <1>2, <2>3
  <2> QED
    BY <1>2, <2>1, <2>2, <2>3
<1> HIDE DEF u, v
<1>4. u = v
  BY <1>2, <1>3, SeqEqual
<1> QED
  BY <1>4 DEF u, v

LEMMA LogHandled ==
  ASSUME TypeOK, NEW d \in ClientIds, HandleCommand(d), NEW c \in ClientIds
  PROVE  Log(c)' = Log(c)
<1>1. /\ ctrl_chan' = [ctrl_chan EXCEPT ![d] = Tail(@)]
      /\ buffer' = [buffer EXCEPT ![d] = Append(@, Head(ctrl_chan[d]))]
      /\ ctrl_chan \in [ClientIds -> Seq(Commands)] /\ buffer \in [ClientIds -> Seq(Commands)]
      /\ ctrl_chan[d] # <<>>
  BY DEF HandleCommand, TypeOK, HandlersTypeOK
<1>2. CASE c # d
  BY <1>1, <1>2 DEF Log
<1>3. CASE c = d
  <2>1. ctrl_chan'[c] = Tail(ctrl_chan[c]) /\ buffer'[c] = Append(buffer[c], Head(ctrl_chan[c]))
    BY <1>1, <1>3
  <2>2. Append(buffer[c], Head(ctrl_chan[c])) \o Tail(ctrl_chan[c]) = buffer[c] \o ctrl_chan[c]
    BY <1>1, <1>3, MoveOver
  <2> QED
    BY <2>1, <2>2 DEF Log
<1> QED
  BY <1>2, <1>3

LEMMA LogGrows ==
  ASSUME TypeOK, buffer' = buffer, NEW out \in [ClientIds -> Seq(Commands)], SendAll(out),
         NEW c \in ClientIds
  PROVE  Log(c)' = Log(c) \o out[c]
<1>1. ctrl_chan'[c] = ctrl_chan[c] \o out[c]
  BY SendAllFacts
<1>2. /\ buffer[c] \in Seq(Commands) /\ ctrl_chan[c] \in Seq(Commands)
      /\ out[c] \in Seq(Commands)
  BY LogTypes
<1>3. (buffer[c] \o ctrl_chan[c]) \o out[c] = buffer[c] \o (ctrl_chan[c] \o out[c])
  <2> DEFINE s == buffer[c]
             t == ctrl_chan[c]
             u == out[c]
  <2>1. s \in Seq(Commands) /\ t \in Seq(Commands) /\ u \in Seq(Commands)
    BY <1>2
  <2> HIDE DEF s, t, u
  <2>2. (s \o t) \o u = s \o (t \o u)
    BY <2>1, ConcatAssociative
  <2> QED
    BY <2>2 DEF s, t, u
<1> QED
  BY <1>1, <1>3 DEF Log

LEMMA LogSent ==
  ASSUME TypeOK, buffer' = buffer, NEW cmd \in Commands, SendCtrl(cmd)
  PROVE  /\ Log(Ctrl)' = Append(Log(Ctrl), cmd)
         /\ \A c \in PlayerClients : Log(c)' = Log(c)
<1>1. /\ ctrl_chan \in [ClientIds -> Seq(Commands)] /\ Ctrl \in ClientIds
      /\ Ctrl \notin PlayerClients /\ PlayerClients \subseteq ClientIds
  BY DEF TypeOK, HandlersTypeOK, Ctrl, ClientIds, PlayerClients
<1>2. /\ ctrl_chan'[Ctrl] = Append(ctrl_chan[Ctrl], cmd)
      /\ \A c \in ClientIds : c # Ctrl => ctrl_chan'[c] = ctrl_chan[c]
  BY <1>1 DEF SendCtrl
<1> DEFINE s == buffer[Ctrl]
           t == ctrl_chan[Ctrl]
<1>3. s \in Seq(Commands) /\ t \in Seq(Commands)
  BY <1>1, LogTypes
<1>4. s \o Append(t, cmd) = Append(s \o t, cmd)
  <2> HIDE DEF s, t
  <2>1. Append(t, cmd) = t \o <<cmd>> /\ <<cmd>> \in Seq(Commands)
    BY <1>3, AppendIsConcat
  <2>2. Append(s \o t, cmd) = (s \o t) \o <<cmd>>
    BY <1>3, AppendIsConcat, ConcatProperties
  <2> QED
    BY <1>3, <2>1, <2>2, ConcatAssociative
<1> QED
  BY <1>1, <1>2, <1>4 DEF Log

\* Steps of the match that send to the control client only.
LobbySteps ==
    \/ LobbyAddPlayer \/ LobbyRemovePlayer \/ LobbyIgnore
    \/ LobbyConnection("connected", "playerConnected")
    \/ LobbyConnection("disconnected", "playerDisconnected")

\* What a step of the lobby tells the control client, if anything.
LEMMA LobbySays ==
  ASSUME IInv, LobbySteps
  PROVE  /\ phase = "lobby" /\ event_channel # <<>> /\ event_channel \in Seq(Events)
         /\ Event \in Events /\ NextEvent /\ Unconcerned
         /\ UNCHANGED phase /\ UNCHANGED gameVars
         /\ \A c \in PlayerClients : Log(c)' = Log(c)
         /\ \/ /\ LobbyAddPlayer
               /\ Log(Ctrl)' = Append(Log(Ctrl), Response("addPlayerResponse", client_counter))
               /\ client_counter \in PlayerClients
            \/ /\ LobbyRemovePlayer
               /\ Log(Ctrl)' = Append(Log(Ctrl), Response("removePlayerResponse", Event.num))
            \/ /\ LobbyConnection("connected", "playerConnected")
               /\ Log(Ctrl)' = Append(Log(Ctrl), Message("playerConnected", Event.client_id))
            \/ /\ LobbyConnection("disconnected", "playerDisconnected")
               /\ Log(Ctrl)' = Append(Log(Ctrl), Message("playerDisconnected", Event.client_id))
            \/ LobbyIgnore /\ Log(Ctrl)' = Log(Ctrl)
<1>1. TypeOK /\ client_counter \in 1 .. MaxClients + 1 /\ event_channel \in Seq(Events)
  BY DEF IInv, TypeOK, HandlersTypeOK
<1>2. /\ phase = "lobby" /\ event_channel # <<>> /\ NextEvent /\ Unconcerned
      /\ UNCHANGED phase /\ UNCHANGED gameVars
  BY DEF LobbySteps, LobbyAddPlayer, LobbyRemovePlayer, LobbyIgnore, LobbyConnection,
         LobbyRequest, Lobby
<1>3. Event \in Events
  BY <1>1, <1>2 DEF Event
<1>4. buffer' = buffer
  BY <1>2 DEF Unconcerned
<1>5. CASE LobbyAddPlayer
  <2>1. client_counter \in PlayerClients
    BY <1>1, <1>5 DEF LobbyAddPlayer, PlayerClients
  <2>2. Response("addPlayerResponse", client_counter) \in Commands
    BY <1>1 DEF Response, Commands, Bodies
  <2> QED
    BY <1>1, <1>2, <1>3, <1>4, <1>5, <2>1, <2>2, LogSent DEF LobbyAddPlayer
<1>6. CASE LobbyRemovePlayer
  <2>1. Response("removePlayerResponse", Event.num) \in Commands
    BY <1>3 DEF Response, Commands, Bodies, Events
  <2> QED
    BY <1>1, <1>2, <1>3, <1>4, <1>6, <2>1, LogSent DEF LobbyRemovePlayer
<1>7. CASE LobbyIgnore
  BY <1>1, <1>2, <1>3, <1>4, <1>7 DEF LobbyIgnore, Log
<1>8. ASSUME NEW body \in {"playerConnected", "playerDisconnected"}, NEW content,
             LobbyConnection(content, body)
      PROVE  /\ Log(Ctrl)' = Append(Log(Ctrl), Message(body, Event.client_id))
             /\ \A c \in PlayerClients : Log(c)' = Log(c)
  <2>1. Message(body, Event.client_id) \in Commands
    BY <1>3 DEF Message, Commands, Bodies, Events, ClientIds
  <2> QED
    BY <1>1, <1>4, <1>8, <2>1, LogSent DEF LobbyConnection
<1> QED
  BY <1>1, <1>2, <1>3, <1>5, <1>6, <1>7, <1>8 DEF LobbySteps

\* Steps that send nothing.
QuietSteps ==
    \/ PlayingWait \/ Exit \/ UNCHANGED vars
    \/ (ControlRequest \/ \E c \in ClientIds : Handler(c)) /\ UNCHANGED matchVars

LEMMA StepKinds ==
  ASSUME [Next]_vars
  PROVE  LobbySteps \/ LobbyStartGame \/ PlayingStep \/ QuietSteps
BY DEF Next, Match, LobbySteps, QuietSteps

LEMMA QuietLogs ==
  ASSUME IInv, QuietSteps, NEW c \in ClientIds
  PROVE  Log(c)' = Log(c)
<1>0. TypeOK
  BY DEF IInv
<1>1. CASE UNCHANGED <<buffer, ctrl_chan>>
  BY <1>1 DEF Log
<1>2. CASE PlayingWait \/ Exit \/ UNCHANGED vars
  BY <1>1, <1>2 DEF PlayingWait, Exit, Unconcerned, vars, handlerVars
<1>3. CASE ControlRequest
  BY <1>1, <1>3 DEF ControlRequest, HandleMessage
<1>4. ASSUME NEW d \in ClientIds, Handler(d) PROVE Log(c)' = Log(c)
  <2>1. CASE HandleCommand(d)
    BY <1>0, <2>1, LogHandled
  <2>2. CASE ~HandleCommand(d)
    BY <1>1, <1>4, <2>2 DEF Handler, HandleTimeout, HandleResponse, Connect, Disconnect,
                            DispatchFails, HandleMessage
  <2> QED
    BY <2>1, <2>2
<1> QED
  BY <1>2, <1>3, <1>4 DEF QuietSteps

\* What the start of a game says to each client.
Opening(c) ==
    IF c = Ctrl THEN <<Response("startGameResponse", 0), Message("gameState", turn_num)>>
    ELSE IF c \in lobby_players THEN <<Prompt(c)>>
    ELSE <<>>

LEMMA StartSays ==
  ASSUME IInv, LobbyStartGame, NEW c \in ClientIds
  PROVE  Log(c)' = Log(c) \o Opening(c) /\ Opening(c) \in Seq(Commands)
<1> DEFINE out == [d \in ClientIds |-> Opening(d)]
<1>1. /\ SendAll([d \in ClientIds |->
            IF d = Ctrl THEN <<Response("startGameResponse", 0),
                               Message("gameState", turn_num)>>
            ELSE IF d \in lobby_players THEN <<Prompt(d)>>
            ELSE <<>>])
      /\ buffer' = buffer /\ TypeOK
  BY DEF LobbyStartGame, Unconcerned, IInv
<1>2. SendAll(out)
  BY <1>1 DEF Opening
<1>3. \A d \in ClientIds : Opening(d) \in Seq(Commands)
  <2>1. /\ Response("startGameResponse", 0) \in Commands
        /\ Message("gameState", turn_num) \in Commands
        /\ \A d \in ClientIds : Prompt(d) \in Commands
    BY <1>1 DEF TypeOK, Response, Message, Prompt, Commands, Bodies
  <2> QED
    BY <2>1 DEF Opening
<1>4. out \in [ClientIds -> Seq(Commands)]
  BY <1>3
<1>5. out[c] = Opening(c)
  OBVIOUS
<1> HIDE DEF out
<1> QED
  BY <1>1, <1>2, <1>3, <1>4, <1>5, LogGrows

LEMMA StepSays ==
  ASSUME IInv, PlayingStep
  PROVE  \E living \in SUBSET players, over \in BOOLEAN :
           /\ players' = IF over THEN {} ELSE living
           /\ phase' = IF over THEN "finished" ELSE "playing"
           /\ \A c \in ClientIds : /\ Log(c)' = Log(c) \o Said(c, living, over)
                                   /\ Said(c, living, over) \in Seq(Commands)
<1>1. PICK living \in SUBSET players, over \in BOOLEAN :
           /\ players' = IF over THEN {} ELSE living
           /\ SendAll([c \in ClientIds |-> Said(c, living, over)])
           /\ [c \in ClientIds |-> Said(c, living, over)] \in [ClientIds -> Seq(Commands)]
           /\ IF over THEN phase' = "finished" ELSE phase' = phase
  BY StepFacts
<1>2. TypeOK /\ buffer' = buffer /\ phase = "playing"
  BY DEF IInv, PlayingStep, Unconcerned
<1> DEFINE out == [c \in ClientIds |-> Said(c, living, over)]
<1>3. SendAll(out) /\ out \in [ClientIds -> Seq(Commands)]
  BY <1>1
<1>4. \A c \in ClientIds : out[c] = Said(c, living, over)
  OBVIOUS
<1> HIDE DEF out
<1>5. ASSUME NEW c \in ClientIds
      PROVE  /\ Log(c)' = Log(c) \o Said(c, living, over)
             /\ Said(c, living, over) \in Seq(Commands)
  BY <1>2, <1>3, <1>4, <1>5, LogGrows
<1> QED
  BY <1>1, <1>2, <1>5

-----------------------------------------------------------------------------
(* The players *)

\* PlayerDialogue for one client.
Dialogue(c) ==
    \A i \in DOMAIN Log(c) :
        IF i % 2 = 0 THEN Log(c)[i].body = "playerAction"
        ELSE \/ /\ Log(c)[i].kind = "request"
                /\ Log(c)[i].num = i \div 2
             \/ /\ Log(c)[i].body = "finalState"
                /\ i = Len(Log(c))

\* How far the dialogue has come: one prompt, and a report and a prompt for
\* each turn, for a player in the game, and the final state for one that left.
Spoken(c) ==
    IF c \notin DOMAIN client_player THEN Log(c) = <<>>
    ELSE IF client_player[c] \in players
    THEN /\ Len(Log(c)) = 2 * turn_num + 1
         /\ Log(c)[Len(Log(c))].body # "finalState"
    ELSE /\ Log(c) # <<>>
         /\ Log(c)[Len(Log(c))].body = "finalState"

\* A game that was played ends with nobody left in it.
NobodyLeft == phase \in {"finished", "exited"} /\ turn_num > 0 => players = {}

DialogueInv == NobodyLeft /\ \A c \in PlayerClients : Dialogue(c) /\ Spoken(c)

LEMMA DialogueInit == Init => DialogueInv
<1> SUFFICES ASSUME Init, NEW c \in PlayerClients PROVE Dialogue(c) /\ Spoken(c) /\ NobodyLeft
  BY DEF DialogueInv, NobodyLeft, Init
<1>1. c \in ClientIds
  BY DEF PlayerClients, ClientIds
<1>2. Log(c) = <<>>
  BY <1>1 DEF Init, HandlersInit, Log
<1> QED
  BY <1>2 DEF Init, Dialogue, Spoken, NobodyLeft

\* A client that is told nothing, while its player stays where it is.
LEMMA DialogueKept ==
  ASSUME NEW c \in PlayerClients, Log(c)' = Log(c),
         UNCHANGED <<client_player, players, turn_num>>, Dialogue(c), Spoken(c)
  PROVE  Dialogue(c)' /\ Spoken(c)'
BY DEF Dialogue, Spoken

LEMMA DialogueStart ==
  ASSUME IInv, LobbyStartGame, NEW c \in PlayerClients, Spoken(c)
  PROVE  Dialogue(c)' /\ Spoken(c)'
<1>1. c \in ClientIds /\ c # Ctrl
  BY DEF PlayerClients, ClientIds, Ctrl
<1>2. /\ DOMAIN client_player = {} /\ request_counter[c] = 0 /\ turn_num = 0
      /\ phase = "lobby" /\ turn_num' = turn_num
  BY <1>1 DEF IInv, LobbyOK, LobbyStartGame, LobbyRequest, Lobby
<1>3. /\ client_player' \in [lobby_players -> PlayerIds]
      /\ players' = {client_player'[d] : d \in lobby_players}
  BY DEF LobbyStartGame, Numberings
<1>4. Log(c) = <<>>
  BY <1>2 DEF Spoken
<1>5. Log(c)' = Opening(c)
  <2>1. Log(c)' = <<>> \o Opening(c) /\ Opening(c) \in Seq(Commands)
    BY <1>1, <1>4, StartSays
  <2> QED
    BY <2>1, ConcatEmptySeq
<1>6. CASE c \notin lobby_players
  <2>1. Log(c)' = <<>>
    BY <1>1, <1>5, <1>6 DEF Opening
  <2> QED
    BY <1>3, <1>6, <2>1 DEF Dialogue, Spoken
<1>7. CASE c \in lobby_players
  <2> DEFINE p == Prompt(c)
  <2>1. Log(c)' = <<p>> /\ p.kind = "request" /\ p.body = "gameState" /\ p.num = 0
    BY <1>1, <1>2, <1>5, <1>7 DEF Opening, Prompt
  <2> HIDE DEF p
  <2>2. /\ DOMAIN Log(c)' = {1} /\ Len(Log(c)') = 1 /\ Log(c)'[1] = p
    BY <2>1
  <2>3. /\ DOMAIN Log(c)' = (DOMAIN Log(c))' /\ Len(Log(c)') = Len(Log(c))'
    OBVIOUS
  <2>4. Dialogue(c)'
    <3>1. 1 % 2 = 1 /\ 1 \div 2 = 0
      OBVIOUS
    <3> QED
      BY <2>1, <2>2, <3>1 DEF Dialogue
  <2>5. Spoken(c)'
    BY <1>2, <1>3, <1>7, <2>1, <2>2 DEF Spoken
  <2> QED
    BY <2>4, <2>5
<1> QED
  BY <1>6, <1>7

LEMMA DialogueStep ==
  ASSUME IInv, PlayingStep, NEW c \in PlayerClients, Dialogue(c), Spoken(c)
  PROVE  Dialogue(c)' /\ Spoken(c)'
<1>1. c \in ClientIds /\ c # Ctrl
  BY DEF PlayerClients, ClientIds, Ctrl
<1>2. PICK living \in SUBSET players, over \in BOOLEAN :
           /\ players' = IF over THEN {} ELSE living
           /\ Log(c)' = Log(c) \o Said(c, living, over)
           /\ Said(c, living, over) \in Seq(Commands)
  BY <1>1, StepSays
<1>3. /\ UNCHANGED client_player /\ turn_num' = turn_num + 1 /\ turn_num \in Nat
      /\ phase = "playing"
  BY DEF PlayingStep, IInv, TypeOK
<1>4. Log(c) \in Seq(Commands) /\ DOMAIN Log(c) = 1 .. Len(Log(c)) /\ Len(Log(c)) \in Nat
  BY <1>1, LogTypes DEF IInv
<1>5. CASE ~(c \in DOMAIN client_player /\ client_player[c] \in players)
  <2>1. Said(c, living, over) = <<>>
    BY <1>1, <1>5 DEF Said
  <2>2. Log(c)' = Log(c)
    BY <1>2, <1>4, <2>1, ConcatEmptySeq
  <2>3. c \in DOMAIN client_player => client_player[c] \notin players'
    BY <1>2, <1>5
  <2> QED
    BY <1>3, <1>5, <2>2, <2>3 DEF Dialogue, Spoken
<1>6. CASE c \in DOMAIN client_player /\ client_player[c] \in players
  <2> DEFINE gone == over \/ client_player[c] \notin living
             a == Message("playerAction", 0)
             b == IF gone THEN Message("finalState", turn_num + 1) ELSE Prompt(c)
             n == 2 * turn_num + 1
  <2>1. Said(c, living, over) = <<a, b>>
    BY <1>1, <1>6 DEF Said
  <2>2. Len(Log(c)) = n /\ Log(c)[n].body # "finalState"
    BY <1>6 DEF Spoken
  <2>3. a.body = "playerAction"
    BY DEF Message
  <2>4. /\ gone => b.body = "finalState"
        /\ ~gone => b.kind = "request" /\ b.body = "gameState" /\ b.num = turn_num + 1
    <3>1. request_counter[c] = turn_num + 1
      BY <1>3, <1>6 DEF IInv, GameOK
    <3> QED
      BY <3>1 DEF Message, Prompt
  <2>5. gone <=> client_player'[c] \notin players'
    BY <1>2, <1>3
  <2> HIDE DEF a, b, gone
  <2>6. /\ Len(Log(c)') = n + 2 /\ DOMAIN Log(c)' = 1 .. n + 2
        /\ \A i \in 1 .. n : Log(c)'[i] = Log(c)[i]
        /\ Log(c)'[n + 1] = a /\ Log(c)'[n + 2] = b
    BY SMTT(30), <1>2, <1>3, <1>4, <2>1, <2>2
  <2>7. Dialogue(c)'
    <3> SUFFICES ASSUME NEW i \in 1 .. n + 2
                 PROVE  IF i % 2 = 0 THEN Log(c)'[i].body = "playerAction"
                        ELSE \/ Log(c)'[i].kind = "request" /\ Log(c)'[i].num = i \div 2
                             \/ Log(c)'[i].body = "finalState" /\ i = n + 2
      BY <2>6 DEF Dialogue
    <3>1. CASE i \in 1 .. n
      BY <1>4, <2>2, <2>6, <3>1 DEF Dialogue
    <3>2. CASE i = n + 1
      <4>1. i % 2 = 0
        BY <1>3, <3>2
      <4> QED
        BY <2>3, <2>6, <3>2, <4>1
    <3>3. CASE i = n + 2
      <4>1. i % 2 = 1 /\ i \div 2 = turn_num + 1
        BY <1>3, <3>3
      <4> QED
        BY <2>4, <2>6, <3>3, <4>1
    <3> QED
      BY <1>3, <3>1, <3>2, <3>3
  <2>8. Spoken(c)'
    BY <1>3, <1>6, <2>4, <2>5, <2>6 DEF Spoken
  <2> QED
    BY <2>7, <2>8
<1> QED
  BY <1>5, <1>6

LEMMA DialogueNext == IInv /\ DialogueInv /\ [Next]_vars => DialogueInv'
<1> SUFFICES ASSUME IInv, DialogueInv, [Next]_vars PROVE DialogueInv'
  OBVIOUS
<1>1. \A c \in PlayerClients : c \in ClientIds
  BY DEF PlayerClients, ClientIds
<1>2. CASE LobbySteps
  BY <1>2, LobbySays, DialogueKept DEF DialogueInv, NobodyLeft, gameVars
<1>3. CASE LobbyStartGame
  <2>1. phase' = "playing"
    BY <1>3 DEF LobbyStartGame
  <2> QED
    BY <1>3, <2>1, DialogueStart DEF DialogueInv, NobodyLeft
<1>4. CASE PlayingStep
  <2>1. NobodyLeft'
    BY <1>4, StepSays DEF NobodyLeft
  <2> QED
    BY <1>4, <2>1, DialogueStep DEF DialogueInv
<1>5. CASE QuietSteps
  <2>1. UNCHANGED <<client_player, players, turn_num>>
    BY <1>5 DEF QuietSteps, PlayingWait, Exit, vars, matchVars, gameVars
  <2>2. NobodyLeft'
    <3>1. CASE PlayingWait
      <4>1. phase = "playing" /\ turn_num \in Nat
            /\ (phase' = "playing" \/ is_finished(alive, turn_num))
        BY <3>1 DEF PlayingWait, IInv, TypeOK
      <4> QED
        BY <2>1, <4>1 DEF NobodyLeft, IInv, GameOK
    <3>2. CASE ~PlayingWait
      <4>1. phase' = phase \/ (phase = "finished" /\ phase' = "exited")
        BY <1>5, <3>2 DEF QuietSteps, Exit, vars, matchVars
      <4> QED
        BY <2>1, <4>1 DEF NobodyLeft, DialogueInv
    <3> QED
      BY <3>1, <3>2
  <2> QED
    BY <1>1, <1>5, <2>1, <2>2, QuietLogs, DialogueKept DEF DialogueInv
<1> QED
  BY <1>2, <1>3, <1>4, <1>5, StepKinds

LEMMA DialogueAlways == Spec => [](IInv /\ DialogueInv)
<1>1. Init => IInv /\ DialogueInv
  BY InitInv, DialogueInit
<1>2. IInv /\ DialogueInv /\ [Next]_vars => (IInv /\ DialogueInv)'
  BY NextInv, DialogueNext
<1> QED
  BY <1>1, <1>2, PTL DEF Spec

\* A player hears its prompts in order, each followed by the report on its
\* answer, and after a final state nothing more (step, prompt_players and
\* finish_game in pw_controller.rs), in a game of any length.
THEOREM DialogueInOrder == Spec => []PlayerDialogue
<1>1. DialogueInv => PlayerDialogue
  BY DEF DialogueInv, Dialogue, PlayerDialogue
<1> QED
  BY DialogueAlways, <1>1, PTL

\* When a game that was played is over, every client that had a player has
\* been sent a final state, as the last thing it hears (finish_game).
THEOREM NobodyIsForgotten == Spec => []EveryoneGetsFinalState
<1>1. IInv /\ DialogueInv => EveryoneGetsFinalState
  BY DEF IInv, TypeOK, DialogueInv, NobodyLeft, Spoken, EveryoneGetsFinalState
<1> QED
  BY DialogueAlways, <1>1, PTL

-----------------------------------------------------------------------------
(* The control client and the turns *)

StatesIn(s) == {i \in DOMAIN s : s[i].body = "gameState"}
Told(s)     == {s[i] : i \in StatesIn(s)}
InOrder(s)  == \A i, j \in StatesIn(s) : i < j => s[i].num < s[j].num

\* ControlSeesEveryTurn, in these terms.
TurnsTold ==
    /\ InOrder(Log(Ctrl))
    /\ Told(Log(Ctrl)) = {Message("gameState", n) : n \in {m \in 0 .. turn_num : phase # "lobby"}}

LEMMA AppendFacts ==
  ASSUME NEW s \in Seq(Commands), NEW cmd \in Commands
  PROVE  /\ Append(s, cmd) \in Seq(Commands) /\ DOMAIN Append(s, cmd) = 1 .. Len(s) + 1
         /\ \A i \in 1 .. Len(s) : Append(s, cmd)[i] = s[i]
         /\ Append(s, cmd)[Len(s) + 1] = cmd
         /\ DOMAIN s = 1 .. Len(s) /\ Len(s) \in Nat /\ Len(Append(s, cmd)) = Len(s) + 1
OBVIOUS

LEMMA OtherTold ==
  ASSUME NEW s \in Seq(Commands), NEW cmd \in Commands, cmd.body # "gameState"
  PROVE  /\ Told(Append(s, cmd)) = Told(s)
         /\ InOrder(s) => InOrder(Append(s, cmd))
<1> DEFINE u == Append(s, cmd)
<1>1. /\ DOMAIN u = 1 .. Len(s) + 1 /\ DOMAIN s = 1 .. Len(s) /\ Len(s) \in Nat
      /\ \A i \in 1 .. Len(s) : u[i] = s[i]
      /\ u[Len(s) + 1] = cmd
  BY AppendFacts
<1> HIDE DEF u
<1>2. StatesIn(u) = StatesIn(s) /\ \A i \in StatesIn(s) : u[i] = s[i]
  BY <1>1 DEF StatesIn
<1>3. Told(u) = Told(s)
  BY <1>2 DEF Told
<1>4. InOrder(s) => InOrder(u)
  BY <1>2 DEF InOrder
<1> QED
  BY <1>3, <1>4 DEF u

LEMMA StateTold ==
  ASSUME NEW s \in Seq(Commands), NEW cmd \in Commands, cmd.body = "gameState",
         \A m \in Told(s) : m.num < cmd.num
  PROVE  /\ Told(Append(s, cmd)) = Told(s) \union {cmd}
         /\ InOrder(s) => InOrder(Append(s, cmd))
<1> DEFINE u == Append(s, cmd)
           n == Len(s) + 1
<1>1. /\ DOMAIN u = 1 .. n /\ DOMAIN s = 1 .. n - 1 /\ n \in Nat \ {0}
      /\ \A i \in 1 .. n - 1 : u[i] = s[i]
      /\ u[n] = cmd
  BY AppendFacts
<1> HIDE DEF u, n
<1>2. /\ StatesIn(u) = StatesIn(s) \union {n} /\ \A i \in StatesIn(s) : u[i] = s[i] /\ i < n
      /\ StatesIn(s) \subseteq Nat
  <2>1. /\ StatesIn(u) = {i \in 1 .. n : u[i].body = "gameState"}
        /\ StatesIn(s) = {i \in 1 .. n - 1 : s[i].body = "gameState"}
    BY <1>1 DEF StatesIn
  <2>2. n \in StatesIn(u)
    BY <1>1, <2>1
  <2>3. \A i \in 1 .. n : i # n => (i \in StatesIn(u) <=> i \in StatesIn(s))
    BY <1>1, <2>1
  <2> QED
    BY <1>1, <2>1, <2>2, <2>3
<1>3. Told(u) = Told(s) \union {cmd}
  BY <1>1, <1>2 DEF Told
<1>4. ASSUME InOrder(s), NEW i \in StatesIn(u), NEW j \in StatesIn(u), i < j
      PROVE  u[i].num < u[j].num
  <2>1. i \in StatesIn(s)
    BY <1>1, <1>2, <1>4
  <2>2. CASE j = n
    BY <1>1, <1>2, <2>1, <2>2 DEF Told
  <2>3. CASE j # n
    BY <1>2, <1>4, <2>1, <2>3 DEF InOrder
  <2> QED
    BY <2>2, <2>3
<1>5. InOrder(s) => InOrder(u)
  BY <1>4 DEF InOrder
<1> QED
  BY <1>3, <1>5 DEF u

LEMMA AppendTwo ==
  ASSUME NEW S, NEW s \in Seq(S), NEW a \in S, NEW b \in S
  PROVE  s \o <<a, b>> = Append(Append(s, a), b)
<1> DEFINE u == s \o <<a, b>>
           v == Append(Append(s, a), b)
<1>1. /\ u \in Seq(S) /\ Len(u) = Len(s) + 2
      /\ v \in Seq(S) /\ Len(v) = Len(s) + 2
      /\ \A i \in 1 .. Len(s) + 2 : u[i] = v[i]
  OBVIOUS
<1> HIDE DEF u, v
<1>2. u = v
  BY <1>1, SeqEqual
<1> QED
  BY <1>2 DEF u, v

LEMMA TurnsInit == Init => TurnsTold
<1> SUFFICES ASSUME Init PROVE TurnsTold
  OBVIOUS
<1>1. Log(Ctrl) = <<>> /\ phase = "lobby"
  BY DEF Init, HandlersInit, Log, Ctrl, ClientIds
<1>2. StatesIn(Log(Ctrl)) = {}
  BY <1>1 DEF StatesIn
<1> QED
  BY <1>1, <1>2 DEF TurnsTold, InOrder, Told

LEMMA TurnsNext == IInv /\ TurnsTold /\ [Next]_vars => TurnsTold'
<1> SUFFICES ASSUME IInv, TurnsTold, [Next]_vars PROVE TurnsTold'
  OBVIOUS
<1> DEFINE s == Log(Ctrl)
<1>1. s \in Seq(Commands) /\ turn_num \in Nat /\ client_counter \in Nat /\ Ctrl \in ClientIds
  BY LogTypes DEF IInv, TypeOK, Ctrl, ClientIds
<1>2. CASE LobbySteps
  <2>1. UNCHANGED <<phase, turn_num>> /\ Event \in Events
    BY <1>2, LobbySays DEF gameVars
  <2>2. s' = s \/ \E cmd \in Commands : cmd.body # "gameState" /\ s' = Append(s, cmd)
    <3>1. /\ Response("addPlayerResponse", client_counter) \in Commands
          /\ Response("removePlayerResponse", Event.num) \in Commands
          /\ Message("playerConnected", Event.client_id) \in Commands
          /\ Message("playerDisconnected", Event.client_id) \in Commands
      BY <1>1, <2>1 DEF Response, Message, Commands, Bodies, Events, ClientIds
    <3> QED
      BY <1>2, <3>1, LobbySays DEF Response, Message
  <2> HIDE DEF s
  <2>3. Told(s') = Told(s) /\ (InOrder(s) => InOrder(s'))
    BY <1>1, <2>2, OtherTold
  <2>4. (InOrder(s))' = InOrder(s') /\ (Told(s))' = Told(s')
    BY DEF InOrder, Told, StatesIn
  <2> QED
    BY <2>1, <2>3, <2>4 DEF TurnsTold, s
<1>3. CASE LobbyStartGame
  <2> DEFINE a == Response("startGameResponse", 0)
             b == Message("gameState", turn_num)
  <2>1. /\ phase = "lobby" /\ turn_num = 0 /\ phase' = "playing" /\ turn_num' = turn_num
    BY <1>3 DEF LobbyStartGame, LobbyRequest, Lobby, IInv, LobbyOK
  <2>2. a \in Commands /\ a.body # "gameState" /\ b \in Commands /\ b.body = "gameState"
    BY <1>1 DEF Response, Message, Commands, Bodies
  <2>3. s' = Append(Append(s, a), b)
    <3>1. s' = s \o <<a, b>>
      BY <1>1, <1>3, StartSays DEF Opening
    <3> HIDE DEF s, a, b
    <3> QED
      BY <1>1, <2>2, <3>1, AppendTwo
  <2>4. Told(s) = {}
    BY <2>1 DEF TurnsTold
  <2> HIDE DEF s, a
  <2>5. Told(Append(s, a)) = {} /\ InOrder(Append(s, a)) /\ Append(s, a) \in Seq(Commands)
    BY <1>1, <2>2, <2>4, OtherTold, AppendFacts DEF TurnsTold, s
  <2>6. Told(s') = {b} /\ InOrder(s')
    BY <2>2, <2>3, <2>5, StateTold
  <2>7. (InOrder(s))' = InOrder(s') /\ (Told(s))' = Told(s')
    BY DEF InOrder, Told, StatesIn
  <2>8. {Message("gameState", n) : n \in {m \in 0 .. turn_num' : phase' # "lobby"}} = {b}
    BY <2>1
  <2> QED
    BY <2>6, <2>7, <2>8 DEF TurnsTold, s
<1>4. CASE PlayingStep
  <2> DEFINE b == Message("gameState", turn_num + 1)
  <2>1. /\ phase = "playing" /\ turn_num' = turn_num + 1
    BY <1>4 DEF PlayingStep
  <2>2. phase' # "lobby" /\ s' = s \o <<b>>
    BY <1>1, <1>4, StepSays DEF Said
  <2>3. b \in Commands /\ b.body = "gameState" /\ b.num = turn_num + 1
    BY <1>1 DEF Message, Commands, Bodies
  <2>4. Told(s) = {Message("gameState", n) : n \in 0 .. turn_num}
    BY <2>1 DEF TurnsTold
  <2>5. \A m \in Told(s) : m.num < turn_num + 1
    BY <1>1, <2>4 DEF Message
  <2>6. {Message("gameState", n) : n \in {m \in 0 .. turn_num' : phase' # "lobby"}}
           = {Message("gameState", n) : n \in 0 .. turn_num} \union {b}
    <3>1. {m \in 0 .. turn_num' : phase' # "lobby"} = 0 .. turn_num \union {turn_num + 1}
      BY <1>1, <2>1, <2>2
    <3> QED
      BY <3>1
  <2> HIDE DEF s, b
  <2>7. s' = Append(s, b)
    BY <1>1, <2>2, <2>3, AppendIsConcat
  <2>8. Told(s') = Told(s) \union {b} /\ (InOrder(s) => InOrder(s'))
    BY <1>1, <2>3, <2>5, <2>7, StateTold
  <2>9. (InOrder(s))' = InOrder(s') /\ (Told(s))' = Told(s')
    BY DEF InOrder, Told, StatesIn
  <2> QED
    BY <2>4, <2>6, <2>8, <2>9 DEF TurnsTold, s
<1>5. CASE QuietSteps
  <2>1. Log(Ctrl)' = Log(Ctrl)
    BY <1>1, <1>5, QuietLogs
  <2>2. turn_num' = turn_num /\ ((phase = "lobby") <=> (phase' = "lobby"))
    BY <1>5 DEF QuietSteps, PlayingWait, Exit, vars, matchVars, gameVars
  <2>3. (InOrder(Log(Ctrl)))' = InOrder(Log(Ctrl)) /\ (Told(Log(Ctrl)))' = Told(Log(Ctrl))
    BY <2>1 DEF InOrder, Told, StatesIn
  <2> QED
    BY <2>2, <2>3 DEF TurnsTold
<1> QED
  BY <1>2, <1>3, <1>4, <1>5, StepKinds

\* The control client is told the state of every turn once and in order:
\* log_state comes with the start of the game and with each step
\* (pw_controller.rs), however many turns are played.
THEOREM EveryTurnIsLogged == Spec => []ControlSeesEveryTurn
<1>1. Init => IInv /\ TurnsTold
  BY InitInv, TurnsInit
<1>2. IInv /\ TurnsTold /\ [Next]_vars => (IInv /\ TurnsTold)'
  BY NextInv, TurnsNext
<1>3. TurnsTold => ControlSeesEveryTurn
  BY DEF TurnsTold, InOrder, Told, StatesIn, ControlSeesEveryTurn
<1> QED
  BY <1>1, <1>2, <1>3, PTL DEF Spec

-----------------------------------------------------------------------------
(* The control client and the clients of the lobby *)

Connections == {"playerConnected", "playerDisconnected"}

\* In log s the control client got to know client c, and still does.
Known(s, c) ==
    \E j \in DOMAIN s : /\ s[j] = Response("addPlayerResponse", c)
                        /\ \A k \in j .. Len(s) : s[k] # Response("removePlayerResponse", c)

\* ControlKnowsTheClient of a log.
Introduced(s) ==
    \A i \in DOMAIN s : s[i].body \in Connections =>
        \E j \in 1 .. i - 1 :
            /\ s[j] = Response("addPlayerResponse", s[i].num)
            /\ \A k \in j .. i : s[k] # Response("removePlayerResponse", s[i].num)

LEMMA KnownKept ==
  ASSUME NEW s \in Seq(Commands), NEW cmd \in Commands, NEW c, Known(s, c),
         cmd # Response("removePlayerResponse", c)
  PROVE  Known(Append(s, cmd), c)
<1> DEFINE u == Append(s, cmd)
<1>1. /\ DOMAIN u = 1 .. Len(s) + 1 /\ DOMAIN s = 1 .. Len(s) /\ Len(s) \in Nat
      /\ \A i \in 1 .. Len(s) : u[i] = s[i]
      /\ u[Len(s) + 1] = cmd /\ Len(u) = Len(s) + 1
  BY AppendFacts
<1> HIDE DEF u
<1>2. PICK j \in DOMAIN s :
         /\ s[j] = Response("addPlayerResponse", c)
         /\ \A k \in j .. Len(s) : s[k] # Response("removePlayerResponse", c)
  BY DEF Known
<1>3. /\ j \in DOMAIN u /\ u[j] = Response("addPlayerResponse", c)
      /\ \A k \in j .. Len(u) : u[k] # Response("removePlayerResponse", c)
  BY <1>1, <1>2
<1> QED
  BY <1>3 DEF Known, u

LEMMA KnownAdded ==
  ASSUME NEW s \in Seq(Commands), NEW c, Response("addPlayerResponse", c) \in Commands
  PROVE  Known(Append(s, Response("addPlayerResponse", c)), c)
<1> DEFINE cmd == Response("addPlayerResponse", c)
           u == Append(s, cmd)
<1>1. /\ DOMAIN u = 1 .. Len(s) + 1 /\ Len(s) \in Nat
      /\ u[Len(s) + 1] = cmd /\ Len(u) = Len(s) + 1
  BY AppendFacts
<1>2. cmd # Response("removePlayerResponse", c)
  BY DEF Response
<1> HIDE DEF u, cmd
<1>3. Len(u) \in DOMAIN u /\ u[Len(u)] = cmd /\ \A k \in Len(u) .. Len(u) : u[k] = cmd
  BY <1>1
<1>4. Known(u, c)
  BY <1>2, <1>3 DEF Known, cmd
<1> QED
  BY <1>4 DEF u, cmd

LEMMA IntroducedKept ==
  ASSUME NEW s \in Seq(Commands), NEW cmd \in Commands, Introduced(s),
         cmd.body \in Connections => Known(s, cmd.num)
  PROVE  Introduced(Append(s, cmd))
<1> DEFINE u == Append(s, cmd)
<1>1. /\ DOMAIN u = 1 .. Len(s) + 1 /\ DOMAIN s = 1 .. Len(s) /\ Len(s) \in Nat
      /\ \A i \in 1 .. Len(s) : u[i] = s[i]
      /\ u[Len(s) + 1] = cmd
  BY AppendFacts
<1> HIDE DEF u
<1> SUFFICES ASSUME NEW i \in DOMAIN u, u[i].body \in Connections
             PROVE  \E j \in 1 .. i - 1 :
                      /\ u[j] = Response("addPlayerResponse", u[i].num)
                      /\ \A k \in j .. i : u[k] # Response("removePlayerResponse", u[i].num)
  BY DEF Introduced, u
<1>2. CASE i \in DOMAIN s
  <2>1. PICK j \in 1 .. i - 1 :
           /\ s[j] = Response("addPlayerResponse", s[i].num)
           /\ \A k \in j .. i : s[k] # Response("removePlayerResponse", s[i].num)
    BY <1>1, <1>2 DEF Introduced
  <2>2. u[i] = s[i] /\ u[j] = s[j] /\ \A k \in j .. i : u[k] = s[k]
    BY <1>1, <1>2, <2>1
  <2> QED
    BY <2>1, <2>2
<1>3. CASE i = Len(s) + 1
  <2>1. PICK j \in DOMAIN s :
           /\ s[j] = Response("addPlayerResponse", cmd.num)
           /\ \A k \in j .. Len(s) : s[k] # Response("removePlayerResponse", cmd.num)
    BY <1>1, <1>3 DEF Known
  <2>2. cmd # Response("removePlayerResponse", cmd.num)
    BY <1>1, <1>3 DEF Response, Connections
  <2>3. \A k \in j .. i : u[k] # Response("removePlayerResponse", cmd.num)
    BY <1>1, <1>3, <2>1, <2>2
  <2> QED
    BY <1>1, <1>3, <2>1, <2>3
<1> QED
  BY <1>1, <1>2, <1>3

KnownInv ==
    /\ Introduced(Log(Ctrl))
    /\ \A c \in lobby_players : Known(Log(Ctrl), c)

LEMMA KnownInit == Init => KnownInv
<1> SUFFICES ASSUME Init PROVE KnownInv
  OBVIOUS
<1>1. Log(Ctrl) = <<>> /\ lobby_players = {}
  BY DEF Init, HandlersInit, Log, Ctrl, ClientIds
<1> QED
  BY <1>1 DEF KnownInv, Introduced

LEMMA KnownNext == IInv /\ KnownInv /\ [Next]_vars => KnownInv'
<1> SUFFICES ASSUME IInv, KnownInv, [Next]_vars PROVE KnownInv'
  OBVIOUS
<1> DEFINE s == Log(Ctrl)
<1>1. /\ s \in Seq(Commands) /\ turn_num \in Nat /\ client_counter \in Nat /\ Ctrl \in ClientIds
      /\ lobby_players \subseteq PlayerClients
  BY LogTypes DEF IInv, TypeOK, Ctrl, ClientIds
<1>2. Introduced(s) /\ \A c \in lobby_players : Known(s, c)
  BY DEF KnownInv
<1>3. ASSUME Introduced(s'), \A c \in lobby_players' : Known(s', c)
      PROVE  KnownInv'
  <2>1. (Introduced(s))' /\ \A c \in lobby_players' : (Known(s, c))'
    BY <1>3 DEF Introduced, Known
  <2> QED
    BY <2>1 DEF KnownInv
<1> HIDE DEF s
<1>4. CASE LobbyAddPlayer
  <2> DEFINE cmd == Response("addPlayerResponse", client_counter)
  <2>1. /\ s' = Append(s, cmd) /\ lobby_players' = lobby_players \union {client_counter}
        /\ LobbySteps
    BY <1>4, LobbySays DEF LobbyAddPlayer, LobbyRemovePlayer, LobbyConnection, LobbyIgnore,
                           LobbyRequest, Lobby, LobbyRequests, LobbySteps, s
  <2>2. /\ cmd \in Commands /\ cmd.body \notin Connections
        /\ \A c : cmd # Response("removePlayerResponse", c)
    BY <1>1 DEF Response, Commands, Bodies, Connections
  <2>3. Introduced(s')
    <3> HIDE DEF cmd
    <3> QED
      BY <1>1, <1>2, <2>1, <2>2, IntroducedKept
  <2>4. \A c \in lobby_players : Known(s', c)
    <3> HIDE DEF cmd
    <3> QED
      BY <1>1, <1>2, <2>1, <2>2, KnownKept
  <2>5. Known(s', client_counter)
    BY <1>1, <2>1, <2>2, KnownAdded
  <2> QED
    BY <1>3, <2>1, <2>3, <2>4, <2>5
<1>5. CASE LobbyRemovePlayer
  <2> DEFINE cmd == Response("removePlayerResponse", Event.num)
  <2>1. s' = Append(s, cmd) /\ lobby_players' = lobby_players \ {Event.num} /\ Event \in Events
    BY <1>5, LobbySays DEF LobbyAddPlayer, LobbyRemovePlayer, LobbyConnection, LobbyIgnore,
                           LobbyRequest, Lobby, LobbyRequests, LobbySteps, remove_player, s
  <2>2. /\ cmd \in Commands /\ cmd.body \notin Connections
        /\ \A c : c # Event.num => cmd # Response("removePlayerResponse", c)
    BY <2>1 DEF Response, Commands, Bodies, Connections, Events
  <2> HIDE DEF cmd
  <2>3. Introduced(s')
    BY <1>1, <1>2, <2>1, <2>2, IntroducedKept
  <2>4. \A c \in lobby_players' : Known(s', c)
    BY <1>1, <1>2, <2>1, <2>2, KnownKept
  <2> QED
    BY <1>3, <2>3, <2>4
<1>6. ASSUME NEW content, NEW body \in Connections, LobbyConnection(content, body),
             s' = Append(s, Message(body, Event.client_id)), Event \in Events
      PROVE  KnownInv'
  <2> DEFINE cmd == Message(body, Event.client_id)
  <2>1. lobby_players' = lobby_players /\ Event.client_id \in lobby_players
    BY <1>6 DEF LobbyConnection, lobbyVars
  <2>2. /\ cmd \in Commands /\ cmd.num = Event.client_id
        /\ \A c : cmd # Response("removePlayerResponse", c)
    BY <1>6 DEF Message, Response, Commands, Bodies, Connections, Events, ClientIds
  <2>3. s' = Append(s, cmd)
    BY <1>6
  <2> HIDE DEF cmd
  <2>4. Introduced(s')
    BY <1>1, <1>2, <2>1, <2>2, <2>3, IntroducedKept
  <2>5. \A c \in lobby_players' : Known(s', c)
    BY <1>1, <1>2, <2>1, <2>2, <2>3, KnownKept
  <2> QED
    BY <1>3, <2>4, <2>5
<1>7. CASE LobbyConnection("connected", "playerConnected")
  BY <1>6, <1>7, LobbySays DEF LobbyAddPlayer, LobbyRemovePlayer, LobbyConnection, LobbyIgnore,
                               LobbyRequest, Lobby, LobbySteps, Connections, s
<1>8. CASE LobbyConnection("disconnected", "playerDisconnected")
  BY <1>6, <1>8, LobbySays DEF LobbyAddPlayer, LobbyRemovePlayer, LobbyConnection, LobbyIgnore,
                               LobbyRequest, Lobby, LobbySteps, Connections, s
<1>9. CASE LobbyIgnore
  <2>1. s' = s
    BY <1>9 DEF LobbyIgnore, Unconcerned, s, Log
  <2> QED
    BY <1>2, <1>3, <1>9, <2>1 DEF LobbyIgnore, lobbyVars
<1>10. CASE LobbyStartGame
  <2> DEFINE a == Response("startGameResponse", 0)
             b == Message("gameState", turn_num)
  <2>1. lobby_players' = {}
    BY <1>10 DEF LobbyStartGame
  <2>2. a \in Commands /\ a.body \notin Connections /\ b \in Commands /\ b.body \notin Connections
    BY <1>1 DEF Response, Message, Commands, Bodies, Connections
  <2>3. s' = s \o <<a, b>>
    BY <1>1, <1>10, StartSays DEF Opening, s
  <2> HIDE DEF a, b
  <2>4. s' = Append(Append(s, a), b)
    BY <1>1, <2>2, <2>3, AppendTwo
  <2>5. Introduced(Append(s, a)) /\ Append(s, a) \in Seq(Commands)
    BY <1>1, <1>2, <2>2, IntroducedKept, AppendFacts
  <2>6. Introduced(s')
    BY <2>2, <2>4, <2>5, IntroducedKept
  <2> QED
    BY <1>3, <2>1, <2>6
<1>11. CASE PlayingStep
  <2> DEFINE b == Message("gameState", turn_num + 1)
  <2>1. lobby_players' = {}
    BY <1>11 DEF PlayingStep, IInv, LobbyOK, lobbyVars
  <2>2. b \in Commands /\ b.body \notin Connections
    BY <1>1 DEF Message, Commands, Bodies, Connections
  <2>3. s' = s \o <<b>>
    BY <1>1, <1>11, StepSays DEF Said, s
  <2> HIDE DEF b
  <2>4. s' = Append(s, b)
    BY <1>1, <2>2, <2>3, AppendIsConcat
  <2>5. Introduced(s')
    BY <1>1, <1>2, <2>2, <2>4, IntroducedKept
  <2> QED
    BY <1>3, <2>1, <2>5
<1>12. CASE QuietSteps
  <2>1. s' = s
    BY <1>1, <1>12, QuietLogs DEF s
  <2>2. lobby_players' = lobby_players
    BY <1>12 DEF QuietSteps, PlayingWait, Exit, vars, matchVars, lobbyVars
  <2> QED
    BY <1>2, <1>3, <2>1, <2>2
<1> QED
  BY <1>4, <1>5, <1>7, <1>8, <1>9, <1>10, <1>11, <1>12, StepKinds DEF LobbySteps

\* The control client hears of a connection only of clients it was told of and
\* not told to forget: SlotManager (SlotManager.ts) finds every client it looks
\* up, whatever the order of additions, removals and connections.
THEOREM ClientsAreIntroduced == Spec => []ControlKnowsTheClient
<1>1. Init => IInv /\ KnownInv
  BY InitInv, KnownInit
<1>2. IInv /\ KnownInv /\ [Next]_vars => (IInv /\ KnownInv)'
  BY NextInv, KnownNext
<1>3. KnownInv => ControlKnowsTheClient
  BY DEF KnownInv, Introduced, Connections, ControlKnowsTheClient
<1> QED
  BY <1>1, <1>2, <1>3, PTL DEF Spec

-----------------------------------------------------------------------------
(* The control client and the connections *)

\* The events or the commands about the connection of client c are at the
\* positions `about`, and the last of them is one of the `good`.
LastSays(about, good) ==
    \E i \in about : (\A j \in about : j <= i) /\ i \in good

Changes(q, c) == {i \in 1 .. Len(q) : q[i].client_id = c
                                      /\ q[i].content \in {"connected", "disconnected"}}
Ups(q)        == {i \in 1 .. Len(q) : q[i].content = "connected"}
News(s, c)    == {i \in 1 .. Len(s) : s[i].num = c /\ s[i].body \in Connections}
GoodNews(s)   == {i \in 1 .. Len(s) : s[i].body = "playerConnected"}

EndsUp(q, c)  == LastSays(Changes(q, c), Ups(q))
SaysUp(s, c)  == LastSays(News(s, c), GoodNews(s))

IsChange(e, c) == e.client_id = c /\ e.content \in {"connected", "disconnected"}
IsNews(cmd, c) == cmd.num = c /\ cmd.body \in Connections

LEMMA ChangeAdded ==
  ASSUME NEW q \in Seq(Events), NEW e \in Events, NEW c
  PROVE  /\ IsChange(e, c) => /\ Changes(Append(q, e), c) # {}
                              /\ EndsUp(Append(q, e), c) <=> e.content = "connected"
         /\ ~IsChange(e, c) => /\ Changes(Append(q, e), c) = Changes(q, c)
                               /\ EndsUp(Append(q, e), c) <=> EndsUp(q, c)
<1> DEFINE u == Append(q, e)
           n == Len(q) + 1
<1>1. /\ Len(u) = n /\ Len(q) = n - 1 /\ n \in Nat \ {0}
      /\ \A i \in 1 .. n - 1 : u[i] = q[i]
      /\ u[n] = e
  OBVIOUS
<1> HIDE DEF u, n
<1>2. \A i \in 1 .. n - 1 : /\ i \in Changes(u, c) <=> i \in Changes(q, c)
                            /\ i \in Ups(u) <=> i \in Ups(q)
  BY <1>1 DEF Changes, Ups
<1>3. /\ Changes(u, c) \subseteq 1 .. n /\ Changes(q, c) \subseteq 1 .. n - 1
      /\ n \in Changes(u, c) <=> IsChange(e, c)
      /\ n \in Ups(u) <=> e.content = "connected"
  BY <1>1 DEF Changes, Ups, IsChange
<1>4. CASE IsChange(e, c)
  <2>1. n \in Changes(u, c) /\ \A j \in Changes(u, c) : j <= n
    BY <1>1, <1>3, <1>4
  <2>2. \A i \in Changes(u, c) : (\A j \in Changes(u, c) : j <= i) => i = n
    BY <1>1, <1>3, <2>1
  <2>3. EndsUp(u, c) <=> n \in Ups(u)
    BY <2>1, <2>2 DEF EndsUp, LastSays
  <2> QED
    BY <1>3, <1>4, <2>1, <2>3 DEF u
<1>5. CASE ~IsChange(e, c)
  <2>1. Changes(u, c) = Changes(q, c)
    <3>1. \A i \in Changes(u, c) : i \in 1 .. n - 1
      BY <1>1, <1>3, <1>5
    <3> QED
      BY <1>2, <1>3, <3>1
  <2>2. EndsUp(u, c) <=> EndsUp(q, c)
    BY <1>2, <1>3, <2>1 DEF EndsUp, LastSays
  <2> QED
    BY <1>5, <2>1, <2>2 DEF u
<1> QED
  BY <1>4, <1>5

LEMMA NewsAdded ==
  ASSUME NEW s \in Seq(Commands), NEW cmd \in Commands, NEW c
  PROVE  /\ IsNews(cmd, c) => (SaysUp(Append(s, cmd), c) <=> cmd.body = "playerConnected")
         /\ ~IsNews(cmd, c) => /\ News(Append(s, cmd), c) = News(s, c)
                               /\ SaysUp(Append(s, cmd), c) <=> SaysUp(s, c)
<1> DEFINE u == Append(s, cmd)
           n == Len(s) + 1
<1>1. /\ Len(u) = n /\ Len(s) = n - 1 /\ n \in Nat \ {0}
      /\ \A i \in 1 .. n - 1 : u[i] = s[i]
      /\ u[n] = cmd
  OBVIOUS
<1> HIDE DEF u, n
<1>2. \A i \in 1 .. n - 1 : /\ i \in News(u, c) <=> i \in News(s, c)
                            /\ i \in GoodNews(u) <=> i \in GoodNews(s)
  BY <1>1 DEF News, GoodNews
<1>3. /\ News(u, c) \subseteq 1 .. n /\ News(s, c) \subseteq 1 .. n - 1
      /\ n \in News(u, c) <=> IsNews(cmd, c)
      /\ n \in GoodNews(u) <=> cmd.body = "playerConnected"
  BY <1>1 DEF News, GoodNews, IsNews
<1>4. CASE IsNews(cmd, c)
  <2>1. n \in News(u, c) /\ \A j \in News(u, c) : j <= n
    BY <1>1, <1>3, <1>4
  <2>2. \A i \in News(u, c) : (\A j \in News(u, c) : j <= i) => i = n
    BY <1>1, <1>3, <2>1
  <2>3. SaysUp(u, c) <=> n \in GoodNews(u)
    BY <2>1, <2>2 DEF SaysUp, LastSays
  <2> QED
    BY <1>3, <1>4, <2>3 DEF u
<1>5. CASE ~IsNews(cmd, c)
  <2>1. News(u, c) = News(s, c)
    <3>1. \A i \in News(u, c) : i \in 1 .. n - 1
      BY <1>1, <1>3, <1>5
    <3> QED
      BY <1>2, <1>3, <3>1
  <2>2. SaysUp(u, c) <=> SaysUp(s, c)
    BY <1>2, <1>3, <2>1 DEF SaysUp, LastSays
  <2> QED
    BY <1>5, <2>1, <2>2 DEF u
<1> QED
  BY <1>4, <1>5

LEMMA ChangeTaken ==
  ASSUME NEW q \in Seq(Events), q # <<>>, NEW c
  PROVE  /\ Changes(Tail(q), c) # {} =>
              Changes(q, c) # {} /\ (EndsUp(Tail(q), c) <=> EndsUp(q, c))
         /\ Changes(Tail(q), c) = {} /\ IsChange(Head(q), c) =>
              Changes(q, c) # {} /\ (EndsUp(q, c) <=> Head(q).content = "connected")
         /\ Changes(Tail(q), c) = {} /\ ~IsChange(Head(q), c) => Changes(q, c) = {}
<1> DEFINE t == Tail(q)
           n == Len(q)
<1>1. /\ n \in Nat \ {0} /\ Len(t) = n - 1 /\ Head(q) = q[1]
      /\ \A i \in 1 .. n - 1 : t[i] = q[i + 1]
  OBVIOUS
<1> HIDE DEF t, n
<1>2. /\ Changes(q, c) \subseteq 1 .. n /\ Changes(t, c) \subseteq 1 .. n - 1
      /\ 1 \in Changes(q, c) <=> IsChange(Head(q), c)
      /\ 1 \in Ups(q) <=> Head(q).content = "connected"
  BY <1>1 DEF Changes, Ups, IsChange, n
<1>3. \A i \in 1 .. n - 1 : /\ i \in Changes(t, c) <=> i + 1 \in Changes(q, c)
                            /\ i \in Ups(t) <=> i + 1 \in Ups(q)
  BY <1>1 DEF Changes, Ups, n
<1>4. ASSUME NEW j \in Changes(q, c), j # 1 PROVE j - 1 \in 1 .. n - 1 /\ j - 1 \in Changes(t, c)
  <2>1. j - 1 \in 1 .. n - 1 /\ (j - 1) + 1 = j
    BY <1>1, <1>2, <1>4
  <2> QED
    BY <1>3, <2>1
<1>5. ASSUME Changes(t, c) # {}
      PROVE  Changes(q, c) # {} /\ (EndsUp(t, c) <=> EndsUp(q, c))
  <2>1. PICK k \in Changes(t, c) : k \in 1 .. n - 1 /\ k + 1 \in Changes(q, c)
    BY <1>2, <1>3, <1>5
  <2>2. ASSUME EndsUp(t, c) PROVE EndsUp(q, c)
    <3>1. PICK i \in Changes(t, c) : (\A j \in Changes(t, c) : j <= i) /\ i \in Ups(t)
      BY <2>2 DEF EndsUp, LastSays
    <3>2. i \in 1 .. n - 1 /\ i + 1 \in Changes(q, c) /\ i + 1 \in Ups(q)
      BY <1>2, <1>3, <3>1
    <3>3. ASSUME NEW j \in Changes(q, c) PROVE j <= i + 1
      <4>1. CASE j = 1
        BY <3>2, <4>1
      <4>2. CASE j # 1
        <5>1. j - 1 <= i
          BY <1>4, <3>1, <4>2
        <5> QED
          BY <1>1, <1>2, <3>2, <5>1
      <4> QED
        BY <4>1, <4>2
    <3> QED
      BY <3>2, <3>3 DEF EndsUp, LastSays
  <2>3. ASSUME EndsUp(q, c) PROVE EndsUp(t, c)
    <3>1. PICK i \in Changes(q, c) : (\A j \in Changes(q, c) : j <= i) /\ i \in Ups(q)
      BY <2>3 DEF EndsUp, LastSays
    <3>2. k + 1 <= i /\ i \in 1 .. n
      BY <1>2, <2>1, <3>1
    <3>3. i # 1
      BY <2>1, <3>2
    <3>4. i - 1 \in 1 .. n - 1 /\ i - 1 \in Changes(t, c)
      BY <1>4, <3>3
    <3>5. i - 1 \in Ups(t)
      BY <1>3, <3>1, <3>2, <3>4
    <3>6. ASSUME NEW j \in Changes(t, c) PROVE j <= i - 1
      <4>1. j \in 1 .. n - 1 /\ j + 1 \in Changes(q, c)
        BY <1>2, <1>3
      <4>2. j + 1 <= i
        BY <3>1, <4>1
      <4> QED
        BY <3>2, <4>1, <4>2
    <3> QED
      BY <3>4, <3>5, <3>6 DEF EndsUp, LastSays
  <2> QED
    BY <2>1, <2>2, <2>3
<1>6. ASSUME Changes(t, c) = {}
      PROVE  \A j \in Changes(q, c) : j = 1
  BY <1>4, <1>6
<1>7. ASSUME Changes(t, c) = {}, IsChange(Head(q), c)
      PROVE  Changes(q, c) # {} /\ (EndsUp(q, c) <=> Head(q).content = "connected")
  <2>1. Changes(q, c) = {1}
    BY <1>2, <1>6, <1>7
  <2>2. EndsUp(q, c) <=> 1 \in Ups(q)
    BY <2>1 DEF EndsUp, LastSays
  <2> QED
    BY <1>2, <2>1, <2>2
<1>8. ASSUME Changes(t, c) = {}, ~IsChange(Head(q), c) PROVE Changes(q, c) = {}
  BY <1>2, <1>6, <1>8
<1> QED
  BY <1>5, <1>7, <1>8 DEF t

\* Nothing was heard of a client that is yet to be added.
Fresh(c) ==
    c >= client_counter =>
        /\ c \notin handlers /\ c \notin connected
        /\ Changes(event_channel, c) = {} /\ News(Log(Ctrl), c) = {}

\* How client c is connected is what the last event says that the lobby has yet
\* to handle, and what the control client was last told if there is none.
UpToDate(c) ==
    c \in lobby_players =>
        IF Changes(event_channel, c) # {} THEN EndsUp(event_channel, c) <=> c \in connected
                                          ELSE SaysUp(Log(Ctrl), c) <=> c \in connected

NewsInv == phase = "lobby" => \A c \in PlayerClients : Fresh(c) /\ UpToDate(c)

LEMMA NewsPrime ==
  ASSUME NEW c,
         c >= client_counter' =>
            /\ c \notin handlers' /\ c \notin connected'
            /\ Changes(event_channel', c) = {} /\ News(Log(Ctrl)', c) = {},
         c \in lobby_players' =>
            IF Changes(event_channel', c) # {} THEN EndsUp(event_channel', c) <=> c \in connected'
                                               ELSE SaysUp(Log(Ctrl)', c) <=> c \in connected'
  PROVE  Fresh(c)' /\ UpToDate(c)'
BY DEF Fresh, UpToDate, Changes, Ups, EndsUp, News, GoodNews, SaysUp, LastSays

LEMMA NewsInit == Init => NewsInv
<1> SUFFICES ASSUME Init, NEW c \in PlayerClients PROVE Fresh(c) /\ UpToDate(c)
  BY DEF NewsInv
<1>1. /\ Log(Ctrl) = <<>> /\ lobby_players = {} /\ handlers = {Ctrl} /\ connected = {}
      /\ event_channel = <<>> /\ c # Ctrl
  BY DEF Init, HandlersInit, Log, Ctrl, ClientIds, PlayerClients
<1> QED
  BY <1>1 DEF Fresh, UpToDate, Changes, News

\* What a handler does to the events, the connections and the tasks.
LEMMA HandlerEvents ==
  ASSUME IInv, ControlRequest \/ \E d \in ClientIds : Handler(d)
  PROVE  \/ event_channel' = event_channel /\ connected' = connected /\ handlers' \subseteq handlers
         \/ \E e \in Events :
              /\ event_channel' = Append(event_channel, e)
              /\ handlers' = handlers /\ e.client_id \in handlers
              /\ \/ e.content \in {"message", "response"} /\ connected' = connected
                 \/ e.content = "connected" /\ connected' = connected \union {e.client_id}
                 \/ e.content = "disconnected" /\ connected' = connected \ {e.client_id}
<1>1. ASSUME NEW d \in ClientIds, d \in handlers, NEW value, NEW num,
             value \in LobbyRequests \union {"other", "ok", "timeout"}, num \in Nat,
             NEW content \in {"connected", "disconnected", "message", "response"},
             Dispatch(d, content, value, num), handlers' = handlers,
             connected' = IF content = "connected" THEN connected \union {d}
                          ELSE IF content = "disconnected" THEN connected \ {d}
                          ELSE connected
      PROVE  \E e \in Events :
              /\ event_channel' = Append(event_channel, e)
              /\ handlers' = handlers /\ e.client_id \in handlers
              /\ \/ e.content \in {"message", "response"} /\ connected' = connected
                 \/ e.content = "connected" /\ connected' = connected \union {e.client_id}
                 \/ e.content = "disconnected" /\ connected' = connected \ {e.client_id}
  <2> DEFINE e == [client_id |-> d, content |-> content, value |-> value, num |-> num]
  <2>1. e \in Events /\ e.client_id = d /\ e.content = content
    BY <1>1 DEF Events
  <2>2. event_channel' = Append(event_channel, e)
    BY <1>1 DEF Dispatch
  <2> HIDE DEF e
  <2> QED
    BY <1>1, <2>1, <2>2
<1>2. ASSUME NEW request \in LobbyRequests \union {"other"}, NEW num \in Nat,
             NEW d \in ClientIds, HandleMessage(d, request, num)
      PROVE  Dispatch(d, "message", request, num) /\ d \in handlers /\ handlers' = handlers
             /\ connected' = connected
  BY <1>2 DEF HandleMessage
<1>3. CASE ControlRequest
  <2>1. PICK request \in LobbyRequests, num \in Nat : HandleMessage(Ctrl, request, num)
    BY <1>3 DEF ControlRequest, LobbyRequests, PlayerClients
  <2>2. Ctrl \in ClientIds
    BY DEF Ctrl, ClientIds
  <2> QED
    BY <1>1, <1>2, <2>1, <2>2
<1>4. ASSUME NEW d \in ClientIds, Handler(d)
      PROVE  \/ event_channel' = event_channel /\ connected' = connected /\ handlers' \subseteq handlers
             \/ \E e \in Events :
                  /\ event_channel' = Append(event_channel, e)
                  /\ handlers' = handlers /\ e.client_id \in handlers
                  /\ \/ e.content \in {"message", "response"} /\ connected' = connected
                     \/ e.content = "connected" /\ connected' = connected \union {e.client_id}
                     \/ e.content = "disconnected" /\ connected' = connected \ {e.client_id}
  <2>1. CASE HandleCommand(d) \/ DispatchFails(d)
    BY <2>1 DEF HandleCommand, DispatchFails
  <2>2. ASSUME NEW value \in {"ok", "timeout"}, Answer(d, value), d \in handlers,
               handlers' = handlers, connected' = connected
        PROVE  \E e \in Events :
                  /\ event_channel' = Append(event_channel, e)
                  /\ handlers' = handlers /\ e.client_id \in handlers
                  /\ \/ e.content \in {"message", "response"} /\ connected' = connected
                     \/ e.content = "connected" /\ connected' = connected \union {e.client_id}
                     \/ e.content = "disconnected" /\ connected' = connected \ {e.client_id}
    <3>1. PICK id \in DOMAIN requests[d] : Dispatch(d, "response", value, requests[d][id])
      BY <2>2 DEF Answer
    <3>2. requests[d][id] \in Nat
      BY DEF IInv, TypeOK, HandlersTypeOK
    <3> QED
      BY <1>1, <2>2, <3>1, <3>2
  <2>3. CASE HandleTimeout(d)
    BY <2>2, <2>3 DEF HandleTimeout
  <2>4. CASE HandleResponse(d)
    BY <2>2, <2>4 DEF HandleResponse
  <2>5. CASE Connect(d)
    BY <1>1, <2>5 DEF Connect
  <2>6. CASE Disconnect(d)
    BY <1>1, <2>6 DEF Disconnect
  <2>7. CASE HandleMessage(d, "other", 0)
    BY ZenonT(40), <1>1, <1>2, <2>7
  <2> QED
    BY <1>4, <2>1, <2>3, <2>4, <2>5, <2>6, <2>7 DEF Handler
<1> QED
  BY <1>3, <1>4

LEMMA NewsOfHandlers ==
  ASSUME IInv, ControlRequest \/ \E d \in ClientIds : Handler(d), UNCHANGED matchVars,
         NEW c \in PlayerClients, Fresh(c), UpToDate(c), Log(Ctrl)' = Log(Ctrl)
  PROVE  Fresh(c)' /\ UpToDate(c)'
<1>1. /\ UNCHANGED <<lobby_players, client_counter>>
      /\ c \in Nat /\ client_counter \in Nat /\ event_channel \in Seq(Events)
  BY DEF matchVars, lobbyVars, IInv, TypeOK, HandlersTypeOK, PlayerClients
<1>2. CASE event_channel' = event_channel /\ connected' = connected /\ handlers' \subseteq handlers
  BY <1>1, <1>2, NewsPrime DEF Fresh, UpToDate
<1>3. ASSUME NEW e \in Events,
             event_channel' = Append(event_channel, e),
             handlers' = handlers, e.client_id \in handlers,
             \/ e.content \in {"message", "response"} /\ connected' = connected
             \/ e.content = "connected" /\ connected' = connected \union {e.client_id}
             \/ e.content = "disconnected" /\ connected' = connected \ {e.client_id}
      PROVE  Fresh(c)' /\ UpToDate(c)'
  <2>1. CASE IsChange(e, c)
    <3>1. ~(c >= client_counter')
      BY <1>1, <1>3, <2>1 DEF Fresh, IsChange
    <3>2. Changes(event_channel', c) # {} /\ (EndsUp(event_channel', c) <=> c \in connected')
      BY <1>1, <1>3, <2>1, ChangeAdded DEF IsChange
    <3> QED
      BY <3>1, <3>2, NewsPrime
  <2>2. CASE ~IsChange(e, c)
    <3>1. c \in connected' <=> c \in connected
      BY <1>3, <2>2 DEF IsChange
    <3>2. /\ Changes(event_channel', c) = Changes(event_channel, c)
          /\ EndsUp(event_channel', c) <=> EndsUp(event_channel, c)
      BY <1>1, <1>3, <2>2, ChangeAdded
    <3> QED
      BY <1>1, <1>3, <3>1, <3>2, NewsPrime DEF Fresh, UpToDate
  <2> QED
    BY <2>1, <2>2
<1> QED
  BY <1>2, <1>3, HandlerEvents

LEMMA NewsOfLobby ==
  ASSUME IInv, LobbySteps, NEW c \in PlayerClients, Fresh(c), UpToDate(c)
  PROVE  Fresh(c)' /\ UpToDate(c)'
<1> DEFINE q == event_channel
           s == Log(Ctrl)
<1>1. /\ q \in Seq(Events) /\ q # <<>> /\ q' = Tail(q) /\ Event = Head(q) /\ Event \in Events
      /\ c \in Nat /\ client_counter \in Nat /\ connected' = connected /\ s \in Seq(Commands)
      /\ phase = "lobby" /\ Ctrl \in ClientIds /\ TypeOK
  <2>1. TypeOK /\ Ctrl \in ClientIds /\ c \in Nat
    BY DEF IInv, PlayerClients, Ctrl, ClientIds
  <2>2. s \in Seq(Commands) /\ client_counter \in Nat
    BY <2>1, LogTypes DEF TypeOK
  <2> QED
    BY <2>1, <2>2, LobbySays DEF NextEvent, Unconcerned, Event
<1>2. ASSUME NEW content \in {"connected", "disconnected"}, NEW body \in Connections,
             LobbyConnection(content, body), Event.client_id = c,
             body = "playerConnected" <=> content = "connected",
             s' = Append(s, Message(body, Event.client_id))
      PROVE  Fresh(c)' /\ UpToDate(c)'
  <2> DEFINE cmd == Message(body, Event.client_id)
  <2>1. /\ Event.content = content /\ c \in lobby_players
        /\ UNCHANGED <<lobby_players, client_counter, handlers>>
    BY <1>2 DEF LobbyConnection, Lobby, lobbyVars
  <2>2. IsChange(Head(q), c) /\ (Head(q).content = "connected" <=> body = "playerConnected")
    BY <1>1, <1>2, <2>1 DEF IsChange
  <2>3. cmd \in Commands /\ IsNews(cmd, c) /\ cmd.body = body
    BY <1>1, <1>2 DEF Message, Commands, Bodies, Connections, Events, ClientIds, IsNews
  <2> HIDE DEF cmd
  <2>4. SaysUp(s', c) <=> body = "playerConnected"
    <3>1. s' = Append(s, cmd)
      BY <1>2 DEF cmd
    <3> QED
      BY <1>1, <2>3, <3>1, NewsAdded
  <2>5. Changes(q, c) # {}
    BY <1>1, <2>2, ChangeTaken
  <2>6. ~(c >= client_counter')
    BY <2>1, <2>5 DEF Fresh
  <2>7. EndsUp(q, c) <=> c \in connected
    BY <2>1, <2>5 DEF UpToDate
  <2>8. CASE Changes(q', c) # {}
    <3>1. EndsUp(q', c) <=> c \in connected'
      BY <1>1, <2>7, <2>8, ChangeTaken
    <3> QED
      BY <2>6, <2>8, <3>1, NewsPrime
  <2>9. CASE Changes(q', c) = {}
    <3>1. SaysUp(s', c) <=> c \in connected'
      BY <1>1, <2>2, <2>4, <2>7, <2>9, ChangeTaken
    <3> QED
      BY <2>6, <2>9, <3>1, NewsPrime
  <2> QED
    BY <2>8, <2>9
<1>3. ASSUME ~(IsChange(Head(q), c) /\ c \in lobby_players),
             News(s', c) = News(s, c), SaysUp(s', c) <=> SaysUp(s, c),
             \/ /\ lobby_players' \subseteq lobby_players
                /\ client_counter' = client_counter /\ handlers' = handlers
             \/ /\ lobby_players' = lobby_players \union {client_counter}
                /\ client_counter' = client_counter + 1
                /\ handlers' = handlers \union {client_counter}
      PROVE  Fresh(c)' /\ UpToDate(c)'
  <2>1. c >= client_counter' =>
            /\ c \notin handlers' /\ c \notin connected'
            /\ Changes(q', c) = {} /\ News(s', c) = {}
    <3> SUFFICES ASSUME c >= client_counter'
                 PROVE  /\ c \notin handlers' /\ c \notin connected'
                        /\ Changes(q', c) = {} /\ News(s', c) = {}
      OBVIOUS
    <3>1. c >= client_counter /\ c \notin handlers'
      BY <1>1, <1>3 DEF Fresh
    <3>2. c \notin connected /\ Changes(q, c) = {} /\ News(s, c) = {}
      BY <3>1 DEF Fresh
    <3>3. Changes(q', c) = {}
      BY <1>1, <3>2, ChangeTaken
    <3> QED
      BY <1>1, <1>3, <3>1, <3>2, <3>3
  <2>2. CASE c \in lobby_players
    <3>1. ~IsChange(Head(q), c)
      BY <1>3, <2>2
    <3>2. CASE Changes(q', c) # {}
      <4>1. EndsUp(q', c) <=> c \in connected'
        BY <1>1, <2>2, <3>2, ChangeTaken DEF UpToDate
      <4> QED
        BY <2>1, <3>2, <4>1, NewsPrime
    <3>3. CASE Changes(q', c) = {}
      <4>1. Changes(q, c) = {}
        BY <1>1, <3>1, <3>3, ChangeTaken
      <4>2. SaysUp(s', c) <=> c \in connected'
        BY <1>1, <1>3, <2>2, <4>1 DEF UpToDate
      <4> QED
        BY <2>1, <3>3, <4>2, NewsPrime
    <3> QED
      BY <3>2, <3>3
  <2>3. CASE c = client_counter
    <3>1. c \notin connected /\ Changes(q, c) = {} /\ News(s, c) = {}
      BY <1>1, <2>3 DEF Fresh
    <3>2. Changes(q', c) = {}
      BY <1>1, <3>1, ChangeTaken
    <3>3. ~SaysUp(s', c)
      BY <1>3, <3>1 DEF SaysUp, LastSays
    <3> QED
      BY <1>1, <2>1, <3>1, <3>2, <3>3, NewsPrime
  <2>4. CASE c \notin lobby_players /\ c # client_counter
    BY <1>3, <2>1, <2>4, NewsPrime
  <2> QED
    BY <2>2, <2>3, <2>4
<1>4. ASSUME NEW cmd \in Commands, s' = Append(s, cmd), ~IsNews(cmd, c)
      PROVE  News(s', c) = News(s, c) /\ (SaysUp(s', c) <=> SaysUp(s, c))
  <2> HIDE DEF s
  <2> QED
    BY <1>1, <1>4, NewsAdded
<1>5. CASE LobbyAddPlayer
  <2> DEFINE cmd == Response("addPlayerResponse", client_counter)
  <2>1. /\ s' = Append(s, cmd) /\ Event.content = "message"
        /\ lobby_players' = lobby_players \union {client_counter}
        /\ client_counter' = client_counter + 1 /\ handlers' = handlers \union {client_counter}
    BY <1>1, <1>5, LobbySays DEF LobbyAddPlayer, LobbyRemovePlayer, LobbyConnection, LobbyIgnore,
                           LobbyRequest, Lobby, LobbyRequests, LobbySteps
  <2>2. cmd \in Commands /\ ~IsNews(cmd, c)
    BY <1>1 DEF Response, Commands, Bodies, IsNews, Connections
  <2>3. ~IsChange(Head(q), c)
    BY <1>1, <2>1 DEF IsChange
  <2> HIDE DEF cmd, s, q
  <2>4. News(s', c) = News(s, c) /\ (SaysUp(s', c) <=> SaysUp(s, c))
    BY <1>4, <2>1, <2>2
  <2> QED
    BY <1>3, <2>1, <2>3, <2>4
<1>6. CASE LobbyRemovePlayer
  <2> DEFINE cmd == Response("removePlayerResponse", Event.num)
  <2>1. /\ s' = Append(s, cmd) /\ Event.content = "message"
        /\ lobby_players' \subseteq lobby_players
        /\ client_counter' = client_counter /\ handlers' = handlers
    BY <1>1, <1>6, LobbySays DEF LobbyAddPlayer, LobbyRemovePlayer, LobbyConnection, LobbyIgnore,
                           LobbyRequest, Lobby, LobbyRequests, LobbySteps, remove_player
  <2>2. cmd \in Commands /\ ~IsNews(cmd, c)
    BY <1>1 DEF Response, Commands, Bodies, IsNews, Connections, Events
  <2>3. ~IsChange(Head(q), c)
    BY <1>1, <2>1 DEF IsChange
  <2> HIDE DEF cmd, s, q
  <2>4. News(s', c) = News(s, c) /\ (SaysUp(s', c) <=> SaysUp(s, c))
    BY <1>4, <2>1, <2>2
  <2> QED
    BY <1>3, <2>1, <2>3, <2>4
<1>7. CASE LobbyIgnore
  <2>1. /\ s' = s /\ UNCHANGED <<lobby_players, client_counter, handlers>>
        /\ (Event.content \in {"connected", "disconnected"} => Event.client_id \notin lobby_players)
    BY <1>7 DEF LobbyIgnore, Unconcerned, Log, lobbyVars
  <2>2. ~(IsChange(Head(q), c) /\ c \in lobby_players)
    BY <1>1, <2>1 DEF IsChange
  <2> HIDE DEF s, q
  <2> QED
    BY <1>3, <2>1, <2>2
<1>8. ASSUME NEW content \in {"connected", "disconnected"}, NEW body \in Connections,
             LobbyConnection(content, body), Event.client_id # c,
             s' = Append(s, Message(body, Event.client_id))
      PROVE  Fresh(c)' /\ UpToDate(c)'
  <2> DEFINE cmd == Message(body, Event.client_id)
  <2>1. UNCHANGED <<lobby_players, client_counter, handlers>>
    BY <1>8 DEF LobbyConnection, lobbyVars
  <2>2. cmd \in Commands /\ ~IsNews(cmd, c)
    BY <1>1, <1>8 DEF Message, Commands, Bodies, IsNews, Connections, Events, ClientIds
  <2>3. ~IsChange(Head(q), c)
    BY <1>1, <1>8 DEF IsChange
  <2>4. s' = Append(s, cmd)
    BY <1>8
  <2> HIDE DEF cmd, s, q
  <2>5. News(s', c) = News(s, c) /\ (SaysUp(s', c) <=> SaysUp(s, c))
    BY <1>4, <2>2, <2>4
  <2> QED
    BY <1>3, <2>1, <2>3, <2>5
<1>9. LobbyConnection("connected", "playerConnected") =>
        s' = Append(s, Message("playerConnected", Event.client_id))
  BY LobbySays DEF LobbyAddPlayer, LobbyRemovePlayer, LobbyConnection, LobbyIgnore,
                   LobbyRequest, Lobby, LobbySteps
<1>10. LobbyConnection("disconnected", "playerDisconnected") =>
        s' = Append(s, Message("playerDisconnected", Event.client_id))
  BY LobbySays DEF LobbyAddPlayer, LobbyRemovePlayer, LobbyConnection, LobbyIgnore,
                   LobbyRequest, Lobby, LobbySteps
<1> QED
  BY <1>2, <1>5, <1>6, <1>7, <1>8, <1>9, <1>10 DEF LobbySteps, Connections

LEMMA NewsNext == IInv /\ NewsInv /\ [Next]_vars => NewsInv'
<1> SUFFICES ASSUME IInv, NewsInv, [Next]_vars, phase' = "lobby", NEW c \in PlayerClients
             PROVE  Fresh(c)' /\ UpToDate(c)'
  BY DEF NewsInv
<1>1. CASE LobbySteps
  BY <1>1, LobbySays, NewsOfLobby DEF NewsInv
<1>2. CASE LobbyStartGame \/ PlayingStep
  BY <1>2, StepSays DEF LobbyStartGame
<1>3. CASE QuietSteps
  <2>1. Log(Ctrl)' = Log(Ctrl)
    BY <1>3, QuietLogs DEF Ctrl, ClientIds
  <2>2. CASE PlayingWait \/ Exit
    BY <2>2 DEF PlayingWait, Exit
  <2>3. CASE UNCHANGED vars
    <3>1. UNCHANGED <<phase, handlers, connected, event_channel, client_counter, lobby_players>>
      BY <2>3 DEF vars, handlerVars, lobbyVars
    <3> QED
      BY <2>1, <3>1, NewsPrime DEF NewsInv, Fresh, UpToDate
  <2>4. CASE (ControlRequest \/ \E d \in ClientIds : Handler(d)) /\ UNCHANGED matchVars
    <3>1. phase = "lobby"
      BY <2>4 DEF matchVars
    <3> QED
      BY <2>1, <2>4, <3>1, NewsOfHandlers DEF NewsInv
  <2> QED
    BY <1>3, <2>2, <2>3, <2>4 DEF QuietSteps
<1> QED
  BY <1>1, <1>2, <1>3, StepKinds

\* Once the lobby has handled what a client's handler told it, the control
\* client knows how the client is connected, after any number of reconnects
\* (Lobby::handle_event of pw_controller.rs).
THEOREM ConnectionIsKnown == Spec => []ControlKnowsTheConnection
<1>1. Init => IInv /\ NewsInv
  BY InitInv, NewsInit
<1>2. IInv /\ NewsInv /\ [Next]_vars => (IInv /\ NewsInv)'
  BY NextInv, NewsNext
<1>3. IInv /\ NewsInv => ControlKnowsTheConnection
  <2> SUFFICES ASSUME IInv, NewsInv, NEW c \in lobby_players,
                      \A i \in DOMAIN event_channel : event_channel[i].client_id # c
               PROVE  LET news == {i \in DOMAIN Log(Ctrl) :
                                      /\ Log(Ctrl)[i].num = c
                                      /\ Log(Ctrl)[i].body \in
                                           {"playerConnected", "playerDisconnected"}}
                      IN  (c \in connected) <=>
                              \E i \in news : /\ \A j \in news : j <= i
                                              /\ Log(Ctrl)[i].body = "playerConnected"
    BY DEF ControlKnowsTheConnection
  <2>1. /\ c \in PlayerClients /\ phase = "lobby"
        /\ DOMAIN event_channel = 1 .. Len(event_channel)
        /\ DOMAIN Log(Ctrl) = 1 .. Len(Log(Ctrl))
    <3>1. TypeOK /\ Ctrl \in ClientIds
      BY DEF IInv, Ctrl, ClientIds
    <3>2. DOMAIN Log(Ctrl) = 1 .. Len(Log(Ctrl))
      BY <3>1, LogTypes
    <3> QED
      BY <3>1, <3>2 DEF IInv, TypeOK, HandlersTypeOK, LobbyOK
  <2>2. Changes(event_channel, c) = {}
    BY <2>1 DEF Changes
  <2>3. SaysUp(Log(Ctrl), c) <=> c \in connected
    BY <2>1, <2>2 DEF NewsInv, UpToDate
  <2> QED
    BY <2>1, <2>3 DEF SaysUp, LastSays, News, GoodNews, Connections
<1> QED
  BY <1>1, <1>2, <1>3, PTL DEF Spec
=============================================================================
