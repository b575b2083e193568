------------------------------ MODULE PwMatch ------------------------------
(***************************************************************************)
(* A match of the game server: PwMatch, its Lobby and its PwController     *)
(* (gameserver/src/planetwars/pw_controller.rs), composed with the client  *)
(* handlers it talks to.  The match is one task that handles the events of *)
(* the event channel one by one: the lobby serves the requests of the      *)
(* control client until one of them starts the game; then the controller   *)
(* prompts every living player each turn, waits until all of them have     *)
(* answered or timed out, and plays the turn.                              *)
(*                                                                         *)
(* Of the rules (pw_rules.rs) the match sees the turn number and who is    *)
(* alive; a turn kills any set of players and revives none.  An answer is  *)
(* identified by the number of the request it answers, which the code has  *)
(* in RequestId and drops.  Every player is added with a token of its own. *)
(***************************************************************************)
EXTENDS ClientHandlers

CONSTANT MaxTurns     \* max_turns of the game configuration

ASSUME MaxTurnsAssumption == MaxTurns \in Nat

PlayerIds == {n - 1 : n \in PlayerClients}

VARIABLES
    phase,           \* PwMatchState; "exited" once the process has exited
    lobby_players,   \* Lobby: the clients with a handle in the lobby
    client_counter,  \* Lobby: the next ClientId
    request_counter, \* per client handle: the next request_num
    client_player,   \* PwController: client -> player
    players,         \* PwController: the players not kicked
    waiting_for,     \* PwController: players yet to answer
    commands,        \* PwController: player -> answer of this turn
    turn_num,        \* PlanetWars: turns played
    alive            \* PlanetWars: players with a sign of life

lobbyVars == <<lobby_players, client_counter>>
gameVars  == <<request_counter, client_player, players, waiting_for, commands,
               turn_num, alive>>
vars == <<handlerVars, phase, lobbyVars, gameVars>>

Init ==
    /\ HandlersInit
    /\ phase = "lobby"
    /\ lobby_players = {}
    /\ client_counter = 1
    /\ request_counter = [c \in ClientIds |-> 0]
    /\ client_player = [c \in {} |-> 0]
    /\ players = {}
    /\ waiting_for = {}
    /\ commands = [p \in {} |-> [value |-> "ok", num |-> 0]]
    /\ turn_num = 0
    /\ alive = {}

\* ClientHandle::send, ::respond and ::request put a command on the channel.
Message(body, num)  == [kind |-> "message", body |-> body, num |-> num]
Response(body, num) == [kind |-> "response", body |-> body, num |-> num]
Prompt(c)           == [kind |-> "request", body |-> "gameState",
                        num |-> request_counter[c]]

\* Commands sent in one step of the match: out[c] to each client c.
SendAll(out) == ctrl_chan' = [c \in ClientIds |-> ctrl_chan[c] \o out[c]]
SendCtrl(cmd) == ctrl_chan' = [ctrl_chan EXCEPT ![Ctrl] = Append(@, cmd)]

Event == Head(event_channel)
NextEvent == event_channel' = Tail(event_channel)
-----------------------------------------------------------------------------
(* Lobby::handle_event *)

Lobby(content) ==
    /\ phase = "lobby"
    /\ event_channel # <<>>
    /\ Event.content = content

LobbyRequest(request) ==
    /\ Lobby("message")
    /\ Event.client_id = Ctrl
    /\ Event.value = request

Unconcerned ==
    UNCHANGED <<connected, message_counter, requests, buffer, stimuli>>

LobbyAddPlayer ==
    /\ LobbyRequest("addPlayer")
    /\ client_counter <= MaxClients
    /\ NextEvent
    /\ client_counter' = client_counter + 1
    /\ lobby_players' = lobby_players \union {client_counter}
    /\ handlers' = handlers \union {client_counter}
    /\ SendCtrl(Response("addPlayerResponse", client_counter))
    /\ Unconcerned
    /\ UNCHANGED <<channel_open, phase, gameVars>>

\* Mutant: the control client is answered, the player stays in the lobby.
remove_player_forgotten(id) == lobby_players

remove_player(id) == lobby_players \ {id}

\* The handle is dropped; the handler task stays, and so does its route.
LobbyRemovePlayer ==
    /\ LobbyRequest("removePlayer")
    /\ NextEvent
    /\ lobby_players' = remove_player(Event.num)
    /\ SendCtrl(Response("removePlayerResponse", Event.num))
    /\ Unconcerned
    /\ UNCHANGED <<handlers, channel_open, phase, client_counter, gameVars>>

\* Connected and Disconnected are passed on for clients in the lobby.
LobbyConnection(content, body) ==
    /\ Lobby(content)
    /\ Event.client_id \in lobby_players
    /\ NextEvent
    /\ SendCtrl(Message(body, Event.client_id))
    /\ Unconcerned
    /\ UNCHANGED <<handlers, channel_open, phase, lobbyVars, gameVars>>

\* Everything else: connections of clients not in the lobby, messages of
\* players or without a lobby request, responses.
LobbyIgnore ==
    /\ phase = "lobby"
    /\ event_channel # <<>>
    /\ Event.content \in {"connected", "disconnected"}
           => Event.client_id \notin lobby_players
    /\ Event.content = "message" /\ Event.client_id = Ctrl
           => Event.value \notin LobbyRequests
    /\ NextEvent
    /\ Unconcerned
    /\ UNCHANGED <<handlers, channel_open, ctrl_chan, phase, lobbyVars,
                   gameVars>>
-----------------------------------------------------------------------------
(* PwController *)

is_finished(living, turn) == Cardinality(living) < 2 \/ turn >= MaxTurns

\* Every order in which the HashMap of the lobby can be enumerated.
Numberings ==
    {map \in [lobby_players -> PlayerIds] :
        /\ \A c, d \in lobby_players : map[c] = map[d] => c = d
        /\ \A c \in lobby_players : map[c] < Cardinality(lobby_players)}

\* start_game: log the state, prompt everyone.  Nobody asks is_finished here.
LobbyStartGame ==
    /\ LobbyRequest("startGame")
    /\ NextEvent
    /\ phase' = "playing"
    /\ client_player' \in Numberings
    /\ players' = {client_player'[c] : c \in lobby_players}
    /\ alive' = players'
    /\ waiting_for' = players'
    /\ SendAll([c \in ClientIds |->
            IF c = Ctrl THEN <<Response("startGameResponse", 0),
                               Message("gameState", turn_num)>>
            ELSE IF c \in lobby_players THEN <<Prompt(c)>>
            ELSE <<>>])
    /\ request_counter' = [c \in ClientIds |->
            IF c \in lobby_players THEN request_counter[c] + 1
                                   ELSE request_counter[c]]
    /\ lobby_players' = {}
    /\ Unconcerned
    /\ UNCHANGED <<handlers, channel_open, client_counter, commands, turn_num>>

\* Mutant: the client's id is taken for its player's.
Responder_client == Event.client_id

\* The events the controller acts on, and what they do to its state before it
\* asks whether the turn is complete.
IsResponse == Event.content = "response"
Responder  == client_player[Event.client_id]
Collected  == IF IsResponse
              THEN Insert(commands, Responder,
                          [value |-> Event.value, num |-> Event.num])
              ELSE commands
StillWaiting == IF IsResponse THEN waiting_for \ {Responder} ELSE waiting_for

\* handle_event, when somebody has yet to answer.
PlayingWait ==
    /\ phase = "playing"
    /\ event_channel # <<>>
    /\ StillWaiting # {}
    /\ commands' = Collected
    /\ waiting_for' = StillWaiting
    /\ IF is_finished(alive, turn_num)
       THEN phase' = "finished" /\ channel_open' = FALSE /\ event_channel' = <<>>
       ELSE NextEvent /\ UNCHANGED <<phase, channel_open>>
    /\ Unconcerned
    /\ UNCHANGED <<handlers, ctrl_chan, lobbyVars, request_counter,
                   client_player, players, turn_num, alive>>

\* Mutant: only a player that answered gets a report.
Report_answered(p) ==
    IF p \in DOMAIN Collected /\ Collected[p].value = "ok"
    THEN <<Message("playerAction", 0)>> ELSE <<>>

\* execute_messages: a player's action, or its time-out, is reported back.
Report(p) ==
    IF p \in DOMAIN Collected THEN <<Message("playerAction", 0)>> ELSE <<>>

\* Mutant: a player that dies before the end is kicked without a final state.
Verdict_kicked(c, p, living, over) ==
    IF p \notin players THEN <<>>
    ELSE IF over THEN <<Message("finalState", turn_num + 1)>>
    ELSE IF p \in living THEN <<Prompt(c)>>
    ELSE <<>>

\* Mutant: a player that died is kicked, and prompted.
Verdict_prompted(c, p, living, over) ==
    IF p \notin players THEN <<>>
    ELSE IF over THEN <<Message("finalState", turn_num + 1)>>
    ELSE <<Prompt(c)>>

\* finish_game or prompt_players: the final state for the dead, and for all
\* when the game is over; the next prompt for the others.
Verdict(c, p, living, over) ==
    IF p \notin players THEN <<>>
    ELSE IF over \/ p \notin living THEN <<Message("finalState", turn_num + 1)>>
    ELSE <<Prompt(c)>>

\* Mutant: the state is logged before the turn is played.
LoggedTurn_stale == turn_num

\* log_state comes after PlanetWars::step.
LoggedTurn == turn_num + 1

\* What step sends to client c when `living` survive the turn.
TurnMessages(c, living, over) ==
    IF c = Ctrl THEN <<Message("gameState", LoggedTurn)>>
    ELSE IF c \in DOMAIN client_player
    THEN Report(client_player[c]) \o Verdict(c, client_player[c], living, over)
    ELSE <<>>

\* Mutant: the answers of the turn are not taken out of `commands`.
CommandsLeft_all == Collected

\* mem::replace(&mut self.commands, HashMap::new())
CommandsLeft == [p \in {} |-> [value |-> "ok", num |-> 0]]

\* handle_event, when everybody has answered: PwController::step, and the
\* match ends when the game is finished.
PlayingStep ==
    /\ phase = "playing"
    /\ event_channel # <<>>
    /\ StillWaiting = {}
    /\ commands' = CommandsLeft
    /\ turn_num' = turn_num + 1
    /\ \E living \in SUBSET alive :
        LET over == is_finished(living, turn_num + 1)
            next == IF over THEN {} ELSE players \intersect living
        IN
        /\ alive' = living
        /\ SendAll([c \in ClientIds |-> TurnMessages(c, living, over)])
        /\ players' = next
        /\ waiting_for' = next
        /\ request_counter' = [c \in ClientIds |->
                IF c \in DOMAIN client_player /\ client_player[c] \in next
                THEN request_counter[c] + 1 ELSE request_counter[c]]
        /\ IF over
           THEN phase' = "finished" /\ channel_open' = FALSE /\ event_channel' = <<>>
           ELSE NextEvent /\ UNCHANGED <<phase, channel_open>>
    /\ Unconcerned
    /\ UNCHANGED <<handlers, lobbyVars, client_player>>

\* oneshot_server.rs: a second after the match the process exits.
Exit ==
    /\ phase = "finished"
    /\ phase' = "exited"
    /\ handlers' = {}
    /\ Unconcerned
    /\ UNCHANGED <<ctrl_chan, event_channel, channel_open, lobbyVars, gameVars>>
-----------------------------------------------------------------------------
matchVars == <<phase, lobbyVars, gameVars>>

Match ==
    \/ LobbyAddPlayer \/ LobbyRemovePlayer \/ LobbyStartGame
    \/ LobbyConnection("connected", "playerConnected")
    \/ LobbyConnection("disconnected", "playerDisconnected")
    \/ LobbyIgnore
    \/ PlayingWait \/ PlayingStep

\* Requests the control client can make of the lobby; AddPlayer within bounds.
PendingAdds ==
    {i \in DOMAIN event_channel : event_channel[i].value = "addPlayer"}

ControlRequest ==
    \/ /\ client_counter + Cardinality(PendingAdds) <= MaxClients
       /\ HandleMessage(Ctrl, "addPlayer", 0)
    \/ \E c \in PlayerClients : HandleMessage(Ctrl, "removePlayer", c)
    \/ HandleMessage(Ctrl, "startGame", 0)

Handler(c) ==
    \/ HandleCommand(c) \/ HandleTimeout(c) \/ HandleResponse(c)
    \/ Connect(c) \/ Disconnect(c) \/ DispatchFails(c)
    \/ HandleMessage(c, "other", 0)

Next ==
    \/ Match
    \/ Exit
    \/ (ControlRequest \/ \E c \in ClientIds : Handler(c)) /\ UNCHANGED matchVars

Spec == Init /\ [][Next]_vars

\* The runtime keeps polling the match task while it has events and every handler
\* while it has commands: their channels wake them.  Nothing is assumed of the
\* answer to a request: its client may be silent, and the timer of a handler does
\* not see to every time-out (EveryRequestAnswered of RequestHandler).
Fairness ==
    /\ WF_vars(Match)
    /\ \A c \in ClientIds : WF_vars(HandleCommand(c) /\ UNCHANGED matchVars)

FairSpec == Spec /\ Fairness
-----------------------------------------------------------------------------
(* Properties *)

\* Types of the state of the match and of its handlers.
TypeOK ==
    /\ HandlersTypeOK
    /\ phase \in {"lobby", "playing", "finished", "exited"}
    /\ lobby_players \subseteq PlayerClients
    /\ client_counter \in 1 .. MaxClients + 1
    /\ request_counter \in [ClientIds -> Nat]
    /\ DOMAIN client_player \subseteq PlayerClients
    /\ \A c \in DOMAIN client_player : client_player[c] \in PlayerIds
    /\ players \subseteq PlayerIds
    /\ waiting_for \subseteq PlayerIds
    /\ DOMAIN commands \subseteq PlayerIds
    /\ \A p \in DOMAIN commands :
          commands[p] \in [value: {"ok", "timeout"}, num: Nat]
    /\ turn_num \in Nat
    /\ alive \subseteq PlayerIds

\* Where a request to client c can be: on its way to the handler, pending in
\* the handler, or answered by an event the match has not handled yet.
Places(c) ==
    {<<"ctrl_chan", i>> : i \in {j \in DOMAIN ctrl_chan[c] :
                                     ctrl_chan[c][j].kind = "request"}}
    \union {<<"requests", id>> : id \in DOMAIN requests[c]}
    \union {<<"event_channel", i>> : i \in {j \in DOMAIN event_channel :
                                     /\ event_channel[j].client_id = c
                                     /\ event_channel[j].content = "response"}}

\* The client's player has yet to answer the current prompt.
Awaited(c) == c \in DOMAIN client_player /\ client_player[c] \in waiting_for

\* handle_event takes any Response for the answer to the current prompt: that
\* is right because a client has exactly one request outstanding while its
\* player is waited for, and none otherwise.
OneRequestPerAwaitedPlayer ==
    phase \in {"lobby", "playing"} =>
        \A c \in ClientIds : Cardinality(Places(c)) = (IF Awaited(c) THEN 1 ELSE 0)

\* The unwrap()s of handle_event and execute_messages never fail: a response
\* comes from a client with a player, and that player has not been kicked.
ResponsesComeFromPlayers ==
    /\ \A i \in DOMAIN event_channel :
        event_channel[i].content = "response" =>
            /\ event_channel[i].client_id \in DOMAIN client_player
            /\ client_player[event_channel[i].client_id] \in players
    /\ DOMAIN commands \subseteq players

\* Everything sent to client c, oldest first.
Log(c) == buffer[c] \o ctrl_chan[c]

\* What a player's client sees: prompts, numbered in order, each followed by
\* the report on its answer, and at most one final state, after which the
\* client hears nothing more.
PlayerDialogue ==
    \A c \in PlayerClients : \A i \in DOMAIN Log(c) :
        IF i % 2 = 0 THEN Log(c)[i].body = "playerAction"
        ELSE \/ /\ Log(c)[i].kind = "request"
                /\ Log(c)[i].num = i \div 2
             \/ /\ Log(c)[i].body = "finalState"
                /\ i = Len(Log(c))

\* "the game is over, we are kicking everyone": when a game that was played
\* ends, every client that had a player was sent a final state, last.
EveryoneGetsFinalState ==
    (phase \in {"finished", "exited"} /\ turn_num > 0) =>
        \A c \in DOMAIN client_player :
            Log(c) # <<>> /\ Log(c)[Len(Log(c))].body = "finalState"

\* The control client is told the state of every turn once and in order.
ControlSeesEveryTurn ==
    LET states == {i \in DOMAIN Log(Ctrl) : Log(Ctrl)[i].body = "gameState"}
    IN  /\ \A i, j \in states : i < j => Log(Ctrl)[i].num < Log(Ctrl)[j].num
        /\ {Log(Ctrl)[i] : i \in states} =
               {Message("gameState", n) : n \in {m \in 0 .. turn_num : phase # "lobby"}}

\* SlotManager looks a client up when it hears that it connected: the control
\* client hears of a client only after the response that told it the ClientId,
\* and not after a later response that said the client was removed.
ControlKnowsTheClient ==
    \A i \in DOMAIN Log(Ctrl) :
        Log(Ctrl)[i].body \in {"playerConnected", "playerDisconnected"} =>
            \E j \in 1 .. i - 1 :
                /\ Log(Ctrl)[j] = Response("addPlayerResponse", Log(Ctrl)[i].num)
                /\ \A k \in j .. i : Log(Ctrl)[k] #
                       Response("removePlayerResponse", Log(Ctrl)[i].num)

\* In the lobby, once the events of a client in it are handled, the last thing
\* the control client was sent about its connection is how the connection is.
ControlKnowsTheConnection ==
    \A c \in lobby_players :
        (\A i \in DOMAIN event_channel : event_channel[i].client_id # c) =>
            LET news == {i \in DOMAIN Log(Ctrl) :
                            /\ Log(Ctrl)[i].num = c
                            /\ Log(Ctrl)[i].body \in
                                 {"playerConnected", "playerDisconnected"}}
            IN  (c \in connected) <=>
                    \E i \in news : /\ \A j \in news : j <= i
                                    /\ Log(Ctrl)[i].body = "playerConnected"

\* Every step is a step of TurnBarrier: no turn is played before all living
\* players have answered its own prompt, however late, doubled or reordered
\* the responses and the connection events are.
Barrier == INSTANCE TurnBarrier WITH
    Players <- PlayerIds,
    stage   <- CASE phase = "lobby"   -> "setup"
                 [] phase = "playing" -> "turns"
                 [] OTHER             -> "over",
    turn    <- turn_num,
    living  <- players,
    answers <- [p \in DOMAIN commands |-> commands[p].num]
ImplementsTurnBarrier == Barrier!Spec

\* No request is left pending for ever: it is answered or times out in the end.
RequestsAreAnswered == \A c \in PlayerClients : []<>(DOMAIN requests[c] = {})

\* A game with players ends unless a handler leaves a request pending: no prompt,
\* answer or kick is lost or counted twice between the match and its handlers,
\* so that the match never waits for an event that nobody owes it.
GameEndsIfAnswered ==
    RequestsAreAnswered => ((phase = "playing" /\ players # {}) ~> (phase = "finished"))
=============================================================================
