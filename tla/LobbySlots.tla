----------------------------- MODULE LobbySlots -----------------------------
(***************************************************************************)
(* The lobby of the desktop client: Lobby (planetwars/client/app/          *)
(* components/play/lobby/Lobby.tsx) and its SlotManager, which keep a slot *)
(* per player, a match server, and a player in the server's lobby for      *)
(* every slot.  Requests to the server are promises (MatchRunner.ts).      *)
(*                                                                         *)
(* JavaScript runs one callback at a time.  A chunk read from the control  *)
(* connection holds one or more frames, and their events are dispatched in *)
(* a loop: the callbacks of promises (`tasks`) run when the loop is over,  *)
(* and only then does anything else.  A callback that throws leaves the    *)
(* stream of that connection where it is: nothing is read from it again.   *)
(*                                                                         *)
(* A slot is an object, shared by reference: its identity is its token.    *)
(* The server is modelled by what its lobby does to requests, in order,    *)
(* as in module PwMatch; of its process by whether it is up and has the    *)
(* port.                                                                   *)
(***************************************************************************)
EXTENDS Naturals, Sequences, FiniteSets, SequencesExt

CONSTANTS
    Bots,         \* local bots
    SlotCounts,   \* numbers of slots of the maps
    Ports,        \* ports the user may choose in the configuration
    MaxTokens,    \* bound: slots ever created
    MaxServers,   \* bound: servers ever started
    MaxInFlight,  \* bound: messages on their way, for the next to be sent
    UserWaits,    \* whether the user waits for answers before the next click
    Coalesced     \* whether a chunk may hold several frames

LobbyAssumption ==
    /\ SlotCounts \subseteq Nat \ {0}
    /\ MaxTokens \in Nat /\ MaxServers \in Nat /\ MaxInFlight \in Nat \ {0}
    /\ UserWaits \in BOOLEAN /\ Coalesced \in BOOLEAN

Tokens   == 1 .. MaxTokens
Servers  == 1 .. MaxServers
Managers == 1 .. MaxServers + 1
Ids      == 1 .. MaxTokens * MaxServers
None     == 0                         \* undefined

VARIABLES
    page,        \* LobbyState.type; "unmounted" once the user has left the page
    wanted,      \* slots of the selected map
    server,      \* Lobby.server
    manager,     \* Lobby.slotManager
    shown,       \* LobbyState.slots
    list,        \* SlotManager.slotList
    slots,       \* SlotManager.slots: its tokens
    clients,     \* SlotManager.clients: client id -> token
    runner,      \* SlotManager.matchRunner
    slot,        \* every slot ever created
    next_token,
    promise,     \* MatchRunner.create of each server
    captured,    \* the slot manager of the moment the server was started
    subs,        \* listeners for onPlayerConnected and onPlayerDisconnected
    dialed,      \* local clients started: token and number
    saved,       \* matches saved: server and tokens of their players
    tasks,       \* callbacks of settled promises, in order
    chunk,       \* the server of the chunk whose frames are being handled
    stalled,     \* control connections that are not read any more
    proc, port, phase, players, counter, online,   \* the servers
    to_server, to_client

uiVars     == <<page, wanted, server, manager, shown>>
slotVars   == <<list, slots, clients, runner, slot, next_token>>
runnerVars == <<promise, captured, subs>>
noteVars   == <<dialed, saved>>
loopVars   == <<tasks, chunk, stalled>>
procVars   == <<proc, port>>
lobbyVars  == <<phase, players, counter, online>>
netVars    == <<to_server, to_client>>
vars == <<uiVars, slotVars, runnerVars, noteVars, loopVars, procVars,
          lobbyVars, netVars>>

NewSlot == [connected |-> FALSE, clientId |-> None, bot |-> None]
NoSubs  == [own |-> None, captured |-> None]

Init ==
    /\ page = "configuring" /\ wanted = 0
    /\ server = None /\ manager = 1 /\ shown = <<>>
    /\ list = [m \in Managers |-> <<>>]
    /\ slots = [m \in Managers |-> {}]
    /\ clients = [m \in Managers |-> [i \in {} |-> None]]
    /\ runner = [m \in Managers |-> None]
    /\ slot = [t \in Tokens |-> NewSlot]
    /\ next_token = 1
    /\ promise = [s \in Servers |-> "none"]
    /\ captured = [s \in Servers |-> None]
    /\ subs = [s \in Servers |-> NoSubs]
    /\ dialed = {} /\ saved = {}
    /\ tasks = <<>> /\ chunk = None
    /\ stalled = [s \in Servers |-> FALSE]
    /\ proc = [s \in Servers |-> "idle"]
    /\ port = [s \in Servers |-> None]
    /\ phase = [s \in Servers |-> "lobby"]
    /\ players = [s \in Servers |-> [i \in {} |-> None]]
    /\ counter = [s \in Servers |-> 1]
    /\ online = [s \in Servers |-> {}]
    /\ to_server = [s \in Servers |-> <<>>]
    /\ to_client = [s \in Servers |-> <<>>]
-----------------------------------------------------------------------------
(* Requests.  What a request does with its answer is in its closure: the   *)
(* slot manager and the slot it was made for.                              *)

AddPlayer(m, t)        == [type |-> "add", manager |-> m, token |-> t, id |-> None]
RemovePlayer(m, t, id) == [type |-> "remove", manager |-> m, token |-> t, id |-> id]
StartGame              == [type |-> "start", manager |-> None, token |-> None,
                           id |-> None]

\* lobbyRequest: what is written to a server that is gone is lost.
Send(s, requests) ==
    to_server' = [r \in Servers |->
        IF r = s /\ proc[r] = "up" THEN to_server[r] \o requests ELSE to_server[r]]

\* registerSlot, for the slots with these tokens.
Registrations(m, ts) ==
    IF runner[m] = None THEN <<>>
    ELSE [i \in DOMAIN ts |-> AddPlayer(m, ts[i])]

\* The numbers in a set, in ascending order.
Ascending(numbers) ==
    CHOOSE f \in [1 .. Cardinality(numbers) -> numbers] :
        \A i, j \in DOMAIN f : i < j => f[i] < f[j]

\* Mutant: the player of a dropped slot stays on the server.
Removals_none(m, ts) == <<>>

\* unregisterSlot, for the slots with these tokens.
Removals(m, ts) ==
    LET registered == Ascending({i \in DOMAIN ts : slot[ts[i]].clientId # None})
    IN  IF runner[m] = None THEN <<>>
        ELSE [k \in DOMAIN registered |->
                LET t == ts[registered[k]]
                IN  RemovePlayer(m, t, slot[t].clientId)]

\* Mutant: a slot gets the token of the next one.
Fresh_next(n) == [i \in 1 .. n |-> next_token + i]

\* createSlot, n times.
Fresh(n) == [i \in 1 .. n |-> next_token + i - 1]

\* The event loop is idle, and the user may click.
Idle == tasks = <<>> /\ chunk = None

Settled ==
    /\ Idle
    /\ \A s \in Servers :
        /\ promise[s] # "pending"
        /\ to_server[s] = <<>>
        /\ to_client[s] = <<>>

Click ==
    /\ Idle
    /\ page # "unmounted"
    /\ UserWaits => Settled
    /\ \A s \in Servers : Len(to_server[s]) < MaxInFlight
-----------------------------------------------------------------------------
(* What the page offers and the handlers check *)

\* The buttons of a slot.
Actions(t) ==
    IF slot[t].bot # None /\ ~slot[t].connected THEN {"kick", "connect"}
    ELSE IF slot[t].bot # None \/ slot[t].connected THEN {"kick"}
    ELSE IF slot[t].clientId # None THEN {"copy"} ELSE {}

\* One button starts the server or stops it, the other one launches the game.
serverRunning == server # None

validifyRunning     == server # None /\ page = "running"
validifyConfiguring == server = None /\ page = "configuring"

\* A configuration is valid when a map is selected.
validateConfig == wanted # 0
-----------------------------------------------------------------------------
(* The slots *)

\* SlotManager.update: the slots of a manager become n, the last dropped first.
Resized(m, n) ==
    IF n >= Len(list[m]) THEN list[m] \o Fresh(n - Len(list[m]))
                         ELSE SubSeq(list[m], 1, n)
Grown(m, n)   == IF n >= Len(list[m]) THEN Fresh(n - Len(list[m])) ELSE <<>>
Dropped(m, n) == Reverse(SubSeq(list[m], n + 1, Len(list[m])))

\* updateSlots, when the page receives a configuration with a map.
UpdateSlots(n) ==
    /\ next_token + Len(Grown(manager, n)) <= MaxTokens + 1
    /\ list' = [list EXCEPT ![manager] = Resized(manager, n)]
    /\ slots' = [slots EXCEPT ![manager] = @ \union ToSet(Grown(manager, n))]
    /\ next_token' = next_token + Len(Grown(manager, n))
    /\ Send(runner[manager], Registrations(manager, Grown(manager, n))
                             \o Removals(manager, Dropped(manager, n)))
    /\ shown' = Resized(manager, n)
    /\ UNCHANGED <<page, server, manager, clients, runner, slot, to_client,
                   runnerVars, noteVars, loopVars, procVars, lobbyVars>>

\* The user selects a map: setState of the configuration, and its callback.
SelectMap(n) ==
    /\ Click
    /\ wanted' = n
    /\ UpdateSlots(n)

Unused(t) == slot[t].bot = None /\ ~slot[t].connected

\* bindLocalBot: the first unused slot, if there is one.
AddLocalBot(b) ==
    /\ Click
    /\ \E i \in DOMAIN list[manager] :
        /\ Unused(list[manager][i])
        /\ \A j \in 1 .. i - 1 : ~Unused(list[manager][j])
        /\ slot' = [slot EXCEPT ![list[manager][i]].bot = b]
    /\ shown' = list[manager]
    /\ UNCHANGED <<page, wanted, server, manager, list, slots, clients, runner,
                   next_token, netVars, runnerVars, noteVars, loopVars,
                   procVars, lobbyVars>>

\* removeBot, behind the button "Kick player": a new slot in its place.
KickPlayer(i) ==
    /\ Click
    /\ i \in DOMAIN shown \intersect DOMAIN list[manager]
    /\ "kick" \in Actions(shown[i])
    /\ next_token <= MaxTokens
    /\ list' = [list EXCEPT ![manager][i] = next_token]
    /\ slots' = [slots EXCEPT ![manager] = @ \union {next_token}]
    /\ next_token' = next_token + 1
    /\ Send(runner[manager], Removals(manager, <<list[manager][i]>>)
                             \o Registrations(manager, <<next_token>>))
    /\ shown' = list'[manager]
    /\ UNCHANGED <<page, wanted, server, manager, clients, runner, slot,
                   to_client, runnerVars, noteVars, loopVars, procVars,
                   lobbyVars>>

\* number: playerNum + 1, with a playerNum from 0.
Number(i) == i

\* connectLocalBot, behind the button "Connect".
ConnectLocalBot(i) ==
    /\ Click
    /\ validifyRunning
    /\ i \in DOMAIN shown
    /\ "connect" \in Actions(shown[i])
    /\ slot[shown[i]].clientId # None
    /\ dialed' = dialed \union {[token |-> shown[i], number |-> Number(i)]}
    /\ UNCHANGED <<uiVars, slotVars, saved, netVars, runnerVars, loopVars,
                   procVars, lobbyVars>>

\* connectClient and disconnectClient of slot manager m.
Marked(objects, m, id, connected) ==
    [objects EXCEPT ![clients[m][id]].connected = connected]

\* Map f with y under x.
With(f, x, y) == [i \in DOMAIN f \union {x} |-> IF i = x THEN y ELSE f[i]]

\* Mutant: the entry of an earlier server is kept.
ClientsWith_kept(task) == clients[task.manager] @@ (task.id :> task.token)

ClientsWith(task) == With(clients[task.manager], task.id, task.token)

\* The promise of addPlayer: the slot gets its client id.
PlayerAdded(task) ==
    /\ slot' = [slot EXCEPT ![task.token].clientId = task.id]
    /\ clients' = [clients EXCEPT ![task.manager] = ClientsWith(task)]
    /\ shown' = list[task.manager]
    /\ UNCHANGED <<page, wanted, server, manager, list, slots, runner,
                   next_token, netVars, runnerVars, noteVars, procVars>>

Deleted(task) == {task.token}

\* The promise of removePlayer: the slot and its client are forgotten.
PlayerRemoved(task) ==
    /\ clients' = [clients EXCEPT ![task.manager] =
                    [i \in DOMAIN @ \ {task.id} |-> @[i]]]
    /\ slots' = [slots EXCEPT ![task.manager] = @ \ Deleted(task)]
    /\ shown' = list[task.manager]
    /\ UNCHANGED <<page, wanted, server, manager, list, runner, slot,
                   next_token, netVars, runnerVars, noteVars, procVars>>
-----------------------------------------------------------------------------
(* The server process and its promise *)

\* startServer: MatchRunner.create runs a server and goes on in a callback.
StartServer(p) ==
    /\ Click
    /\ ~serverRunning
    /\ validifyConfiguring
    /\ validateConfig
    /\ \E s \in Servers :
        /\ proc[s] = "idle" /\ \A r \in 1 .. s - 1 : proc[r] # "idle"
        /\ proc' = [proc EXCEPT ![s] =
                IF \E r \in Servers : proc[r] \in {"up", "killed"} /\ port[r] = p
                THEN "failing" ELSE "up"]
        /\ port' = [port EXCEPT ![s] = p]
        /\ promise' = [promise EXCEPT ![s] = "pending"]
        /\ captured' = [captured EXCEPT ![s] = manager]
    /\ UNCHANGED <<uiVars, slotVars, subs, noteVars, loopVars, lobbyVars, netVars>>

\* The control connection is made: onConnect resolves the promise.
ServerConnected(s) ==
    /\ Idle
    /\ promise[s] = "pending" /\ proc[s] = "up"
    /\ promise' = [promise EXCEPT ![s] = "resolved"]
    /\ tasks' = <<[type |-> "created", server |-> s]>>
    /\ UNCHANGED <<uiVars, slotVars, captured, subs, noteVars, chunk, stalled,
                   procVars, lobbyVars, netVars>>

\* The server was not listening yet after 300 ms, or the port is another
\* program's: nothing settles the promise until the process exits.
ConnectFails(s) ==
    /\ Idle
    /\ promise[s] = "pending"
    /\ promise' = [promise EXCEPT ![s] = "hanging"]
    /\ UNCHANGED <<uiVars, slotVars, captured, subs, noteVars, loopVars,
                   procVars, lobbyVars, netVars>>

\* The process ends: killed, its game over, or failed.  What was not read is
\* lost, and its lobby is gone.  onError rejects a promise that is not settled.
ServerExits(s) ==
    /\ Idle
    /\ proc[s] \in {"up", "killed", "failing"}
    /\ proc' = [proc EXCEPT ![s] = "dead"]
    /\ to_client' = [to_client EXCEPT ![s] = <<>>]
    /\ to_server' = [to_server EXCEPT ![s] = <<>>]
    /\ players' = [players EXCEPT ![s] = [i \in {} |-> None]]
    /\ online' = [online EXCEPT ![s] = {}]
    /\ counter' = [counter EXCEPT ![s] = 1]
    /\ IF promise[s] \in {"pending", "hanging"}
       THEN /\ promise' = [promise EXCEPT ![s] = "rejected"]
            /\ tasks' = <<[type |-> "failed", server |-> s]>>
       ELSE UNCHANGED <<promise, tasks>>
    /\ UNCHANGED <<uiVars, slotVars, captured, subs, noteVars, chunk, stalled,
                   port, phase>>

\* setMatchRunner registers every slot.
NewPlayers(s) ==
    [i \in DOMAIN list[manager] |-> AddPlayer(manager, list[manager][i])]

\* The promise of create: the lobby has a server.
Created(s) ==
    /\ server' = s
    /\ runner' = [runner EXCEPT ![manager] = s]
    /\ subs' = [subs EXCEPT ![s] = [own |-> manager, captured |-> captured[s]]]
    /\ Send(s, NewPlayers(s))
    /\ page' = IF page = "unmounted" THEN page ELSE "running"
    /\ UNCHANGED <<wanted, manager, shown, list, slots, clients, slot,
                   next_token, promise, captured, noteVars, procVars, to_client>>

\* killServer
KillServer ==
    /\ server' = None
    /\ proc' = IF server # None /\ proc[server] = "up"
               THEN [proc EXCEPT ![server] = "killed"] ELSE proc

\* stopServer, which also answers a promise of create that was rejected.
StopServer ==
    /\ KillServer
    /\ page' = IF page = "running" THEN "configuring" ELSE page
    /\ UNCHANGED <<wanted, manager, shown, slotVars, runnerVars, noteVars, port,
                   netVars>>

ClickStop ==
    /\ Click
    /\ serverRunning
    /\ StopServer
    /\ UNCHANGED <<loopVars, lobbyVars>>

\* The user goes to another page: componentWillUnmount.
Unmount ==
    /\ Click
    /\ page' = "unmounted"
    /\ KillServer
    /\ UNCHANGED <<wanted, manager, shown, slotVars, runnerVars, noteVars,
                   loopVars, port, lobbyVars, netVars>>

\* launchGame: the slots get no more news of this server.
LaunchGame ==
    /\ Click
    /\ serverRunning
    /\ validifyRunning
    /\ subs' = [subs EXCEPT ![server] = NoSubs]
    /\ Send(server, <<StartGame>>)
    /\ UNCHANGED <<uiVars, slotVars, promise, captured, noteVars, loopVars,
                   procVars, lobbyVars, to_client>>

\* resetState: the server goes on without the lobby.
ServerLeft == None

NextManager == manager + 1

\* The promise of startGame: the match is saved, with a new slot manager and
\* new slots for the next one.
GameStarted ==
    IF ~validifyRunning
    THEN UNCHANGED <<uiVars, slotVars, noteVars, runnerVars, procVars, netVars>>
    ELSE /\ saved' = saved \union {[server |-> server, players |-> shown]}
         /\ server' = ServerLeft
         /\ manager' = NextManager
         /\ list' = [list EXCEPT ![manager + 1] = Fresh(wanted)]
         /\ slots' = [slots EXCEPT ![manager + 1] = ToSet(Fresh(wanted))]
         /\ next_token' = next_token + wanted
         /\ shown' = Fresh(wanted)
         /\ page' = "configuring"
         /\ UNCHANGED <<wanted, clients, runner, slot, dialed, runnerVars,
                        procVars, netVars>>
-----------------------------------------------------------------------------
(* The event loop *)

\* The callback of the promise that was settled first.
RunTask ==
    /\ chunk = None
    /\ tasks # <<>>
    /\ LET task == Head(tasks) IN
        CASE task.type = "created" -> Created(task.server)
          [] task.type = "failed"  -> StopServer
          [] task.type = "add"     -> PlayerAdded(task)
          [] task.type = "remove"  -> PlayerRemoved(task)
          [] task.type = "start"   ->
                next_token + wanted <= MaxTokens + 1 /\ GameStarted
    /\ tasks' = Tail(tasks)
    /\ UNCHANGED <<chunk, stalled, lobbyVars>>

\* A frame is handled; the next one may be in the same chunk.
NextFrame(s) ==
    /\ chunk \in {None, s}
    /\ chunk = None => tasks = <<>>
    /\ to_client[s] # <<>> /\ ~stalled[s]
    /\ to_client' = [to_client EXCEPT ![s] = Tail(@)]

EndOfChunk(s) ==
    \/ chunk' = None
    \/ Coalesced /\ Tail(to_client[s]) # <<>> /\ chunk' = s

\* A response settles the promise of its request.
Response(s) ==
    /\ NextFrame(s)
    /\ Head(to_client[s]).type \in {"add", "remove", "start"}
    /\ tasks' = Append(tasks, Head(to_client[s]))
    /\ EndOfChunk(s)
    /\ UNCHANGED <<uiVars, slotVars, runnerVars, noteVars, stalled, procVars,
                   lobbyVars, to_server>>

\* Whether the client is marked connected in the end.  Of the two listeners
\* the slot manager's runs first; the lobby's calls connectClient both for a
\* client that connected and for one that disconnected.
Connected(frame) == TRUE

\* A player connected or disconnected: the listeners run one after the other.
PlayerNews(s) ==
    LET frame == Head(to_client[s])
        Known(m) == frame.id \in DOMAIN clients[m]
        own == subs[s].own
        cap == subs[s].captured
    IN
    /\ NextFrame(s)
    /\ frame.type \in {"connected", "disconnected"}
    /\ IF subs[s] = NoSubs
       THEN EndOfChunk(s) /\ UNCHANGED <<slot, shown, stalled>>
       ELSE IF ~Known(own)
       THEN /\ stalled' = [stalled EXCEPT ![s] = TRUE]
            /\ chunk' = None
            /\ UNCHANGED <<slot, shown>>
       ELSE IF ~Known(cap)
       THEN /\ slot' = Marked(slot, own, frame.id, frame.type = "connected")
            /\ shown' = list[own]
            /\ stalled' = [stalled EXCEPT ![s] = TRUE]
            /\ chunk' = None
       ELSE /\ slot' = Marked(slot, cap, frame.id, Connected(frame))
            /\ shown' = list[cap]
            /\ EndOfChunk(s)
            /\ UNCHANGED stalled
    /\ UNCHANGED <<page, wanted, server, manager, list, slots, clients, runner,
                   next_token, runnerVars, noteVars, tasks, procVars,
                   lobbyVars, to_server>>
-----------------------------------------------------------------------------
(* The server's lobby *)

Tell(s, frame) == to_client' = [to_client EXCEPT ![s] = Append(@, frame)]

Serve(s) ==
    /\ proc[s] \in {"up", "killed"}
    /\ to_server[s] # <<>>
    /\ Len(to_client[s]) < MaxInFlight
    /\ to_server' = [to_server EXCEPT ![s] = Tail(@)]
    /\ LET request == Head(to_server[s]) IN
       IF phase[s] = "playing"
       THEN UNCHANGED <<to_client, lobbyVars>>
       ELSE CASE request.type = "add" ->
                 /\ players' = [players EXCEPT ![s] =
                                    With(players[s], counter[s], request.token)]
                 /\ counter' = [counter EXCEPT ![s] = @ + 1]
                 /\ Tell(s, [request EXCEPT !.id = counter[s]])
                 /\ UNCHANGED <<phase, online>>
            [] request.type = "remove" ->
                 /\ players' = [players EXCEPT ![s] =
                                    [i \in DOMAIN @ \ {request.id} |-> @[i]]]
                 /\ Tell(s, request)
                 /\ UNCHANGED <<phase, counter, online>>
            [] request.type = "start" ->
                 /\ phase' = [phase EXCEPT ![s] = "playing"]
                 /\ Tell(s, request)
                 /\ UNCHANGED <<players, counter, online>>
    /\ UNCHANGED <<uiVars, slotVars, runnerVars, noteVars, loopVars, procVars>>

\* A client, local or of somebody who was given the token, comes or goes.
ClientMoves(s, id, type) ==
    /\ proc[s] = "up" /\ phase[s] = "lobby"
    /\ id \in DOMAIN players[s]
    /\ (type = "connected") <=> (id \notin online[s])
    /\ Len(to_client[s]) < MaxInFlight
    /\ online' = [online EXCEPT ![s] =
                    IF type = "connected" THEN @ \union {id} ELSE @ \ {id}]
    /\ Tell(s, [type |-> type, id |-> id])
    /\ UNCHANGED <<uiVars, slotVars, runnerVars, noteVars, loopVars, procVars,
                   phase, players, counter, to_server>>
-----------------------------------------------------------------------------
Slots ==
    \/ \E n \in SlotCounts : SelectMap(n)
    \/ \E b \in Bots : AddLocalBot(b)
    \/ \E i \in 1 .. MaxTokens : KickPlayer(i) \/ ConnectLocalBot(i)

Controls == (\E p \in Ports : StartServer(p)) \/ ClickStop \/ LaunchGame \/ Unmount

Loop ==
    \/ RunTask
    \/ \E s \in Servers : Response(s) \/ PlayerNews(s)

Server(s) ==
    \/ ServerConnected(s) \/ ConnectFails(s) \/ ServerExits(s)
    \/ Serve(s)
    \/ \E id \in DOMAIN players[s], type \in {"connected", "disconnected"} :
            ClientMoves(s, id, type)

Next == Slots \/ Controls \/ Loop \/ \E s \in Servers : Server(s)

Spec == Init /\ [][Next]_vars
-----------------------------------------------------------------------------
(* Properties *)

\* Types of the lobby's state.
TypeOK ==
    /\ page \in {"configuring", "running", "unmounted"}
    /\ wanted \in SlotCounts \union {0}
    /\ server \in Servers \union {None}
    /\ manager \in Managers
    /\ next_token \in 1 .. MaxTokens + 1
    /\ ToSet(shown) \subseteq Tokens
    /\ \A m \in Managers :
        /\ ToSet(list[m]) \subseteq 1 .. next_token - 1
        /\ DOMAIN clients[m] \subseteq Ids
        /\ runner[m] \in Servers \union {None}
    /\ \A t \in Tokens : slot[t].clientId \in Ids \union {None}
    /\ stalled \in [Servers -> BOOLEAN]

\* Every token in the list of a slot manager has its slot: getSlots never
\* hands an undefined slot to the page, whatever promises are settled late.
ListedSlotsExist ==
    \A m \in Managers : ToSet(list[m]) \subseteq slots[m]

\* The page shows the slots of the slot manager that the buttons act on, even
\* after a match was launched and callbacks of the old manager are left.
ShowsCurrentSlots == shown = list[manager]

AddUnderWay(s, id) ==
    \E q \in {to_client[s], tasks} : \E i \in DOMAIN q :
        q[i].type = "add" /\ q[i].id = id

\* Once the answer to addPlayer has been handled, the manager knows the
\* player under the number the server gave it, for as long as the server does.
ManagerKnowsPlayers ==
    \A s \in Servers : subs[s] # NoSubs /\ ~stalled[s] /\ proc[s] = "up" =>
        \A id \in DOMAIN players[s] :
            \/ AddUnderWay(s, id)
            \/ /\ id \in DOMAIN clients[subs[s].own]
               /\ clients[subs[s].own][id] = players[s][id]

\* When nothing is under way, the players of the server are the slots of the
\* lobby: none is missing, and no dropped slot has left its player behind.
SlotsAreThePlayers ==
    Settled /\ page = "running" /\ server # None /\ proc[server] = "up"
    /\ ~stalled[server] /\ phase[server] = "lobby" =>
        /\ \A id \in DOMAIN players[server] :
            slot[players[server][id]].clientId = id
        /\ {players[server][id] : id \in DOMAIN players[server]}
           = ToSet(list[manager])

\* News of a player finds its slot: no listener throws.
NewsFindsItsSlot == \A s \in Servers : ~stalled[s]

\* A slot that is shown as not connected has no client.
ConnectedClientsShown ==
    Settled /\ server # None /\ proc[server] = "up" /\ phase[server] = "lobby"
    /\ ~stalled[server] =>
        \A id \in online[server] \intersect DOMAIN players[server] :
            slot[players[server][id]].connected

\* A match is saved with the players its server plays it with.
SavedWithItsPlayers ==
    \A match \in saved : proc[match.server] = "up" =>
        ToSet(match.players) = {players[match.server][id] :
                                    id \in DOMAIN players[match.server]}

\* The log of a local client is filed under the place of its slot in the
\* match that is saved.
LogsAreFiledBySlot ==
    \A match \in saved : \A d \in dialed :
        d.token \in ToSet(match.players) =>
            d.number \in DOMAIN match.players /\ match.players[d.number] = d.token

\* The lobby never kills the server of a match it has saved.
NeverKillsAMatch ==
    \A match \in saved : proc[match.server] # "killed"

\* The page, the slot manager and the server agree on which slot is whose,
\* also when the user clicks before the last answer is there and when frames
\* come in one chunk; and the server of a match that was saved is not killed
\* (SlotManager.ts:104-133, Lobby.tsx:341-357).
LobbyBooksAgree ==
    /\ ListedSlotsExist
    /\ ShowsCurrentSlots
    /\ ManagerKnowsPlayers
    /\ NeverKillsAMatch

\* The comment in startServer: callbacks are set on the current slot manager.
CallbacksOnCurrentManager ==
    \A s \in Servers : s = server /\ subs[s] # NoSubs => subs[s].captured = manager
=============================================================================
