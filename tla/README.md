# A TLA+ model of MOZAIC: match server, clients and desktop application

MOZAIC runs programming-game matches. A *match server* (Rust, `gameserver/`,
on futures 0.1 and tokio) plays one match; *clients* (TypeScript, `client/`)
connect a bot process to it; a *control client*, part of the desktop application
(`planetwars/client/`), starts the server, adds players and starts the game.
This directory holds TLA+ modules for that system, the TLC configurations that
check them, and proofs checked by TLAPS.

`PROJECT.json` records for every definition the source lines it stands for,
the runs, a mutation of the code for each property, and the hazards the
properties are aimed at. Paths below are relative to the repository.

## 1. The system

| Part | Code | State it keeps | What it does |
|---|---|---|---|
| Request handling | `gameserver/src/utils/{client_handler,message_handler,timeout_heap}.rs` | pending requests by message id, a heap of deadlines and one timer, a command channel | turns each request of the game into one message to a client and one answer: the client's, or a time-out |
| Match | `gameserver/src/planetwars/pw_controller.rs` | lobby: players by client id; game: player of each client, who is waited for, the commands of the turn, the game state | serves the control client's requests, then plays turns: prompt, collect, step, report |
| Connections and routing | `gameserver/src/network/{connection,router,tcp}.rs` | token -> routing channel; per connection a stream or none, and a buffer of messages | hands an accepted stream to the connection registered for its token, buffers messages while disconnected |
| Server process | `gameserver/src/{main,oneshot_server}.rs` | | starts a match and a listener; exits one second after the match |
| Rules | `gameserver/src/planetwars/{pw_rules,pw_config,pw_serializer,pw_protocol}.rs` | planets, fleets, expeditions, turn number | dispatches, moves expeditions, resolves combat, builds the view of each player |
| Codec | `gameserver/src/protobuf_codec.rs`, `client/src/ProtobufStream.ts` | bytes received and not consumed | frames messages with a length prefix |
| Client library | `client/src/{Connection,RequestResolver,Client,BotRunner,Logger}.ts` | handshake state, callbacks by message id, queue of output handlers of the bot | passes prompts to the bot process and its lines back as answers, and logs |
| Match runner | `client/src/{MatchRunner,ServerRunner}.ts` | server process, control connection | starts a server and speaks to its lobby |
| Desktop lobby | `planetwars/client/app/components/play/lobby/*` | slots, clients by client id | keeps a slot, and a client in the server's lobby, per player |
| Choice of a map | `planetwars/client/app/components/play/{Config,MapPreview,PlayPage}.tsx`, `utils/Importer.ts` | the form, a preview per map | imports maps, shows them, hands the form to the lobby |
| Match records | `planetwars/client/app/{actions/matches,database,reducers,utils/Setup.ts}` | tables of the redux store, a JSON database that follows them | playing -> finished or errored; starts from the file, migrates old ones |
| Match log | `planetwars/match-log/src` | game states, per player its turns | rebuilds a match from its log, and its statistics |
| Page of matches | `planetwars/client/app/components/matches/*` | the selected match, a log and how much of it was consumed | lists matches, shows one, live or from its file |
| Page of bots | `planetwars/client/app/components/bots/*`, `reducers/bots.ts` | a tile per place of the list | adds, edits and removes bots |
| Visualizer | `planetwars/visualizer/src` | turn, speed, timer, an SVG picture | plays a log |

**Who calls whom.** The match holds one `ClientHandle` per client. A handle puts
commands (`Message`, `Request`, `Response`) on an unbounded channel to the
`ClientHandler` task of that client. The handler gives messages ids, keeps what is
pending, and owns the client's `Connection`, which flushes its buffer to a TCP
stream. Everything a handler learns (connected, disconnected, a message, a response, a
time-out) goes onto the one event channel of the match, which handles events one by one.
A `ConnectionHandler` task per accepted socket reads the token, looks the
connection up in the `RoutingTable` (shared, behind a mutex) and passes
the stream on. On the other side of the socket, the control client's requests become
`LobbyMessage`s, and the callbacks of their promises fill the slots of the desktop
lobby, interleaved with its user's clicks. A launched match is saved in the redux store, which
the database follows; its log grows in the store and in a file, and is read from either by the page of
matches, which hands it to the visualizer.

**What is hard.**

- *Concurrency.* Handlers and the match are tasks on a thread pool, with channels
  between them; all handlers share one event channel; connections are
  replaced under a running handler; the JavaScript side interleaves promises,
  events and user actions.
- *Wake-ups.* A task runs only when something it registered with notifies it. The
  heap of time-outs has one timer for many deadlines, so who registers when decides
  whether a time-out is ever delivered.
- *Time-outs against answers.* A request is settled by whichever is handled first;
  keys of settled requests stay in the heap; late answers keep coming.
- *Failure.* Clients disconnect, reconnect, send wrong ids or nothing; messages taken
  out of a buffer are lost with the stream; the server exits, the desktop application
  is closed, a bot dies.
- *Ends and limits.* No players, one player, no turns, a player that dies, a match that
  ends while handlers have things to say.

**What makes each part correct.**

- Request handling: each request is answered exactly once, never timed out early, and
  in the end. An answer goes to the request whose id it names.
- Match: a turn is played on exactly one answer per living player, each to the
  prompt of that very turn. A player hears a prompt and a report per turn and at most one final state,
  last. The control client hears the state of every turn once, in
  order, and a true account of who is in the lobby and connected.
- Connections: messages reach a client in order and at most once; a stream is given to
  the connection of its token; a live connection's channel is never closed.
- Rules: a turn leaves every planet as `planetwars/README.md` says, in whatever order answers,
  expeditions and fleets are processed; the dead stay dead; each player sees itself as number 1.
- Codec: the messages read are those written, however the bytes are cut, and none is held back.
- Client library: the answer to a prompt comes from the bot's line for that prompt; the log pairs
  commands with states; no bot outlives its client.
- Desktop lobby: slots and the server's players correspond, up to the match that is saved; callbacks never meet
  a client they do not know.
- Match records: the database follows the store through restarts; outcomes are final, announced, and have a log;
  a migration loses nothing.
- Pages: what is shown is what the store has: the whole log of the selected match, the picture of the turn that
  is selected, each bot under its own tile, each map in its own preview.

## 2. The modules

| Module | Models | Role |
|---|---|---|
| `AnswerOnce` | the promise behind `RequestId` and `ResponseError::Timeout` | abstract specification: one answer per request, no early time-out |
| `RequestHandler` | one `ClientHandler` with `MessageHandler`, `TimeoutHeap`, the tokio `Delay` and the executor | detailed; implements `AnswerOnce` |
| `RequestHandlerProofs` | | theorems about `RequestHandler` |
| `ClientHandlers` | all handlers of a match and the event channel | component, composed by `PwMatch` |
| `TurnBarrier` | the promise of a match to its players | abstract specification: lockstep turns |
| `PwMatch` | `PwMatch`, `Lobby`, `PwController`, composed with `ClientHandlers` | detailed; implements `TurnBarrier` |
| `PwMatchProofs` | | theorems about `PwMatch`: who is asked, `TurnBarrier`, and what each client is told |
| `MCPwMatch` | | a scope for a run of `PwMatch` with three players |
| `Routing` | `Listener`, `ConnectionHandler`, `RoutingTable`, `Connection` | component |
| `MCRouting` | | symmetry of tokens for the safety run |
| `RoutingProofs` | | theorems about `Routing` |
| `PlanetWarsRules` | `PlanetWars`, `Planet`, the commands of `PwController`, `Config::create_game`, `Serializer` | component; what `PwMatch` abstracts to "who is alive" |
| `Framing` | `ProtobufReader`, `ProtobufStream`, `LengthDelimited` | component |
| `BotClient` | `Client`, `Connection`, `RequestResolver`, `BotRunner`, `ClientLogger` | component, against the server as one client sees it |
| `BotClientProofs` | | theorems about `BotClient` |
| `LobbySlots` | `Lobby`, `SlotManager`, `MatchRunner`, `ServerRunner` | component, against the lobby of the server |
| `MapPicker` | `Config`, `MapSelector`, `MapPreview`, `Importer` | component |
| `MatchRecords` | the reducers, `Database.ts`, `Setup.ts`, `actions/matches` | component |
| `Migration` | `migrate.ts` and the start of `Database.ts` | component |
| `MatchLogs` | `match-log/src` and `LogView.tsx`, fed by server and clients | composition of the sources of a log |
| `MatchView` | `MatchView.tsx`, `reducers/logs.ts` | component |
| `MatchList` | `Matches.tsx`, `MatchesPage.ts` | pure functions over the store, with the few actions that change it |
| `BotTiles` | `Bots.tsx`, `reducers/bots.ts` | component |
| `Playback` | `visualizer/src/{components,renderers}` | component |
| `MCHosting` | | scopes of `LobbySlots` and `MatchLogs` |
| `MCHostingProofs` | | theorems about `LobbySlots`, and the property of that run about `MatchLogs` |
| `MCHostingSlotsProofs` | | theorems about `LobbySlots` for a user who waits |
| `MCPlaying` | | scopes of `PlanetWarsRules`, `BotClient`, `Framing` and `Playback` |
| `MCPlayingProofs` | | a property of that run, from the theorems about `BotClient` |
| `MCRecords` | | scopes of `MatchRecords`, `Migration`, `MatchView`, `MatchList`, `BotTiles` and `MapPicker` |
| `MCRecordsProofs` | | theorems about `MatchRecords`, and the safety properties of that run, the other parts from invariants of their own |

### RequestHandler

State: `ctrl_chan`, `message_counter`, `requests` (pending message id -> request
number), `deadlines` and `delay` (the heap and its timer), `event_channel`; `registered`
and `notified` are the timer's and the executor's side of a wake-up; `pc` says where the
task is in `ClientHandler::poll`; `due` is a history of the deadlines given.

A poll is not one step: each round of `handle_commands`, `handle_timeouts` and
`poll_client_connection` is an action (`HandleCommand`, `HandleTimeout`, `HandlePacket`),
with an action for each of the three running dry, so the controller, the
client, the clock and the timer interleave with every round. The client answers under
any id, including ids it was never given, any number of times.

Time is counted in ticks of the timer. tokio rounds a deadline up to the next tick,
so a `Delay` has elapsed when `now > delay`, strictly; this is also what makes
`Expired` equivalent to the test on the `Instant` in `TimeoutHeap::poll`. The top of the binary heap is any entry with the
earliest deadline: the heap promises no order among equal ones.

The run `RequestHandler_lost_wakeup` shows a defect: when the `Delay` fires for a
key whose request was answered meanwhile, and the next deadline lies in the future,
`TimeoutHeap::poll` returns `NotReady` with the elapsed `Delay` in place, registered
for nothing. `set_timeout` resets the `Delay` only for an earlier deadline or an empty heap.
The next request of this client is then timed out only if some other traffic happens
to poll the task. With a silent client the match waits for ever. What does hold, and is
checked in `RequestHandler_delivery`, is that a deadline the `Delay` is set to is
delivered, and that any poll after the deadline delivers it.

### ClientHandlers and PwMatch

`ClientHandlers` has the handlers of the control client (`ClientId` 0) and of up to
`MaxClients` players, each moving commands to its buffer and producing events. When a
time-out comes is left open (any time after the request): that it is
answered exactly once and not early is what `RequestHandler` checks and proves.

`PwMatch` adds the match task. In the lobby, one action per request or event
(`LobbyAddPlayer`, `LobbyRemovePlayer`, `LobbyStartGame`, `LobbyConnection`, and `LobbyIgnore` for all
that changes nothing). In the game, `handle_event` falls into two actions: an event after which somebody is
still awaited (`PlayingWait`) and one that completes the turn (`PlayingStep`). The latter is all of
`PwController::step`: the turn, the log to the control client, the report to every player,
the final state or the next prompt, and the end of the match. `Exit` is the process exiting.

A payload is represented by its kind and the one number that matters. Of the rules the match sees who
is alive, and a turn may kill any set of players. A command carries the number of the prompt it
answers, as the code's `RequestId` does, so that the properties can tell a
late answer from a current one; the code drops it (`pw_controller.rs:530`), and the model never uses it in a guard.

Facts about ends that the model makes visible, and that no property forbids since nothing in
the repository says what should happen: a match started with one player, or with `max_turns` 0, ends at
the first event after the start without a final state; a match started with no players moves
only when some client causes an event; a client that reconnects in the last second makes its handler
panic on the closed event channel, and with it goes the final state still in its buffer (`DispatchFails`).

### Routing

State: `routing_channels` is the table, `token` and `status` the connections created so far and
whether the client handler that polls each of them still runs; `routing_chan`, `stream` and `buffer` belong to a connection,
`handler`, `claim` and `handle` to the task of a socket. `adopted`, `written`, `told` and `disconnects` are histories.

`Lookup`, `Accept`, `Refuse` and `HandshakeFails` are the rounds of `ConnectionHandler::poll`, in which
registrations, other sockets and the connections interleave. `Adopt`, `RouterChannelClosed`, `Flush` and `StreamFails` are the
rounds of `Connection::poll`. A stream that replaces another does so without a `Disconnected`.
`flush_buffer` takes a message out of the buffer before `start_send`, so `StreamFails` may lose one that reached no stream.
A message on a stream counts as sent: what TCP still drops when a stream breaks is not counted by
`OneLossPerDisconnect`.

The model keeps one event per step although the code may go through several rounds in a poll; nothing
is shared between connections except the table, which is locked for one operation at a time.
`RouterChannelClosed` is the code's panic; that it takes a second registration of the token is `OnlyReplacedRoutesClose`.
`Register` therefore allows a token to be registered twice, which `Lobby::add_player` does
when the control client adds a client with a token it has used.

What holds here and is not obvious: the sender an accepting task holds keeps the old channel alive after its route was replaced, so
a replaced connection may still get a stream, and does not panic before it has; a task whose connection is gone panics
after telling its client that it was accepted.

### PlanetWarsRules

State: `planets` (the fleets at each, the owner's first), `expeditions` in the order of the vector, `alive`,
`players` (whose client is still there) and `actions`, the reports of the last turn. `Turn` is all of
`PwController::step`: repopulate, the answers of all players in any order a `HashMap` may drain in,
`step_expeditions` with its `swap_remove`, the combat of every planet, and who is kicked. The loops are folds.

`TurnFollowsTheRules` compares it with the rules as `planetwars/README.md` states them: `Force` adds up
what each party has at a planet, from the state before the turn and the moves *reported* as accepted,
and `Battle` lets the largest party keep its lead over the second. Neither knows of orders, vectors or fleets. `NoOneIsRevived` is what `PwMatch` takes from
the rules when it lets a turn kill players and never revive them.

### Framing

Both readers, of the client library and of the server, read one stream in chunks of their own. A varint has groups of
`Base` values, 128 in the code and 2 in the run, so that a length of two groups is short. `ReadMessages` parses all a chunk completes;
`DecodeHead` and `DecodeData` are the states of `LengthDelimited`, between which a length is remembered.

### BotClient and MatchLogs

In `BotClient` nothing ties a line of the bot to a query: the handler that waits longest gets the line. A line is identified by
the message it answers, which the code does not know and no guard uses. `ServerTimesOut` may settle a prompt
before the line comes. For a bot that prints one line per query, as late as it likes, each turn is still played with the answer to its own prompt,
and the log pairs each command with its state (the scope `client` of `MCPlaying`). For one that skips queries or prints unasked, that is lost for good, and
what remains is that no prompt is answered twice (the scope `chatty`).

`MatchLogs` composes the sources of a log, the control client and the client of each player, in any
interleaving, and checks what the view makes of it. An entry does not say what turn it is about.

### LobbySlots

State: the slots (objects, shared by reference and identified by their tokens), the maps of `SlotManager`, the state of the page, the
servers and the messages to and from each. `tasks` are the callbacks of settled promises: they run when the events of a chunk have been dispatched,
so that an answer and an event in one chunk (`Coalesced`) are seen in the other order. A click is enabled whenever the page shows the button;
`UserWaits` makes the user wait for answers first.

With a user who waits, slots and players correspond up to the saved match (the scope `lobby` of `MCHosting`). With one who does not
(`races`), the maps of slot manager, page and server still agree, but two things fail that the first scope
checks: a slot kicked while its `addPlayer` is under way leaves a player in the server's lobby that belongs
to nobody, and an event that shares a chunk with the answer to `addPlayer` finds no client, throws, and stops the control
connection.

Both scopes have one port. With two (`Ports = {1, 2}`, `UserWaits = FALSE`) the user can start a second server while the first is starting, and both come up. If the match is
launched on one before the other reports, the other is handed to the slot manager of the launched match, whose answers then show its slots instead of the current ones; and both
servers number their players from 1 while the slot manager has one map of clients, so that after a kick between the two reports a number of the one server leads to a player of the other. TLC finds either within 18 steps, as an invariant of `LobbySlots`. `ShowsCurrentSlots` and `ManagerKnowsPlayers` are therefore
claimed, and proved, for servers that are up one at a time. `ListedSlotsExist` and `NeverKillsAMatch` are proved without that.

### MatchRecords and Migration

In `MatchRecords` a dispatch is one step: the reducers, then the listener of the database, which puts the tables that changed on their way
(`writes`); the file is written later (`WriteFile`), and `Quit` may come between any two. The listener compares references (`Database.ts:95`), the model values: they differ
where a reducer returns a new object that is equal to the old, which of what the user can do is the clearing of an empty list of notifications (`ClearEmptyList`). Servers and clients end as
`ServerRunner` and `Client` have it: an error first, then the exit.

`Migration` starts the app on a file of any older version, step by step, killed at any moment. The write of the migrated database is not awaited (`Database.ts:47-51`, the callback of `tap`
returns nothing): `SaveMigrated` starts it, and `WriteFile` ends it before the import, after it, or never, when the app is killed first. A session then runs on a database that is not in the file yet, and a
kill makes the next start migrate the old file again; what holds is that the file is always the old database or the new one (`FileIsOldOrNew`) and that the store, whenever it is filled, has all of the old one (`NothingIsLost`: every
bot and configuration, and the match with its players, outcome, scores and winners). Of a match, the history of turns is not among this: `upgradeV3` drops it (`migrate.ts:75-76`), and the app reads the log instead. Assumed of lowdb are a file that is replaced
as a whole, and writes that reach it in the order they were made, so that one of a later dispatch does not end before that of the migration.

### MatchView, MatchList, BotTiles, MapPicker, Playback

React keeps the state of a component while its props change, and this is what these modules are about. `MatchView` is one
instance for all matches, with a log and a position in it; `BotTiles` has the state of a tile under its place in the list, `MapPicker` that of a preview,
whose reads of files are neither ordered nor cancelled; `Playback` has a timer, a turn and a picture that outlive the match they were made for. `MatchList`
has the two sorts of the list as the engine does them for up to ten elements, by insertion, because one comparator is not an order: that of the players, of whom
`ListAssumption` allows ten. The comparator of the matches is an order, so for more than ten of them whatever sort the engine takes gives the same but for matches of one time.
A comparator is a set of pairs of elements, which the proofs can be given, as they cannot an operator.
A handler and the commit of the state it sets are one step.

## 3. The runs

| Run | Checks | Instance |
|---|---|---|
| `RequestHandler_safety` | types; a request in exactly one place; a pending request keeps its deadline; ids are unambiguous; refinement of `AnswerOnce` | 3 requests of which 2 overlap, 1 message, 1 packet in flight, 5 ticks, deadlines 2 ticks away |
| `RequestHandler_delivery` | an aimed time-out is delivered; an overdue one at the next poll | 2 requests, one out at a time as `PwController` does |
| `RequestHandler_lost_wakeup` | violated: every request is answered or timed out | as above |
| `PwMatch_turns` | types; one request per awaited player; the control log; refinement of `TurnBarrier` | 2 players, 2 turns, 6 stimuli |
| `MCPwMatch_kick` | unwraps are safe; the dialogue of a player; the final state | 3 players, 2 turns, 6 stimuli, quiet clients |
| `PwMatch_lobby` | what the control client is told about clients and their connections | 2 players, 7 stimuli, the game over at once |
| `PwMatch_ends` | a game with players ends, if every request is answered or timed out | 2 players, 2 turns, 5 stimuli, fairness of the tasks |
| `MCRouting_safety` | types; messages in order and once; one message lost per disconnect; a stream reaches its connection; live routes stay open; the match knows who has a stream | 2 tokens (symmetric), 2 connections, 3 sockets, 2 messages |
| `Routing_delivery` | an accepted stream is adopted; a buffered message gets onto a stream | 2 tokens, 2 connections, 2 sockets, 2 messages, fairness |
| `MCPlaying` | around the playing of a match | the scopes below |
| `MCHosting` | the lobby of the app and the log of the match | the scopes below |
| `MCRecords` | what the app keeps and shows | the scopes below |

The modules from the rules to the pages are each a system of their own, without a variable in common. The last three runs put them side by side:
a variable `part`, chosen initially and never changed, says which one runs, and the others wait in their initial states. The states
are those of the parts added up, and nothing is assumed of a part that a run of it alone would not. A property of such a run has a conjunct per part,
each a property stated and explained in the module of the part. The constants of the parts of `MCRecords`, and of the logs in `MCHosting`, are constants of it, so that what is proved of it holds for all their values;
the configuration of `MCRecords` names two that have tuples in them, `AppLineups` and `AppContents`:

| Run, scope | Properties of the part | Instance |
|---|---|---|
| `MCPlaying`, `rules` | types, so no subtraction below zero; a turn follows the written rules; expeditions are on time; the living have ships; nobody is revived; each sees itself first | 3 players, 4 planets, 2 turns, answers with good and bad moves |
| `client` | types; answers go to their prompts, once; handlers in step with the bot; the log pairs commands with states; prompts are answered; a refused client ends its bot | 3 turns, one line per query, as late as the bot likes |
| `chatty` | types; one answer per prompt | 3 turns, queries skipped, a line unasked |
| `codec` | types; messages in order and whole; none held back; all arrive | 2 messages of 0 to 2 bytes, every cut |
| `viewer` | types; picture, timer and scoreboard are those of the turn; plays to the end | a live and a past match, the speed doubled or halved once |
| `MCHosting`, `lobby` | types; slots of page, manager and server agree; slots are the players, up to the saved match and its logs; a saved match is not killed | 1 or 2 slots, 3 slots ever made, 2 servers, a user who waits |
| `races` | types; what of that holds for any user and any chunks | 1 slot, 2 ever made, 2 servers, 2 messages in flight |
| `view` | types; rows show their turn; errors show their output | 2 players, 2 turns |
| `stats` | types; joined and hosted log agree; scores add up | 1 player, 2 planets, 2 turns |
| `MCRecords`, `hosted`, `joined` | types; the database follows the store, and catches up; a dbSync writes nothing; finished matches have logs; outcomes are final and announced; removed bots stay away | of the two matches of the run the hosted or the joined one is played; 1 map, 1 bot, restarts, 2 writes under way |
| `migration` | types; nothing is lost; the file is the old or the new database | 2 bots, 1 match, all versions, the write of the new one under way for any time |
| `view` | types; the view shows the whole log; it crashes on empty files only | a hosted and a joined match, 3 entries |
| `list` | newest first; ranked by outcome; names agree | 2 matches of one player and of three |
| `tiles` | types; no bot doubled or back from deletion; additions leave tiles alone | 3 bots |
| `picker` | types; previews show their map, and load; the lobby gets the form | 3 maps |

**What the code does not keep.** Some statements of comments and tests turned out to be false of the code. The first has a run and a record under
"findings"; the others are definitions at the end of their modules, and TLC refutes each within seconds as an invariant of its scope
(the last sections of `MCPlaying` and `MCRecords` name them for a configuration):

- `EveryRequestAnswered`, in `RequestHandler_lost_wakeup`, as told above.
- `CallbacksOnCurrentManager`, which the comment in `startServer` asks for (`Lobby.tsx:202`): with two ports (`Ports = {1, 2}`, `UserWaits = FALSE`), a second
  server that is started while the first is starting, and connected after the first match was launched, reports to the old slot manager (`Lobby.tsx:204-217`).
- `CompletesPlayingMatches`, the assertion of `completeMatch` (`matches.ts:200`): a server that exits with a code other than 0 dispatches an error and then
  its exit (`ServerRunner.ts:47-54`), on which the match is completed, which throws.
- `NotificationsAreRestored` (`Database.ts:41`, "This function will populate the store initially with the DB info"): no reducer handles `importNotificationFromDB`;
  the first change of the list overwrites what was saved.
- `WinnersAreNumbered` (`game.ts:21`, "player numbers are 1-based"): `upgradeV3` gives winners the indices of players, from 0 (`migrate.ts:121`), and the list shows the trophy at the player before.
- `StoreIsPopulated` (`Database.ts:41`): a match that names a bot removed since makes `upgradeV3` throw (`migrate.ts:89`); the app starts empty and saves nothing of the session.
- `FinishedMatchesAreShown` (`MatchView.tsx:94`, "no log is present in redux store; read from disk"): it is read in `componentWillReceiveProps` only, which React does not call for the
  first props, so a reload of the page of a finished match says "match in progress".
- `CrashesStayWithTheirMatch` (`MatchView.tsx:100`, "so your whole app isn't broken"): nothing resets `state.error`, so after a crash it is shown for every match.
- `TilesShowTheStore` (`reducers/root.ts:4`, "All components are essentially functions of this state"): tiles are keyed by their index, so after a deletion the next bot sits under the text
  of an open tile, and Save overwrites it (`Bots.tsx:39`).
- `TitlesNameTheMatch` (as above): `setGame` builds the game with the props of the match before, and the titles in the picture name its players (`visualizer.tsx:58`).
- `ButtonsDoNotCrash` (`controls.ts:54`, "Go to previous turn"): `setTurn` has no lower bound, and turn -1 takes the viewer down (`visualizer.tsx:112`).
- `AdditionsLeaveTilesAlone` is checked of additions only, for the same reason: a deletion does move texts to other bots.
- The lobby shows a client as connected for good: its listener for disconnections calls `connectClient` (`Lobby.tsx:215-217`), so `ConnectedClientsShown` is stated in one direction, that a client which is connected is shown so.
- `SlotsArePlayers` (`Host.tsx:367`, `slots + " players)"`): the slots of a map are its planets with an owner, so a player with two planets in the map asks for a player without one (`Importer.ts:18`).

**Further hazards.** `PROJECT.json` lists the hazards that weigh most. Also met while modelling:

- *with a property*: a removed player that connects again (`router.rs:35`, `ControlKnowsTheClient`); player numbers taken from a `HashMap` of the lobby while the log files players by slot
  (`pw_controller.rs:336`, `LogsAreFiledBySlot`); a message id of 0, which is falsy (`RequestResolver.ts:55`, `PromptsAnswered`); the length a decoder remembers between chunks
  (`protobuf_codec.rs:187`, `InOrderAndWhole`); an event in the chunk of the answer it needs (`SlotManager.ts:69`, `NewsFindsItsSlot`); a comparator that is not an order (`Matches.tsx:98`, `RankedByOutcome`); two numberings of
  the players of a joined match (`MatchesPage.ts:66`, `NamesAgree`).
- *modelled, without a promise to check*: a match that is over before it starts (`pw_controller.rs:362`) or that has no players (`:539`); a handler that outlives its match
  (`client_handler.rs:151`); a planet whose owner has no ships there when the map is loaded (`pw_config.rs:53`); a stream that ends inside a message (`ProtobufStream.ts:68`); a server that never comes up (`Lobby.tsx:204`);
  a match that was playing when the app was quit, and stays so (`Lobby.tsx:305`); an import of the default maps that is cut short, and not taken up again (`Setup.ts:27`).
- *not modelled*: a game description that is not one, on which the match panics (`pw_controller.rs:322-327`); errors of the bot's input and of the socket that nobody handles (`BotRunner.ts:62`, `ProtobufStream.ts:122`); an error of `accept`, which ends the listener (`tcp.rs:58`); a client that never pauses (`client_handler.rs:189`, excluded by fairness); the statistics of a log that ends early because
  its player was killed (`match-log/src/utils.ts:27`); two clients under one token because the button to join was clicked twice (`Join.tsx:139`); arguments of a bot that contain spaces (`migrate.ts:55`).

**Bounds.** `MaxRequests`, `MaxMessages`, `MaxTime`, `MaxInbox` and `MaxOutstanding` bound the
environment of a handler, never the handler. Three requests of which two overlap give a
stale key in front of a pending one, equal deadlines, a response and a time-out for the same
request, and a late response after both. `Request` is only enabled when its deadline can
still pass, so that no time-out is cut off by the clock's bound. `MaxStimuli` bounds what clients do on their own account: connecting,
disconnecting, sending messages. A game of *n* players needs *n* + 2
of them to start (the control client connects, adds *n* players, starts), so 6 stimuli leave two players two more: one connects
and answers, or reconnects, or a stray message arrives. Two turns are the fewest with a prompt after a
played turn, which is where a late answer could count twice. Three players are the fewest for which one can
die while the game goes on; with them TLC explores the scope `QuietClients` of
`MCPwMatch` (nobody disconnects or sends stray messages, the control client's handler keeps up), which is covered with two players elsewhere.

In `Routing`, two connections are enough for one token registered twice and for two tokens; three sockets give
a connection two reconnects, or two streams waiting in its channel while a third belongs to another connection; two messages are the
fewest whose order can be wrong. The theorems of section 4 remove these bounds for all the safety properties.

In the rules, three players around one planet give ties of two and of three, a garrison of no ships and, with the second and third home neighbours, a player
that is wiped out in the first turn and one that lives on in its expeditions only; distances of 1 and 2 have expeditions that land now and in the next turn side by side, in every
order the answers can have. Answers are lists of commands chosen per player, each player's with something to refuse. Three turns of a bot are the fewest in which a late line meets the prompt
after the next. In the lobby, `MaxTokens` counts all slots ever made: three of them, for maps of one slot and of two, have a slot dropped, added again and kicked, and two servers a restart
between. Two messages in flight, in the scope `races`, are the fewest that can cross or share a chunk. One hosted and one joined match are the two lives
a record can have; what two matches share is only the table, whose listener compares it as a whole. Three bots and three maps have a place before and after the one
that changes.

**Fairness.** `RequestHandler`: weak fairness of the handler's steps (the executor runs
every notified task), of the timer and of time, and strong fairness of `ConnectionNotReady`: the loop of
`poll_client_connection` ends only when the socket is drained, which the code does not ensure against a client that sends without pause; we assume
no client outruns the server for ever. Nothing makes the controller ask or a client answer. `PwMatch`: weak fairness of the match task and of
each handler's commands. It has none for the answer to a request: a client may be silent, and the defect above shows that the wake-ups of the code do not see to its time-out. So that requests are answered or timed out
is the premise of the property, `RequestsAreAnswered`, and `GameEndsIfAnswered` is what the match and its handlers add: of the events they are then given none is lost, and the game does not wait for one that cannot come.

`Routing`: weak fairness of the handshake of each socket, of what a connection
finds on its routing channel, and of its flushing or losing its stream; each waits for something that wakes its task.
Nothing makes a client connect, stay or leave.

In `MCPlaying` and `MCRecords` fairness is given to the steps of each part, while it is the part that runs. `BotClient`: the event loop handles what has arrived, the server reads, prompts
and closes a connection it is done with, and the bot, which `BotAnswers` assumes,
answers each query; `Framing` and `MapPicker`: what was sent arrives, and a read of a file ends; `MatchRecords`: promises that are settled
run; `Playback`: the interval timer ticks. A user is never assumed to do anything. `MCHosting` asks for safety only.

Deadlock checking is off where a component may really stop: a handler when nobody talks to it, a match once its process has exited,
a game that is over, a list at the bound of its clock.

## 4. The proofs

Each theorem holds for all values of the constants that satisfy the named assumption of its module, which says that
bounds are natural numbers and that distinct kinds of values are distinct, and no more. Every safety property follows from an inductive invariant, a conjunction of named parts,
with one lemma per action (or per kind of action) and a part of it, and each invariant was checked with TLC before it was proved.

### A client handler: `RequestHandlerProofs` (from `ConstantsAssumption`)

| Theorem | Property |
|---|---|
| `TypeCorrect` | `TypeOK` |
| `HeapKeepsPending` | `PendingHasDeadline` |
| `NothingLostOrDoubled` | `EveryRequestInOnePlace` |
| `IdsNameRequests` | `ResponseNamesItsRequest` |
| `Refinement` | `ImplementsAnswerOnce` |

The argument is one inductive invariant, `IInv`, since none of the properties is inductive
alone. That a request is in one place splits into `AtMostOnePlace` (no number twice in
one place or in two) and `SomePlace`; both need `ChannelOK` and `BookOK`: a number that
travels, is pending or is answered was issued before, so the next one is new, and a message
id that is pending or in the heap is below `message_counter`, so `create_request` never
overwrites an entry. `BookOK` also says that a key of the heap, while pending, has the deadline
of its request: a popped key that has expired belongs to a request that has expired, which is
what "no early time-out" needs. `Counted` keeps the ids within the bounds. `PostsOK`, on top of it, says that the ids of what
is in the outbox are distinct, below the counter, and carry the pending requests. The refinement maps each action to a step of
`AnswerOnce` or to a stutter; that an answer is the first for its number is `AtMostOnePlace`.

### A match: `PwMatchProofs` (from `HandlersAssumption` and `MaxTurnsAssumption`)

| Theorem | Property |
|---|---|
| `TypeCorrect` | `TypeOK` |
| `OneRequest` | `OneRequestPerAwaitedPlayer` |
| `NoUnwrapFails` | `ResponsesComeFromPlayers` |
| `Refinement` | `ImplementsTurnBarrier` |
| `DialogueInOrder` | `PlayerDialogue` |
| `NobodyIsForgotten` | `EveryoneGetsFinalState` |
| `EveryTurnIsLogged` | `ControlSeesEveryTurn` |
| `ClientsAreIntroduced` | `ControlKnowsTheClient` |
| `ConnectionIsKnown` | `ControlKnowsTheConnection` |

The code drops the id of an answer (`pw_controller.rs:530`), so that a turn is played on answers to its own prompt rests on a
count: in `IInv`, `RequestsOK` follows the requests of a client through the three places they can be in, its command channel (`Sent`), its handler
(`Pending`) and the event channel (`Answered`). There is at most one in all of them (`AtMostOne`), it is of the current turn (`Current`), and there is one
just if the client's player is waited for (`Owed`). For a step of a handler to preserve this is to move the request from one place to the next; for
`PlayingStep`, which takes the last answer and prompts everyone, it needs `GameOK`: clients have players of their own, those
waited for are the players without a command, and who is in the game is who is alive. `OneRequestPerAwaitedPlayer`, which counts, is `AtMostOne` and `Owed`; an answer that is
in the event channel is of a player in the game since it is one of somebody waited for. The refinement maps `LobbyStartGame` to `Start` of `TurnBarrier`, an answer that leaves somebody to wait for
to `Collect`, one that does not to `Play`, and the first event of a game that is over before its first turn to `Abandon`; of `RequestsOK` it needs that the answer is of this turn.

The second part of the module is about histories. `Log(c)`, what a client was told and is still to be told, is the buffer of its handler followed by its command
channel; a handler's step leaves it as it is, and `StepKinds` reduces the others to the five that add to one.
`DialogueInv` says how far a dialogue has come (`Spoken`): one prompt, and a report and a prompt per turn, or a final state and nothing after it.
`TurnsTold` counts the states in the control client's log. `KnownInv` says that a player of the lobby was introduced after its last removal. `NewsInv` is the statement that makes `ControlKnowsTheConnection` inductive:
the *last* event about a client in the event channel says how it is connected, and if there is none the last news in the log does (`UpToDate`); and nothing was heard of clients to come (`Fresh`).

### Connections: `RoutingProofs` (from `RoutingAssumption`)

| Theorem | Property |
|---|---|
| `TypeCorrect` | `TypeOK` |
| `LiveRoutesStayOpen` | `OnlyReplacedRoutesClose` |
| `EventsAreRight` | `MatchKnowsConnection` |
| `StreamsAreRouted` | `StreamReachesItsConnection` |
| `MessagesInOrder` | `InOrderAndOnce` |
| `LossesAreBounded` | `OneLossPerDisconnect` |

Tokens, connections and sockets are any sets. Each is an inductive invariant on top of the ones before. `TableInv`: the route of a token leads to the
connection registered last for it, so a connection without a route has a later one with its token. `StreamInv` speaks about `Received`, the streams a connection had
followed by those in its channel, which `Adopt` leaves as it is and `Accept` extends by one: all are of tasks that are
done, so the one appended is new; an accepting task holds the sender for its token. `OrderInv` adds to `InOrderAndOnce`
that the stream of a connection is the one it adopted last, that nothing is
written on a stream not yet adopted (from `StreamInv`: a waiting stream has never been adopted), and that buffer and streams hold only numbers already queued.
With it, `OneLossPerDisconnect` is inductive: a step other than `StreamFails` adds nothing to `Lost`, and `StreamFails`
adds at most the head of the buffer and counts one disconnect.

### The client of a player: `BotClientProofs` (from `BotAssumption`) and `MCPlayingProofs`

| Theorem | States |
|---|---|
| `TypeCorrect` | `TypeOK` |
| `LinesAnswerPrompts` | `InStep`, `AnswersOwnPrompt`, `CommandsAnswerSteps`, for a bot that prints one line per query (`~Chatty`) |
| `AnsweredOnce` | `OneAnswerPerPrompt`, for any bot |
| `ClientAnswersPrompts` | `AnswersOwnPrompt` of the run `MCPlaying`, from the two before |

Nothing in the code ties a line to a query, so the invariant is that everything between server and bot is one sequence. The server numbers its messages. `WireOK`: while the connection is
open, the frames under way are those from the number the client has `Heard` of up to the number `Sent`; if the connection closes, none is and no more will be. `CountsOK`: of the prompts heard of, the first
`Spoke` have been sent off, the next ones are tasks, the next ones handlers, in this order and without a gap. `AnswersOK`: answers on their way to the server are in increasing order and later than any it took.
`LinesOK`: the lines printed and the queries unread are those of the handlers, in their order, or a beginning of them once the bot is dead. `LogOK`: the *n*-th state in the log is the *n*-th prompt.
`AnsweredOnce` needs only the first three, so it holds for a bot that prints what it likes.

`MCPlaying` has the client twice, with two kinds of bot; `MCPlayingProofs` carries the theorems over to the property of that run, by `part`.

### The lobby and the log: `MCHostingProofs` and `MCHostingSlotsProofs` (from `LobbyAssumption`, `LogAssumption`)

| Theorem | States |
|---|---|
| `LobbySlotsBooks` | `Books`, the inductive invariant, on any ports |
| `ListedSlotsAlwaysExist` | `ListedSlotsExist`, on any ports |
| `MatchesAreNotKilled` | `NeverKillsAMatch`, on any ports |
| `OneServerBooksAgree` | `LobbyBooksAgree`, in behaviours that satisfy `[]OneServerAtATime` |
| `BooksAgreeOnOnePort` | `LobbyBooksAgree`, if there is one port (`PortIsKept`) |
| `LogsOfTheHostShowTheirTurns` | `LogsShowTheirTurns` of the run `MCHosting` |
| `SlotsAreAlwaysThePlayers` | the five parts of `SlotsStayThePlayers`, in `LobbySlots`, if there is one port, the user waits and frames come one by one (`PortIsKept`, `UserWaits`, `~Coalesced`) |
| `HostedSlotsStayThePlayers` | `SlotsStayThePlayers` of that run, under the same conditions |

But for the last two, the user may click at any time and frames come in any chunks: `UserWaits` and `Coalesced` are not assumed, nor any number of slots, servers or messages in flight.

`Books` is about late answers. The answer to a removal deletes a slot, so `RemovedAreGone` follows each removal through the queue to the server, the one back and the tasks: its slot is listed nowhere, and,
its token being one that was given out, will never be listed again; so what `PlayerRemoved` forgets is not listed. `ServersHanded` says that the lobby's server is one it was handed, has neither
killed nor saved a match of; that the server of a match that is being saved is a new one needs `ManagersCounted` (a manager per saved match, and one more), and `QuietBefore`: a server that was not handed over yet,
or has ended, has nothing under way. `SettledAlone` says that a settled `create` runs with nothing else in the event loop.

`Current` is about agreement, for a server that is alive. `Unheard(s)`, the tasks followed by the frames under way, is all the page has still to hear of it, in order; taking a frame out of a chunk leaves it as it is, and serving
a request extends it. All in it is for the current manager, up to the start of the game (`CurrentAnswers`), and so are the listeners (`CurrentListeners`). `NumbersAgree`: an addition that is still unheard is the
server's last word on its number, and a removal is that too, or the addition of the same number comes after it. With it, `ManagerKnowsPlayers` is inductive. With two servers alive it is not: the tasks of one would be taken for those of the other.
A server that is up keeps its port until it has ended, and a second one on it fails (`MatchRunner.ts:37-64`), so with one port the hypothesis holds.

A map that shrinks removes its slots in the order of the list (`Ascending`). That a finite set of numbers can be listed so is an induction; `AscendingExists` does it by the least number for which it fails, which the
library has without an operator as a parameter.

For a user who does not wait, and for coalesced frames, the property of `MCHostingSlotsProofs` fails (section 2); that there is one port keeps servers up one at a time. A user who waits clicks when nothing is under way, but one click may send many requests (a smaller map kicks
several players, another one registers several slots), and clients connect, leave and join while they are served, so the invariant, `SlotsInv`, describes every request half done. `Matches(s)`: each slot listed has its player or its
addition is among what the server is asked, each player has its slot or its removal is, and the slot knows the player's number or the answer that tells it is still to be heard. `AskedOnce(s)`: no token is asked for twice, none that is to
go is listed. `NewsInOrder(s)`: in what the page has still to hear, news of a player comes after the answer with its number and before the one that takes it back, so no listener throws. `Listens(s)`: a client that is connected
is shown so, or the news is on its way. `SavedStay` and `Filed`: a saved match keeps the players its server plays with, and what a local client dialed is the place its slot has and keeps. When nothing is under way, what is left of
`Matches` is that slots and players correspond one to one.

The log has an invariant for each of its scopes. `ViewInv` is about a player, its bot and the log: the *i*-th turn of the log is made of the *i*-th state (`TurnsInOrder`), it has an action if the player heard that of
turn *i*, and its action is what the server made of turn *i*. A line of the bot is filed under the last turn, which may be a later one than it answers; but a line the server read in time was printed before the next prompt, so
it stands in its own turn (`LinesInTime`), and a parse error shows the output it is about. `StatsInv` says that the states of each log are the first of the game in order (`Numbered`), so that
logs read to the end have the same, and that a planet is always neutral or of a player who lived at the start (`NobodyReturns`), the only ones `calcStats` scores. `ScoresFollow` then counts: the scores add up to the planets
owned, state by state. The sum is a fold of the community modules; `SumUnfolds` gets at the recursive function beneath it and `ScoresFollow` takes one player after the other from it, both by the least number of players for which they would fail.

### The records of the desktop client: `MCRecordsProofs` (from `RecordsAssumption` and `AppAssumption`)

| Theorem | States |
|---|---|
| `TypeCorrect` | `TypeOK` |
| `DatabaseFollows` | `DatabaseFollowsStore` |
| `FinishedHaveLogs` | `FinishedMatchesHaveLogs` |
| `OutcomesStay` | `OutcomesAreFinal` |
| `EndsAreNotified` | `EndsAreAnnounced` |
| `ChangesAreWritten` | `OnlyChangesAreWritten` |
| `BotsStayRemoved` | `RemovedBotsStayAway` |
| `AppTypeCorrect` | `AppTypeOK` of the run `MCRecords` |
| `RecordsAreKept` | `DatabaseKeepsTheStore` of that run |
| `PagesAreTrue` | `PagesShowTheStore` of that run |
| `DoneStaysDone` | `WhatIsDoneStaysDone` of that run |

`RecordsAssumption` says besides bounds that a match is hosted or joined and a default is a map or a bot, never both. What makes `DatabaseFollowsStore` inductive is
`Follows(t)`: the last write of table `t` under way brings what the store has, or there is none and the database has it already. A dispatch preserves it
because the listener remembers what the store was (`seen = store`) and lists each table that changed exactly once (`WritesForFacts`, from what a
`SetToSeq` is); an update does because the writes are made in order. It does not hold of notifications, which no start restores, and is claimed of the other tables only.
`Recorded` is about the table of matches wherever a copy of it is, in store, database, file or a write under way: what is finished has an entry in its log file, and a match that was
never started is not recorded. With it a step that changes a match (`StepChanges`) begins one or ends one that is playing, and one that ends one announces it, which gives both
properties of outcomes. The theorems hold for any number of restarts: a start begins with the file, whose copies `Recorded` covers.

The other parts of the run follow: with the last four theorems all that the run checks of safety is proved, for any matches, bots, maps, lineups and
bounds, under `AppAssumption`, the assumptions of the parts. These say that a marker such as `NoMatch` or `NoLog` is not one of the values it stands beside, and how many players a lineup has.
In a behaviour one part runs and the rest wait (`Kept`), and each part has an invariant:

- `MigrationInv`: the file, the database in memory and the write under way each hold what was written (`Holds`), as the version they have holds it; the file is what was written or a database of the last
  version, and a session whose file is the old one has the new one under way. So a kill at any moment, the write done or not, leaves a file the next start can go on from.
- `ViewInv`: what the view has of its match is the log in the store up to the position it remembers, or else the file (`InView`). A running match without a log in the store has nothing in its file,
  so that the position a view forgot does not matter. Both are needed because entries, files, a reload of the page and the choice of another match come in any order.
- `TilesInv`: a uuid is given out once and belongs to at most one bot, and the page has a tile for each. A step adds a bot at the end, keeps all in their places, or deletes one.
- `PickerInv`: every map that is filed, or is about to be, has its file, and a preview shows or reads that of the map in its place.
- `ListInv`: the rows of the store have uuids of their own and outcomes of their own players (`Sound`). The properties of the list are then about two sorts.

What a sort returns is proved of the insertion sort, for lists of any length and any comparator whose complement is transitive (`Ranks`): an ascending list of the same elements (`SortFacts`). It is an induction
over the length. The theorem modules state induction for an operator, which no prover here can be given, but their theorem on minimal elements is about a set: `LeastNumber` says that a set of numbers that is not empty has a least
one, and `SortUnfolds` (that the recursive function exists) and `SortFacts` go by the least length for which they would fail. `Ranks` is where the comparator of `calcPlayerData` has to be looked at: it calls a winner and a
loser equal in one order and not in the other, but never a loser before a winner, which is all that an insertion asks.

### What stays with TLC

- Liveness, which needs fairness and `ENABLED`: `AimedTimeoutDelivered`, `OverdueAnsweredOnPoll`, `GameEndsIfAnswered`, `AcceptedIsAdopted`, `BufferIsFlushed`, `Progress`, `PagesAndFilesCatchUp`.
- What folds over data compute: `TurnFollowsTheRules` (the combat of a planet, the turn of all expeditions), `PictureShowsTurn`, the lengths of `Framing`. The folds of the community
  modules are defined by operators that are arguments, which the provers cannot be given in general; a single sum can be reasoned about as in `ScoresFollow`.
- The types of the composed runs `MCPlaying` and `MCHosting` as a whole, whose parts include such folds, and `SeesItselfFirst` (section 5).

## 5. Plan

What could follow, most important first.

1. `SeesItselfFirst` of `PlanetWarsRules` for any number of players: the renumbering is a bijection. What its folds compute, after restating them as recursive functions, by the least counterexample as in `SortFacts`.
2. An abstract specification of `Routing`, a lossy in-order channel per client.
3. Two clients under one token (a match that is joined twice), composing `Routing` with `MatchRecords`.

## 6. Not modelled

- The host page: no route mounts it, and the code says of it that it probably does not work
  (`actions/matches/matches.ts:157`). With it go `runMatch`, `sendGo` and the reducer of the page.
- The form to join a match, which hands what is typed to `joinMatch` (that is in `MatchRecords`), the
  navigation bar, the page of information, styling and electron set-up.
- In the visualizer, the voronoi background (floating-point geometry) and looks. In the page of matches, the export of a log.
- Code nothing uses: `visualsHelper.ts`, `databinder.js`, `components/matches/importer.ts` of the client side;
  `gameserver/src/players` and `planetwars/step_lock.rs`, which are not compiled into the server.
- The web site, the blockly editor, example bots, map tools and `planetwars/archive`, which take no part in a match.
- What messages encode (protobuf, JSON) is taken to be faithful; payloads are abstracted as said above.
