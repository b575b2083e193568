----------------------------- MODULE BotClient -----------------------------
(***************************************************************************)
(* The client of one player (client/src): its Connection to the match      *)
(* server, the RequestResolver that names the answer to each message, the  *)
(* Client that logs what it hears and says, and the BotRunner that writes  *)
(* queries to a bot process and takes the lines it prints for answers.     *)
(*                                                                         *)
(* Nothing ties a line to a query: the handler that waits longest gets it. *)
(* So a query, and the line a bot prints for it, is identified by the id   *)
(* of the message it came in; a line printed unasked has no id.            *)
(*                                                                         *)
(* The server is what RequestHandler and PwMatch make of it: one prompt at *)
(* a time, settled by the first answer that names it or by a time-out, and *)
(* a report to the player after each turn.                                 *)
(***************************************************************************)
EXTENDS Naturals, Sequences, FiniteSets

CONSTANTS
    MaxTurns,     \* turns of the game
    MaxExtra,     \* bound: lines printed unasked
    Chatty        \* whether the bot skips queries and prints lines unasked

BotAssumption ==
    MaxTurns \in Nat /\ MaxExtra \in Nat /\ Chatty \in BOOLEAN

Ids == 0 .. 2 * MaxTurns          \* a prompt and a report per turn; the end
NoId == 2 * MaxTurns + 1          \* a line that answers no query
Lines == Ids \union {NoId}

VARIABLES
    conn,        \* ConnectionState
    socket,
    handlers,    \* BotRunner.handlerQueue: the messages their lines answer
    bot,         \* the bot process
    stdin,       \* queries the bot has not read
    stdout,      \* lines the client has not read
    tasks,       \* resolved promises: sendResponse is still to be called
    log,         \* records of the client's log
    to_client, to_server,
    stage,       \* the server's side of the connection
    turn,        \* turns prompted
    pending,     \* whether the prompt of that turn is not settled
    answers,     \* per turn: the lines it was settled with, at most one
    extra        \* lines printed unasked so far

clientVars == <<conn, handlers, tasks, log>>
botVars    == <<bot, stdin, stdout, extra>>
serverVars == <<stage, turn, pending, answers>>
netVars    == <<socket, to_client, to_server>>
vars == <<clientVars, botVars, serverVars, netVars>>

Init ==
    /\ conn = "disconnected" /\ socket = "none"
    /\ handlers = <<>> /\ tasks = <<>> /\ log = <<>>
    /\ bot = "none" /\ stdin = <<>> /\ stdout = <<>> /\ extra = 0
    /\ to_client = <<>> /\ to_server = <<>>
    /\ stage = "new" /\ turn = 0 /\ pending = FALSE
    /\ answers = [t \in 1 .. MaxTurns |-> {}]

Frame(type, id) == [type |-> type, id |-> id, line |-> NoId]

\* The message ids of the prompt and of the report of turn t.
PromptId(t) == 2 * (t - 1)
ReportId(t) == 2 * (t - 1) + 1
-----------------------------------------------------------------------------
(* Client and Connection *)

\* Client.run: connect, and start the bot, which may not exist.
Run ==
    /\ conn = "disconnected"
    /\ conn' = "connecting"
    /\ socket' = "connecting"
    /\ bot' \in {"running", "dead"}
    /\ UNCHANGED <<handlers, tasks, log, stdin, stdout, extra, serverVars,
                   to_client, to_server>>

\* sendConnectionRequest
SocketConnects ==
    /\ socket = "connecting"
    /\ socket' = "open"
    /\ to_server' = Append(to_server, Frame("hello", NoId))
    /\ UNCHANGED <<clientVars, botVars, serverVars, to_client>>

\* killBot
BotLeft == "dead"

\* onClose: the connection is over, or was never made; frames under way are
\* lost, lines of the bot are not.
SocketCloses ==
    /\ socket \in {"connecting", "open"}
    /\ socket' = "closed"
    /\ to_client' = <<>> /\ to_server' = <<>>
    /\ bot' = BotLeft
    /\ stdin' = <<>>
    /\ UNCHANGED <<clientVars, stdout, extra, serverVars>>

NextFrame ==
    /\ socket = "open"
    /\ to_client # <<>>
    /\ to_client' = Tail(to_client)
    /\ UNCHANGED <<socket, to_server, serverVars>>

\* handleConnectionResponse
ConnectionResponse ==
    /\ NextFrame
    /\ conn = "connecting"
    /\ conn' = IF Head(to_client).type = "success" THEN "connected" ELSE "closed"
    /\ UNCHANGED <<handlers, tasks, log, botVars>>

\* RequestResolver.handleMessage skips a message without an id.  Ids are
\* decoded to Long objects, and an object is never falsy.
Falsy(id) == FALSE

Message(type) ==
    /\ NextFrame
    /\ conn = "connected"
    /\ Head(to_client).type = type
    /\ ~Falsy(Head(to_client).id)

Record(type, id) == [type |-> type, id |-> id]

\* Mutant: a new handler goes to the front of the queue.
Queued_front(id) == <<id>> \o handlers

\* BotRunner.request
Queued(id) == Append(handlers, id)

\* handleGameState: log the state, queue a handler, write to the bot.  What
\* is written to a dead process is lost; its handler stays.
GameState ==
    /\ Message("game_state")
    /\ log' = Append(log, Record("step", Head(to_client).id))
    /\ handlers' = Queued(Head(to_client).id)
    /\ stdin' = IF bot = "running" THEN Append(stdin, Head(to_client).id)
                                   ELSE stdin
    /\ UNCHANGED <<conn, tasks, bot, stdout, extra>>

\* handlePlayerAction and handleFinalState only log.
PlayerAction ==
    /\ Message("player_action")
    /\ log' = Append(log, Record("player_action", Head(to_client).id))
    /\ UNCHANGED <<conn, handlers, tasks, botVars>>

FinalState ==
    /\ Message("final_state")
    /\ log' = Append(log, Record("step", Head(to_client).id))
    /\ UNCHANGED <<conn, handlers, tasks, botVars>>

\* Frames that no handler is interested in.
IgnoredFrame ==
    /\ NextFrame
    /\ conn \notin {"connecting", "connected"} \/ Falsy(Head(to_client).id)
    /\ conn # "connecting"
    /\ UNCHANGED <<clientVars, botVars>>

HandlersLeft == Tail(handlers)

\* onLine: the oldest handler takes the line; nobody takes it when none waits.
OnLine ==
    /\ stdout # <<>>
    /\ stdout' = Tail(stdout)
    /\ IF handlers = <<>>
       THEN UNCHANGED <<handlers, log, tasks>>
       ELSE /\ handlers' = HandlersLeft
            /\ log' = Append(log, Record("command", Head(stdout)))
            /\ tasks' = Append(tasks, [Frame("response", Head(handlers))
                                       EXCEPT !.line = Head(stdout)])
    /\ UNCHANGED <<conn, bot, stdin, extra, serverVars, netVars>>

\* sendResponse; what is written to a closed socket is lost.
SendResponse ==
    /\ tasks # <<>>
    /\ tasks' = Tail(tasks)
    /\ to_server' = IF socket = "open" THEN Append(to_server, Head(tasks))
                                       ELSE to_server
    /\ UNCHANGED <<conn, handlers, log, botVars, serverVars, socket, to_client>>
-----------------------------------------------------------------------------
(* The bot process *)

BotAnswers ==
    /\ bot = "running"
    /\ stdin # <<>>
    /\ stdin' = Tail(stdin)
    /\ stdout' = Append(stdout, Head(stdin))
    /\ UNCHANGED <<bot, extra, clientVars, serverVars, netVars>>

BotSkips ==
    /\ Chatty /\ bot = "running"
    /\ stdin # <<>>
    /\ stdin' = Tail(stdin)
    /\ UNCHANGED <<bot, stdout, extra, clientVars, serverVars, netVars>>

BotChatters ==
    /\ Chatty /\ bot = "running"
    /\ extra < MaxExtra
    /\ extra' = extra + 1
    /\ stdout' = Append(stdout, NoId)
    /\ UNCHANGED <<bot, stdin, clientVars, serverVars, netVars>>

BotExits ==
    /\ bot = "running"
    /\ bot' = "dead"
    /\ stdin' = <<>>
    /\ UNCHANGED <<stdout, extra, clientVars, serverVars, netVars>>
-----------------------------------------------------------------------------
(* The server *)

Tell(frames) == to_client' = to_client \o frames

ServerUnchanged == UNCHANGED <<clientVars, botVars, socket>>

\* The handshake; a client that is refused is disconnected.
ServerAnswersHello(answer) ==
    /\ socket = "open"
    /\ stage = "new" /\ to_server # <<>>
    /\ to_server' = Tail(to_server)
    /\ stage' = IF answer = "success" THEN "playing" ELSE "over"
    /\ Tell(<<Frame(answer, NoId)>>)
    /\ UNCHANGED <<turn, pending, answers>> /\ ServerUnchanged

ServerPrompts ==
    /\ socket = "open"
    /\ stage = "playing" /\ ~pending /\ turn < MaxTurns
    /\ turn' = turn + 1
    /\ pending' = TRUE
    /\ Tell(<<Frame("game_state", PromptId(turn + 1))>>)
    /\ UNCHANGED <<stage, answers, to_server>> /\ ServerUnchanged

Response == Head(to_server)
InTime   == pending /\ Response.id = PromptId(turn)

\* An answer is taken when it names the prompt that is pending.
ServerHears ==
    /\ socket = "open"
    /\ stage # "new" /\ to_server # <<>>
    /\ to_server' = Tail(to_server)
    /\ IF InTime
       THEN /\ answers' = [answers EXCEPT ![turn] = @ \union {Response.line}]
            /\ pending' = FALSE
            /\ Tell(<<Frame("player_action", ReportId(turn))>>)
       ELSE UNCHANGED <<answers, pending, to_client>>
    /\ UNCHANGED <<stage, turn>> /\ ServerUnchanged

ServerTimesOut ==
    /\ pending
    /\ pending' = FALSE
    /\ IF socket = "open" THEN Tell(<<Frame("player_action", ReportId(turn))>>)
                          ELSE UNCHANGED to_client
    /\ UNCHANGED <<stage, turn, answers, to_server>> /\ ServerUnchanged

ServerEnds ==
    /\ socket = "open"
    /\ stage = "playing" /\ ~pending /\ turn = MaxTurns
    /\ stage' = "over"
    /\ Tell(<<Frame("final_state", 2 * MaxTurns)>>)
    /\ UNCHANGED <<turn, pending, answers, to_server>> /\ ServerUnchanged
-----------------------------------------------------------------------------
Client ==
    \/ Run \/ SocketConnects \/ SocketCloses
    \/ ConnectionResponse \/ GameState \/ PlayerAction \/ FinalState
    \/ IgnoredFrame
    \/ OnLine \/ SendResponse

Bot == BotAnswers \/ BotSkips \/ BotChatters \/ BotExits

Server ==
    \/ \E answer \in {"success", "error"} : ServerAnswersHello(answer)
    \/ ServerPrompts \/ ServerHears \/ ServerTimesOut \/ ServerEnds

Next == Client \/ Bot \/ Server

Spec == Init /\ [][Next]_vars

\* The event loop handles what has arrived, a bot that runs answers, the
\* server reads and prompts, and closes a connection it is done with.
Fairness ==
    /\ WF_vars(ConnectionResponse \/ GameState \/ PlayerAction \/ FinalState
               \/ IgnoredFrame)
    /\ WF_vars(OnLine) /\ WF_vars(SendResponse)
    /\ WF_vars(BotAnswers)
    /\ WF_vars(ServerPrompts) /\ WF_vars(ServerHears)
    /\ WF_vars(stage = "over" /\ SocketCloses)

FairSpec == Spec /\ Fairness
-----------------------------------------------------------------------------
(* Properties *)

\* Types of the client's state and of what surrounds it.
TypeOK ==
    /\ conn \in {"disconnected", "connecting", "connected", "closed"}
    /\ socket \in {"none", "connecting", "open", "closed"}
    /\ handlers \in Seq(Ids)
    /\ bot \in {"none", "running", "dead"}
    /\ stdin \in Seq(Ids) /\ stdout \in Seq(Lines)
    /\ tasks \in Seq([type: {"response"}, id: Ids, line: Lines])
    /\ stage \in {"new", "playing", "over"}
    /\ turn \in 0 .. MaxTurns /\ pending \in BOOLEAN
    /\ answers \in [1 .. MaxTurns -> SUBSET Lines]
    /\ extra \in 0 .. MaxExtra

\* A turn is played with the line the bot printed for the prompt of that
\* turn, however late earlier lines were: answers that missed their time-out
\* go out under the id of their own prompt.
AnswersOwnPrompt ==
    \A t \in 1 .. MaxTurns : answers[t] \subseteq {PromptId(t)}

\* The queue of handlers and the bot are never out of step: the lines printed
\* and to be printed are those of the handlers, in their order.
InStep ==
    bot = "running" => handlers = stdout \o stdin

\* Records of a type among the first k of the log.
Count(type, k) == Cardinality({j \in 1 .. k : log[j].type = type})

\* The n-th command in the log is the bot's answer to the n-th state in it.
CommandsAnswerSteps ==
    \A i \in DOMAIN log : log[i].type = "command" =>
        \E j \in 1 .. i - 1 :
            /\ log[j] = Record("step", log[i].id)
            /\ Count("step", j) = Count("command", i)

\* Where an answer to message id can be: yet to come, resolved, under way.
Answering(id) ==
    {<<"handler", n>> : n \in {i \in DOMAIN handlers : handlers[i] = id}} \union
    {<<"task", n>> : n \in {i \in DOMAIN tasks : tasks[i].id = id}} \union
    {<<"sent", n>> : n \in {i \in DOMAIN to_server : to_server[i].id = id}}

\* Whatever the bot prints, a prompt is answered at most once: by one handler,
\* one task or one frame, and not by a second after it was taken in time.
OneAnswerPerPrompt ==
    \A t \in 1 .. MaxTurns :
        LET places == Answering(PromptId(t)) IN
        /\ \A x, y \in places : x = y
        /\ answers[t] # {} => places = {}

\* A prompt of a connected client with a bot that answers is answered, in
\* time or too late; the connection or the bot may end first.
PromptsAnswered ==
    \A t \in 1 .. MaxTurns :
        (turn = t /\ pending /\ bot = "running" /\ conn = "connected")
            ~> (Count("command", Len(log)) >= t \/ bot = "dead")

\* A client that is refused does not leave its bot behind.
RefusedBotDies == (conn = "closed") ~> (bot = "dead")
=============================================================================
