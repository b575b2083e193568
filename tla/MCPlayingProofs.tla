-------------------------- MODULE MCPlayingProofs --------------------------
(***************************************************************************)
(* The property of the client that the run of MCPlaying checks, from the   *)
(* inductive invariant of BotClientProofs for each of its two bots.        *)
(***************************************************************************)
EXTENDS MCPlaying, TLAPS

ClientProofs == INSTANCE BotClientProofs WITH
    MaxTurns <- 3, MaxExtra <- 0, Chatty <- FALSE

TalkerProofs == INSTANCE BotClientProofs WITH
    MaxTurns <- 3, MaxExtra <- 1, Chatty <- TRUE

LEMMA ClientNext == Client!Next => ClientProofs!Next
BY DEF
  Client!Next, Client!Client, Client!Bot, Client!Server,
  Client!Run, Client!SocketConnects, Client!SocketCloses, Client!ConnectionResponse,
  Client!GameState, Client!PlayerAction, Client!FinalState, Client!IgnoredFrame, Client!OnLine,
  Client!SendResponse, Client!BotAnswers, Client!BotSkips, Client!BotChatters, Client!BotExits,
  Client!ServerAnswersHello, Client!ServerPrompts, Client!ServerHears, Client!ServerTimesOut,
  Client!ServerEnds, Client!ServerUnchanged, Client!Tell, Client!Message, Client!NextFrame,
  Client!Frame, Client!Record, Client!Falsy, Client!Queued, Client!HandlersLeft, Client!BotLeft,
  Client!PromptId, Client!ReportId, Client!Response, Client!InTime, Client!NoId,
  Client!clientVars, Client!botVars, Client!serverVars, Client!netVars,
  ClientProofs!Next, ClientProofs!Client, ClientProofs!Bot, ClientProofs!Server,
  ClientProofs!Run, ClientProofs!SocketConnects, ClientProofs!SocketCloses, ClientProofs!ConnectionResponse,
  ClientProofs!GameState, ClientProofs!PlayerAction, ClientProofs!FinalState, ClientProofs!IgnoredFrame, ClientProofs!OnLine,
  ClientProofs!SendResponse, ClientProofs!BotAnswers, ClientProofs!BotSkips, ClientProofs!BotChatters, ClientProofs!BotExits,
  ClientProofs!ServerAnswersHello, ClientProofs!ServerPrompts, ClientProofs!ServerHears, ClientProofs!ServerTimesOut,
  ClientProofs!ServerEnds, ClientProofs!ServerUnchanged, ClientProofs!Tell, ClientProofs!Message, ClientProofs!NextFrame,
  ClientProofs!Frame, ClientProofs!Record, ClientProofs!Falsy, ClientProofs!Queued, ClientProofs!HandlersLeft, ClientProofs!BotLeft,
  ClientProofs!PromptId, ClientProofs!ReportId, ClientProofs!Response, ClientProofs!InTime, ClientProofs!NoId,
  ClientProofs!clientVars, ClientProofs!botVars, ClientProofs!serverVars, ClientProofs!netVars

LEMMA TalkerNext == Talker!Next => TalkerProofs!Next
BY DEF
  Talker!Next, Talker!Client, Talker!Bot, Talker!Server,
  Talker!Run, Talker!SocketConnects, Talker!SocketCloses, Talker!ConnectionResponse,
  Talker!GameState, Talker!PlayerAction, Talker!FinalState, Talker!IgnoredFrame, Talker!OnLine,
  Talker!SendResponse, Talker!BotAnswers, Talker!BotSkips, Talker!BotChatters, Talker!BotExits,
  Talker!ServerAnswersHello, Talker!ServerPrompts, Talker!ServerHears, Talker!ServerTimesOut,
  Talker!ServerEnds, Talker!ServerUnchanged, Talker!Tell, Talker!Message, Talker!NextFrame,
  Talker!Frame, Talker!Record, Talker!Falsy, Talker!Queued, Talker!HandlersLeft, Talker!BotLeft,
  Talker!PromptId, Talker!ReportId, Talker!Response, Talker!InTime, Talker!NoId,
  Talker!clientVars, Talker!botVars, Talker!serverVars, Talker!netVars,
  TalkerProofs!Next, TalkerProofs!Client, TalkerProofs!Bot, TalkerProofs!Server,
  TalkerProofs!Run, TalkerProofs!SocketConnects, TalkerProofs!SocketCloses, TalkerProofs!ConnectionResponse,
  TalkerProofs!GameState, TalkerProofs!PlayerAction, TalkerProofs!FinalState, TalkerProofs!IgnoredFrame, TalkerProofs!OnLine,
  TalkerProofs!SendResponse, TalkerProofs!BotAnswers, TalkerProofs!BotSkips, TalkerProofs!BotChatters, TalkerProofs!BotExits,
  TalkerProofs!ServerAnswersHello, TalkerProofs!ServerPrompts, TalkerProofs!ServerHears, TalkerProofs!ServerTimesOut,
  TalkerProofs!ServerEnds, TalkerProofs!ServerUnchanged, TalkerProofs!Tell, TalkerProofs!Message, TalkerProofs!NextFrame,
  TalkerProofs!Frame, TalkerProofs!Record, TalkerProofs!Falsy, TalkerProofs!Queued, TalkerProofs!HandlersLeft, TalkerProofs!BotLeft,
  TalkerProofs!PromptId, TalkerProofs!ReportId, TalkerProofs!Response, TalkerProofs!InTime, TalkerProofs!NoId,
  TalkerProofs!clientVars, TalkerProofs!botVars, TalkerProofs!serverVars, TalkerProofs!netVars

LEMMA PartsInit ==
  Client!Init => ClientProofs!Init /\ TalkerProofs!Init
BY DEF Client!Init, ClientProofs!Init, TalkerProofs!Init

LEMMA Bounds == ClientProofs!BotAssumption /\ TalkerProofs!BotAssumption
BY DEF ClientProofs!BotAssumption, TalkerProofs!BotAssumption

\* Whichever part runs, the client keeps the invariant of its own bot.
Kept ==
    /\ part = "client" => ClientProofs!IInv
    /\ part = "chatty" => TalkerProofs!IInv

LEMMA KeptInit == Init => Kept
BY PartsInit, Bounds, ClientProofs!InitInv, TalkerProofs!InitInv DEF Init, Kept

LEMMA KeptNext == Kept /\ [Next]_vars => Kept'
<1> SUFFICES ASSUME Kept, [Next]_vars
             PROVE  Kept'
  OBVIOUS
<1>1. part' = part
  BY DEF Next, vars
<1>2. CASE part = "client"
  <2>1. ClientProofs!Next \/ UNCHANGED client
    BY <1>2, ClientNext DEF Next, vars
  <2>2. [ClientProofs!Next]_(ClientProofs!vars)
    BY <2>1 DEF client, ClientProofs!vars, ClientProofs!clientVars, ClientProofs!botVars,
                ClientProofs!serverVars, ClientProofs!netVars
  <2> QED
    BY <1>1, <1>2, <2>2, ClientProofs!NextInv DEF Kept
<1>3. CASE part = "chatty"
  <2>1. TalkerProofs!Next \/ UNCHANGED client
    BY <1>3, TalkerNext DEF Next, vars
  <2>2. [TalkerProofs!Next]_(TalkerProofs!vars)
    BY <2>1 DEF client, TalkerProofs!vars, TalkerProofs!clientVars, TalkerProofs!botVars,
                TalkerProofs!serverVars, TalkerProofs!netVars
  <2> QED
    BY <1>1, <1>3, <2>2, TalkerProofs!NextInv DEF Kept
<1>4. CASE part \notin {"client", "chatty"}
  BY <1>1, <1>4 DEF Kept
<1> QED
  BY <1>2, <1>3, <1>4

\* The run's statement of a property is the one that BotClientProofs proves.
LEMMA SameStatements ==
  /\ ClientProofs!AnswersOwnPrompt => Client!AnswersOwnPrompt
  /\ ClientProofs!InStep => Client!InStep
  /\ ClientProofs!CommandsAnswerSteps => Client!CommandsAnswerSteps
  /\ ClientProofs!OneAnswerPerPrompt => Client!OneAnswerPerPrompt
  /\ TalkerProofs!OneAnswerPerPrompt => Talker!OneAnswerPerPrompt
<1>1. ClientProofs!AnswersOwnPrompt => Client!AnswersOwnPrompt
  BY DEF ClientProofs!AnswersOwnPrompt, ClientProofs!PromptId,
         Client!AnswersOwnPrompt, Client!PromptId
<1>2. ClientProofs!InStep => Client!InStep
  BY DEF ClientProofs!InStep, Client!InStep
<1>3. ClientProofs!CommandsAnswerSteps => Client!CommandsAnswerSteps
  <2>1. \A type, k : ClientProofs!Count(type, k) = Client!Count(type, k)
    BY Zenon DEF ClientProofs!Count, Client!Count, ClientProofs!Cardinality, Client!Cardinality
  <2>2. \A type, id : ClientProofs!Record(type, id) = Client!Record(type, id)
    BY DEF ClientProofs!Record, Client!Record
  <2> QED
    BY <2>1, <2>2, Zenon DEF ClientProofs!CommandsAnswerSteps, Client!CommandsAnswerSteps
<1>4. ClientProofs!OneAnswerPerPrompt => Client!OneAnswerPerPrompt
  BY DEF ClientProofs!OneAnswerPerPrompt, ClientProofs!Answering, ClientProofs!PromptId,
         Client!OneAnswerPerPrompt, Client!Answering, Client!PromptId
<1>5. TalkerProofs!OneAnswerPerPrompt => Talker!OneAnswerPerPrompt
  BY DEF TalkerProofs!OneAnswerPerPrompt, TalkerProofs!Answering, TalkerProofs!PromptId,
         Talker!OneAnswerPerPrompt, Talker!Answering, Talker!PromptId
<1> QED
  BY <1>1, <1>2, <1>3, <1>4, <1>5

\* In the behaviours that TLC explores, and in those of any length: a turn is
\* played with the line printed for its prompt, and with one line at most,
\* and the log shows it after the state it answers (Client.ts:95-139).
THEOREM ClientAnswersPrompts == Spec => []AnswersOwnPrompt
<1>1. ClientProofs!IInv =>
        ClientProofs!InStep /\ ClientProofs!AnswersOwnPrompt /\ ClientProofs!CommandsAnswerSteps
  BY ClientProofs!PromptsFromInv
<1>2. ClientProofs!IInv => ClientProofs!OneAnswerPerPrompt
  BY ClientProofs!OnceFromInv
<1>3. TalkerProofs!IInv => TalkerProofs!OneAnswerPerPrompt
  BY TalkerProofs!OnceFromInv
<1>4. Kept => AnswersOwnPrompt
  BY <1>1, <1>2, <1>3, SameStatements DEF Kept, AnswersOwnPrompt
<1> QED
  BY <1>4, KeptInit, KeptNext, PTL DEF Spec
=============================================================================
