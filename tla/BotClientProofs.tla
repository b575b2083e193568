-------------------------- MODULE BotClientProofs --------------------------
(***************************************************************************)
(* Proofs about BotClient, for any number of turns and of lines a bot      *)
(* prints unasked.                                                         *)
(*                                                                         *)
(* The server numbers its messages.  Of those, the client has logged the   *)
(* first Heard; the bot's lines are handed out in the order of the         *)
(* prompts among them, and are logged, sent and heard in that order.       *)
(***************************************************************************)
EXTENDS BotClient, FiniteSetTheorems, SequenceTheorems, TLAPS

\* What the log says: commands written, of these those whose answer was
\* sent, states heard of, and messages of the server.
Said  == Count("command", Len(log))
Spoke == Said - Len(tasks)
Steps == Count("step", Len(log))
Heard == Len(log) - Said

ServerFrames == [type : {"success", "error", "game_state", "player_action", "final_state"},
                 id : Lines, line : {NoId}]
ClientFrames == [type : {"hello", "response"}, id : Lines, line : Lines]

Tasks      == [type : {"response"}, id : Ids, line : Lines]
LogRecords == [type : {"step", "player_action", "command"}, id : Lines]

WireTypes ==
    /\ to_client \in Seq(ServerFrames)
    /\ to_server \in Seq(ClientFrames)
    /\ log \in Seq(LogRecords)

\* A client that is not connected has neither asked nor said anything, and
\* what is not open carries no frames.
StagesOK ==
    /\ conn = "disconnected" <=> socket = "none"
    /\ conn = "disconnected" => bot = "none" /\ stdin = <<>> /\ stdout = <<>>
    /\ conn \in {"disconnected", "connecting"} =>
         log = <<>> /\ handlers = <<>> /\ tasks = <<>>
    /\ socket # "open" => to_client = <<>> /\ to_server = <<>>
    /\ socket \in {"none", "connecting"} => stage = "new"
    /\ stage = "new" =>
         /\ conn \in {"disconnected", "connecting"}
         /\ turn = 0 /\ to_client = <<>>
         /\ to_server \in {<<>>, <<Frame("hello", NoId)>>}
    /\ stage # "playing" => ~pending
    /\ pending => turn > 0

\* The n-th message of the server, counted from zero.
IsMessage(frame, n) ==
    /\ frame.id = n
    /\ frame.type = "game_state"    => \E t \in 1 .. MaxTurns : n = PromptId(t)
    /\ frame.type = "player_action" => \E t \in 1 .. MaxTurns : n = ReportId(t)
    /\ frame.type = "final_state"   => n = 2 * MaxTurns
    /\ frame.type \in {"game_state", "player_action", "final_state"}

Sent == IF stage = "over" THEN 2 * MaxTurns + 1
        ELSE IF pending THEN 2 * turn - 1 ELSE 2 * turn

Accepted ==
    /\ conn = "connecting"
    /\ Len(to_client) = Sent + 1
    /\ to_client[1].type = "success"
    /\ \A i \in 2 .. Len(to_client) : IsMessage(to_client[i], i - 2)

Refused ==
    /\ conn \in {"connecting", "closed"} /\ stage = "over"
    /\ conn = "connecting" => Len(to_client) = 1 /\ to_client[1].type = "error"
    /\ conn = "closed" => to_client = <<>>

Listening ==
    /\ conn = "connected"
    /\ Heard + Len(to_client) = Sent
    /\ \A i \in 1 .. Len(to_client) : IsMessage(to_client[i], Heard + i - 1)

\* No message is lost on an open connection.
WireOK ==
    socket = "open" /\ stage # "new" => Accepted \/ Refused \/ Listening

\* States and reports alternate in the log, and all prompts before the next
\* are answered, resolved or in a handler, in this order.
CountsOK ==
    /\ Heard \in {2 * Steps, 2 * Steps - 1}
    /\ Heard <= 2 * MaxTurns + 1
    /\ Said + Len(handlers) = IF Heard = 2 * MaxTurns + 1 THEN MaxTurns ELSE Steps
    /\ Spoke >= 0
    /\ \A i \in 1 .. Len(handlers) : handlers[i] = PromptId(Said + i)
    /\ \A i \in 1 .. Len(tasks) : tasks[i].id = PromptId(Spoke + i)

\* Answers under way go out in order, each once, and later than any that
\* the server took.
AnswersOK ==
    /\ \A i \in 1 .. Len(to_server) : stage # "new" =>
         to_server[i].type = "response" /\ to_server[i].id <= PromptId(Spoke)
    /\ \A i, j \in 1 .. Len(to_server) : i < j => to_server[i].id < to_server[j].id
    /\ \A t \in 1 .. MaxTurns : answers[t] # {} =>
         /\ t <= Spoke
         /\ \A i \in 1 .. Len(to_server) : PromptId(t) < to_server[i].id

\* The lines on their way to the client are for the handlers that wait
\* longest.
LinesAhead ==
    /\ Len(stdout) <= Len(handlers)
    /\ \A i \in 1 .. Len(stdout) : stdout[i] = handlers[i]

\* An answer has the line that was printed for it.
OwnLines ==
    /\ \A i \in 1 .. Len(tasks) : tasks[i].line = tasks[i].id
    /\ \A i \in 1 .. Len(to_server) : to_server[i].line = to_server[i].id

\* A bot that answers every query and nothing else prints the lines of the
\* handlers, in their order; after its end, the last ones are missing.
LinesOK ==
    ~Chatty => InStep /\ LinesAhead /\ OwnLines /\ AnswersOwnPrompt

\* The n-th state in the log is the n-th prompt, or the last of all, and so
\* is what the n-th command answers.
LogOK ==
    /\ \A n \in 1 .. Steps : \E i \in 1 .. Len(log) :
         log[i] = Record("step", PromptId(n)) /\ Count("step", i) = n
    /\ ~Chatty => CommandsAnswerSteps

IInv ==
    /\ BotAssumption
    /\ TypeOK /\ WireTypes /\ StagesOK /\ WireOK
    /\ CountsOK /\ AnswersOK /\ LinesOK /\ LogOK
-----------------------------------------------------------------------------
(* Sequences *)

LEMMA TailFacts ==
  ASSUME NEW S, NEW s \in Seq(S), s # <<>>
  PROVE  /\ Tail(s) \in Seq(S)
         /\ Len(s) \in Nat \ {0} /\ Len(Tail(s)) = Len(s) - 1
         /\ \A i \in 1 .. Len(s) - 1 : Tail(s)[i] = s[i + 1]
         /\ Head(s) = s[1] /\ Head(s) \in S
OBVIOUS

LEMMA AppendFacts ==
  ASSUME NEW S, NEW s \in Seq(S), NEW x \in S
  PROVE  /\ Append(s, x) \in Seq(S)
         /\ Len(s) \in Nat /\ Len(Append(s, x)) = Len(s) + 1
         /\ \A i \in 1 .. Len(s) : Append(s, x)[i] = s[i]
         /\ Append(s, x)[Len(s) + 1] = x
OBVIOUS

LEMMA AddFacts ==
  ASSUME NEW S, NEW s \in Seq(S), NEW x \in S
  PROVE  /\ s \o <<x>> \in Seq(S)
         /\ Len(s) \in Nat /\ Len(s \o <<x>>) = Len(s) + 1
         /\ \A i \in 1 .. Len(s) : (s \o <<x>>)[i] = s[i]
         /\ (s \o <<x>>)[Len(s) + 1] = x
OBVIOUS

-----------------------------------------------------------------------------
(* Counting records *)

LEMMA CountType ==
  ASSUME NEW type, NEW k \in Nat
  PROVE  /\ IsFiniteSet({j \in 1 .. k : log[j].type = type})
         /\ Count(type, k) \in Nat
<1> DEFINE C == {j \in 1 .. k : log[j].type = type}
<1>1. IsFiniteSet(1 .. k)
  BY FS_Interval
<1>2. C \subseteq 1 .. k
  OBVIOUS
<1>3. IsFiniteSet(C)
  BY <1>1, <1>2, FS_Subset
<1> QED
  BY <1>3, FS_CardinalityType DEF Count

\* A record counts for its type, and from its place on.
LEMMA CountAppend ==
  ASSUME log \in Seq(LogRecords), NEW r, log' = Append(log, r), NEW type
  PROVE  /\ \A k \in 1 .. Len(log) : Count(type, k)' = Count(type, k)
         /\ Count(type, Len(log))' =
              IF r.type = type THEN Count(type, Len(log)) + 1 ELSE Count(type, Len(log))
<1> DEFINE C(k) == {j \in 1 .. k : log[j].type = type}
<1>0. Len(log) \in Nat /\ Len(log') = Len(log) + 1 /\ log'[Len(log) + 1] = r
  OBVIOUS
<1>1. \A j \in 1 .. Len(log) : log'[j] = log[j]
  OBVIOUS
<1>2. \A k \in 1 .. Len(log) : C(k)' = C(k)
  BY <1>0, <1>1
<1>3. C(Len(log))' = IF r.type = type THEN C(Len(log)) \union {Len(log) + 1} ELSE C(Len(log))
  BY <1>0, <1>1
<1>4. Len(log) + 1 \notin C(Len(log)) /\ IsFiniteSet(C(Len(log)))
  <2>1. IsFiniteSet(C(Len(log)))
    BY <1>0, CountType
  <2> QED
    BY <1>0, <2>1
<1>5. Cardinality(C(Len(log)) \union {Len(log) + 1}) = Cardinality(C(Len(log))) + 1
  BY <1>4, FS_AddElement
<1>6. \A k \in 1 .. Len(log) : Cardinality(C(k)') = Cardinality(C(k))
  BY <1>2
<1> QED
  BY <1>3, <1>5, <1>6 DEF Count

LEMMA CountEmpty ==
  ASSUME NEW type PROVE Count(type, 0) = 0
<1>1. {j \in 1 .. 0 : log[j].type = type} = {}
  OBVIOUS
<1> QED
  BY <1>1, FS_EmptySet DEF Count

\* What the log says after one more record.
LEMMA Recorded ==
  ASSUME log \in Seq(LogRecords), NEW type, NEW id, log' = Append(log, Record(type, id))
  PROVE  /\ Len(log') = Len(log) + 1
         /\ \A i \in 1 .. Len(log) : log'[i] = log[i]
         /\ log'[Len(log')] = Record(type, id)
         /\ Said' = IF type = "command" THEN Said + 1 ELSE Said
         /\ Steps' = IF type = "step" THEN Steps + 1 ELSE Steps
<1>1. Record(type, id).type = type
  BY DEF Record
<1>2. /\ Said' = IF type = "command" THEN Said + 1 ELSE Said
      /\ Steps' = IF type = "step" THEN Steps + 1 ELSE Steps
  BY <1>1, CountAppend DEF Said, Steps
<1> QED
  BY <1>2

LEMMA Numbers ==
  ASSUME log \in Seq(LogRecords)
  PROVE  Said \in Nat /\ Steps \in Nat /\ Len(log) \in Nat
<1>1. Len(log) \in Nat
  OBVIOUS
<1> QED
  BY <1>1, CountType DEF Said, Steps
-----------------------------------------------------------------------------
(* Types *)

LEMMA InitInv == ASSUME BotAssumption, Init PROVE IInv
<1> USE DEF Init, BotAssumption
<1>1. TypeOK /\ WireTypes
  <2>1. \A S : <<>> \in Seq(S)
    OBVIOUS
  <2>2. answers \in [1 .. MaxTurns -> SUBSET Lines]
    OBVIOUS
  <2>3. turn \in 0 .. MaxTurns /\ extra \in 0 .. MaxExtra
    OBVIOUS
  <2> QED
    BY <2>1, <2>2, <2>3 DEF TypeOK, WireTypes
<1>5. StagesOK /\ WireOK
  BY DEF StagesOK, WireOK
<1>2. Said = 0 /\ Steps = 0 /\ Heard = 0 /\ Spoke = 0
  BY CountEmpty DEF Said, Steps, Heard, Spoke
<1>3. CountsOK /\ AnswersOK
  BY <1>2 DEF CountsOK, AnswersOK
<1>4. LinesOK /\ LogOK
  BY <1>2 DEF LinesOK, LinesAhead, OwnLines, LogOK, InStep, AnswersOwnPrompt, CommandsAnswerSteps
<1> QED
  BY <1>1, <1>3, <1>4, <1>5 DEF IInv

\* What the client takes from an open connection.
LEMMA FrameTaken ==
  ASSUME IInv, NextFrame
  PROVE  /\ socket = "open" /\ stage # "new"
         /\ Len(to_client) \in Nat /\ Len(to_client) > 0
         /\ Head(to_client) = to_client[1]
         /\ to_client' \in Seq(ServerFrames)
         /\ Len(to_client') = Len(to_client) - 1
         /\ \A i \in 1 .. Len(to_client') : to_client'[i] = to_client[i + 1]
         /\ conn = "connecting" => Accepted \/ Refused
         /\ conn \in {"connecting", "connected"}
         /\ conn = "connected" => Listening /\ IsMessage(Head(to_client), Heard)
<1>1. to_client \in Seq(ServerFrames) /\ to_client # <<>> /\ to_client' = Tail(to_client)
  BY DEF IInv, WireTypes, NextFrame
<1>2. socket = "open" /\ stage # "new"
  BY DEF IInv, StagesOK, NextFrame
<1>3. Accepted \/ Refused \/ Listening
  BY <1>2 DEF IInv, WireOK
<1>4. conn = "connected" => Listening
  BY <1>3 DEF Accepted, Refused
<1>5. conn = "connecting" => Accepted \/ Refused
  BY <1>3 DEF Listening
<1>6. conn \in {"connecting", "connected"}
  BY <1>1, <1>3 DEF Accepted, Refused, Listening
<1>7. Len(to_client) \in Nat /\ Len(to_client) > 0 /\ Head(to_client) = to_client[1]
  BY <1>1
<1>8. Heard \in Int
  BY Numbers DEF IInv, WireTypes, Heard
<1>9. conn = "connected" => IsMessage(Head(to_client), Heard)
  BY <1>4, <1>7, <1>8 DEF Listening
<1> QED
  BY <1>1, <1>2, <1>4, <1>5, <1>6, <1>7, <1>9

\* A prompt that arrives is one the bot has not seen.
LEMMA Prompted ==
  ASSUME IInv, GameState
  PROVE  /\ conn = "connected" /\ Listening
         /\ Head(to_client).id = Heard /\ Heard = 2 * Steps
         /\ Heard \in Ids /\ Heard < 2 * MaxTurns
<1>1. conn = "connected" /\ Listening /\ IsMessage(Head(to_client), Heard)
      /\ Head(to_client).type = "game_state"
  BY FrameTaken DEF GameState, Message
<1>2. MaxTurns \in Nat /\ Said \in Nat /\ Steps \in Nat /\ Len(log) \in Nat
  BY Numbers DEF IInv, BotAssumption, WireTypes
<1>3. PICK t \in 1 .. MaxTurns : Heard = PromptId(t)
  BY <1>1 DEF IsMessage
<1>4. Heard = 2 * Steps
  BY <1>2, <1>3 DEF PromptId, IInv, CountsOK
<1> QED
  BY <1>1, <1>2, <1>3, <1>4 DEF IsMessage, PromptId, Ids

LEMMA StateTypes ==
  ASSUME IInv
  PROVE  /\ MaxTurns \in Nat /\ turn \in 0 .. MaxTurns /\ pending \in BOOLEAN
         /\ handlers \in Seq(Ids) /\ tasks \in Seq(Tasks)
         /\ stdin \in Seq(Ids) /\ stdout \in Seq(Lines)
         /\ log \in Seq(LogRecords)
         /\ to_client \in Seq(ServerFrames) /\ to_server \in Seq(ClientFrames)
         /\ answers \in [1 .. MaxTurns -> SUBSET Lines]
         /\ Ids \subseteq Lines /\ NoId \in Lines
BY DEF IInv, TypeOK, WireTypes, Tasks, BotAssumption, Lines

LEMMA IdTypes ==
  ASSUME IInv
  PROVE  /\ \A t \in 1 .. MaxTurns : PromptId(t) \in Lines /\ ReportId(t) \in Lines
         /\ 2 * MaxTurns \in Lines
<1>1. MaxTurns \in Nat /\ Ids \subseteq Lines
  BY StateTypes
<1>2. /\ \A t \in 1 .. MaxTurns : PromptId(t) \in Ids /\ ReportId(t) \in Ids
      /\ 2 * MaxTurns \in Ids
  BY <1>1 DEF PromptId, ReportId, Ids
<1> QED
  BY <1>1, <1>2

\* What may be appended where.
LEMMA RecordType ==
  ASSUME NEW type \in {"step", "player_action", "command"}, NEW id \in Lines
  PROVE  Record(type, id) \in LogRecords
BY DEF Record, LogRecords

LEMMA ServerFrameType ==
  ASSUME NEW type \in {"success", "error", "game_state", "player_action", "final_state"},
         NEW id \in Lines
  PROVE  Frame(type, id) \in ServerFrames
BY DEF Frame, ServerFrames

LEMMA TaskType ==
  ASSUME NEW id \in Ids, NEW line \in Lines
  PROVE  /\ [Frame("response", id) EXCEPT !.line = line]
               = [type |-> "response", id |-> id, line |-> line]
         /\ [type |-> "response", id |-> id, line |-> line] \in Tasks
BY DEF Frame, Tasks

LEMMA ClientFrameType ==
  /\ Frame("hello", NoId) \in ClientFrames
  /\ Ids \subseteq Lines => Tasks \subseteq ClientFrames
BY DEF Frame, ClientFrames, Tasks, Lines

LEMMA Told ==
  ASSUME IInv, NEW frame \in ServerFrames, Tell(<<frame>>)
  PROVE  /\ to_client' \in Seq(ServerFrames)
         /\ Len(to_client) \in Nat /\ Len(to_client') = Len(to_client) + 1
         /\ \A i \in 1 .. Len(to_client) : to_client'[i] = to_client[i]
         /\ to_client'[Len(to_client')] = frame
BY AddFacts, StateTypes DEF Tell

LEMMA TypesStep ==
  ASSUME IInv, Next
  PROVE  TypeOK' /\ WireTypes'
<1>0. TypeOK /\ WireTypes /\ BotAssumption /\ StagesOK
  BY DEF IInv
<1> USE DEF Tasks, clientVars, botVars, serverVars, netVars
<1>1. CASE Run
  BY <1>0, <1>1 DEF Run, TypeOK, WireTypes
<1>2. CASE SocketConnects
  <2>1. to_server' \in Seq(ClientFrames)
    BY <1>0, <1>2, AppendFacts, ClientFrameType DEF SocketConnects, WireTypes
  <2> QED
    BY <1>0, <1>2, <2>1 DEF SocketConnects, TypeOK, WireTypes
<1>3. CASE SocketCloses
  BY <1>0, <1>3 DEF SocketCloses, BotLeft, TypeOK, WireTypes
<1>4. CASE ConnectionResponse
  BY <1>0, <1>4, FrameTaken DEF ConnectionResponse, NextFrame, TypeOK, WireTypes
<1>5. CASE GameState
  <2>1. Head(to_client).id \in Ids
    BY <1>5, Prompted
  <2>2. log' \in Seq(LogRecords)
    BY <1>5, <2>1, AppendFacts, RecordType, StateTypes DEF GameState
  <2>3. handlers' \in Seq(Ids) /\ stdin' \in Seq(Ids)
    BY <1>5, <2>1, AppendFacts, StateTypes DEF GameState, Queued
  <2>4. to_client' \in Seq(ServerFrames)
    BY <1>5, FrameTaken DEF GameState, Message
  <2> QED
    BY <1>0, <1>5, <2>2, <2>3, <2>4
    DEF GameState, Message, NextFrame, TypeOK, WireTypes
<1>6. CASE PlayerAction \/ FinalState
  <2>1. to_client' \in Seq(ServerFrames) /\ Head(to_client) \in ServerFrames
    BY <1>6, FrameTaken, TailFacts, StateTypes
    DEF PlayerAction, FinalState, Message, NextFrame
  <2>2. Head(to_client).id \in Lines
    BY <2>1 DEF ServerFrames
  <2>3. log' \in Seq(LogRecords)
    <3>1. /\ log \in Seq(LogRecords)
          /\ Record("step", Head(to_client).id) \in LogRecords
          /\ Record("player_action", Head(to_client).id) \in LogRecords
      BY <2>2, RecordType, StateTypes
    <3> QED
      BY <1>6, <3>1, AppendFacts DEF PlayerAction, FinalState
  <2> QED
    BY <1>0, <1>6, <2>1, <2>3
    DEF PlayerAction, FinalState, Message, NextFrame, TypeOK, WireTypes
<1>8. CASE IgnoredFrame
  BY <1>0, <1>8, FrameTaken DEF IgnoredFrame, NextFrame, TypeOK, WireTypes
<1>9. CASE OnLine
  <2>1. Head(stdout) \in Lines /\ stdout' \in Seq(Lines)
    BY <1>9, TailFacts, StateTypes DEF OnLine
  <2>2. CASE handlers = <<>>
    BY <1>0, <1>9, <2>1, <2>2 DEF OnLine, TypeOK, WireTypes
  <2>3. CASE handlers # <<>>
    <3>1. Head(handlers) \in Ids /\ handlers' \in Seq(Ids)
      BY <1>9, <2>3, TailFacts, StateTypes DEF OnLine, HandlersLeft
    <3>2. log' \in Seq(LogRecords)
      <4>1. log \in Seq(LogRecords) /\ Record("command", Head(stdout)) \in LogRecords
        BY <2>1, RecordType, StateTypes
      <4> QED
        BY SMTT(30), <1>9, <2>3, <4>1, AppendFacts DEF OnLine
    <3>3. tasks' \in Seq(Tasks)
      <4> HIDE DEF Tasks
      <4>1. tasks \in Seq(Tasks)
        BY StateTypes
      <4> DEFINE task == [Frame("response", Head(handlers)) EXCEPT !.line = Head(stdout)]
      <4>2. task \in Tasks
        BY <2>1, <3>1, TaskType
      <4>3. tasks' = Append(tasks, task)
        BY <1>9, <2>3 DEF OnLine
      <4> HIDE DEF task
      <4> QED
        BY <4>1, <4>2, <4>3, AppendFacts
    <3> QED
      BY <1>0, <1>9, <2>1, <2>3, <3>1, <3>2, <3>3 DEF OnLine, TypeOK, WireTypes
  <2> QED
    BY <2>2, <2>3
<1>10. CASE SendResponse
  <2> HIDE DEF Tasks
  <2>1. Head(tasks) \in Tasks /\ tasks' \in Seq(Tasks)
    BY <1>10, TailFacts, StateTypes DEF SendResponse
  <2>2. to_server' \in Seq(ClientFrames)
    BY <1>10, <2>1, AppendFacts, ClientFrameType, StateTypes DEF SendResponse
  <2> QED
    BY <1>0, <1>10, <2>1, <2>2 DEF SendResponse, TypeOK, WireTypes, Tasks
<1>11. CASE BotAnswers \/ BotSkips
  <2>1. Head(stdin) \in Ids /\ stdin' \in Seq(Ids)
    BY <1>11, TailFacts, StateTypes DEF BotAnswers, BotSkips
  <2>2. stdout' \in Seq(Lines)
    <3>1. stdout \in Seq(Lines) /\ Head(stdin) \in Lines
      BY <2>1, StateTypes
    <3> QED
      BY <1>11, <3>1, AppendFacts DEF BotAnswers, BotSkips
  <2> QED
    BY <1>0, <1>11, <2>1, <2>2 DEF BotAnswers, BotSkips, TypeOK, WireTypes
<1>12. CASE BotChatters
  <2>1. stdout' \in Seq(Lines)
    BY <1>12, AppendFacts, StateTypes DEF BotChatters
  <2>2. extra' \in 0 .. MaxExtra
    BY <1>0, <1>12 DEF BotChatters, TypeOK, BotAssumption
  <2> QED
    BY <1>0, <1>12, <2>1, <2>2 DEF BotChatters, TypeOK, WireTypes
<1>13. CASE BotExits
  BY <1>0, <1>13 DEF BotExits, TypeOK, WireTypes
<1>14. CASE \E answer \in {"success", "error"} : ServerAnswersHello(answer)
  <2>1. to_client' \in Seq(ServerFrames)
    BY <1>14, Told, ServerFrameType, StateTypes DEF ServerAnswersHello
  <2>2. to_server' \in Seq(ClientFrames)
    BY <1>14, TailFacts, StateTypes DEF ServerAnswersHello
  <2> QED
    BY <1>0, <1>14, <2>1, <2>2
    DEF ServerAnswersHello, ServerUnchanged, TypeOK, WireTypes
<1>15. CASE ServerPrompts
  <2>1. turn' \in 0 .. MaxTurns /\ PromptId(turn + 1) \in Lines
    <3>1. turn' = turn + 1 /\ turn + 1 \in 1 .. MaxTurns
      BY <1>15, StateTypes DEF ServerPrompts
    <3> QED
      BY <3>1, IdTypes
  <2>2. to_client' \in Seq(ServerFrames)
    BY <1>15, <2>1, Told, ServerFrameType DEF ServerPrompts
  <2> QED
    BY <1>0, <1>15, <2>1, <2>2 DEF ServerPrompts, ServerUnchanged, TypeOK, WireTypes
<1>16. CASE ServerHears
  <2>1. Head(to_server) \in ClientFrames /\ to_server' \in Seq(ClientFrames)
    BY <1>16, TailFacts, StateTypes DEF ServerHears
  <2>2. Response.line \in Lines
    BY <2>1 DEF Response, ClientFrames
  <2>3. CASE InTime
    <3>1. turn \in 1 .. MaxTurns
      BY <1>0, <2>3, StateTypes DEF InTime, StagesOK
    <3>2. ReportId(turn) \in Lines
      BY <3>1, IdTypes
    <3>3. to_client' \in Seq(ServerFrames)
      BY <1>16, <2>3, <3>2, Told, ServerFrameType DEF ServerHears
    <3>4. answers' \in [1 .. MaxTurns -> SUBSET Lines]
      BY <1>16, <2>2, <2>3, <3>1, StateTypes DEF ServerHears
    <3> QED
      BY <1>0, <1>16, <2>1, <2>3, <3>3, <3>4
      DEF ServerHears, ServerUnchanged, TypeOK, WireTypes
  <2>4. CASE ~InTime
    BY <1>0, <1>16, <2>1, <2>4 DEF ServerHears, ServerUnchanged, TypeOK, WireTypes
  <2> QED
    BY <2>3, <2>4
<1>17. CASE ServerTimesOut
  <2>1. ReportId(turn) \in Lines
    <3>1. turn \in 1 .. MaxTurns
      BY <1>0, <1>17, StateTypes DEF ServerTimesOut, StagesOK
    <3> QED
      BY <3>1, IdTypes
  <2>2. to_client' \in Seq(ServerFrames)
    BY <1>17, <2>1, Told, ServerFrameType, StateTypes DEF ServerTimesOut
  <2> QED
    BY <1>0, <1>17, <2>2 DEF ServerTimesOut, ServerUnchanged, TypeOK, WireTypes
<1>18. CASE ServerEnds
  <2>1. 2 * MaxTurns \in Lines
    BY IdTypes
  <2>2. to_client' \in Seq(ServerFrames)
    BY <1>18, <2>1, Told, ServerFrameType DEF ServerEnds
  <2> QED
    BY <1>0, <1>18, <2>2 DEF ServerEnds, ServerUnchanged, TypeOK, WireTypes
<1> QED
  BY <1>1, <1>2, <1>3, <1>4, <1>5, <1>6, <1>8, <1>9, <1>10, <1>11, <1>12,
     <1>13, <1>14, <1>15, <1>16, <1>17, <1>18 DEF Next, Client, Bot, Server
-----------------------------------------------------------------------------
(* Stages of the connection *)

LEMMA StagesStep ==
  ASSUME IInv, Next
  PROVE  StagesOK'
<1>0. StagesOK
  BY DEF IInv
<1> USE DEF StagesOK, clientVars, botVars, serverVars, netVars
<1>1. CASE Run
  BY <1>0, <1>1 DEF Run
<1>2. CASE SocketConnects
  <2>1. to_server' = <<Frame("hello", NoId)>>
    BY <1>0, <1>2 DEF SocketConnects
  <2> QED
    BY <1>0, <1>2, <2>1 DEF SocketConnects
<1>3. CASE SocketCloses
  BY <1>0, <1>3 DEF SocketCloses
<1>4. CASE ConnectionResponse \/ GameState \/ PlayerAction \/ FinalState \/ IgnoredFrame
  <2>1. /\ NextFrame
        /\ bot' = bot
        /\ \/ conn = "connecting" /\ conn' \in {"connected", "closed"}
           \/ conn' = conn /\ conn \notin {"disconnected", "connecting"}
    BY <1>0, <1>4
    DEF ConnectionResponse, GameState, PlayerAction, FinalState, IgnoredFrame, Message, NextFrame
  <2>2. stage # "new"
    BY <2>1, FrameTaken
  <2> QED
    BY <1>0, <2>1, <2>2 DEF NextFrame
<1>5. CASE OnLine
  BY <1>0, <1>5 DEF OnLine
<1>6. CASE SendResponse
  <2>1. conn \notin {"disconnected", "connecting"} /\ stage # "new"
    BY <1>0, <1>6 DEF SendResponse
  <2> QED
    BY <1>0, <1>6, <2>1 DEF SendResponse
<1>7. CASE Bot
  BY <1>0, <1>7 DEF Bot, BotAnswers, BotSkips, BotChatters, BotExits
<1>8. CASE \E answer \in {"success", "error"} : ServerAnswersHello(answer)
  <2>1. conn \notin {"disconnected"} /\ stage' # "new" /\ ~pending
    BY <1>0, <1>8 DEF ServerAnswersHello
  <2> QED
    BY <1>0, <1>8, <2>1 DEF ServerAnswersHello, ServerUnchanged
<1>9. CASE ServerPrompts
  BY <1>0, <1>9, StateTypes DEF ServerPrompts, ServerUnchanged
<1>10. CASE ServerHears
  BY <1>0, <1>10 DEF ServerHears, ServerUnchanged, InTime
<1>11. CASE ServerTimesOut
  BY <1>0, <1>11 DEF ServerTimesOut, ServerUnchanged
<1>12. CASE ServerEnds
  BY <1>0, <1>12 DEF ServerEnds, ServerUnchanged
<1> QED
  BY <1>1, <1>2, <1>3, <1>4, <1>5, <1>6, <1>7, <1>8, <1>9, <1>10, <1>11, <1>12
  DEF Next, Client, Server
-----------------------------------------------------------------------------
(* Nothing is lost on an open connection *)

LEMMA SameLog ==
  ASSUME UNCHANGED log
  PROVE  Said' = Said /\ Steps' = Steps /\ Heard' = Heard
BY DEF Said, Steps, Heard, Count

LEMMA EmptyLog == log = <<>> => Said = 0 /\ Steps = 0 /\ Heard = 0
BY CountEmpty DEF Said, Steps, Heard

LEMMA SentType ==
  ASSUME IInv PROVE Heard \in Int /\ Sent \in Int
<1>1. Said \in Nat /\ Len(log) \in Nat /\ turn \in Nat /\ MaxTurns \in Nat
  BY Numbers, StateTypes
<1> QED
  BY <1>1 DEF Heard, Sent

\* The server sends its next message to a client that is accepted or listens.
LEMMA WireGrows ==
  ASSUME IInv, WireTypes', NEW frame \in ServerFrames, Tell(<<frame>>),
         IsMessage(frame, Sent), Sent' = Sent + 1, UNCHANGED <<conn, log, socket>>,
         stage = "playing", stage' # "new", Sent \in Nat
  PROVE  WireOK'
<1>1. /\ Len(to_client) \in Nat /\ Len(to_client') = Len(to_client) + 1
      /\ \A i \in 1 .. Len(to_client) : to_client'[i] = to_client[i]
      /\ to_client'[Len(to_client')] = frame
  BY Told
<1>2. Heard' = Heard /\ Heard \in Int
  BY SameLog, Numbers, StateTypes DEF Heard
<1>3. CASE Accepted
  <2>1. \A i \in 2 .. Len(to_client') : IsMessage(to_client'[i], i - 2)
    BY <1>1, <1>3 DEF Accepted
  <2> QED
    BY <1>1, <1>3, <2>1 DEF Accepted, WireOK, IsMessage
<1>4. CASE Listening
  <2>1. Heard' + Len(to_client') = Sent'
    BY <1>1, <1>2, <1>4 DEF Listening
  <2>2. \A i \in 1 .. Len(to_client') : IsMessage(to_client'[i], Heard' + i - 1)
    <3> SUFFICES ASSUME NEW i \in 1 .. Len(to_client')
                 PROVE  IsMessage(to_client'[i], Heard + i - 1)
      BY <1>2
    <3>1. CASE i = Len(to_client')
      <4>1. Heard + i - 1 = Sent /\ to_client'[i] = frame
        BY <1>1, <1>2, <1>4, <3>1 DEF Listening
      <4> QED
        BY <4>1
    <3>2. CASE i \in 1 .. Len(to_client)
      BY <1>1, <1>4, <3>2 DEF Listening
    <3> QED
      BY <1>1, <3>1, <3>2
  <2> QED
    BY <1>4, <2>1, <2>2 DEF Listening, WireOK, IsMessage
<1>5. socket = "open" => Accepted \/ Listening
  BY DEF IInv, WireOK, Refused
<1> QED
  BY <1>3, <1>4, <1>5 DEF WireOK

LEMMA WireKept ==
  ASSUME IInv, UNCHANGED <<conn, socket, to_client, stage>>, Sent' = Sent, Heard' = Heard
  PROVE  WireOK'
BY DEF IInv, WireOK, Accepted, Refused, Listening, IsMessage

\* The client takes a message and logs it.
LEMMA WireShrinks ==
  ASSUME IInv, NextFrame, conn = "connected", conn' = conn, Heard' = Heard + 1
  PROVE  WireOK'
<1>1. /\ Listening /\ Sent' = Sent
      /\ Len(to_client) \in Nat /\ Len(to_client') = Len(to_client) - 1
      /\ \A i \in 1 .. Len(to_client') : to_client'[i] = to_client[i + 1]
  BY FrameTaken DEF NextFrame, Sent, serverVars
<1>2. Heard \in Int /\ Sent \in Int
  BY SentType
<1>3. \A i \in 1 .. Len(to_client') : IsMessage(to_client'[i], Heard' + i - 1)
  <2> SUFFICES ASSUME NEW i \in 1 .. Len(to_client')
               PROVE  IsMessage(to_client'[i], Heard' + i - 1)
    OBVIOUS
  <2>1. IsMessage(to_client[i + 1], Heard + (i + 1) - 1) /\ to_client'[i] = to_client[i + 1]
    BY <1>1 DEF Listening
  <2>2. Heard + (i + 1) - 1 = Heard' + i - 1
    BY <1>2
  <2> QED
    BY <2>1, <2>2
<1>4. Heard' + Len(to_client') = Sent'
  BY <1>1, <1>2 DEF Listening
<1> QED
  BY <1>3, <1>4 DEF WireOK, Listening, IsMessage

\* What each message does to the log, and a line of the bot.
LEMMA Logged ==
  ASSUME IInv
  PROVE  /\ GameState => Said' = Said /\ Steps' = Steps + 1 /\ Heard' = Heard + 1
         /\ PlayerAction => Said' = Said /\ Steps' = Steps /\ Heard' = Heard + 1
         /\ FinalState => Said' = Said /\ Steps' = Steps + 1 /\ Heard' = Heard + 1
         /\ OnLine => /\ Steps' = Steps /\ Heard' = Heard
                      /\ Said' = IF handlers = <<>> THEN Said ELSE Said + 1
<1>1. log \in Seq(LogRecords) /\ Said \in Nat /\ Steps \in Nat /\ Len(log) \in Nat
  BY StateTypes, Numbers
<1>2. \A id : log' = Append(log, Record("step", id)) =>
        Said' = Said /\ Steps' = Steps + 1 /\ Len(log') = Len(log) + 1
  BY <1>1, Recorded
<1>3. \A id : log' = Append(log, Record("player_action", id)) =>
        Said' = Said /\ Steps' = Steps /\ Len(log') = Len(log) + 1
  BY <1>1, Recorded
<1>4. \A id : log' = Append(log, Record("command", id)) =>
        Said' = Said + 1 /\ Steps' = Steps /\ Len(log') = Len(log) + 1
  BY <1>1, Recorded
<1>5. log' = log => Said' = Said /\ Steps' = Steps /\ Heard' = Heard
  BY SameLog
<1>6. GameState \/ FinalState => log' = Append(log, Record("step", Head(to_client).id))
  BY DEF GameState, FinalState
<1>7. PlayerAction => log' = Append(log, Record("player_action", Head(to_client).id))
  BY DEF PlayerAction
<1>8. OnLine => log' = IF handlers = <<>> THEN log
                       ELSE Append(log, Record("command", Head(stdout)))
  BY DEF OnLine
<1>9. Heard = Len(log) - Said /\ Heard' = Len(log') - Said'
  BY DEF Heard
<1> HIDE DEF Said, Steps, Heard
<1> QED
  BY <1>1, <1>2, <1>3, <1>4, <1>5, <1>6, <1>7, <1>8, <1>9

LEMMA WireStep ==
  ASSUME IInv, Next, WireTypes'
  PROVE  WireOK'
<1>0. StagesOK
  BY DEF IInv
<1>1. CASE Run \/ SocketConnects \/ SocketCloses
  BY <1>0, <1>1
  DEF Run, SocketConnects, SocketCloses, WireOK, StagesOK, serverVars
<1>2. CASE ConnectionResponse
  <2>1. /\ conn = "connecting" /\ (Accepted \/ Refused)
        /\ socket = "open" /\ stage # "new" /\ UNCHANGED <<log, stage>> /\ Sent' = Sent
        /\ Len(to_client) \in Nat /\ Len(to_client') = Len(to_client) - 1
        /\ to_client' \in Seq(ServerFrames)
        /\ \A i \in 1 .. Len(to_client') : to_client'[i] = to_client[i + 1]
        /\ conn' = IF to_client[1].type = "success" THEN "connected" ELSE "closed"
    BY <1>2, FrameTaken DEF ConnectionResponse, NextFrame, Sent, serverVars
  <2>2. CASE Accepted
    <3>1. Heard' = 0
      BY <1>0, <1>2, <2>1, EmptyLog, SameLog DEF ConnectionResponse, StagesOK
    <3>2. \A i \in 1 .. Len(to_client') : IsMessage(to_client'[i], 0 + i - 1)
      <4> SUFFICES ASSUME NEW i \in 1 .. Len(to_client')
                   PROVE  IsMessage(to_client'[i], 0 + i - 1)
        OBVIOUS
      <4>1. IsMessage(to_client[i + 1], (i + 1) - 2) /\ to_client'[i] = to_client[i + 1]
        BY <2>1, <2>2 DEF Accepted
      <4>2. (i + 1) - 2 = 0 + i - 1
        OBVIOUS
      <4> QED
        BY <4>1, <4>2
    <3>3. Sent \in Int
      BY SentType
    <3>4. 0 + Len(to_client') = Sent' /\ conn' = "connected"
      BY <2>1, <2>2, <3>3 DEF Accepted
    <3> QED
      BY <3>1, <3>2, <3>4 DEF WireOK, Listening, IsMessage
  <2>3. CASE Refused
    <3>0. stage = "over" /\ Len(to_client) = 1 /\ to_client[1].type = "error"
      BY <2>1, <2>3 DEF Refused
    <3>1. Len(to_client') = 0 /\ conn' = "closed" /\ stage' = "over"
      BY <2>1, <3>0
    <3>2. to_client' = <<>>
      BY <2>1, <3>1
    <3> QED
      BY <3>1, <3>2 DEF WireOK, Refused
  <2> QED
    BY <2>1, <2>2, <2>3
<1>3. CASE GameState \/ PlayerAction \/ FinalState
  BY <1>3, WireShrinks, Logged DEF GameState, PlayerAction, FinalState, Message
<1>4. CASE IgnoredFrame
  BY <1>4, FrameTaken DEF IgnoredFrame, Falsy
<1>5. CASE OnLine
  BY <1>5, WireKept, Logged DEF OnLine, serverVars, netVars, Sent
<1>6. CASE SendResponse
  BY <1>6, WireKept, SameLog DEF SendResponse, serverVars, Sent
<1>7. CASE Bot
  <2>1. UNCHANGED <<clientVars, serverVars, netVars>>
    BY <1>7 DEF Bot, BotAnswers, BotSkips, BotChatters, BotExits
  <2> QED
    BY <2>1, WireKept, SameLog DEF clientVars, serverVars, netVars, Sent
<1>8. CASE \E answer \in {"success", "error"} : ServerAnswersHello(answer)
  <2>1. PICK answer \in {"success", "error"} : ServerAnswersHello(answer)
    BY <1>8
  <2>2. /\ to_client = <<>> /\ turn = 0 /\ ~pending /\ socket = "open"
        /\ conn \in {"disconnected", "connecting"} /\ conn # "disconnected"
    BY <1>0, <2>1 DEF ServerAnswersHello, StagesOK
  <2>3. Len(to_client') = 1 /\ to_client'[1].type = answer
    <3> DEFINE frame == Frame(answer, NoId)
    <3>1. frame \in ServerFrames /\ frame.type = answer
      BY ServerFrameType, StateTypes DEF Frame
    <3>2. Tell(<<frame>>) /\ Len(to_client) = 0
      BY <2>1, <2>2 DEF ServerAnswersHello
    <3> HIDE DEF frame
    <3> QED
      BY <3>1, <3>2, Told
  <2>4. CASE answer = "success"
    BY <2>1, <2>2, <2>3, <2>4
    DEF ServerAnswersHello, ServerUnchanged, clientVars, WireOK, Accepted, Sent
  <2>5. CASE answer = "error"
    BY <2>1, <2>2, <2>3, <2>5
    DEF ServerAnswersHello, ServerUnchanged, clientVars, WireOK, Refused
  <2> QED
    BY <2>4, <2>5
<1>9. CASE ServerPrompts
  <2> DEFINE frame == Frame("game_state", PromptId(turn + 1))
  <2>1. turn \in Nat /\ turn + 1 \in 1 .. MaxTurns /\ Tell(<<frame>>) /\ MaxTurns \in Nat
        /\ stage = "playing" /\ stage' = stage /\ ~pending /\ pending' /\ turn' = turn + 1
        /\ UNCHANGED <<conn, log, socket>>
    BY <1>9, StateTypes DEF ServerPrompts, ServerUnchanged, clientVars
  <2>2. Sent = 2 * turn /\ Sent' = Sent + 1
    BY <2>1 DEF Sent
  <2>3. frame \in ServerFrames
    BY <2>1, IdTypes, ServerFrameType
  <2>4. IsMessage(frame, Sent)
    BY <2>1, <2>2 DEF IsMessage, Frame, PromptId
  <2> QED
    BY <2>1, <2>2, <2>3, <2>4, WireGrows
<1>10. ASSUME pending, pending' = FALSE, Tell(<<Frame("player_action", ReportId(turn))>>),
              UNCHANGED <<stage, turn, conn, log, socket>>
       PROVE  WireOK'
  <2> DEFINE frame == Frame("player_action", ReportId(turn))
  <2>1. turn \in 1 .. MaxTurns /\ MaxTurns \in Nat /\ stage = "playing"
    BY <1>0, <1>10, StateTypes DEF StagesOK
  <2>2. Sent = 2 * turn - 1 /\ Sent' = Sent + 1
    BY <1>10, <2>1 DEF Sent
  <2>3. frame \in ServerFrames
    BY <2>1, IdTypes, ServerFrameType
  <2>4. IsMessage(frame, Sent)
    BY <2>1, <2>2 DEF IsMessage, Frame, ReportId
  <2> QED
    BY <1>10, <2>1, <2>2, <2>3, <2>4, WireGrows
<1>11. CASE ServerHears
  <2>1. CASE InTime
    BY <1>10, <1>11, <2>1 DEF ServerHears, InTime, ServerUnchanged, clientVars
  <2>2. CASE ~InTime
    BY <1>11, <2>2, WireKept, SameLog DEF ServerHears, ServerUnchanged, clientVars, Sent
  <2> QED
    BY <2>1, <2>2
<1>12. CASE ServerTimesOut
  <2>1. CASE socket = "open"
    BY <1>10, <1>12, <2>1 DEF ServerTimesOut, ServerUnchanged, clientVars
  <2>2. CASE socket # "open"
    BY <1>12, <2>2 DEF ServerTimesOut, ServerUnchanged, WireOK
  <2> QED
    BY <2>1, <2>2
<1>13. CASE ServerEnds
  <2> DEFINE frame == Frame("final_state", 2 * MaxTurns)
  <2>1. turn = MaxTurns /\ Tell(<<frame>>) /\ MaxTurns \in Nat
        /\ stage = "playing" /\ stage' = "over" /\ ~pending
        /\ UNCHANGED <<conn, log, socket>>
    BY <1>13, StateTypes DEF ServerEnds, ServerUnchanged, clientVars
  <2>2. Sent = 2 * MaxTurns /\ Sent' = Sent + 1
    BY <2>1 DEF Sent
  <2>3. frame \in ServerFrames
    BY IdTypes, ServerFrameType
  <2>4. IsMessage(frame, Sent)
    BY <2>1, <2>2 DEF IsMessage, Frame
  <2> QED
    BY <2>1, <2>2, <2>3, <2>4, WireGrows
<1> QED
  BY <1>1, <1>2, <1>3, <1>4, <1>5, <1>6, <1>7, <1>8, <1>9, <1>11, <1>12, <1>13
  DEF Next, Client, Server
-----------------------------------------------------------------------------
(* Prompts in handlers and tasks *)

LEMMA CountsStep ==
  ASSUME IInv, Next
  PROVE  CountsOK'
<1>0. /\ StagesOK /\ CountsOK
      /\ MaxTurns \in Nat /\ Said \in Nat /\ Steps \in Nat /\ Heard \in Int
      /\ handlers \in Seq(Ids) /\ tasks \in Seq(Tasks)
      /\ Len(handlers) \in Nat /\ Len(tasks) \in Nat
      /\ Spoke = Said - Len(tasks) /\ Spoke' = Said' - Len(tasks')
  <2>1. handlers \in Seq(Ids) /\ tasks \in Seq(Tasks) /\ MaxTurns \in Nat
    BY StateTypes
  <2> QED
    BY <2>1, StateTypes, Numbers, SentType DEF IInv, Spoke
<1> USE <1>0
<1> HIDE DEF Said, Steps, Heard, Spoke
<1>1. ASSUME UNCHANGED <<log, handlers, tasks>>
      PROVE  CountsOK'
  <2>1. Said' = Said /\ Steps' = Steps /\ Heard' = Heard /\ Spoke' = Spoke
    BY <1>1, SameLog
  <2> QED
    BY <1>1, <2>1 DEF CountsOK
<1>2. CASE GameState
  <2> DEFINE id == Head(to_client).id
  <2>1. id = Heard /\ Heard = 2 * Steps /\ Heard < 2 * MaxTurns /\ id \in Ids
    BY <1>2, Prompted
  <2>2. Said' = Said /\ Steps' = Steps + 1 /\ Heard' = Heard + 1
    BY <1>2, Logged
  <2>3. handlers' = Append(handlers, id) /\ tasks' = tasks
    BY <1>2 DEF GameState, Queued
  <2> HIDE DEF id
  <2>4. /\ Len(handlers') = Len(handlers) + 1
        /\ \A i \in 1 .. Len(handlers) : handlers'[i] = handlers[i]
        /\ handlers'[Len(handlers) + 1] = id
    BY <2>1, <2>3, AppendFacts
  <2>5. Said + Len(handlers) = Steps
    BY <2>1 DEF CountsOK
  <2>6. \A i \in 1 .. Len(handlers') : handlers'[i] = PromptId(Said' + i)
    <3>1. id = PromptId(Said + (Len(handlers) + 1))
      BY <2>1, <2>5 DEF PromptId
    <3>2. \A i \in 1 .. Len(handlers) : handlers'[i] = PromptId(Said + i)
      BY <2>4 DEF CountsOK
    <3>3. \A i \in 1 .. Len(handlers') : i \in 1 .. Len(handlers) \/ i = Len(handlers) + 1
      BY <2>4
    <3> QED
      BY <2>2, <2>4, <3>1, <3>2, <3>3
  <2>7. Spoke' = Spoke
    BY <2>2, <2>3
  <2> QED
    BY <2>1, <2>2, <2>3, <2>4, <2>5, <2>6, <2>7 DEF CountsOK
<1>3. CASE PlayerAction
  <2>1. IsMessage(Head(to_client), Heard) /\ Head(to_client).type = "player_action"
    BY <1>3, FrameTaken DEF PlayerAction, Message
  <2>2. PICK t \in 1 .. MaxTurns : Heard = ReportId(t)
    BY <2>1 DEF IsMessage
  <2>3. Heard = 2 * Steps - 1 /\ Heard < 2 * MaxTurns
    BY <2>2 DEF ReportId, CountsOK
  <2>4. /\ Said' = Said /\ Steps' = Steps /\ Heard' = Heard + 1
        /\ handlers' = handlers /\ tasks' = tasks /\ Spoke' = Spoke
    BY <1>3, Logged DEF PlayerAction
  <2> QED
    BY <2>3, <2>4 DEF CountsOK
<1>4. CASE FinalState
  <2>1. IsMessage(Head(to_client), Heard) /\ Head(to_client).type = "final_state"
    BY <1>4, FrameTaken DEF FinalState, Message
  <2>2. Heard = 2 * MaxTurns
    BY <2>1 DEF IsMessage
  <2>3. Steps = MaxTurns
    BY <2>2 DEF CountsOK
  <2>4. /\ Said' = Said /\ Steps' = Steps + 1 /\ Heard' = Heard + 1
        /\ handlers' = handlers /\ tasks' = tasks /\ Spoke' = Spoke
    BY <1>4, Logged DEF FinalState
  <2> QED
    BY <2>2, <2>3, <2>4 DEF CountsOK
<1>5. CASE OnLine /\ handlers # <<>>
  <2> DEFINE task == [type |-> "response", id |-> Head(handlers), line |-> Head(stdout)]
  <2>1. Head(stdout) \in Lines
    BY <1>5, TailFacts, StateTypes DEF OnLine
  <2>2. /\ handlers' \in Seq(Ids) /\ Len(handlers') = Len(handlers) - 1
        /\ \A i \in 1 .. Len(handlers') : handlers'[i] = handlers[i + 1]
        /\ Head(handlers) = handlers[1] /\ Head(handlers) \in Ids
    BY <1>5, TailFacts DEF OnLine, HandlersLeft
  <2>3. tasks' = Append(tasks, task) /\ task \in Tasks
    BY <1>5, <2>1, <2>2, TaskType DEF OnLine
  <2>4. task.id = handlers[1]
    BY <2>2
  <2> HIDE DEF task
  <2>5. /\ Len(tasks') = Len(tasks) + 1
        /\ \A i \in 1 .. Len(tasks) : tasks'[i] = tasks[i]
        /\ tasks'[Len(tasks) + 1] = task
    BY <2>3, AppendFacts
  <2>6. Said' = Said + 1 /\ Steps' = Steps /\ Heard' = Heard
    BY <1>5, Logged
  <2>7. Spoke' = Spoke
    BY <2>5, <2>6
  <2>8. \A i \in 1 .. Len(handlers') : handlers'[i] = PromptId(Said' + i)
    <3> SUFFICES ASSUME NEW i \in 1 .. Len(handlers')
                 PROVE  handlers'[i] = PromptId(Said' + i)
      OBVIOUS
    <3>1. handlers[i + 1] = PromptId(Said + (i + 1))
      BY <2>2 DEF CountsOK
    <3>2. Said + (i + 1) = Said' + i
      BY <2>6
    <3> QED
      BY <2>2, <3>1, <3>2
  <2>9. \A i \in 1 .. Len(tasks') : tasks'[i].id = PromptId(Spoke' + i)
    <3>0. Len(handlers) > 0
      BY <1>5
    <3>1. handlers[1] = PromptId(Said + 1)
      BY <3>0 DEF CountsOK
    <3>2. Said + 1 = Spoke + (Len(tasks) + 1)
      OBVIOUS
    <3>3. \A i \in 1 .. Len(tasks) : tasks'[i].id = PromptId(Spoke + i)
      BY <2>5 DEF CountsOK
    <3>4. \A i \in 1 .. Len(tasks') : i \in 1 .. Len(tasks) \/ i = Len(tasks) + 1
      BY <2>5
    <3> QED
      BY <2>4, <2>5, <2>7, <3>1, <3>2, <3>3, <3>4
  <2> QED
    <3>1. Said' + Len(handlers') = Said + Len(handlers)
      BY <2>2, <2>6
    <3> QED
      BY <2>6, <2>7, <2>8, <2>9, <3>1 DEF CountsOK
<1>6. CASE OnLine /\ handlers = <<>>
  BY <1>1, <1>6 DEF OnLine
<1>7. CASE SendResponse
  <2>1. /\ Len(tasks') = Len(tasks) - 1 /\ Len(tasks) > 0
        /\ \A i \in 1 .. Len(tasks') : tasks'[i] = tasks[i + 1]
        /\ handlers' = handlers /\ log' = log
    BY <1>7, TailFacts DEF SendResponse
  <2>2. Said' = Said /\ Steps' = Steps /\ Heard' = Heard /\ Spoke' = Spoke + 1
    BY <2>1, SameLog
  <2>3. \A i \in 1 .. Len(tasks') : tasks'[i].id = PromptId(Spoke' + i)
    <3> SUFFICES ASSUME NEW i \in 1 .. Len(tasks')
                 PROVE  tasks'[i].id = PromptId(Spoke' + i)
      OBVIOUS
    <3>1. tasks[i + 1].id = PromptId(Spoke + (i + 1))
      BY <2>1 DEF CountsOK
    <3>2. Spoke + (i + 1) = Spoke' + i
      BY <2>2
    <3> QED
      BY <2>1, <3>1, <3>2
  <2> QED
    BY <2>1, <2>2, <2>3 DEF CountsOK
<1>8. CASE Run \/ SocketConnects \/ SocketCloses \/ ConnectionResponse \/ IgnoredFrame
  BY <1>1, <1>8
  DEF Run, SocketConnects, SocketCloses, ConnectionResponse, IgnoredFrame, clientVars
<1>9. CASE Bot \/ Server
  <2>1. UNCHANGED clientVars
    BY <1>9 DEF Bot, BotAnswers, BotSkips, BotChatters, BotExits, Server, ServerUnchanged,
      ServerAnswersHello, ServerPrompts, ServerHears, ServerTimesOut, ServerEnds
  <2> QED
    BY <1>1, <2>1 DEF clientVars
<1> QED
  BY <1>2, <1>3, <1>4, <1>5, <1>6, <1>7, <1>8, <1>9 DEF Next, Client
-----------------------------------------------------------------------------
(* Answers under way *)

LEMMA AnswersKept ==
  ASSUME AnswersOK, UNCHANGED <<to_server, answers>>, Spoke' = Spoke,
         stage' # "new" => stage # "new"
  PROVE  AnswersOK'
BY DEF AnswersOK

LEMMA AnswersStep ==
  ASSUME IInv, Next
  PROVE  AnswersOK'
<1>0. /\ StagesOK /\ AnswersOK /\ CountsOK
      /\ MaxTurns \in Nat /\ Said \in Nat /\ tasks \in Seq(Tasks)
      /\ Len(tasks) \in Nat /\ Spoke = Said - Len(tasks) /\ Spoke' = Said' - Len(tasks')
      /\ to_server \in Seq(ClientFrames) /\ Len(to_server) \in Nat
  <2>1. tasks \in Seq(Tasks) /\ MaxTurns \in Nat /\ to_server \in Seq(ClientFrames)
    BY StateTypes
  <2> QED
    BY <2>1, StateTypes, Numbers DEF IInv, Spoke
<1> USE <1>0
<1> HIDE DEF Said, Spoke
<1>1. UNCHANGED <<log, tasks>> => Spoke' = Spoke
  BY SameLog
<1>2. \A i \in 1 .. Len(to_server) : to_server[i].id \in Int
  <2>1. \A i \in 1 .. Len(to_server) : to_server[i] \in ClientFrames
    OBVIOUS
  <2>2. Lines \subseteq Int
    BY DEF Lines, Ids, NoId
  <2> QED
    BY <2>1, <2>2 DEF ClientFrames
<1>3. CASE SocketConnects
  <2>1. to_server = <<>> /\ stage = "new" /\ log = <<>> /\ tasks = <<>>
    BY <1>3 DEF SocketConnects, StagesOK
  <2>2. Spoke = 0 /\ Spoke' = 0
    BY <1>1, <1>3, <2>1, EmptyLog DEF SocketConnects, clientVars
  <2>3. Len(to_server') = 1 /\ stage' = stage /\ answers' = answers
    BY <1>3, <2>1 DEF SocketConnects, serverVars
  <2> QED
    BY <2>1, <2>2, <2>3 DEF AnswersOK
<1>4. CASE SocketCloses
  <2>1. Spoke' = Spoke
    BY <1>1, <1>4 DEF SocketCloses, clientVars
  <2> QED
    BY <1>4, <2>1 DEF SocketCloses, serverVars, AnswersOK
<1>5. CASE GameState \/ PlayerAction \/ FinalState
  <2>1. Spoke' = Spoke
    BY <1>5, Logged DEF GameState, PlayerAction, FinalState
  <2> QED
    BY <1>5, <2>1, AnswersKept
    DEF GameState, PlayerAction, FinalState, Message, NextFrame, serverVars
<1>6. CASE OnLine
  <2>1. Spoke' = Spoke
    <3>1. CASE handlers = <<>>
      BY <1>1, <1>6, <3>1 DEF OnLine
    <3>2. CASE handlers # <<>>
      <4>1. Said' = Said + 1
        BY <1>6, <3>2, Logged
      <4>2. Len(tasks') = Len(tasks) + 1
        BY <1>6, <3>2 DEF OnLine
      <4> QED
        BY <4>1, <4>2
    <3> QED
      BY <3>1, <3>2
  <2> QED
    BY <1>6, <2>1, AnswersKept DEF OnLine, serverVars, netVars
<1>7. CASE SendResponse
  <2>1. /\ Head(tasks) = tasks[1] /\ Head(tasks) \in Tasks
        /\ Len(tasks') = Len(tasks) - 1 /\ Len(tasks) > 0
        /\ UNCHANGED <<log, stage, answers>>
    BY <1>7, TailFacts DEF SendResponse, serverVars
  <2>2. Said' = Said /\ Spoke' = Spoke + 1
    BY <2>1, SameLog
  <2>3. Head(tasks).id = PromptId(Spoke + 1) /\ Head(tasks).type = "response"
    BY <2>1 DEF CountsOK, Tasks
  <2>4. stage # "new"
    BY <2>1 DEF StagesOK
  <2>5. /\ PromptId(Spoke) < PromptId(Spoke + 1)
        /\ \A t \in 1 .. MaxTurns : t <= Spoke => PromptId(t) < PromptId(Spoke + 1)
    BY DEF PromptId
  <2>6. CASE socket = "open"
    <3>1. to_server' = Append(to_server, Head(tasks)) /\ Head(tasks) \in ClientFrames
      BY <1>7, <2>1, <2>6, ClientFrameType, StateTypes DEF SendResponse
    <3>2. /\ Len(to_server') = Len(to_server) + 1
          /\ \A i \in 1 .. Len(to_server) : to_server'[i] = to_server[i]
          /\ to_server'[Len(to_server) + 1] = Head(tasks)
      BY <3>1, AppendFacts
    <3>3. \A i \in 1 .. Len(to_server) : to_server[i].id < PromptId(Spoke + 1)
      BY <1>2, <2>4, <2>5 DEF AnswersOK, PromptId
    <3>4. \A i \in 1 .. Len(to_server') : i \in 1 .. Len(to_server) \/ i = Len(to_server) + 1
      BY <3>2
    <3>5. \A i \in 1 .. Len(to_server') :
            to_server'[i].type = "response" /\ to_server'[i].id <= PromptId(Spoke')
      BY SMTT(30), <1>2, <2>2, <2>3, <2>4, <3>2, <3>3, <3>4 DEF AnswersOK, PromptId
    <3>6. \A i, j \in 1 .. Len(to_server') : i < j => to_server'[i].id < to_server'[j].id
      BY SMTT(30), <2>3, <3>2, <3>3, <3>4 DEF AnswersOK
    <3>7. \A t \in 1 .. MaxTurns : answers'[t] # {} =>
            /\ t <= Spoke'
            /\ \A i \in 1 .. Len(to_server') : PromptId(t) < to_server'[i].id
      <4>1. /\ \A t \in 1 .. MaxTurns : t <= Spoke => t <= Spoke'
            /\ answers' = answers
        BY <2>1, <2>2
      <4>2. \A t \in 1 .. MaxTurns : answers[t] # {} =>
              /\ t <= Spoke
              /\ \A i \in 1 .. Len(to_server) : PromptId(t) < to_server'[i].id
        BY <3>2 DEF AnswersOK
      <4>3. \A t \in 1 .. MaxTurns : t <= Spoke =>
              PromptId(t) < to_server'[Len(to_server) + 1].id
        BY <2>3, <2>5, <3>2
      <4> QED
        BY <3>4, <4>1, <4>2, <4>3
    <3> QED
      BY <3>5, <3>6, <3>7 DEF AnswersOK
  <2>7. CASE socket # "open"
    <3>1. to_server = <<>> /\ to_server' = to_server
      BY <1>7, <2>7 DEF SendResponse, StagesOK
    <3> QED
      BY <2>1, <2>2, <3>1 DEF AnswersOK
  <2> QED
    BY <2>6, <2>7
<1>8. CASE Run \/ ConnectionResponse \/ IgnoredFrame
  BY <1>1, <1>8, AnswersKept
  DEF Run, ConnectionResponse, IgnoredFrame, NextFrame, clientVars, serverVars
<1>9. CASE Bot
  BY <1>1, <1>9, AnswersKept
  DEF Bot, BotAnswers, BotSkips, BotChatters, BotExits, clientVars, serverVars, netVars
<1>10. CASE \E answer \in {"success", "error"} : ServerAnswersHello(answer)
  <2>1. Len(to_server') = 0 /\ answers' = answers /\ Spoke' = Spoke
    <3>1. to_server = <<Frame("hello", NoId)>> /\ to_server' = Tail(to_server)
      BY <1>10 DEF ServerAnswersHello, StagesOK
    <3>2. Len(to_server') = 0
      BY <3>1
    <3> QED
      BY <1>1, <1>10, <3>2 DEF ServerAnswersHello, ServerUnchanged, clientVars
  <2> QED
    BY <2>1 DEF AnswersOK
<1>11. CASE ServerPrompts \/ ServerTimesOut \/ ServerEnds
  BY <1>1, <1>11, AnswersKept
  DEF ServerPrompts, ServerTimesOut, ServerEnds, ServerUnchanged, clientVars
<1>12. CASE ServerHears
  <2>1. /\ Len(to_server') = Len(to_server) - 1 /\ Len(to_server) > 0
        /\ \A i \in 1 .. Len(to_server') : to_server'[i] = to_server[i + 1]
        /\ Response = to_server[1]
        /\ stage' = stage /\ stage # "new" /\ Spoke' = Spoke
    BY <1>1, <1>12, TailFacts DEF ServerHears, ServerUnchanged, clientVars, Response
  <2>8. /\ 1 \in 1 .. Len(to_server)
        /\ \A i \in 1 .. Len(to_server') : i + 1 \in 1 .. Len(to_server) /\ 1 < i + 1
        /\ \A i, j \in 1 .. Len(to_server') : i < j => i + 1 < j + 1
    BY <2>1
  <2>9. \A i \in 1 .. Len(to_server) :
          to_server[i].type = "response" /\ to_server[i].id <= PromptId(Spoke)
    BY <2>1 DEF AnswersOK
  <2>10. \A i, j \in 1 .. Len(to_server) : i < j => to_server[i].id < to_server[j].id
    BY DEF AnswersOK
  <2>2. \A i \in 1 .. Len(to_server') :
          to_server'[i].type = "response" /\ to_server'[i].id <= PromptId(Spoke')
    BY <2>1, <2>8, <2>9
  <2>3. \A i, j \in 1 .. Len(to_server') : i < j => to_server'[i].id < to_server'[j].id
    BY <2>1, <2>8, <2>10
  <2>4. \A t \in 1 .. MaxTurns : answers[t] # {} =>
          /\ t <= Spoke'
          /\ \A i \in 1 .. Len(to_server') : PromptId(t) < to_server'[i].id
    BY <2>1, <2>8 DEF AnswersOK
  <2>5. CASE InTime
    <3>1. /\ \A t \in 1 .. MaxTurns : t # turn => answers'[t] = answers[t]
          /\ to_server[1].id = PromptId(turn) /\ turn \in 1 .. MaxTurns
      <4>1. to_server[1].id = PromptId(turn) /\ pending
        BY <2>1, <2>5 DEF InTime
      <4>2. turn \in 1 .. MaxTurns
        BY <4>1, StateTypes DEF StagesOK
      <4>3. /\ answers' = [answers EXCEPT ![turn] = @ \union {Response.line}]
            /\ answers \in [1 .. MaxTurns -> SUBSET Lines]
        BY <1>12, <2>5, StateTypes DEF ServerHears
      <4> QED
        BY <4>1, <4>2, <4>3
    <3>2. turn <= Spoke
      <4>1. PromptId(turn) <= PromptId(Spoke)
        BY <2>8, <2>9, <3>1
      <4> QED
        BY <3>1, <4>1 DEF PromptId
    <3>3. \A i \in 1 .. Len(to_server') : PromptId(turn) < to_server'[i].id
      BY <2>1, <2>8, <2>10, <3>1
    <3> QED
      BY <2>1, <2>2, <2>3, <2>4, <3>1, <3>2, <3>3 DEF AnswersOK
  <2>6. CASE ~InTime
    BY <1>12, <2>2, <2>3, <2>4, <2>6 DEF ServerHears, AnswersOK
  <2> QED
    BY <2>5, <2>6
<1> QED
  BY <1>3, <1>4, <1>5, <1>6, <1>7, <1>8, <1>9, <1>10, <1>11, <1>12
  DEF Next, Client, Server
-----------------------------------------------------------------------------
(* A bot that answers every query and nothing else *)

LEMMA HeadAndTail ==
  ASSUME NEW S, NEW t \in Seq(S), t # <<>>
  PROVE  t = <<Head(t)>> \o Tail(t)
<1> DEFINE h == Head(t)
           v == Tail(t)
           r == <<h>> \o v
<1>1. h \in S /\ v \in Seq(S) /\ Len(t) \in Nat \ {0} /\ Len(v) = Len(t) - 1 /\ t[1] = h
      /\ \A i \in 1 .. Len(t) - 1 : v[i] = t[i + 1]
  BY TailFacts
<1>2. <<h>> \in Seq(S) /\ Len(<<h>>) = 1 /\ <<h>>[1] = h
  BY <1>1
<1> HIDE DEF h, v
<1>3. /\ r \in Seq(S) /\ Len(r) = 1 + Len(v)
      /\ \A i \in 1 .. 1 + Len(v) : r[i] = IF i <= 1 THEN <<h>>[i] ELSE v[i - 1]
  BY <1>1, <1>2, ConcatProperties
<1> HIDE DEF r
<1>4. \A i \in 1 .. Len(t) : t[i] = r[i]
  <2> SUFFICES ASSUME NEW i \in 1 .. Len(t) PROVE t[i] = r[i]
    OBVIOUS
  <2>1. CASE i = 1
    BY <1>1, <1>2, <1>3, <2>1
  <2>2. CASE i > 1
    <3>1. i - 1 \in 1 .. Len(t) - 1 /\ (i - 1) + 1 = i
      BY <1>1, <2>2
    <3>2. r[i] = v[i - 1]
      BY <1>1, <1>3, <2>2
    <3> QED
      BY <1>1, <3>1, <3>2
  <2> QED
    BY <1>1, <2>1, <2>2
<1>5. t = r
  BY <1>1, <1>3, <1>4, SeqEqual
<1> QED
  BY <1>5 DEF r, h, v

LEMMA TailOfJoin ==
  ASSUME NEW S, NEW h \in S, NEW w \in Seq(S)
  PROVE  <<h>> \o w # <<>> /\ Tail(<<h>> \o w) = w
<1> DEFINE u == <<h>> \o w
           v == Tail(u)
<1>1. <<h>> \in Seq(S) /\ Len(<<h>>) = 1 /\ Len(w) \in Nat
  OBVIOUS
<1>2. /\ u \in Seq(S) /\ Len(u) = 1 + Len(w)
      /\ \A i \in 1 .. 1 + Len(w) : u[i] = IF i <= 1 THEN <<h>>[i] ELSE w[i - 1]
  BY <1>1, ConcatProperties
<1>3. u # <<>>
  <2> HIDE DEF u
  <2> QED
    BY <1>1, <1>2
<1>4. v \in Seq(S) /\ Len(v) = Len(u) - 1 /\ \A i \in 1 .. Len(u) - 1 : v[i] = u[i + 1]
  <2> HIDE DEF u
  <2> QED
    BY <1>2, <1>3, TailFacts
<1> HIDE DEF u, v
<1>5. \A i \in 1 .. Len(w) : v[i] = w[i]
  <2> SUFFICES ASSUME NEW i \in 1 .. Len(w) PROVE v[i] = w[i]
    OBVIOUS
  <2>1. i \in 1 .. Len(u) - 1 /\ i + 1 \in 1 .. 1 + Len(w) /\ ~(i + 1 <= 1) /\ (i + 1) - 1 = i
    BY <1>1, <1>2
  <2>2. u[i + 1] = w[(i + 1) - 1]
    BY <1>2, <2>1
  <2> QED
    BY <1>4, <2>1, <2>2
<1>6. v = w
  <2>1. Len(w) = Len(v)
    BY <1>1, <1>2, <1>4
  <2> QED
    BY <1>4, <1>5, <2>1, SeqEqual
<1> QED
  BY <1>3, <1>6 DEF u, v

\* The lines of a bot: s printed, t to come.
LEMMA JoinFacts ==
  ASSUME NEW S, NEW s \in Seq(S), NEW t \in Seq(S)
  PROVE  /\ Len(s) <= Len(s \o t)
         /\ \A i \in 1 .. Len(s) : s[i] = (s \o t)[i]
<1>1. Len(s) \in Nat /\ Len(t) \in Nat
  OBVIOUS
<1> QED
  BY <1>1, ConcatProperties

LEMMA JoinAppend ==
  ASSUME NEW s \in Seq(Lines), NEW t \in Seq(Lines), NEW x \in Lines
  PROVE  Append(s \o t, x) = s \o Append(t, x)
<1>1. s \o t \in Seq(Lines) /\ <<x>> \in Seq(Lines)
  BY ConcatProperties
<1>2. Append(s \o t, x) = (s \o t) \o <<x>> /\ Append(t, x) = t \o <<x>>
  BY <1>1, AppendIsConcat
<1> QED
  BY <1>1, <1>2, ConcatAssociative

LEMMA JoinShift ==
  ASSUME NEW S, NEW s \in Seq(S), NEW t \in Seq(S), t # <<>>
  PROVE  s \o t = Append(s, Head(t)) \o Tail(t)
<1> DEFINE h == Head(t)
           v == Tail(t)
<1>1. t = <<h>> \o v /\ h \in S /\ v \in Seq(S)
  BY HeadAndTail, TailFacts
<1> HIDE DEF h, v
<1>2. <<h>> \in Seq(S)
  BY <1>1
<1>3. Append(s, h) = s \o <<h>>
  BY <1>1, AppendIsConcat
<1>4. s \o t = (s \o <<h>>) \o v
  BY <1>1, <1>2, ConcatAssociative
<1> QED
  BY <1>3, <1>4 DEF h, v

LEMMA JoinTail ==
  ASSUME NEW S, NEW s \in Seq(S), NEW t \in Seq(S), s # <<>>
  PROVE  s \o t # <<>> /\ Tail(s \o t) = Tail(s) \o t
<1> DEFINE h == Head(s)
           v == Tail(s)
<1>1. s = <<h>> \o v /\ h \in S /\ v \in Seq(S)
  BY HeadAndTail, TailFacts
<1> HIDE DEF h, v
<1>2. <<h>> \in Seq(S) /\ v \o t \in Seq(S)
  BY <1>1, ConcatProperties
<1>3. s \o t = <<h>> \o (v \o t)
  BY <1>1, <1>2, ConcatAssociative
<1>4. s \o t # <<>> /\ Tail(s \o t) = v \o t
  BY <1>1, <1>2, <1>3, TailOfJoin
<1> QED
  BY <1>4 DEF v

LEMMA InStepStep ==
  ASSUME IInv, Next, ~Chatty
  PROVE  InStep' /\ LinesAhead'
<1>0. /\ StagesOK /\ InStep /\ LinesAhead
      /\ handlers \in Seq(Ids) /\ stdin \in Seq(Ids) /\ stdout \in Seq(Lines)
      /\ Ids \subseteq Lines
  BY StateTypes DEF IInv, LinesOK
<1>00. handlers \in Seq(Lines) /\ stdin \in Seq(Lines)
  BY <1>0
<1>1. ASSUME InStep', bot' = "running", stdin' \in Seq(Lines), stdout' \in Seq(Lines)
      PROVE  LinesAhead'
  <2>1. handlers' = stdout' \o stdin'
    BY <1>1 DEF InStep
  <2> QED
    BY <1>1, <2>1, JoinFacts DEF LinesAhead
<1>2. CASE Run
  <2>1. handlers = <<>> /\ stdout = <<>> /\ stdin = <<>>
    BY <1>0, <1>2 DEF Run, StagesOK
  <2>2. handlers' = <<>> /\ stdout' = <<>> /\ stdin' = <<>>
    BY <1>2, <2>1 DEF Run
  <2> QED
    BY <2>2 DEF InStep, LinesAhead
<1>3. CASE GameState
  <2> DEFINE id == Head(to_client).id
  <2>1. id \in Ids
    BY <1>3, Prompted
  <2>2. /\ handlers' = Append(handlers, id) /\ stdout' = stdout /\ bot' = bot
        /\ stdin' = IF bot = "running" THEN Append(stdin, id) ELSE stdin
    BY <1>3 DEF GameState, Queued
  <2> HIDE DEF id
  <2>3. CASE bot = "running"
    <3>1. handlers = stdout \o stdin
      BY <1>0, <2>3 DEF InStep
    <3>2. handlers' = stdout \o Append(stdin, id)
      <4>1. id \in Lines
        BY <1>0, <2>1
      <4>2. Append(stdout \o stdin, id) = stdout \o Append(stdin, id)
        <5>1. stdout \in Seq(Lines) /\ stdin \in Seq(Lines)
          BY <1>0, <1>00
        <5> QED
          BY <4>1, <5>1, JoinAppend
      <4> QED
        BY <2>2, <3>1, <4>2
    <3>3. InStep'
      BY <2>2, <2>3, <3>2 DEF InStep
    <3>4. stdin' \in Seq(Lines)
      BY <1>0, <1>00, <2>1, <2>2, <2>3, AppendFacts
    <3> QED
      BY <1>0, <1>1, <2>2, <2>3, <3>3, <3>4
  <2>4. CASE bot # "running"
    <3>1. /\ Len(handlers) \in Nat /\ Len(stdout) \in Nat
          /\ Len(handlers') = Len(handlers) + 1
          /\ \A i \in 1 .. Len(handlers) : handlers'[i] = handlers[i]
      BY <1>0, <2>1, <2>2, AppendFacts
    <3> QED
      BY <1>0, <2>2, <2>4, <3>1 DEF InStep, LinesAhead
  <2> QED
    BY <2>3, <2>4
<1>4. CASE OnLine
  <2>1. /\ stdout # <<>> /\ stdout' = Tail(stdout) /\ stdin' = stdin /\ bot' = bot
        /\ Len(stdout) \in Nat /\ Len(stdout) > 0 /\ Len(handlers) \in Nat
        /\ Len(stdout') = Len(stdout) - 1
        /\ \A i \in 1 .. Len(stdout') : stdout'[i] = stdout[i + 1]
    BY <1>0, <1>4, TailFacts DEF OnLine
  <2>2. handlers # <<>>
    BY <1>0, <2>1 DEF LinesAhead
  <2>3. /\ handlers' = Tail(handlers) /\ Len(handlers') = Len(handlers) - 1
        /\ \A i \in 1 .. Len(handlers') : handlers'[i] = handlers[i + 1]
    BY <1>0, <1>4, <2>2, TailFacts DEF OnLine, HandlersLeft
  <2>4. LinesAhead'
    <3>1. \A i \in 1 .. Len(stdout') : /\ i + 1 \in 1 .. Len(stdout)
                                       /\ i \in 1 .. Len(handlers')
      BY <1>0, <2>1, <2>3 DEF LinesAhead
    <3> QED
      BY <1>0, <2>1, <2>3, <3>1 DEF LinesAhead
  <2>5. InStep'
    <3> SUFFICES ASSUME bot = "running" PROVE handlers' = stdout' \o stdin'
      BY <2>1 DEF InStep
    <3>1. handlers = stdout \o stdin
      BY <1>0 DEF InStep
    <3> QED
      BY <1>0, <1>00, <2>1, <2>3, <3>1, JoinTail
  <2> QED
    BY <2>4, <2>5
<1>5. CASE BotAnswers
  <2>1. /\ bot = "running" /\ bot' = bot /\ handlers' = handlers /\ stdin # <<>>
        /\ stdin' = Tail(stdin) /\ stdout' = Append(stdout, Head(stdin))
    BY <1>5 DEF BotAnswers, clientVars
  <2>2. stdin' \in Seq(Lines) /\ Head(stdin) \in Lines
    BY <1>00, <2>1, TailFacts
  <2>3. stdout' \in Seq(Lines)
    BY <1>0, <2>1, <2>2, AppendFacts
  <2>4. handlers = stdout \o stdin
    BY <1>0, <2>1 DEF InStep
  <2>5. InStep'
    BY <1>0, <1>00, <2>1, <2>4, JoinShift DEF InStep
  <2> QED
    BY <1>1, <2>1, <2>2, <2>3, <2>5
<1>6. CASE BotExits \/ SocketCloses
  <2>1. bot' # "running" /\ handlers' = handlers /\ stdout' = stdout
    BY <1>6 DEF BotExits, SocketCloses, BotLeft, clientVars
  <2> QED
    BY <1>0, <2>1 DEF InStep, LinesAhead
<1>7. CASE \/ SocketConnects \/ ConnectionResponse \/ PlayerAction \/ FinalState
           \/ IgnoredFrame \/ SendResponse \/ Server
  <2>1. UNCHANGED <<handlers, stdin, stdout, bot>>
    BY <1>7
    DEF SocketConnects, ConnectionResponse, PlayerAction, FinalState, IgnoredFrame, SendResponse,
        Server, ServerUnchanged, ServerAnswersHello, ServerPrompts, ServerHears, ServerTimesOut,
        ServerEnds, clientVars, botVars
  <2> QED
    BY <1>0, <2>1 DEF InStep, LinesAhead
<1>8. CASE BotSkips \/ BotChatters
  BY <1>8 DEF BotSkips, BotChatters
<1> QED
  BY <1>2, <1>3, <1>4, <1>5, <1>6, <1>7, <1>8 DEF Next, Client, Bot

LEMMA OwnLinesStep ==
  ASSUME IInv, Next, ~Chatty
  PROVE  OwnLines' /\ AnswersOwnPrompt'
<1>0. /\ StagesOK /\ OwnLines /\ AnswersOwnPrompt /\ LinesAhead
      /\ handlers \in Seq(Ids) /\ tasks \in Seq(Tasks) /\ stdout \in Seq(Lines)
      /\ to_server \in Seq(ClientFrames) /\ answers \in [1 .. MaxTurns -> SUBSET Lines]
      /\ Ids \subseteq Lines
  BY StateTypes DEF IInv, LinesOK
<1>1. CASE OnLine /\ handlers # <<>>
  <2> DEFINE task == [type |-> "response", id |-> Head(handlers), line |-> Head(stdout)]
  <2>1. /\ Head(handlers) = handlers[1] /\ Head(handlers) \in Ids
        /\ Head(stdout) = stdout[1] /\ Head(stdout) \in Lines
        /\ 1 \in 1 .. Len(stdout)
    BY <1>0, <1>1, TailFacts DEF OnLine
  <2>2. tasks' = Append(tasks, task) /\ task \in Tasks
    BY <1>1, <2>1, TaskType DEF OnLine
  <2>3. task.line = task.id
    BY <1>0, <2>1 DEF LinesAhead
  <2> HIDE DEF task
  <2>4. /\ Len(tasks) \in Nat /\ Len(tasks') = Len(tasks) + 1
        /\ \A i \in 1 .. Len(tasks) : tasks'[i] = tasks[i]
        /\ tasks'[Len(tasks) + 1] = task
    BY <1>0, <2>2, AppendFacts
  <2>5. \A i \in 1 .. Len(tasks') : i \in 1 .. Len(tasks) \/ i = Len(tasks) + 1
    BY <2>4
  <2>6. \A i \in 1 .. Len(tasks') : tasks'[i].line = tasks'[i].id
    BY <1>0, <2>3, <2>4, <2>5 DEF OwnLines
  <2> QED
    BY <1>0, <1>1, <2>6 DEF OnLine, serverVars, netVars, OwnLines, AnswersOwnPrompt
<1>2. CASE SendResponse
  <2>1. /\ Head(tasks) = tasks[1] /\ Head(tasks) \in ClientFrames
        /\ Len(tasks') = Len(tasks) - 1 /\ Len(tasks) \in Nat \ {0}
        /\ \A i \in 1 .. Len(tasks) - 1 : tasks'[i] = tasks[i + 1]
        /\ answers' = answers
    BY <1>0, <1>2, TailFacts, ClientFrameType DEF SendResponse, serverVars
  <2>2. \A i \in 1 .. Len(tasks') : tasks'[i].line = tasks'[i].id
    BY <1>0, <2>1 DEF OwnLines
  <2>3. \A i \in 1 .. Len(to_server') : to_server'[i].line = to_server'[i].id
    <3>1. CASE to_server' = to_server
      BY <1>0, <3>1 DEF OwnLines
    <3>2. CASE to_server' = Append(to_server, Head(tasks))
      <4>1. /\ Len(to_server) \in Nat /\ Len(to_server') = Len(to_server) + 1
            /\ \A i \in 1 .. Len(to_server) : to_server'[i] = to_server[i]
            /\ to_server'[Len(to_server) + 1] = Head(tasks)
        BY <1>0, <2>1, <3>2, AppendFacts
      <4>2. Head(tasks).line = Head(tasks).id
        <5>1. 1 \in 1 .. Len(tasks)
          BY <2>1
        <5> QED
          BY <1>0, <2>1, <5>1 DEF OwnLines
      <4>3. \A i \in 1 .. Len(to_server') : i \in 1 .. Len(to_server) \/ i = Len(to_server) + 1
        BY <4>1
      <4> QED
        BY <1>0, <4>1, <4>2, <4>3 DEF OwnLines
    <3> QED
      BY <1>2, <3>1, <3>2 DEF SendResponse
  <2> QED
    BY <1>0, <2>1, <2>2, <2>3 DEF OwnLines, AnswersOwnPrompt
<1>3. CASE SocketConnects
  <2>1. to_server = <<>> /\ to_server' = Append(to_server, Frame("hello", NoId))
        /\ tasks' = tasks /\ answers' = answers
    BY <1>0, <1>3 DEF SocketConnects, StagesOK, clientVars, serverVars
  <2>2. Len(to_server') = 1 /\ to_server'[1] = Frame("hello", NoId)
    BY <2>1
  <2> QED
    BY <1>0, <2>1, <2>2 DEF Frame, OwnLines, AnswersOwnPrompt
<1>4. CASE ServerHears
  <2>1. /\ to_server # <<>> /\ tasks' = tasks /\ Response = to_server[1]
        /\ Len(to_server) \in Nat \ {0} /\ Len(to_server') = Len(to_server) - 1
        /\ \A i \in 1 .. Len(to_server) - 1 : to_server'[i] = to_server[i + 1]
    BY <1>0, <1>4, TailFacts DEF ServerHears, ServerUnchanged, clientVars, Response
  <2>2. OwnLines'
    <3>1. \A i \in 1 .. Len(to_server') : /\ i + 1 \in 1 .. Len(to_server)
                                          /\ to_server'[i] = to_server[i + 1]
      BY <2>1
    <3> QED
      BY <1>0, <2>1, <3>1 DEF OwnLines
  <2>3. Response.line = Response.id
    <3>1. 1 \in 1 .. Len(to_server)
      BY <2>1
    <3> QED
      BY <1>0, <2>1, <3>1 DEF OwnLines
  <2>4. CASE InTime
    <3>1. /\ answers' = [answers EXCEPT ![turn] = @ \union {Response.line}]
          /\ Response.line = PromptId(turn)
      BY <1>4, <2>3, <2>4 DEF ServerHears, InTime
    <3>2. \A t \in 1 .. MaxTurns :
            answers'[t] = IF t = turn THEN answers[t] \union {PromptId(turn)} ELSE answers[t]
      BY <1>0, <3>1
    <3> QED
      BY <1>0, <2>2, <3>2 DEF AnswersOwnPrompt, PromptId
  <2>5. CASE ~InTime
    <3>1. answers' = answers
      BY <1>4, <2>5 DEF ServerHears
    <3> QED
      BY <1>0, <2>2, <3>1 DEF AnswersOwnPrompt, PromptId
  <2> QED
    BY <2>4, <2>5
<1>5. CASE \E answer \in {"success", "error"} : ServerAnswersHello(answer)
  <2>1. to_server = <<Frame("hello", NoId)>> /\ to_server' = Tail(to_server)
        /\ tasks' = tasks /\ answers' = answers
    BY <1>0, <1>5 DEF ServerAnswersHello, ServerUnchanged, clientVars, StagesOK
  <2>2. Len(to_server') = 0
    BY <2>1
  <2> QED
    BY <1>0, <2>1, <2>2 DEF OwnLines, AnswersOwnPrompt
<1>6. CASE SocketCloses
  <2>1. Len(to_server') = 0 /\ tasks' = tasks /\ answers' = answers
    BY <1>6 DEF SocketCloses, clientVars, serverVars
  <2> QED
    BY <1>0, <2>1 DEF OwnLines, AnswersOwnPrompt
<1>7. CASE \/ Run \/ ConnectionResponse \/ GameState \/ PlayerAction \/ FinalState
           \/ IgnoredFrame \/ Bot \/ (OnLine /\ handlers = <<>>)
           \/ ServerPrompts \/ ServerTimesOut \/ ServerEnds
  <2>1. UNCHANGED <<tasks, to_server, answers>>
    BY <1>7
    DEF Run, ConnectionResponse, GameState, PlayerAction, FinalState, IgnoredFrame, Message,
        NextFrame, OnLine, Bot, BotAnswers, BotSkips, BotChatters, BotExits,
        ServerPrompts, ServerTimesOut, ServerEnds, ServerUnchanged,
        clientVars, serverVars, netVars
  <2> QED
    BY <1>0, <2>1 DEF OwnLines, AnswersOwnPrompt
<1> QED
  BY <1>1, <1>2, <1>3, <1>4, <1>5, <1>6, <1>7 DEF Next, Client, Server
-----------------------------------------------------------------------------
(* The log *)

LEMMA LogKept ==
  ASSUME LogOK, UNCHANGED log
  PROVE  LogOK'
<1>1. /\ Steps' = Steps
      /\ \A type, k : Count(type, k)' = Count(type, k)
  BY SameLog DEF Count
<1> QED
  BY <1>1 DEF LogOK, CommandsAnswerSteps, PromptId

\* One more record leaves what is said of the earlier ones as it is.
LEMMA OldRecords ==
  ASSUME IInv, NEW type \in {"step", "player_action", "command"}, NEW id,
         log' = Append(log, Record(type, id))
  PROVE  /\ Len(log) \in Nat /\ Len(log') = Len(log) + 1
         /\ log'[Len(log) + 1] = Record(type, id)
         /\ \A i \in 1 .. Len(log) :
              /\ log'[i] = log[i]
              /\ Count("step", i)' = Count("step", i)
              /\ Count("command", i)' = Count("command", i)
         /\ Count("step", Len(log))' = Steps' /\ Count("command", Len(log))' = Said'
         /\ \A n \in 1 .. Steps : \E i \in 1 .. Len(log) :
              log'[i] = Record("step", PromptId(n)) /\ Count("step", i)' = n
<1>1. log \in Seq(LogRecords)
  BY StateTypes
<1>2. /\ Len(log) \in Nat /\ Len(log') = Len(log) + 1
      /\ log'[Len(log) + 1] = Record(type, id)
      /\ \A i \in 1 .. Len(log) : log'[i] = log[i]
  BY <1>1, Recorded, Numbers
<1>3. \A i \in 1 .. Len(log) :
        /\ Count("step", i)' = Count("step", i)
        /\ Count("command", i)' = Count("command", i)
  BY <1>1, CountAppend
<1>4. Count("step", Len(log))' = Steps' /\ Count("command", Len(log))' = Said'
  BY DEF Steps, Said
<1>5. \A n \in 1 .. Steps : \E i \in 1 .. Len(log) :
        log'[i] = Record("step", PromptId(n)) /\ Count("step", i)' = n
  BY <1>2, <1>3 DEF IInv, LogOK
<1> QED
  BY <1>2, <1>3, <1>4, <1>5

\* The commands there are still answer their states.
LEMMA OldCommands ==
  ASSUME IInv, ~Chatty, NEW type \in {"step", "player_action", "command"}, NEW id,
         log' = Append(log, Record(type, id)),
         NEW i \in 1 .. Len(log), log'[i].type = "command"
  PROVE  \E j \in 1 .. i - 1 :
            /\ log'[j] = Record("step", log'[i].id)
            /\ Count("step", j)' = Count("command", i)'
<1>1. log[i].type = "command" /\ i \in DOMAIN log /\ log'[i] = log[i]
  BY OldRecords, StateTypes
<1>2. PICK j \in 1 .. i - 1 :
        log[j] = Record("step", log[i].id) /\ Count("step", j) = Count("command", i)
  BY <1>1 DEF IInv, LogOK, CommandsAnswerSteps
<1>3. j \in 1 .. Len(log)
  BY OldRecords
<1>4. /\ log'[j] = log[j] /\ Count("step", j)' = Count("step", j)
      /\ Count("command", i)' = Count("command", i)
  BY <1>3, OldRecords
<1> QED
  BY <1>1, <1>2, <1>4

LEMMA LogStep ==
  ASSUME IInv, Next
  PROVE  LogOK'
<1>0. /\ LogOK /\ CountsOK /\ log \in Seq(LogRecords)
      /\ MaxTurns \in Nat /\ Said \in Nat /\ Steps \in Nat /\ Len(log) \in Nat /\ Heard \in Int
      /\ handlers \in Seq(Ids) /\ stdout \in Seq(Lines)
      /\ Len(handlers) \in Nat
  <2>1. handlers \in Seq(Ids) /\ log \in Seq(LogRecords) /\ stdout \in Seq(Lines)
        /\ MaxTurns \in Nat
    BY StateTypes
  <2> QED
    BY <2>1, Numbers, SentType DEF IInv
<1> HIDE DEF Said, Steps, Heard
<1>1. ASSUME log' = Append(log, Record("step", PromptId(Steps + 1))), Steps' = Steps + 1
      PROVE  LogOK'
  <2>1. /\ Len(log') = Len(log) + 1
        /\ log'[Len(log) + 1] = Record("step", PromptId(Steps + 1))
        /\ Count("step", Len(log))' = Steps'
        /\ \A n \in 1 .. Steps : \E i \in 1 .. Len(log) :
             log'[i] = Record("step", PromptId(n)) /\ Count("step", i)' = n
    BY <1>1, OldRecords
  <2>2. \A n \in 1 .. Steps' : \E i \in 1 .. Len(log') :
          log'[i] = Record("step", PromptId(n)) /\ Count("step", i)' = n
    <3> SUFFICES ASSUME NEW n \in 1 .. Steps'
                 PROVE  \E i \in 1 .. Len(log') :
                   log'[i] = Record("step", PromptId(n)) /\ Count("step", i)' = n
      OBVIOUS
    <3>1. CASE n \in 1 .. Steps
      BY <1>0, <2>1, <3>1
    <3>2. CASE n = Steps + 1
      <4>1. Len(log') \in 1 .. Len(log')
        BY <1>0, <2>1
      <4>2. Count("step", Len(log))' = n
        BY <1>1, <2>1, <3>2
      <4>3. \E i \in 1 .. Len(log') : i = Len(log') /\ log'[i] = Record("step", PromptId(n))
        BY <2>1, <3>2, <4>1
      <4> QED
        BY <4>2, <4>3 DEF Count
    <3> QED
      BY <1>0, <1>1, <3>1, <3>2
  <2>3. ~Chatty => CommandsAnswerSteps'
    <3> SUFFICES ASSUME ~Chatty, NEW i \in 1 .. Len(log'), log'[i].type = "command"
                 PROVE  \E j \in 1 .. i - 1 :
                          /\ log'[j] = Record("step", log'[i].id)
                          /\ Count("step", j)' = Count("command", i)'
      BY <1>1 DEF CommandsAnswerSteps
    <3>1. i \in 1 .. Len(log)
      BY <1>0, <2>1 DEF Record
    <3> QED
      BY <1>1, <3>1, OldCommands
  <2> QED
    BY <2>2, <2>3 DEF LogOK
<1>2. CASE GameState
  <2>1. log' = Append(log, Record("step", Head(to_client).id))
    BY <1>2 DEF GameState
  <2>2. Head(to_client).id = PromptId(Steps + 1)
    BY <1>0, <1>2, Prompted DEF PromptId
  <2> QED
    BY <1>1, <1>2, <2>1, <2>2, Logged
<1>3. CASE FinalState
  <2>1. log' = Append(log, Record("step", Head(to_client).id))
    BY <1>3 DEF FinalState
  <2>2. IsMessage(Head(to_client), Heard) /\ Head(to_client).type = "final_state"
    BY <1>3, FrameTaken DEF FinalState, Message
  <2>3. Head(to_client).id = 2 * MaxTurns /\ Heard = 2 * MaxTurns
    BY <2>2 DEF IsMessage
  <2>4. Head(to_client).id = PromptId(Steps + 1)
    BY SMTT(30), <1>0, <2>3 DEF CountsOK, PromptId
  <2> QED
    BY <1>1, <1>3, <2>1, <2>4, Logged
<1>4. CASE PlayerAction
  <2> DEFINE id == Head(to_client).id
  <2>1. log' = Append(log, Record("player_action", id)) /\ Steps' = Steps
    BY <1>4, Logged DEF PlayerAction
  <2> HIDE DEF id
  <2>2. /\ Len(log') = Len(log) + 1
        /\ log'[Len(log) + 1] = Record("player_action", id)
        /\ \A n \in 1 .. Steps : \E i \in 1 .. Len(log) :
             log'[i] = Record("step", PromptId(n)) /\ Count("step", i)' = n
    BY <2>1, OldRecords
  <2>3. \A n \in 1 .. Steps' : \E i \in 1 .. Len(log') :
          log'[i] = Record("step", PromptId(n)) /\ Count("step", i)' = n
    BY <1>0, <2>1, <2>2
  <2>4. ~Chatty => CommandsAnswerSteps'
    <3> SUFFICES ASSUME ~Chatty, NEW i \in 1 .. Len(log'), log'[i].type = "command"
                 PROVE  \E j \in 1 .. i - 1 :
                          /\ log'[j] = Record("step", log'[i].id)
                          /\ Count("step", j)' = Count("command", i)'
      BY <2>1 DEF CommandsAnswerSteps
    <3>1. i \in 1 .. Len(log)
      BY <1>0, <2>2 DEF Record
    <3> QED
      BY <2>1, <3>1, OldCommands
  <2> QED
    BY <2>3, <2>4 DEF LogOK
<1>5. CASE OnLine /\ handlers # <<>>
  <2> DEFINE id == Head(stdout)
  <2>1. log' = Append(log, Record("command", id)) /\ Steps' = Steps /\ Said' = Said + 1
    BY <1>5, Logged DEF OnLine
  <2>2. /\ Len(log') = Len(log) + 1
        /\ log'[Len(log) + 1] = Record("command", id)
        /\ Count("command", Len(log))' = Said'
        /\ \A n \in 1 .. Steps : \E i \in 1 .. Len(log) :
             log'[i] = Record("step", PromptId(n)) /\ Count("step", i)' = n
    BY <2>1, OldRecords
  <2>3. \A n \in 1 .. Steps' : \E i \in 1 .. Len(log') :
          log'[i] = Record("step", PromptId(n)) /\ Count("step", i)' = n
    BY SMTT(30), <1>0, <2>1, <2>2
  <2>4. ~Chatty => CommandsAnswerSteps'
    <3> SUFFICES ASSUME ~Chatty, NEW i \in 1 .. Len(log'), log'[i].type = "command"
                 PROVE  \E j \in 1 .. i - 1 :
                          /\ log'[j] = Record("step", log'[i].id)
                          /\ Count("step", j)' = Count("command", i)'
      BY <2>1 DEF CommandsAnswerSteps
    <3>1. CASE i \in 1 .. Len(log)
      BY <2>1, <3>1, OldCommands
    <3>2. CASE i = Len(log) + 1
      <4>1. id = handlers[1]
        <5>1. stdout # <<>> /\ LinesAhead
          BY <1>5 DEF OnLine, IInv, LinesOK
        <5>2. 1 \in 1 .. Len(stdout) /\ id = stdout[1]
          BY <1>0, <5>1
        <5> QED
          BY <5>1, <5>2 DEF LinesAhead
      <4>2. Said + 1 \in 1 .. Steps /\ handlers[1] = PromptId(Said + 1)
        <5>1. Len(handlers) > 0
          BY <1>0, <1>5
        <5> QED
          BY <1>0, <5>1 DEF CountsOK
      <4>3. PICK j \in 1 .. Len(log) :
              log'[j] = Record("step", PromptId(Said + 1)) /\ Count("step", j)' = Said + 1
        BY <2>2, <4>2
      <4>4. j \in 1 .. i - 1
        BY <1>0, <3>2
      <4>5. log'[i].id = PromptId(Said + 1)
        BY <2>2, <3>2, <4>1, <4>2 DEF Record
      <4>6. Count("command", i)' = Said + 1
        <5>1. i = Len(log')
          BY <2>2, <3>2
        <5> QED
          BY <2>1, <5>1 DEF Said, Count
      <4> QED
        BY <4>3, <4>4, <4>5, <4>6
    <3> QED
      BY <1>0, <2>2, <3>1, <3>2
  <2> QED
    BY <2>3, <2>4 DEF LogOK
<1>6. CASE \/ Run \/ SocketConnects \/ SocketCloses \/ ConnectionResponse \/ IgnoredFrame
           \/ SendResponse \/ Bot \/ Server \/ (OnLine /\ handlers = <<>>)
  <2>1. UNCHANGED log
    BY <1>6
    DEF Run, SocketConnects, SocketCloses, ConnectionResponse, IgnoredFrame, SendResponse, OnLine,
        Bot, BotAnswers, BotSkips, BotChatters, BotExits,
        Server, ServerUnchanged, ServerAnswersHello, ServerPrompts, ServerHears, ServerTimesOut,
        ServerEnds, clientVars
  <2> QED
    BY <1>0, <2>1, LogKept
<1> QED
  BY <1>2, <1>3, <1>4, <1>5, <1>6 DEF Next, Client
-----------------------------------------------------------------------------
LEMMA NextInv == IInv /\ [Next]_vars => IInv'
<1> SUFFICES ASSUME IInv, [Next]_vars PROVE IInv'
  OBVIOUS
<1>1. CASE Next
  <2>1. TypeOK' /\ WireTypes' /\ StagesOK'
    BY <1>1, TypesStep, StagesStep
  <2>2. WireOK' /\ CountsOK' /\ AnswersOK' /\ LogOK'
    BY <1>1, <2>1, WireStep, CountsStep, AnswersStep, LogStep
  <2>3. LinesOK'
    BY <1>1, InStepStep, OwnLinesStep DEF LinesOK
  <2>4. BotAssumption
    BY DEF IInv
  <2> QED
    BY <2>1, <2>2, <2>3, <2>4 DEF IInv
<1>2. CASE UNCHANGED vars
  <2>1. UNCHANGED <<conn, handlers, tasks, log, bot, stdin, stdout, extra, stage, turn,
                    pending, answers, socket, to_client, to_server>>
    BY <1>2 DEF vars, clientVars, botVars, serverVars, netVars
  <2>2. Said' = Said /\ Steps' = Steps /\ Heard' = Heard /\ Spoke' = Spoke /\ Sent' = Sent
    BY <2>1, SameLog DEF Spoke, Sent
  <2>3. TypeOK' /\ WireTypes' /\ StagesOK'
    BY <2>1 DEF IInv, TypeOK, WireTypes, StagesOK
  <2>4. WireOK' /\ CountsOK' /\ AnswersOK' /\ LogOK'
    BY <2>1, <2>2, WireKept, LogKept DEF IInv, CountsOK, AnswersOK
  <2>5. LinesOK'
    BY <2>1 DEF IInv, LinesOK, InStep, LinesAhead, OwnLines, AnswersOwnPrompt
  <2> QED
    BY <2>3, <2>4, <2>5 DEF IInv
<1> QED
  BY <1>1, <1>2

THEOREM Invariance == BotAssumption /\ Spec => []IInv
<1>1. BotAssumption /\ Init => IInv
  BY InitInv
<1>2. IInv /\ [Next]_vars => IInv'
  BY NextInv
<1> QED
  BY <1>1, <1>2, PTL DEF Spec

\* The types of the client, its bot and its server, for any number of turns.
THEOREM TypeCorrect == BotAssumption /\ Spec => []TypeOK
<1>1. IInv => TypeOK
  BY DEF IInv
<1> QED
  BY <1>1, Invariance, PTL

LEMMA OnceFromInv == IInv => OneAnswerPerPrompt
<1> SUFFICES ASSUME IInv, NEW t \in 1 .. MaxTurns
             PROVE  /\ \A x, y \in Answering(PromptId(t)) : x = y
                    /\ answers[t] # {} => Answering(PromptId(t)) = {}
  BY DEF OneAnswerPerPrompt
<1> DEFINE id == PromptId(t)
<1>1. /\ MaxTurns \in Nat /\ Said \in Nat /\ CountsOK /\ AnswersOK /\ StagesOK
      /\ DOMAIN handlers = 1 .. Len(handlers) /\ DOMAIN tasks = 1 .. Len(tasks)
      /\ DOMAIN to_server = 1 .. Len(to_server)
      /\ Len(handlers) \in Nat /\ Len(tasks) \in Nat /\ Len(to_server) \in Nat
      /\ Spoke = Said - Len(tasks)
  BY StateTypes, Numbers DEF IInv, Spoke
<1>0. /\ \A n \in Int : PromptId(n) = id => t = n
      /\ \A n \in Int : id <= PromptId(n) => t <= n
      /\ id # NoId
  BY <1>1 DEF PromptId, NoId
<1>2. \A i \in DOMAIN handlers : handlers[i] = id => t = Said + i
  <2>1. \A i \in DOMAIN handlers : handlers[i] = PromptId(Said + i) /\ Said + i \in Int
    BY <1>1 DEF CountsOK
  <2> QED
    BY <1>0, <2>1
<1>3. \A i \in DOMAIN tasks : tasks[i].id = id => t = Spoke + i
  <2>1. \A i \in DOMAIN tasks : tasks[i].id = PromptId(Spoke + i) /\ Spoke + i \in Int
    BY <1>1 DEF CountsOK
  <2> QED
    BY <1>0, <2>1
<1>4. \A i \in DOMAIN to_server : to_server[i].id = id => t <= Spoke
  <2>1. CASE stage = "new"
    <3>1. to_server = <<>> \/ to_server = <<Frame("hello", NoId)>>
      BY <1>1, <2>1 DEF StagesOK
    <3>2. \A i \in DOMAIN to_server : to_server[i] = Frame("hello", NoId)
      BY <3>1
    <3> QED
      BY <1>0, <3>2 DEF Frame
  <2>2. CASE stage # "new"
    <3>1. \A i \in DOMAIN to_server : to_server[i].id <= PromptId(Spoke) /\ Spoke \in Int
      BY <1>1, <2>2 DEF AnswersOK
    <3> QED
      BY <1>0, <3>1
  <2> QED
    BY <2>1, <2>2
<1>5. \A i, j \in DOMAIN to_server : to_server[i].id = id /\ to_server[j].id = id => i = j
  BY <1>1 DEF AnswersOK, PromptId
<1>6. answers[t] # {} =>
        t <= Spoke /\ \A i \in DOMAIN to_server : to_server[i].id # id
  BY <1>1 DEF AnswersOK, PromptId
<1> QED
  BY SMTT(30), <1>1, <1>2, <1>3, <1>4, <1>5, <1>6 DEF Answering

LEMMA PromptsFromInv ==
  IInv /\ ~Chatty => InStep /\ AnswersOwnPrompt /\ CommandsAnswerSteps
BY DEF IInv, LinesOK, LogOK

\* Nothing ties a line to a query, and yet lines and handlers do not get out
\* of step, every turn is played with the line printed for its prompt, and
\* the log shows each command after the state it answers, as long as the bot
\* prints one line per query (BotRunner.onLine).
THEOREM LinesAnswerPrompts ==
  BotAssumption /\ ~Chatty /\ Spec => [](InStep /\ AnswersOwnPrompt /\ CommandsAnswerSteps)
<1> SUFFICES ASSUME ~Chatty
             PROVE  BotAssumption /\ Spec =>
                      [](InStep /\ AnswersOwnPrompt /\ CommandsAnswerSteps)
  OBVIOUS
<1>1. IInv => InStep /\ AnswersOwnPrompt /\ CommandsAnswerSteps
  BY PromptsFromInv
<1> QED
  BY <1>1, Invariance, PTL

\* Whatever the bot prints, a prompt is answered at most once: by one handler,
\* one task or one frame, and by none after it was taken in time.
THEOREM AnsweredOnce == BotAssumption /\ Spec => []OneAnswerPerPrompt
BY OnceFromInv, Invariance, PTL
=============================================================================
