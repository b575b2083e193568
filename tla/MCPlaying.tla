----------------------------- MODULE MCPlaying -----------------------------
(***************************************************************************)
(* Around the playing of a match, for TLC: the rules, the client that      *)
(* plays with a bot, the frames on its connection and the visualizer.      *)
(* They have no state in common, so in each behaviour one `part` runs and  *)
(* the others wait in their initial states.  Two parts of one module are   *)
(* two scopes of it and share its variables.                               *)
(*                                                                         *)
(*    rules            PlanetWarsRules: three players, four planets        *)
(*    client, chatty   BotClient: a bot that answers; one that skips       *)
(*                     queries and prints lines unasked                    *)
(*    codec            Framing: two messages, one of them with a length    *)
(*                     of two bytes                                        *)
(*    viewer           Playback: a match that is played, one that is over  *)
(***************************************************************************)
EXTENDS Integers, Sequences, FiniteSets, TLC

CONSTANTS home1, home2, home3, centre, nowhere, NoOne, AtHead

VARIABLES
    part,
    \* PlanetWarsRules
    planets, expeditions, expedition_num, turn_num, alive, players, actions,
    \* BotClient
    conn, socket, handlers, bot, stdin, stdout, tasks, log, to_client,
    to_server, stage, turn, pending, answers, extra,
    \* Framing
    sent, toClient, buffer, pushed, toServer, buf, expected, decoded, open,
    \* Playback
    page, received, game, names, turnNum, speed, playing, timer, leaked,
    drawnPlanets, drawnExpeditions, box, zoom

rules  == <<planets, expeditions, expedition_num, turn_num, alive, players,
            actions>>
client == <<conn, socket, handlers, bot, stdin, stdout, tasks, log, to_client,
            to_server, stage, turn, pending, answers, extra>>
codec  == <<sent, toClient, buffer, pushed, toServer, buf, expected, decoded,
            open>>
viewer == <<page, received, game, names, turnNum, speed, playing, timer,
            leaked, drawnPlanets, drawnExpeditions, box, zoom>>
vars   == <<part, rules, client, codec, viewer>>
-----------------------------------------------------------------------------
Move(from, to, n) == [origin |-> from, destination |-> to, ship_count |-> n]

On(owner, n) == [owner |-> owner, ship_count |-> n]

\* Three homes around a neutral planet, which starts with an owner the game
\* lacks.  The second and the third home are neighbours: the third player can
\* be wiped out in the first turn, or lose its home with all ships under way.
StarMap ==
    (home1 :> On(1, 3)) @@ (home2 :> On(2, 3)) @@ (home3 :> On(3, 3))
    @@ (centre :> On(4, 2))

StarDistance ==
    [pq \in {home1, home2, home3, centre} \X {home1, home2, home3, centre} |->
       IF pq[1] = pq[2] THEN 0
       ELSE IF {home2, home3} = {pq[1], pq[2]} \/ centre \in {pq[1], pq[2]} THEN 1 ELSE 2]

\* The moves that matter from planets a player may come to own, among them
\* the ones that must be refused: too many ships, no ships, a planet of
\* somebody else, a planet that is not on the map.
StarAnswers ==
    (0 :> {<<Move(home1, centre, 3)>>, <<Move(home1, centre, 1), Move(home1, home2, 2)>>,
           <<Move(centre, home3, 1), Move(home1, centre, 2), Move(home1, nowhere, 1)>>})
    @@
    (1 :> {<<Move(home2, centre, 3)>>, <<Move(home2, home3, 4)>>,
           <<Move(home2, centre, 1), Move(home2, home3, 2)>>,
           <<Move(centre, home1, 1), Move(home3, centre, 2)>>})
    @@
    (2 :> {<<Move(home3, centre, 0)>>, <<Move(home3, centre, 3)>>,
           <<Move(home3, home1, 4)>>,
           <<Move(home3, home1, 1), Move(home3, home2, 2)>>})

Rules == INSTANCE PlanetWarsRules WITH
    NumPlayers <- 3, Planet <- {home1, home2, home3, centre}, Map <- StarMap,
    Distance <- StarDistance, Answers <- StarAnswers, MaxTurns <- 2

Client == INSTANCE BotClient WITH
    MaxTurns <- 3, MaxExtra <- 0, Chatty <- FALSE

Talker == INSTANCE BotClient WITH
    MaxTurns <- 3, MaxExtra <- 1, Chatty <- TRUE

Codec == INSTANCE Framing WITH
    Base <- 2, Messages <- {<<>>, <<3>>, <<2, 0>>}, MaxSent <- 2

Viewer == INSTANCE Playback WITH MaxSpeed <- 1

ASSUME Assumptions ==
    /\ Rules!RulesAssumption
    /\ Client!BotAssumption /\ Talker!BotAssumption
    /\ Codec!FramingAssumption
    /\ Viewer!SpeedAssumption
-----------------------------------------------------------------------------
Init ==
    /\ part \in {"rules", "client", "chatty", "codec", "viewer"}
    /\ Rules!Init /\ Client!Init /\ Codec!Init /\ Viewer!Init

Next ==
    \/ part = "rules"  /\ Rules!Next  /\ UNCHANGED <<part, client, codec, viewer>>
    \/ part = "client" /\ Client!Next /\ UNCHANGED <<part, rules, codec, viewer>>
    \/ part = "chatty" /\ Talker!Next /\ UNCHANGED <<part, rules, codec, viewer>>
    \/ part = "codec"  /\ Codec!Next  /\ UNCHANGED <<part, rules, client, viewer>>
    \/ part = "viewer" /\ Viewer!Next /\ UNCHANGED <<part, rules, client, codec>>

\* The fairness of each component, for the part that runs: the event loop
\* handles what has arrived, a bot that runs answers, the server reads and
\* prompts and closes a connection it is done with, bytes on an open
\* connection arrive, and a timer fires.
Fairness ==
    /\ WF_client(/\ part = "client"
                 /\ \/ Client!ConnectionResponse \/ Client!GameState
                    \/ Client!PlayerAction \/ Client!FinalState
                    \/ Client!IgnoredFrame)
    /\ WF_client(part = "client" /\ Client!OnLine)
    /\ WF_client(part = "client" /\ Client!SendResponse)
    /\ WF_client(part = "client" /\ Client!BotAnswers)
    /\ WF_client(part = "client" /\ Client!ServerPrompts)
    /\ WF_client(part = "client" /\ Client!ServerHears)
    /\ WF_client(part = "client" /\ stage = "over" /\ Client!SocketCloses)
    /\ WF_codec(part = "codec" /\ \E n \in 1 .. Len(toClient) : Codec!Transform(n))
    /\ WF_codec(part = "codec" /\ \E n \in 1 .. Len(toServer) : Codec!ReadChunk(n))
    /\ WF_codec(part = "codec" /\ (Codec!DecodeHead \/ Codec!DecodeData))
    /\ WF_viewer(part = "viewer" /\ Viewer!Tick)

Spec == Init /\ [][Next]_vars /\ Fairness
-----------------------------------------------------------------------------
\* The types of every part's state; between turns no planet has two fleets
\* and no count of ships, a u64, is below zero (pw_rules.rs:60-224).
TypeOK ==
    /\ part = "rules"  => Rules!TypeOK
    /\ part = "client" => Client!TypeOK
    /\ part = "chatty" => Talker!TypeOK
    /\ part = "codec"  => Codec!TypeOK
    /\ part = "viewer" => Viewer!TypeOK

\* Every turn leaves planets, expeditions and the living as the rules in
\* planetwars/README.md say, in whatever order the answers are executed, the
\* expeditions removed and the fleets sorted (pw_rules.rs:60-224,
\* pw_controller.rs:440-506).
TurnFollowsTheRules ==
    [][part = "rules" =>
         /\ Rules!TurnFollowsTheRules
         /\ Rules!ExpeditionsAreOnTime
         /\ Rules!NoOneIsRevived]_rules

\* After a turn the living are those with a planet or an expedition, and each
\* player sees itself as player one and the others apart from each other
\* (pw_serializer.rs:8-66).
SeesItselfFirst ==
    part = "rules" => Rules!AliveHaveShips /\ Rules!SeesItselfFirst

\* A turn is played with the line that was printed for its prompt, and with
\* one line at most, however late lines are and whatever the bot prints, and
\* the log shows it after the state it answers (Client.ts:95-139).
AnswersOwnPrompt ==
    /\ part = "client" => /\ Client!AnswersOwnPrompt
                          /\ Client!InStep
                          /\ Client!CommandsAnswerSteps
                          /\ Client!OneAnswerPerPrompt
    /\ part = "chatty" => Talker!OneAnswerPerPrompt

\* The picture, the timer and the scoreboard are those of the turn and the
\* match on show, however the viewer got there (visualizer.ts,
\* visualsHelper.ts).
PictureShowsTurn ==
    part = "viewer" => /\ Viewer!PictureShowsTurn
                       /\ Viewer!TimerKeepsPace
                       /\ Viewer!ScoreboardAddsUp

\* A prompt of a client with a bot that answers is answered, a refused client
\* ends its bot, bytes of a connection that stays open arrive as messages,
\* whole and in order however the stream is cut, each as soon as it is there
\* (ProtobufStream.ts:23-72), and a viewer left alone plays to the end.
Progress ==
    /\ part = "client" => Client!PromptsAnswered /\ Client!RefusedBotDies
    /\ [](part = "codec" => Codec!InOrderAndWhole /\ Codec!NothingHeldBack)
    /\ Codec!EverythingArrives
    /\ Viewer!PlaysToTheEnd
-----------------------------------------------------------------------------
(* Not kept: what TLC refutes when it is added to the configuration.      *)

\* The titles of a picture name the players of the match on show
\* (visualizer.tsx:58).
TitlesNameTheMatch == Viewer!TitlesNameTheMatch

\* No button takes the viewer down (visualizer.tsx:112).
ButtonsDoNotCrash == Viewer!ButtonsDoNotCrash
=============================================================================
