----------------------------- MODULE MatchLogs ------------------------------
(***************************************************************************)
(* The log of a match (match-log/src) and the view of it (LogView.tsx).    *)
(*                                                                         *)
(* Entries come from several sources, each in its own time: the control    *)
(* client logs the states of the game, the client of each local player     *)
(* logs the states it is prompted with, the lines of its bot and what the  *)
(* server made of them.  The view puts them side by side by turn, although *)
(* neither a command nor an action says what turn it is about.             *)
(*                                                                         *)
(* The server and the clients are those of PwMatch and BotClient: a player *)
(* hears step 1, action 1, step 2, ..., and the last state; its bot prints *)
(* one line per query, in order, maybe after the time-out.                 *)
(***************************************************************************)
EXTENDS Naturals, Sequences, SequencesExt

CONSTANTS
    Players,      \* players with a client of the app
    Planets, Neutral,
    MaxTurns

LogAssumption ==
    /\ MaxTurns \in Nat \ {0}
    /\ Neutral \notin Players
    /\ IsFiniteSet(Planets)

NoCommand == 0           \* commands are named by the turn of their query
Outcomes == {"commands", "parse_error", "timeout"}

VARIABLES
    owners,       \* who owns the planets, per state the server has reached
    outcome,      \* per player and turn: what the server made of its answer
    heard,        \* messages that reached the client of a player
    replied,      \* lines its bot has printed, one per query
    received,     \* lines that reached the server
    reported,     \* states that reached the control client
    log,          \* the HostedMatchLog of the match
    joined        \* per player: the JoinedMatchLog it would have on its own

gameVars == <<owners, outcome>>
vars == <<gameVars, heard, replied, received, reported, log, joined>>

Turn == Len(owners)

\* A new log: no states, no turns of any player.
EmptyLog == [states |-> <<>>, turns |-> [p \in Players |-> <<>>]]

\* Each player starts with a planet; without planets the model leaves out
\* what the states are about.
FirstStates ==
    {o \in [Planets -> Players \union {Neutral}] :
        Planets # {} => \A p \in Players : \E x \in Planets : o[x] = p}

Init ==
    /\ owners \in {<<o>> : o \in FirstStates}
    /\ outcome = [p \in Players |-> <<>>]
    /\ heard = [p \in Players |-> 0]
    /\ replied = [p \in Players |-> 0] /\ received = [p \in Players |-> 0]
    /\ reported = 0
    /\ log = EmptyLog
    /\ joined = [p \in Players |-> EmptyLog]
-----------------------------------------------------------------------------
(* The log *)

PlayerTurn(state) == [state |-> state, command |-> NoCommand, action |-> "none"]

UpdateLast(turns, turn) == [turns EXCEPT ![Len(turns)] = turn]

WithCommand(turn, content) == [turn EXCEPT !.command = content]

\* Mutant: an action is filed under the turn before.
Filed_before(turns, record) ==
    IF Len(turns) = 1 THEN turns
    ELSE [turns EXCEPT ![Len(turns) - 1].action = record.value]

Filed(turns, record) ==
    UpdateLast(turns, [Last(turns) EXCEPT !.action = record.value])

\* The turns a command is filed in.
Turns(turns) == turns

\* PlayerLog.addRecord.  A command or an action that comes first throws.
AddRecord(turns, record) ==
    CASE record.type = "step"    -> Append(turns, PlayerTurn(record.value))
      [] record.type = "command" ->
           UpdateLast(Turns(turns), WithCommand(Last(turns), record.value))
      [] record.type = "player_action" -> Filed(turns, record)

PlayerEntry(l, p, record) == [l EXCEPT !.turns[p] = AddRecord(@, record)]

\* HostedMatchLog.addEntry
AddState(l, state) == [l EXCEPT !.states = Append(@, state)]
AddHosted(p, record) == log' = PlayerEntry(log, p, record)

IsState(record) == record.type = "step"

\* JoinedMatchLog.addEntry
AddJoined(p, record) ==
    joined' = [joined EXCEPT ![p] =
                 LET l == PlayerEntry(@, p, record)
                 IN IF IsState(record) THEN AddState(l, record.value) ELSE l]

\* A client logs a record.
Log(p, type, value) ==
    LET record == [type |-> type, value |-> value]
    IN AddHosted(p, record) /\ AddJoined(p, record)
-----------------------------------------------------------------------------
(* What is shown of it *)

\* The states of a log are named by their turn.
State(t) == owners[t]

LivingPlayers(t) == {State(t)[x] : x \in Planets} \ {Neutral}
Winners(l) == LivingPlayers(Last(l.states))

ScoredStates(l) == DOMAIN l.states

\* calcScores: a point for each planet in each state.
Scores(l) ==
    [p \in LivingPlayers(l.states[1]) |->
        Cardinality({at \in ScoredStates(l) \X Planets :
                        State(l.states[at[1]])[at[2]] = p})]

\* makePlayerLogs and LogView: a row for each state, in which a player has
\* its turn of the same index, if there is one.
Row(l, i) ==
    [p \in {q \in Players : i \in DOMAIN l.turns[q]} |-> l.turns[p][i]]
Rows(l) == [i \in DOMAIN l.states |-> Row(l, i)]

\* PlayerTurnView and ParseErrorView: an error comes with the output.
Output(turn) ==
    CASE turn.action = "parse_error" -> <<"ERROR", turn.command>>
      [] turn.action = "timeout"     -> <<"TIMEOUT">>
      [] turn.action = "commands"    -> <<"COMMANDS">>
      [] turn.action = "none"        -> <<>>
-----------------------------------------------------------------------------
(* The server *)

Ready == \A p \in Players : Len(outcome[p]) = Turn

\* The turn is over: everyone is told, and prompted with the new state.  Who
\* had no planet left gets none.
ServerSteps ==
    /\ Turn <= MaxTurns
    /\ Ready
    /\ \E o \in [Planets -> LivingPlayers(Turn) \union {Neutral}] :
         owners' = Append(owners, o)
    /\ UNCHANGED <<outcome, heard, replied, received, reported, log, joined>>

Settle(p, how) ==
    /\ Turn <= MaxTurns
    /\ Len(outcome[p]) < Turn
    /\ outcome' = [outcome EXCEPT ![p] = Append(@, how)]

\* A line reaches the server; one that comes too late is ignored.
ServerHears(p) ==
    /\ received[p] < replied[p]
    /\ received' = [received EXCEPT ![p] = @ + 1]
    /\ IF received'[p] = Turn /\ Len(outcome[p]) < Turn
       THEN \E how \in Outcomes \ {"timeout"} : Settle(p, how)
       ELSE UNCHANGED outcome
    /\ UNCHANGED <<owners, heard, replied, reported, log, joined>>

ServerTimesOut(p) ==
    /\ Settle(p, "timeout")
    /\ UNCHANGED <<owners, heard, replied, received, reported, log, joined>>

ControlHears ==
    /\ reported < Turn
    /\ reported' = reported + 1
    /\ log' = AddState(log, reported')
    /\ UNCHANGED <<gameVars, heard, replied, received, joined>>
-----------------------------------------------------------------------------
(* The clients *)

\* Of the messages to a player, each second is a state; the others say what
\* became of the turn before.
Steps(n) == (n + 1) \div 2

PlayerHears(p) ==
    /\ heard[p] < 2 * Turn - 1
    /\ heard' = [heard EXCEPT ![p] = @ + 1]
    /\ IF heard'[p] % 2 = 1
       THEN Log(p, "step", Steps(heard'[p]))
       ELSE Log(p, "player_action", outcome[p][heard'[p] \div 2])
    /\ UNCHANGED <<gameVars, replied, received, reported>>

\* The bot prints its line for the next query; the last state is no query.
BotReplies(p) ==
    /\ replied[p] < Steps(heard[p])
    /\ replied[p] < MaxTurns
    /\ replied' = [replied EXCEPT ![p] = @ + 1]
    /\ Log(p, "command", replied'[p])
    /\ UNCHANGED <<gameVars, heard, received, reported>>

Done == /\ Turn = MaxTurns + 1 /\ reported = Turn
        /\ \A p \in Players : heard[p] = 2 * Turn - 1 /\ replied[p] = MaxTurns
                              /\ received[p] = replied[p]

Next ==
    \/ ServerSteps \/ ControlHears
    \/ \E p \in Players : \/ ServerHears(p) \/ ServerTimesOut(p)
                          \/ PlayerHears(p) \/ BotReplies(p)
    \/ Done /\ UNCHANGED vars

Spec == Init /\ [][Next]_vars
-----------------------------------------------------------------------------
\* The types of the log: states and turns are numbered from 1 without a gap,
\* and no turn has a command that is yet to come.
TypeOK ==
    /\ Turn \in 1 .. MaxTurns + 1
    /\ log.states = [i \in 1 .. reported |-> i]
    /\ \A p \in Players :
         /\ Len(log.turns[p]) = Steps(heard[p])
         /\ \A i \in DOMAIN log.turns[p] :
              /\ log.turns[p][i].command \in 0 .. i
              /\ log.turns[p][i].action \in Outcomes \union {"none"}

\* Wherever the control client and the clients of the players are, a row of
\* the log view shows the turns of that state, and of each player what the
\* server made of its answer to that state.
RowsShowTheirTurn ==
    \A i \in DOMAIN Rows(log), p \in Players :
        p \in DOMAIN Rows(log)[i] =>
            LET turn == Rows(log)[i][p] IN
            /\ turn.state = log.states[i]
            /\ turn.action # "none" => turn.action = outcome[p][i]
            /\ heard[p] >= 2 * i => turn.action # "none"

\* The output shown with a parse error is the line that was not parsed, also
\* when lines that came too late are filed under later turns.
ErrorsShowTheirOutput ==
    \A p \in Players : \A i \in DOMAIN log.turns[p] :
        log.turns[p][i].action = "parse_error" =>
            Output(log.turns[p][i]) = <<"ERROR", i>>

\* Who joined a match and has heard all of it has the states and the
\* statistics of who hosted it.
JoinedLogAgrees ==
    Done => \A p \in Players :
        /\ joined[p].states = log.states
        /\ joined[p].turns[p] = log.turns[p]
        /\ Winners(joined[p]) = Winners(log)

\* The scores of a log give each planet of each state to its owner.
ScoresAddUp ==
    log.states # <<>> =>
        LET scores == Scores(log) IN
        FoldFunction(LAMBDA a, b : a + b, 0, scores)
          = Cardinality({at \in (DOMAIN log.states) \X Planets :
                            State(log.states[at[1]])[at[2]] # Neutral})
=============================================================================
