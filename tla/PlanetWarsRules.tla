--------------------------- MODULE PlanetWarsRules ---------------------------
(***************************************************************************)
(* The rules of Planet Wars as the game server plays them                  *)
(* (gameserver/src/planetwars: pw_rules.rs, pw_config.rs, pw_serializer.rs *)
(* and the part of pw_controller.rs that executes commands).  Turn is      *)
(* PwController::step: repopulate, execute the answers of all players in   *)
(* the order a HashMap yields them, move the expeditions, fight, and kick  *)
(* the dead.  How the answers are gathered is the subject of PwMatch.      *)
(*                                                                         *)
(* A time-out and an unreadable answer execute nothing, like an answer     *)
(* without commands, and are not told apart from one.  The coordinates of  *)
(* planets are abstracted to the distances they give.                      *)
(***************************************************************************)
EXTENDS Integers, Sequences, FiniteSets, TLC, SequencesExt

CONSTANTS NumPlayers,   \* players in the game; their ids are 0 .. NumPlayers-1
          Planet,       \* the planets of the map
          Map,          \* owner number (1-based, or NoOne) and ships of each planet
          Distance,     \* Planet::distance, rounded up
          MaxTurns,     \* max_turns of the configuration
          Answers,      \* the lists of commands each player may answer with
          NoOne         \* None, as the owner of a fleet or planet

Player == 0 .. NumPlayers - 1

RulesAssumption ==
    /\ NumPlayers \in Nat \ {0} /\ MaxTurns \in Nat
    /\ NoOne \notin Int
    /\ DOMAIN Map = Planet
    /\ \A a, b \in Planet : Distance[a, b] \in Nat /\ Distance[a, a] = 0

VARIABLES planets,          \* the fleets at each planet, the owner's first
          expeditions,      \* fleets under way, in the order of the vector
          expedition_num,   \* expeditions dispatched so far
          turn_num,
          alive,            \* Player.alive of the rules
          players,          \* players whose client has not been kicked
          actions           \* the reports (PlayerAction) of the last turn

vars == <<planets, expeditions, expedition_num, turn_num, alive, players, actions>>

-----------------------------------------------------------------------------
(* Planets and fleets *)

Owner(fleets) == IF fleets = <<>> THEN NoOne ELSE Head(fleets).owner

ShipCount(fleets) == IF fleets = <<>> THEN 0 ELSE Head(fleets).ship_count

\* Merge with the fleet the owner already has there, or come last.
Orbit(fleets, fleet) ==
    IF \E i \in DOMAIN fleets : fleets[i].owner = fleet.owner
      THEN [i \in DOMAIN fleets |->
              IF fleets[i].owner = fleet.owner
                THEN [fleets[i] EXCEPT !.ship_count = @ + fleet.ship_count]
                ELSE fleets[i]]
      ELSE Append(fleets, fleet)

\* The trailing fleets without ships go.
DropDead(fleets) ==
    LET living == {i \in DOMAIN fleets : fleets[i].ship_count > 0}
    IN  SubSeq(fleets, 1, IF living = {} THEN 0 ELSE CHOOSE i \in living : \A j \in living : j <= i)

\* Mutant: Only the winner pays for the smallest fleet.
CombatRound_winner(fleets) ==
    DropDead([i \in 1 .. Len(fleets) - 1 |->
                IF i = 1 THEN [fleets[i] EXCEPT !.ship_count = @ - Last(fleets).ship_count]
                ELSE fleets[i]])

\* One round of the loop of resolve_combat: the smallest fleet is destroyed
\* and takes as many ships of every other with it.
CombatRound(fleets) ==
    LET smallest == Last(fleets)
    IN  DropDead([i \in 1 .. Len(fleets) - 1 |->
                    [fleets[i] EXCEPT !.ship_count = @ - smallest.ship_count]])

\* Planet::resolve_combat; a round destroys at least one fleet.
ResolveCombat(fleets) ==
    FoldLeft(LAMBDA fs, round : IF Len(fs) > 1 THEN CombatRound(fs) ELSE fs,
             SortSeq(fleets, LAMBDA f, g : f.ship_count > g.ship_count),
             fleets)

Repopulate(ps) ==
    [p \in Planet |-> IF Owner(ps[p]) # NoOne
                        THEN [ps[p] EXCEPT ![1].ship_count = @ + 1] ELSE ps[p]]

-----------------------------------------------------------------------------
(* Commands.  g is the game while a turn is played: a record of planets,   *)
(* expeditions, expedition_num, alive and the reports written so far.      *)

\* Mutant: The ship count before the turn's earlier moves is taken for granted.
CommandError_unchecked(g, player, c) ==
    IF c.origin \notin Planet THEN "OriginDoesNotExist"
    ELSE IF c.destination \notin Planet THEN "DestinationDoesNotExist"
    ELSE IF Owner(g.planets[c.origin]) # player THEN "OriginNotOwned"
    ELSE IF ShipCount(planets[c.origin]) + 1 < c.ship_count THEN "NotEnoughShips"
    ELSE IF c.ship_count = 0 THEN "ZeroShipMove" ELSE "none"

\* PwController::parse_command, the first objection or "none".
CommandError(g, player, c) ==
    CASE c.origin \notin Planet -> "OriginDoesNotExist"
      [] c.origin \in Planet /\ c.destination \notin Planet -> "DestinationDoesNotExist"
      [] OTHER ->
           IF Owner(g.planets[c.origin]) # player THEN "OriginNotOwned"
           ELSE IF ShipCount(g.planets[c.origin]) < c.ship_count THEN "NotEnoughShips"
           ELSE IF c.ship_count = 0 THEN "ZeroShipMove"
           ELSE "none"

Dispatch(g, c) ==
    [g EXCEPT !.planets[c.origin][1].ship_count = @ - c.ship_count,
              !.expedition_num = @ + 1,
              !.expeditions = Append(@,
                  [id |-> g.expedition_num, origin |-> c.origin, target |-> c.destination,
                   turns_remaining |-> Distance[c.origin, c.destination],
                   fleet |-> [owner |-> Owner(g.planets[c.origin]), ship_count |-> c.ship_count]])]

ExecuteCommand(g, player, c) ==
    LET error == CommandError(g, player, c)
        done  == IF error = "none" THEN Dispatch(g, c) ELSE g
    IN  [done EXCEPT !.actions[player] = Append(@, [command |-> c, error |-> error])]

\* execute_messages for one of the orders in which the HashMap drains.
ExecuteMessages(g, msgs, order) ==
    FoldLeft(LAMBDA h, player :
               FoldLeft(LAMBDA k, c : ExecuteCommand(k, player, c), h, msgs[player]),
             g, order)

-----------------------------------------------------------------------------
(* The step of the rules *)

\* Vec::swap_remove: the last element takes the place of the removed one.
SwapRemove(s, i) == [j \in 1 .. Len(s) - 1 |-> IF j = i THEN Last(s) ELSE s[j]]

\* One iteration of step_expeditions, on the game and the index reached.
StepExpedition(at) ==
    LET g == at.game
        e == g.expeditions[at.i]
    IN  IF e.turns_remaining <= 1
          THEN [at EXCEPT !.game.expeditions = SwapRemove(@, at.i),
                          !.game.planets[e.target] = Orbit(@, e.fleet)]
          ELSE [game |-> [g EXCEPT !.expeditions[at.i].turns_remaining = @ - 1,
                                   !.alive[e.fleet.owner] = TRUE],
                i    |-> at.i + 1]

\* Each iteration removes an expedition or passes one: as many iterations as
\* there are expeditions at the start.
StepExpeditions(g) ==
    FoldLeft(LAMBDA at, round : IF at.i <= Len(at.game.expeditions)
                                  THEN StepExpedition(at) ELSE at,
             [game |-> g, i |-> 1], g.expeditions).game

\* PlanetWars::resolve_combat: owning a planet is a sign of life.
ResolveCombats(g) ==
    LET after == [p \in Planet |-> ResolveCombat(g.planets[p])]
    IN  [g EXCEPT !.planets = after,
                  !.alive = [q \in Player |-> @[q] \/ \E p \in Planet : Owner(after[p]) = q]]

\* PlanetWars::step: dead until a sign of life is seen.
StepRules(g) ==
    ResolveCombats(StepExpeditions([g EXCEPT !.alive = [q \in Player |-> FALSE]]))

IsFinished(living, turn) == Cardinality({q \in Player : living[q]}) < 2 \/ turn >= MaxTurns

-----------------------------------------------------------------------------
(* Behaviour *)

\* Config::load_map: player numbers become ids, players that are not in the
\* game own nothing, and a planet without ships is left without an owner.
\* (An owner 0 wraps around to no player; a debug build panics on it.)
LoadPlanet(m) ==
    LET owner == IF m.owner # NoOne /\ m.owner - 1 \in Player THEN m.owner - 1 ELSE NoOne
    IN  IF m.ship_count > 0 THEN <<[owner |-> owner, ship_count |-> m.ship_count]>> ELSE <<>>

\* Config::create_game
Init ==
    /\ planets = [p \in Planet |-> LoadPlanet(Map[p])]
    /\ expeditions = <<>> /\ expedition_num = 0 /\ turn_num = 0
    /\ alive = [q \in Player |-> TRUE]
    /\ players = Player
    /\ actions = [q \in Player |-> <<>>]

\* PwController::step, with prompt_players (the dead are kicked) or
\* finish_game (everyone is).
Turn ==
    /\ players # {}
    /\ \E msgs \in [players -> UNION {Answers[q] : q \in players}], order \in SetToSeqs(players) :
         /\ \A q \in players : msgs[q] \in Answers[q]
         /\ LET start == [planets |-> Repopulate(planets), expeditions |-> expeditions,
                          expedition_num |-> expedition_num, alive |-> alive,
                          actions |-> [q \in Player |-> <<>>]]
                end   == StepRules(ExecuteMessages(start, msgs, order))
            IN  /\ planets' = end.planets
                /\ expeditions' = end.expeditions
                /\ expedition_num' = end.expedition_num
                /\ alive' = end.alive
                /\ actions' = end.actions
                /\ turn_num' = turn_num + 1
                /\ players' = IF IsFinished(end.alive, turn_num + 1)
                                THEN {} ELSE {q \in players : end.alive[q]}

Next == Turn

Spec == Init /\ [][Next]_vars

-----------------------------------------------------------------------------
(* What a player is sent *)

\* Serializer::player_num
PlayerNum(player, offset) == ((player + offset) % NumPlayers) + 1

\* serialize_rotated: owner and ships of the planets, and the expeditions
SerializeRotated(offset) ==
    [planets     |-> [p \in Planet |->
                        [owner |-> IF Owner(planets[p]) = NoOne THEN NoOne
                                   ELSE PlayerNum(Owner(planets[p]), offset),
                         ship_count |-> ShipCount(planets[p])]],
     expeditions |-> [i \in DOMAIN expeditions |->
                        [id |-> expeditions[i].id,
                         owner |-> PlayerNum(expeditions[i].fleet.owner, offset),
                         ship_count |-> expeditions[i].fleet.ship_count]]]

\* Mutant: The offset is the player's own number.
SerializedState_same(player) == SerializeRotated(player)

\* Player::serialized_state of the controller
SerializedState(player) == SerializeRotated(NumPlayers - player)

-----------------------------------------------------------------------------
(* Properties: of states, and of turns where a variable is primed *)

Party == Player \cup {NoOne}
Fleet == [owner : Party, ship_count : Nat]

\* Between turns a planet has at most one fleet, ships never go below zero
\* (they are u64: dispatch and the combat subtract without a check), and only
\* players have expeditions (the serializer unwraps their owner).
TypeOK ==
    /\ \A p \in Planet : planets[p] = <<>> \/ (Len(planets[p]) = 1 /\ planets[p][1] \in Fleet)
    /\ DOMAIN planets = Planet
    /\ \A i \in DOMAIN expeditions :
         /\ expeditions[i].fleet \in [owner : Player, ship_count : Nat \ {0}]
         /\ expeditions[i].id \in 0 .. expedition_num - 1
         /\ expeditions[i].turns_remaining \in Nat \ {0}
    /\ turn_num \in 0 .. MaxTurns + 1
    /\ alive \in [Player -> BOOLEAN]
    /\ players \subseteq Player

\* The moves a list of reports says were accepted.
Accepted(reports) ==
    UNION {{<<q, i>> : i \in {j \in DOMAIN reports[q] : reports[q][j].error = "none"}} : q \in Player}

\* The ships party q has at planet p when the fighting starts, in the words of
\* the rules: its garrison, grown by one and less what it sent away, and
\* every expedition of its that arrives, those of this turn included.
Force(reports, q, p) ==
    LET move(m) == reports[m[1]][m[2]].command
        sent    == {m \in Accepted(reports) : move(m).origin = p}
        quick   == {m \in Accepted(reports) : /\ m[1] = q /\ move(m).destination = p
                                              /\ Distance[move(m).origin, p] <= 1}
        landing == {i \in DOMAIN expeditions : /\ expeditions[i].target = p
                                               /\ expeditions[i].fleet.owner = q
                                               /\ expeditions[i].turns_remaining <= 1}
    IN  (IF Owner(planets[p]) # q THEN 0
         ELSE IF q = NoOne THEN ShipCount(planets[p])
         ELSE ShipCount(planets[p]) + 1 - MapThenSumSet(LAMBDA m : move(m).ship_count, sent))
        + MapThenSumSet(LAMBDA m : move(m).ship_count, quick)
        + MapThenSumSet(LAMBDA i : expeditions[i].fleet.ship_count, landing)

\* planetwars/README.md:18: every ship takes out one other ship, so the
\* largest party keeps what it has over the second largest, two equal largest
\* parties leave nobody, and a planet nobody comes to keeps its owner.
Battle(reports, p) ==
    LET force  == [q \in Party |-> Force(reports, q, p)]
        owner  == Owner(planets[p])
        rivals == {q \in Party \ {owner} : force[q] > 0}
        top    == CHOOSE q \in Party : \A r \in Party : force[r] <= force[q]
        second == CHOOSE n \in {force[r] : r \in Party \ {top}} :
                    \A r \in Party \ {top} : force[r] <= n
    IN  IF rivals = {} THEN [owner |-> owner, ship_count |-> force[owner]]
        ELSE IF force[top] > second THEN [owner |-> top, ship_count |-> force[top] - second]
        ELSE [owner |-> NoOne, ship_count |-> 0]

\* A turn leaves every planet as the rules of planetwars/README.md say,
\* computed from the state before it and the moves that were reported as
\* accepted: whatever order the players' answers were executed in, the
\* expeditions removed in and the fleets sorted in (pw_rules.rs:101, 173).
TurnFollowsTheRules ==
    \A p \in Planet :
        [owner |-> Owner(planets'[p]), ship_count |-> ShipCount(planets'[p])]
          = Battle(actions', p)

\* Every expedition comes one turn nearer, once, and lands when it is due;
\* the moves of the turn that are not there yet are the only new ones.  (The
\* loop of step_expeditions removes from the vector it walks over.)
ExpeditionsAreOnTime ==
    LET flying == {i \in DOMAIN expeditions : expeditions[i].turns_remaining > 1}
        far    == {m \in Accepted(actions') :
                     LET c == actions'[m[1]][m[2]].command
                     IN  Distance[c.origin, c.destination] > 1}
    IN  /\ \A i \in flying : \E j \in DOMAIN expeditions' :
             expeditions'[j] = [expeditions[i] EXCEPT !.turns_remaining = @ - 1]
        /\ Len(expeditions') = Cardinality(flying) + Cardinality(far)
        /\ \A i, j \in DOMAIN expeditions' :
             expeditions'[i].id = expeditions'[j].id => i = j

\* After a turn the living are those with a planet or an expedition: nobody
\* who could still win is kicked, and nobody without either is prompted.
AliveHaveShips ==
    turn_num > 0 =>
      \A q \in Player :
        alive[q] <=> \/ \E p \in Planet : Owner(planets[p]) = q
                     \/ \E i \in DOMAIN expeditions : expeditions[i].fleet.owner = q

\* A player that was dead after some turn stays dead and owns nothing: its
\* client was kicked (pw_controller.rs:413) and could never play again.  This
\* is what PwMatch takes from the rules.
NoOneIsRevived ==
    \A q \in Player : ~ alive[q] =>
        ~ alive'[q] /\ \A p \in Planet : Owner(planets'[p]) # q

\* planetwars/README.md:27: in the states you receive you are always player
\* number one; and the others keep distinct numbers of the game.
SeesItselfFirst ==
    \A q \in Player :
      LET view == SerializedState(q)
      IN  /\ \A p \in Planet : view.planets[p].owner = 1 <=> Owner(planets[p]) = q
          /\ \A i \in DOMAIN expeditions :
               view.expeditions[i].owner = 1 <=> expeditions[i].fleet.owner = q
          /\ \A p \in Planet, i \in DOMAIN expeditions :
               view.planets[p].owner = view.expeditions[i].owner
                 <=> Owner(planets[p]) = expeditions[i].fleet.owner

=============================================================================
