------------------------------ MODULE Playback ------------------------------
(***************************************************************************)
(* The visualizer (visualizer/src): a component that plays the log of a    *)
(* match turn by turn, its controls, its scoreboard, and the renderer that *)
(* keeps an SVG picture up to date with the turn that is shown.            *)
(*                                                                         *)
(* The match view hands it a log.  The log of a match that is being played *)
(* is one object that grows; another match is another object.  A handler   *)
(* and the commit of the state it sets are one step, as React batches them.*)
(***************************************************************************)
EXTENDS Integers, Sequences, FiniteSetsExt, Functions, TLC

CONSTANTS
    MaxSpeed      \* bound: the speed is halved or doubled that often

SpeedAssumption == MaxSpeed \in Nat

(* What the server made of two matches. *)
Nobody == 0
Planet(x, owner, ships) == [x |-> x, owner |-> owner, ships |-> ships]
Expedition(owner, ships, left) ==
    [owner |-> owner, ships |-> ships, left |-> left]
NoExpeditions == [id \in {} |-> Expedition(1, 0, 0)]
State(planets, expeditions) ==
    [planets |-> planets, expeditions |-> expeditions]

Matches == {"live", "past"}
Script(m) ==
    CASE m = "live" ->
        << State([a |-> Planet(0, 1, 6), b |-> Planet(9, 2, 6)], NoExpeditions),
           State([a |-> Planet(0, 1, 2), b |-> Planet(9, 2, 6)],
                 1 :> Expedition(1, 5, 2)),
           State([a |-> Planet(0, 1, 3), b |-> Planet(9, 2, 1)],
                 1 :> Expedition(1, 5, 1) @@ 2 :> Expedition(2, 6, 3)),
           State([a |-> Planet(0, 1, 4), b |-> Planet(9, 1, 3)],
                 2 :> Expedition(2, 6, 2)) >>
      [] m = "past" ->
        << State([b |-> Planet(-20, 2, 6), c |-> Planet(30, Nobody, 4),
                  d |-> Planet(31, 1, 5)],
                 NoExpeditions),
           State([b |-> Planet(-20, 2, 3), c |-> Planet(30, Nobody, 4),
                  d |-> Planet(31, 1, 6)],
                 1 :> Expedition(2, 4, 1)) >>

VARIABLES
    page,         \* "away", "viewing", or "crashed" once a render has thrown
    received,     \* per match: how many states its log has
    game,         \* the match of this.game
    names,        \* the match whose player names this.game calls players by
    turnNum, speed, playing,
    timer,        \* the speed of the running interval, or NoTimer
    leaked,       \* whether an interval outlived its visualizer
    drawnPlanets, drawnExpeditions,  \* what the SVG holds, by key
    box,          \* the planets the view box was computed for
    zoom          \* transforms of the two layers

playerVars  == <<game, names, turnNum, speed, playing, timer>>
pictureVars == <<drawnPlanets, drawnExpeditions, box, zoom>>
vars == <<page, received, playerVars, leaked, pictureVars>>

Speeds == -MaxSpeed .. MaxSpeed
NoTimer == MaxSpeed + 1
Empty == [k \in {} |-> 0]

\* this.state of a new visualizer; speed s stands for 2^s.
Init ==
    /\ page = "away"
    /\ received = [m \in Matches |-> IF m = "live" THEN 1 ELSE Len(Script(m))]
    /\ game = "live" /\ names = "live"
    /\ turnNum = 0 /\ speed = 0 /\ playing = FALSE
    /\ timer = NoTimer /\ leaked = FALSE
    /\ drawnPlanets = Empty /\ drawnExpeditions = Empty
    /\ box = <<>> /\ zoom = <<0, 0>>

LastTurn(m) == received[m] - 1
GameState(m, t) == Script(m)[t + 1]
-----------------------------------------------------------------------------
(* The scoreboard *)

LivingPlayers(state) ==
    ({state.planets[p].owner : p \in DOMAIN state.planets} \ {Nobody})
    \union {state.expeditions[e].owner : e \in DOMAIN state.expeditions}

\* matchLog.getPlayers: the players of the first state.
Players(m) == LivingPlayers(GameState(m, 0))

CountPlanets(player, state) ==
    Cardinality({p \in DOMAIN state.planets : state.planets[p].owner = player})

ShipsOf(things, player) ==
    MapThenSumSet(LAMBDA k : things[k].ships,
                  {k \in DOMAIN things : things[k].owner = player})

CountShips(player, state) ==
    ShipsOf(state.planets, player) + ShipsOf(state.expeditions, player)

\* Its rows: one for each player of the match.
Scoreboard(m, t) ==
    [player \in Players(m) |->
        [planets |-> CountPlanets(player, GameState(m, t)),
         ships   |-> CountShips(player, GameState(m, t))]]
-----------------------------------------------------------------------------
(* The renderer *)

\* game.playerColor: the colour of a player is by number; 4 colours.
PlayerColor(player) == IF player = Nobody THEN 0 ELSE 1 + ((player - 1) % 4)

PlayerName(m, player) == IF player = Nobody THEN <<>> ELSE <<m, player>>

\* PlanetRenderer.draw: circles are joined by name, entered and updated, and
\* never removed.
Shown(planet, whose) ==
    [ships |-> planet.ships, color |-> PlayerColor(planet.owner),
     title |-> PlayerName(whose, planet.owner)]

DrawPlanets(drawn, planets, whose) ==
    [p \in DOMAIN planets |-> Shown(planets[p], whose)] @@ drawn

\* ExpeditionRenderer.draw: joined by id.  The ship count and the colour are
\* set when it enters, the position and the title with every draw.
DrawExpeditions(drawn, expeditions, whose) ==
    [e \in DOMAIN expeditions |->
        LET entered == IF e \in DOMAIN drawn THEN drawn[e]
                       ELSE [ships |-> expeditions[e].ships,
                             color |-> PlayerColor(expeditions[e].owner)]
        IN [ships |-> entered.ships, color |-> entered.color,
            left |-> expeditions[e].left,
            title |-> PlayerName(whose, expeditions[e].owner)]]

\* calculateViewBox: from the planets of the first state, with a margin of
\* Config.planetSize + Config.orbitSize + Config.padding.
ViewBox(m) ==
    LET planets == GameState(m, 0).planets
        xs == {planets[p].x : p \in DOMAIN planets}
    IN <<Min(xs) - 7, Max(xs) + 7>>

\* Mutant: a new game is drawn over the picture of the old one.
Cleared_not == [planets |-> drawnPlanets, expeditions |-> drawnExpeditions]

\* setupRenderers removes every group.
Cleared == [planets |-> Empty, expeditions |-> Empty]

Draw(on, m, whose, t) ==
    /\ drawnPlanets' = DrawPlanets(on.planets, GameState(m, t).planets, whose)
    /\ drawnExpeditions' =
         DrawExpeditions(on.expeditions, GameState(m, t).expeditions, whose)

\* componentDidMount, and componentDidUpdate with another game.
DrawNewGame(m, whose) ==
    /\ box' = ViewBox(m)
    /\ zoom' = <<0, 0>>
    /\ Draw(Cleared, m, whose, 0)

\* componentDidUpdate with the same game: draw if the turn is another.
DrawTurn(t) ==
    /\ UNCHANGED <<box, zoom>>
    /\ IF t = turnNum
       THEN UNCHANGED <<drawnPlanets, drawnExpeditions>>
       ELSE Draw([planets |-> drawnPlanets, expeditions |-> drawnExpeditions],
                 game, names, t)

\* The zoom behaviour moves the two layers of the game that is shown.
Zoom ==
    /\ page = "viewing"
    /\ zoom' \in {<<k, k>> : k \in 0 .. 1} \ {zoom}
    /\ UNCHANGED <<page, received, playerVars, leaked, drawnPlanets,
                   drawnExpeditions, box>>
-----------------------------------------------------------------------------
(* The visualizer *)

Clamped(num, t) == Min({num, t})

\* Mutant: the turn is compared before it is clamped.
StopsAt_exactly(num, t) == num = t

\* setTurn: whether the turn num, clamped to t, is the last.
StopsAt(num, t) == num >= t

\* setTurn.  There is no state before the first: a render of turn -1 throws,
\* React unmounts the tree, and the callback of setPlaying(false) that would
\* stop the timer never runs.
SetTurn(num) ==
    LET t == Clamped(num, LastTurn(game)) IN
    /\ turnNum' = t
    /\ playing' = (playing /\ ~StopsAt(num, LastTurn(game)))
    /\ timer' = IF StopsAt(num, LastTurn(game)) THEN NoTimer ELSE timer
    /\ IF t < 0
       THEN /\ page' = "crashed"
            /\ leaked' = (leaked \/ timer # NoTimer)
            /\ UNCHANGED pictureVars
       ELSE DrawTurn(t) /\ UNCHANGED <<page, leaked>>
    /\ UNCHANGED <<received, game, names, speed>>

\* The buttons and the slider of the controls.
Click ==
    /\ page = "viewing"
    /\ \/ SetTurn(0)
       \/ SetTurn(turnNum - 1)
       \/ SetTurn(turnNum + 1)
       \/ \E t \in 0 .. LastTurn(game) : SetTurn(t)

\* nextTurn, called by the interval.
Tick ==
    /\ page = "viewing"
    /\ timer # NoTimer
    /\ SetTurn(turnNum + 1)

\* setTimer: stop the old timer, start one with the delay of the speed.
Restarted(s) == s

\* The play and pause buttons: setPlaying.
SetPlaying ==
    /\ page = "viewing"
    /\ playing' = ~playing
    /\ timer' = IF ~playing THEN Restarted(speed) ELSE NoTimer
    /\ UNCHANGED <<page, received, game, names, turnNum, speed, leaked,
                   pictureVars>>

SetSpeed ==
    /\ page = "viewing"
    /\ speed' \in Speeds \intersect {speed - 1, speed + 1}
    /\ timer' = IF playing THEN Restarted(speed') ELSE timer
    /\ UNCHANGED <<page, received, game, names, turnNum, playing, leaked,
                   pictureVars>>

\* setGame(m), with the player names of the match whose: turn 0, and play.
SetGame(m, whose) ==
    /\ game' = m /\ names' = whose
    /\ turnNum' = 0 /\ playing' = TRUE
    /\ DrawNewGame(m, whose)

\* componentDidMount.  After a crash the match view shows the error until its
\* page is left; the next visualizer is a new one.
Open(m) ==
    /\ page \in {"away", "crashed"}
    /\ page' = "viewing"
    /\ speed' = 0
    /\ timer' = 0
    /\ SetGame(m, m)
    /\ UNCHANGED <<received, leaked>>

\* componentWillReceiveProps with another log.  this.props, where setGame
\* takes the player names, are still the old ones.
Switch(m) ==
    /\ page = "viewing"
    /\ m # game
    /\ SetGame(m, game)
    /\ timer' = Restarted(speed)
    /\ UNCHANGED <<page, received, speed, leaked>>

\* The match that is being played goes on.  A visualizer that shows it is
\* rendered with the same log; neither game nor turn is another.
GrowLog ==
    /\ received["live"] < Len(Script("live"))
    /\ received' = [received EXCEPT !["live"] = @ + 1]
    /\ UNCHANGED <<page, playerVars, leaked, pictureVars>>

\* componentWillUnmount: setPlaying(false) on a component that goes away
\* neither sets the state nor calls back.
Leave ==
    /\ page = "viewing"
    /\ page' = "away"
    /\ leaked' = (leaked \/ timer # NoTimer)
    /\ timer' = NoTimer
    /\ UNCHANGED <<received, game, names, turnNum, speed, playing, pictureVars>>

Next ==
    \/ Click \/ Tick \/ SetPlaying \/ SetSpeed \/ Zoom
    \/ GrowLog \/ Leave
    \/ \E m \in Matches : Open(m) \/ Switch(m)

Spec == Init /\ [][Next]_vars /\ WF_vars(Tick)
-----------------------------------------------------------------------------
\* The types of the state; a viewer shows a turn its log has.
TypeOK ==
    /\ page \in {"away", "viewing", "crashed"}
    /\ received \in [Matches -> 1 .. 4]
    /\ game \in Matches /\ names \in Matches
    /\ turnNum \in -1 .. 3 /\ speed \in Speeds
    /\ playing \in BOOLEAN /\ leaked \in BOOLEAN
    /\ timer \in Speeds \union {NoTimer}
    /\ page = "viewing" => turnNum \in 0 .. LastTurn(game)

\* The picture holds the planets and the expeditions of the turn that is
\* shown and nothing else, however the viewer got to that turn: forwards or
\* backwards, in a log that grows, after another match with other planets.
PictureShowsTurn ==
    page = "viewing" =>
        LET state == GameState(game, turnNum) IN
        /\ DOMAIN drawnPlanets = DOMAIN state.planets
        /\ DOMAIN drawnExpeditions = DOMAIN state.expeditions
        /\ \A p \in DOMAIN drawnPlanets :
             /\ drawnPlanets[p].ships = state.planets[p].ships
             /\ drawnPlanets[p].color = PlayerColor(state.planets[p].owner)
             /\ state.planets[p].x \in box[1] + 1 .. box[2] - 1
        /\ \A e \in DOMAIN drawnExpeditions :
             /\ drawnExpeditions[e].ships = state.expeditions[e].ships
             /\ drawnExpeditions[e].left = state.expeditions[e].left
             /\ drawnExpeditions[e].color =
                  PlayerColor(state.expeditions[e].owner)
        /\ zoom[1] = zoom[2]

\* A viewer has a timer if and only if it plays, and the timer runs at the
\* speed that is shown.
TimerKeepsPace ==
    page = "viewing" => timer = IF playing THEN speed ELSE NoTimer

\* The rows of the scoreboard account for every planet that is owned and
\* every ship of the turn that is shown, also those of players who are out.
ScoreboardAddsUp ==
    page = "viewing" =>
        LET state == GameState(game, turnNum)
            rows == Scoreboard(game, turnNum)
            owned == {p \in DOMAIN state.planets : state.planets[p].owner # Nobody}
        IN /\ MapThenSumSet(LAMBDA r : rows[r].planets, DOMAIN rows)
                = Cardinality(owned)
           /\ MapThenSumSet(LAMBDA r : rows[r].ships, DOMAIN rows)
                = MapThenSumSet(LAMBDA p : state.planets[p].ships, owned)
                  + MapThenSumSet(LAMBDA e : state.expeditions[e].ships,
                                  DOMAIN state.expeditions)

\* A viewer left alone plays to the last turn it has and stops its timer.
PlaysToTheEnd ==
    <>[][Tick]_vars => <>[](page = "viewing" => timer = NoTimer)

\* What the code does not keep (reducers/root.ts: components are functions
\* of the global state): the titles of planets and expeditions name the
\* players of the match that is shown.
TitlesNameTheMatch ==
    page = "viewing" =>
        \A p \in DOMAIN drawnPlanets :
            drawnPlanets[p].title = <<>> \/ drawnPlanets[p].title[1] = game

\* What the code does not keep (controls.ts: 'Go to previous turn'): no
\* button takes the viewer down.
ButtonsDoNotCrash == page # "crashed"
=============================================================================
