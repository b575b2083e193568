---------------------------- MODULE TurnBarrier ----------------------------
(***************************************************************************)
(* What a match promises its players: turns are played one at a time, and  *)
(* a turn is played when every player still in the game has given exactly  *)
(* one answer, to the prompt of that very turn.  The number of players     *)
(* left never grows, and the game is over when fewer than two are left or  *)
(* the last turn has been played.  PwMatch implements it.                  *)
(***************************************************************************)
EXTENDS Naturals, FiniteSets

CONSTANTS Players, MaxTurns

VARIABLES
    stage,    \* "setup", "turns" or "over"
    turn,     \* turns played
    living,   \* the players in the game
    answers   \* player -> the prompt its answer of this turn is for

vars == <<stage, turn, living, answers>>

Unanswered == living \ DOMAIN answers

Over(left, t) == Cardinality(left) < 2 \/ t >= MaxTurns

Init ==
    /\ stage = "setup"
    /\ turn = 0
    /\ living = {}
    /\ DOMAIN answers = {}

Start ==
    /\ stage = "setup"
    /\ stage' = "turns"
    /\ living' \in SUBSET Players
    /\ UNCHANGED <<turn, answers>>

\* Player p answers the prompt of this turn, and is not the last to do so.
Collect(p) ==
    /\ stage = "turns"
    /\ p \in Unanswered
    /\ Unanswered # {p}
    /\ answers' = [q \in DOMAIN answers \union {p} |->
                       IF q = p THEN turn ELSE answers[q]]
    /\ UNCHANGED <<stage, turn, living>>

\* The last answer comes in and the turn is played; some players survive it.
Play ==
    /\ stage = "turns"
    /\ Cardinality(Unanswered) <= 1
    /\ Unanswered = {} => living = {}
    /\ turn' = turn + 1
    /\ DOMAIN answers' = {}
    /\ \E survivors \in SUBSET living :
        IF Over(survivors, turn + 1)
        THEN stage' = "over" /\ living' = {}
        ELSE stage' = stage /\ living' = survivors

\* A game that is over before its first turn may end without playing it.
Abandon ==
    /\ stage = "turns"
    /\ turn = 0 /\ Over(living, 0)
    /\ stage' = "over"
    /\ UNCHANGED <<turn, living>>

Next == Start \/ Play \/ Abandon \/ \E p \in living : Collect(p)

Spec == Init /\ [][Next]_vars
=============================================================================
