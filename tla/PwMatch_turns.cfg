\* Two players, two turns.  Six stimuli: the control client connects, adds two
\* players and starts the game, which leaves two for the players' connections,
\* or for reconnects, removals and stray messages.
CONSTANTS
    MaxClients = 2
    MaxTurns = 2
    MaxStimuli = 6
SPECIFICATION Spec
INVARIANTS
    TypeOK
    OneRequestPerAwaitedPlayer
    ControlSeesEveryTurn
PROPERTY ImplementsTurnBarrier
CHECK_DEADLOCK FALSE
