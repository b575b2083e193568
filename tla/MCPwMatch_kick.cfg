\* Three players, so that one can be dead while the game goes on.  Five stimuli
\* are what it takes to start their game, which leaves one for a player to
\* connect and answer.
CONSTANTS
    MaxClients = 3
    MaxTurns = 2
    MaxStimuli = 6
SPECIFICATION Spec
INVARIANTS
    ResponsesComeFromPlayers
    PlayerDialogue
    EveryoneGetsFinalState
CONSTRAINT QuietClients
CHECK_DEADLOCK FALSE
