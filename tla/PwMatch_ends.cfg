\* Liveness, for a game of two players.
CONSTANTS
    MaxClients = 2
    MaxTurns = 2
    MaxStimuli = 5
SPECIFICATION FairSpec
PROPERTY GameEndsIfAnswered
CHECK_DEADLOCK FALSE
