\* The lobby: clients are added and removed, and connect, disconnect and
\* reconnect while the control client talks to the lobby.
CONSTANTS
    MaxClients = 2
    MaxTurns = 0
    MaxStimuli = 7
SPECIFICATION Spec
INVARIANTS
    ControlKnowsTheClient
    ControlKnowsTheConnection
CHECK_DEADLOCK FALSE
