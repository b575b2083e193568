\* Two connections, under one token or two, three sockets and two messages.
CONSTANTS
    Tokens = {t1, t2}
    MaxConnections = 2
    MaxStreams = 3
    MaxMessages = 2
SPECIFICATION Spec
INVARIANTS
    TypeOK
    InOrderAndOnce
    OneLossPerDisconnect
    StreamReachesItsConnection
    OnlyReplacedRoutesClose
    MatchKnowsConnection
SYMMETRY TokenSymmetry
CHECK_DEADLOCK FALSE
