\* The user waits for the answer to each click; the other scopes are in the
\* module.
SPECIFICATION HostingSpec
CONSTANTS
    Bots = {b1}
    SlotCounts = {1, 2}
    Ports = {1}
    MaxTokens = 3
    MaxServers = 2
    MaxInFlight = 1
    UserWaits = TRUE
    Coalesced = FALSE
    Unowned = 0
    Viewers = {1, 2}
    Counted = {1}
    CountedPlanets = {p1, p2}
    MaxTurns = 2
INVARIANTS
    HostingTypeOK
    LobbyBooksAgree
    SlotsStayThePlayers
    LogsShowTheirTurns
\* The server may have exited, the game may be over.
CHECK_DEADLOCK FALSE
