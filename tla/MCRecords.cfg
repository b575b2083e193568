\* One match hosted in the lobby, one joined elsewhere; the parts that show
\* matches have both.
SPECIFICATION AppSpec
CONSTANTS
    Hosted = {h}
    Joined = {j}
    Maps = {m1}
    Bots = {bot1}
    MaxEntries = 1
    MaxWrites = 2
    MaxNotes = 2
    NoMatch = NoMatch
    NoLog = NoLog
    Throws = Throws
    NoOwner = NoOwner
    Invalid = Invalid
    NoMap = NoMap
    OldBots = {bot1, bot2}
    MaxScore = 1
    MaxShown = 3
    Lineups <- AppLineups
    MaxTime = 1
    Configs = {"one", "two"}
    Blank = "blank"
    MaxBots = 3
    Contents <- AppContents
    Fields = {500, 100}
    Default = 500
    MaxMaps = 3
INVARIANTS
    AppTypeOK
    DatabaseKeepsTheStore
    PagesShowTheStore
PROPERTIES
    WhatIsDoneStaysDone
    PagesAndFilesCatchUp
\* The list of matches stops at the bounds of its clock and its matches.
CHECK_DEADLOCK FALSE
