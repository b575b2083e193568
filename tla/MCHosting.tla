----------------------------- MODULE MCHosting -----------------------------
(***************************************************************************)
(* Hosting a match, for TLC: the lobby of the app and the log of the       *)
(* match.  They have no state in common, so in each behaviour one `part`   *)
(* runs and the other waits in its initial state: nothing is lost by that, *)
(* and the scopes are added instead of multiplied.  Two parts of one       *)
(* module are two scopes of it and share its variables.                    *)
(*                                                                         *)
(*    lobby         LobbySlots in the scope of the configuration: a user   *)
(*                  who waits for the answer to each click                 *)
(*    races         a user who clicks at any time, and frames in one chunk *)
(*    view, stats   MatchLogs: two turns of two players; the statistics of *)
(*                  two planets                                            *)
(***************************************************************************)
EXTENDS LobbySlots

CONSTANTS
    Unowned,                    \* the owner of a neutral planet
    Viewers,                    \* players of the log that is viewed
    Counted, CountedPlanets,    \* players and planets of the statistics
    MaxTurns

VARIABLES
    part,
    \* MatchLogs
    owners, outcome, heard, replied, received, reported, log, joined

logVars == <<owners, outcome, heard, replied, received, reported, log, joined>>
hostingVars == <<part, vars, logVars>>
-----------------------------------------------------------------------------
\* Answers and news of players are on their way together.
Races == INSTANCE LobbySlots WITH
    SlotCounts <- {1}, MaxInFlight <- 2, MaxTokens <- 2,
    UserWaits <- FALSE, Coalesced <- TRUE

View  == INSTANCE MatchLogs WITH
    Players <- Viewers, Planets <- {}, Neutral <- Unowned

Stats == INSTANCE MatchLogs WITH
    Players <- Counted, Planets <- CountedPlanets, Neutral <- Unowned

ASSUME HostingAssumption ==
    /\ LobbyAssumption /\ Races!LobbyAssumption
    /\ View!LogAssumption /\ Stats!LogAssumption
-----------------------------------------------------------------------------
HostingInit ==
    /\ part \in {"lobby", "races", "view", "stats"}
    /\ IF part = "races" THEN Races!Init ELSE Init
    /\ IF part = "stats" THEN Stats!Init ELSE View!Init

HostingNext ==
    \/ part = "lobby" /\ Next       /\ UNCHANGED <<part, logVars>>
    \/ part = "races" /\ Races!Next /\ UNCHANGED <<part, logVars>>
    \/ part = "view"  /\ View!Next  /\ UNCHANGED <<part, vars>>
    \/ part = "stats" /\ Stats!Next /\ UNCHANGED <<part, vars>>

HostingSpec == HostingInit /\ [][HostingNext]_hostingVars
-----------------------------------------------------------------------------
\* The types of every part's state.
HostingTypeOK ==
    /\ part = "lobby" => TypeOK
    /\ part = "races" => Races!TypeOK
    /\ part = "view"  => View!TypeOK
    /\ part = "stats" => Stats!TypeOK

\* For a user who waits for answers, the slots are the players of the server
\* one to one, through kicks, other maps, restarts and crashes of the server,
\* up to the match that is saved; and no listener throws (Lobby.tsx:119-339).
SlotsStayThePlayers ==
    part = "lobby" =>
        /\ SlotsAreThePlayers
        /\ NewsFindsItsSlot
        /\ ConnectedClientsShown
        /\ SavedWithItsPlayers
        /\ LogsAreFiledBySlot

\* A row of the log view shows the turns of its state and a parse error its
\* own output, wherever the clients are; a joined log read to the end agrees
\* with the hosted one (MatchLog.ts:113-135, LogView.tsx:23-38).
LogsShowTheirTurns ==
    /\ part = "view"  => View!RowsShowTheirTurn /\ View!ErrorsShowTheirOutput
    /\ part = "stats" => Stats!JoinedLogAgrees /\ Stats!ScoresAddUp
=============================================================================
