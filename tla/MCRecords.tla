----------------------------- MODULE MCRecords -----------------------------
(***************************************************************************)
(* What the app keeps and shows, for TLC: the matches in store, database   *)
(* and logs, databases of older versions, and the pages.  They have no     *)
(* state in common, so in each behaviour one `part` runs and the others    *)
(* wait in their initial states.                                           *)
(*                                                                         *)
(*    hosted      MatchRecords while matches in the lobby of the app are   *)
(*                played                                                   *)
(*    joined      MatchRecords while matches elsewhere are; the two are    *)
(*                scopes of one module and share its variables             *)
(*    migration   Migration: two bots and a match of theirs, in any of the *)
(*                versions                                                 *)
(*    view        MatchView: a match hosted, one joined, three entries     *)
(*    list        MatchList: two matches, of one and of three players      *)
(*    tiles       BotTiles: three bots, two configurations                 *)
(*    picker      MapPicker: three maps, of two or three slots             *)
(***************************************************************************)
EXTENDS MatchRecords

CONSTANTS
    NoMatch, NoLog, Throws, NoOwner, Invalid, NoMap,
    OldBots, MaxScore,         \* Migration; MatchList has scores too
    MaxShown,                  \* MatchView
    Lineups, MaxTime,          \* MatchList
    Configs, Blank, MaxBots,   \* BotTiles
    Contents, Fields, Default, MaxMaps    \* MapPicker

VARIABLES
    part,
    \* Migration
    old_file, written, phase, db, writing, imported,
    \* MatchView
    status, live, logs, view_onDisk, view_page, selected, matchLog, logPos,
    error,
    \* MatchList
    matches, now,
    \* BotTiles
    bots, bot_uuids, bots_page, tiles, adder,
    \* MapPicker
    maps, disk, imports, map_uuids, host_page, form, config, previews, reading,
    atOpening

migration == <<old_file, written, phase, db, writing, imported>>
view      == <<status, live, logs, view_onDisk, view_page, selected, matchLog,
               logPos, error>>
list      == <<matches, now>>
botTiles  == <<bots, bot_uuids, bots_page, tiles, adder>>
picker    == <<maps, disk, imports, map_uuids, host_page, form, config,
               previews, reading, atOpening>>
appVars   == <<part, vars, migration, view, list, botTiles, picker>>
-----------------------------------------------------------------------------
Old == INSTANCE Migration WITH
    Bots <- OldBots, file <- old_file, store <- imported

View == INSTANCE MatchView WITH
    MaxEntries <- MaxShown,
    onDisk <- view_onDisk, page <- view_page

List == INSTANCE MatchList

Tiles == INSTANCE BotTiles WITH uuids <- bot_uuids, page <- bots_page

Picker == INSTANCE MapPicker WITH
    Values <- Fields, uuids <- map_uuids, page <- host_page

ASSUME AppAssumption ==
    /\ RecordsAssumption
    /\ Old!MigrationAssumption /\ View!ViewAssumption /\ List!ListAssumption
    /\ Tiles!BotsAssumption /\ Picker!PickerAssumption
-----------------------------------------------------------------------------
(* Values of constants, for the configuration *)

\* A match of one player or of three.
AppLineups == {<<"me">>, <<"b", "me", "b">>}

\* The owners of the planets; in the second map one is neutral and two are of
\* one player.
AppContents == {<<1, 2>>, <<1, NoOwner, 1, 2>>}
-----------------------------------------------------------------------------
\* Only the part of the migration starts in more than one state.
AppInit ==
    /\ part \in {"hosted", "joined", "migration", "view", "list", "tiles", "picker"}
    /\ Init
    /\ Old!Init /\ (part = "migration" \/ old_file.version = "v1")
    /\ View!Init /\ List!Init /\ Tiles!Init /\ Picker!Init

\* The matches of a part that runs MatchRecords: one scope plays those of the
\* lobby, one those elsewhere.
Recording == part \in {"hosted", "joined"}
Played == IF part = "joined" THEN Joined ELSE Hosted

AppNext ==
    \/ /\ Recording /\ Next
       /\ \A m \in Matches \ Played : runner'[m] = "none"
       /\ UNCHANGED <<part, migration, view, list, botTiles, picker>>
    \/ /\ part = "migration" /\ Old!Next
       /\ UNCHANGED <<part, vars, view, list, botTiles, picker>>
    \/ /\ part = "view" /\ View!Next
       /\ UNCHANGED <<part, vars, migration, list, botTiles, picker>>
    \/ /\ part = "list" /\ List!Next
       /\ UNCHANGED <<part, vars, migration, view, botTiles, picker>>
    \/ /\ part = "tiles" /\ Tiles!Next
       /\ UNCHANGED <<part, vars, migration, view, list, picker>>
    \/ /\ part = "picker" /\ Picker!Next
       /\ UNCHANGED <<part, vars, migration, view, list, botTiles>>

\* Updates of the database are made and dbSync actions dispatched by the event
\* loop; the file system answers.
AppFairness ==
    /\ WF_vars(part = "hosted" /\ UpdateDatabase)
    /\ WF_vars(part = "hosted" /\ DbSync)
    /\ WF_picker(part = "picker" /\ \E read \in reading : Picker!ReadFile(read))

AppSpec == AppInit /\ [][AppNext]_appVars /\ AppFairness
-----------------------------------------------------------------------------
\* The types of every part's state.
AppTypeOK ==
    /\ Recording => TypeOK
    /\ part = "migration" => Old!TypeOK
    /\ part = "view"      => View!TypeOK
    /\ part = "tiles"     => Tiles!TypeOK
    /\ part = "picker"    => Picker!TypeOK

\* Once the writes under way are done the database holds what the store
\* holds, a match is finished only if its log can be shown, also after a
\* restart, and the migration of an older database loses nothing, wherever the
\* start is cut short, before its write is done or after (Database.ts:44-133,
\* matches.ts:196-219, migrate.ts).
DatabaseKeepsTheStore ==
    /\ Recording => DatabaseFollowsStore /\ FinishedMatchesHaveLogs
    /\ part = "migration" => Old!NothingIsLost /\ Old!FileIsOldOrNew

\* The outcome of a match is announced and final, a dbSync writes nothing, and a
\* deleted bot stays away; a tile edits the bot it was opened
\* for while bots are only added, and the page of matches goes down on empty
\* logs only (matches.ts:196-236, bots.ts, MatchView.tsx).
WhatIsDoneStaysDone ==
    /\ [][Recording =>
            /\ OutcomesAreFinal
            /\ EndsAreAnnounced
            /\ OnlyChangesAreWritten
            /\ RemovedBotsStayAway]_vars
    /\ [][part = "tiles" => /\ Tiles!DeletedBotsStayAway
                            /\ Tiles!AdditionsLeaveTilesAlone]_botTiles
    /\ [][part = "view" => View!CrashesOnEmptyFilesOnly]_view

\* A page shows what the store holds: the whole log of its match, the list in
\* its order with everybody's own name and place, each bot once, under each
\* map its picture, and to the lobby goes what the form shows (MatchView.tsx,
\* Matches.tsx, Bots.tsx, Config.tsx, MapPreview.tsx).
PagesShowTheStore ==
    /\ part = "view"   => View!ShowsTheWholeLog
    /\ part = "list"   => /\ List!NewestFirst
                          /\ List!RankedByOutcome
                          /\ List!NamesAgree
    /\ part = "tiles"  => Tiles!BotsAreUnique
    /\ part = "picker" => Picker!PreviewsShowTheirMap /\ Picker!LobbyGetsTheForm

\* A store that is left alone is in the database before long, and each
\* preview shows its map in the end (Database.ts:125-133, MapPreview.tsx).
PagesAndFilesCatchUp ==
    /\ part = "hosted" => Synchronises
    /\ Picker!PreviewsLoad
-----------------------------------------------------------------------------
(* Not kept: what TLC refutes when it is added to the configuration, with  *)
(* CompletesPlayingMatches and NotificationsAreRestored of MatchRecords.   *)

\* Winners are the numbers of those that had won (migrate.ts:121).
WinnersAreNumbered == Old!WinnersAreNumbered

\* The start never ends without the database (migrate.ts:89).
StoreIsPopulated == Old!StoreIsPopulated

\* A finished match is not shown as one in progress (MatchView.tsx:69).
FinishedMatchesAreShown == View!FinishedMatchesAreShown

\* A match can be shown after the viewer of another crashed
\* (MatchView.tsx:106).
CrashesStayWithTheirMatch == [][View!CrashesStayWithTheirMatch]_view

\* A tile in which nothing was typed shows the bot in its place
\* (Bots.tsx:39).
TilesShowTheStore == Tiles!TilesShowTheStore

\* A map has as many slots as players (Importer.ts:18).
SlotsArePlayers == Picker!SlotsArePlayers
=============================================================================
