---------------------------- MODULE MatchRecords ----------------------------
(***************************************************************************)
(* The records of the desktop client: the tables of the redux store        *)
(* (reducers), the database that follows them (Database.ts), the default   *)
(* maps and bots that are imported when there are none (Setup.ts), and the *)
(* life of a match in the table of matches (actions/matches): saved when   *)
(* it is played, completed or errored when its server or client ends.      *)
(*                                                                         *)
(* A dispatch is one step: the reducers run, then the listener of the      *)
(* database, which puts what changed on its way to the database.  Writes   *)
(* are promises, and the file is written later still: the app may be quit  *)
(* in between.                                                             *)
(***************************************************************************)
EXTENDS Naturals, SequencesExt

CONSTANTS
    Hosted, Joined,      \* matches hosted in the lobby, joined elsewhere
    Maps, Bots,          \* files of default maps and bots
    MaxEntries,          \* bound: entries in the log of a match
    MaxWrites,           \* bound: writes under way while the user acts
    MaxNotes             \* bound: notifications while the user acts

RecordsAssumption ==
    /\ Hosted \intersect Joined = {} /\ Maps \intersect Bots = {}
    /\ MaxEntries \in Nat /\ MaxWrites \in Nat /\ MaxNotes \in Nat

Matches == Hosted \union Joined
Tables == {"matches", "bots", "maps", "notifications"}

VARIABLES
    app,         \* "down", "up"
    store,       \* the tables of the redux store
    seen,        \* TableListener.oldValue, per table
    writes,      \* updates on their way to the database, in order
    syncs,       \* dbSync actions to be dispatched
    mem, file,   \* the state of the database, and the file it is written to
    toImport,    \* default maps and bots that are being imported
    runner,      \* the server or the client that plays a match
    onDisk,      \* per match: entries in its log file
    thrown       \* what the last handler threw

dbVars    == <<store, seen, writes, syncs>>
matchVars == <<runner, onDisk, thrown>>
vars == <<app, dbVars, mem, file, toImport, matchVars>>

NoRecords == [matches |-> [m \in Matches |-> "none"], bots |-> {}, maps |-> {},
              notifications |-> <<>>]

Init ==
    /\ app = "down"
    /\ store = NoRecords /\ seen = NoRecords
    /\ writes = <<>> /\ syncs = 0
    /\ mem = NoRecords /\ file = NoRecords
    /\ toImport = {}
    /\ runner = [m \in Matches |-> "none"]
    /\ onDisk = [m \in Matches |-> 0]
    /\ thrown = "nothing"
-----------------------------------------------------------------------------
(* The store and the database *)

\* Mutant: the listener does not remember what it wrote.
Remembered_not(state) == seen

\* TableListener.select remembers the value it was given.
Remembered(state) == state

\* SCHEMA: each table of the store has one of the same name in the database.
Accessor(t) == t

Write(table, value) == [table |-> Accessor(table), value |-> value]

\* changeListener: one write for each table that is not what it was.
WritesFor(state) ==
    SetToSeq({Write(t, state[t]) : t \in {u \in Tables : state[u] # seen[u]}})

\* A dispatch that leaves the store in this state.
Dispatch(state) ==
    /\ store' = state
    /\ writes' = writes \o WritesFor(state)
    /\ seen' = Remembered(state)

\* TableListener.write, when the database is there: update its state, write
\* the file, and dispatch dbSync, which no reducer handles.
UpdateDatabase ==
    /\ app = "up"
    /\ writes # <<>>
    /\ mem' = [mem EXCEPT ![Head(writes).table] = Head(writes).value]
    /\ writes' = Tail(writes)
    /\ syncs' = syncs + 1
    /\ UNCHANGED <<app, store, seen, file, toImport, matchVars>>

DbSync ==
    /\ app = "up"
    /\ syncs > 0
    /\ syncs' = syncs - 1
    /\ Dispatch(store)
    /\ UNCHANGED <<app, mem, file, toImport, matchVars>>

\* The adapter of the database writes its latest state.
WriteFile ==
    /\ app = "up"
    /\ file # mem
    /\ file' = mem
    /\ UNCHANGED <<app, dbVars, mem, toImport, matchVars>>

\* initializeListeners: start from what was just imported.
InitialSeen(state) == state

\* What bindToStore imports.  No reducer handles the import of a notification.
Imported(db) == [db EXCEPT !.notifications = <<>>]

\* populateMaps and populateBots: the default maps if there is no map, the
\* default bots if there is no bot.
DefaultsFor(state) ==
    (IF state.maps = {} THEN Maps ELSE {})
        \union (IF state.bots = {} THEN Bots ELSE {})

\* Start the app: initializeDirs, bindToStore, renderApp, populateMaps and
\* populateBots.
Start ==
    /\ app = "down"
    /\ app' = "up"
    /\ mem' = file
    /\ store' = Imported(file)
    /\ seen' = InitialSeen(Imported(file))
    /\ toImport' = DefaultsFor(Imported(file))
    /\ writes' = <<>> /\ syncs' = 0
    /\ thrown' = "nothing"
    /\ UNCHANGED <<file, runner, onDisk>>

\* Mutant: what is imported is added as a bot.
FiledUnder_bots(d) == "bots"

FiledUnder(d) == IF d \in Maps THEN "maps" ELSE "bots"

\* importMapFromFile and IMPORT_MAP; copyFile and ADD_BOT.
ImportDefault(d) ==
    /\ app = "up"
    /\ d \in toImport
    /\ toImport' = toImport \ {d}
    /\ Dispatch([store EXCEPT ![FiledUnder(d)] = @ \union {d}])
    /\ UNCHANGED <<app, mem, file, syncs, matchVars>>

\* A server or a client that has not ended.
Alive(m) == app = "up" /\ runner[m] \in {"running", "failed"}

\* Quit, or crash: what was not written is lost, servers and clients end.
Quit ==
    /\ app = "up"
    /\ app' = "down"
    /\ store' = NoRecords /\ seen' = NoRecords
    /\ writes' = <<>> /\ syncs' = 0
    /\ mem' = NoRecords
    /\ toImport' = {}
    /\ runner' = [m \in Matches |-> IF Alive(m) THEN "ended" ELSE runner[m]]
    /\ UNCHANGED <<file, onDisk, thrown>>
-----------------------------------------------------------------------------
(* The user *)

Acts == app = "up" /\ Len(writes) + syncs < MaxWrites
                   /\ Len(store.notifications) < MaxNotes

RemoveBot(b) ==
    /\ Acts
    /\ b \in store.bots
    /\ Dispatch([store EXCEPT !.bots = @ \ {b}])
    /\ UNCHANGED <<app, mem, file, syncs, toImport, matchVars>>

\* REMOVE_NOTIFICATION splices by position; CLEAR_NOTIFICATION of some.
RemoveNotification ==
    /\ app = "up" /\ Len(writes) + syncs < MaxWrites
    /\ store.notifications # <<>>
    /\ \E kept \in {<<>>, Tail(store.notifications)} :
         Dispatch([store EXCEPT !.notifications = kept])
    /\ UNCHANGED <<app, mem, file, syncs, toImport, matchVars>>
\* CLEAR_NOTIFICATION of none makes a new list: what changeListener compares is
\* not the old one, and is written although nothing changed.
ClearEmptyList ==
    /\ app = "up" /\ Len(writes) + syncs < MaxWrites
    /\ store.notifications = <<>>
    /\ writes' = Append(writes, Write("notifications", <<>>))
    /\ UNCHANGED <<app, store, seen, syncs, mem, file, toImport, matchVars>>
-----------------------------------------------------------------------------
(* Matches *)

SaveMatch(state, m, status) == [state EXCEPT !.matches[m] = status]

Notify(state, m, type) ==
    [state EXCEPT !.notifications = Append(@, <<type, m>>)]

\* joinMatch and Lobby.launchGame: save the match while it is played.
PlayMatch(m) ==
    /\ Acts
    /\ runner[m] = "none"
    /\ m \in Joined => store.bots # {}
    /\ runner' = [runner EXCEPT ![m] = "running"]
    /\ Dispatch(SaveMatch(store, m, "playing"))
    /\ UNCHANGED <<app, mem, file, syncs, toImport, onDisk, thrown>>

\* The logger's stream writes an entry, some time after the match logged it,
\* and maybe after the match has ended.
WriteLog(m) ==
    /\ app = "up"
    /\ runner[m] # "none"
    /\ onDisk[m] < MaxEntries
    /\ onDisk' = [onDisk EXCEPT ![m] = @ + 1]
    /\ UNCHANGED <<app, dbVars, mem, file, toImport, runner, thrown>>

\* Mutant: any match can be completed.
Completable_any(state, m) == TRUE

\* completeMatch throws if the match is not playing.
Completable(state, m) == state.matches[m] = "playing"

\* parseLog throws if the log file is empty.
Parses(m) == onDisk[m] > 0

\* completeMatch.  What it throws is what it was dispatched from throws.
CompletionThrows(state, m) ==
    CASE ~Completable(state, m) -> "not_playing"
      [] Completable(state, m) /\ ~Parses(m) -> "no_log"
      [] OTHER -> "nothing"

Completed(state, m) ==
    IF CompletionThrows(state, m) = "nothing" THEN SaveMatch(state, m, "finished")
                                              ELSE state

\* handleMatchError: a joined match never errors.
Errored(state, m) ==
    IF m \in Hosted /\ state.matches[m] = "playing"
    THEN SaveMatch(state, m, "error") ELSE state

\* onError of a server: it exits with a code that is not 0, or the process has
\* an error.  The lobby notifies, then updates the match.
ServerFails(m) ==
    /\ Alive(m) /\ runner[m] = "running"
    /\ m \in Hosted
    /\ runner' = [runner EXCEPT ![m] = "failed"]
    /\ Dispatch(Errored(Notify(store, m, "Error"), m))
    /\ UNCHANGED <<app, mem, file, syncs, toImport, onDisk, thrown>>

Ends(m) ==
    /\ Alive(m)
    /\ runner' = [runner EXCEPT ![m] = "ended"]
    /\ UNCHANGED <<app, mem, file, syncs, toImport, onDisk>>

\* onExit of a server, which follows an error too.
ServerExits(m) ==
    /\ m \in Hosted
    /\ Ends(m)
    /\ Dispatch(Completed(Notify(store, m, "Finished"), m))
    /\ thrown' = CompletionThrows(store, m)

\* The bot of a joined match, or its connection, has an error.
ClientErrors(m) ==
    /\ Acts /\ Alive(m)
    /\ m \in Joined
    /\ Dispatch(Notify(Errored(store, m), m, "Error"))
    /\ UNCHANGED <<app, mem, file, syncs, toImport, matchVars>>

\* A joined match is completed first; if that throws nobody is told.
Announced(state, m) ==
    IF thrown' = "nothing" THEN Notify(state, m, "Finished") ELSE state

\* The connection of a joined match is closed.
ClientExits(m) ==
    /\ m \in Joined
    /\ Ends(m)
    /\ thrown' = CompletionThrows(store, m)
    /\ Dispatch(Announced(Completed(store, m), m))

Next ==
    \/ Start \/ Quit \/ UpdateDatabase \/ DbSync \/ WriteFile
    \/ RemoveNotification \/ ClearEmptyList
    \/ \E d \in Maps \union Bots : ImportDefault(d) \/ RemoveBot(d)
    \/ \E m \in Matches :
         \/ PlayMatch(m) \/ WriteLog(m)
         \/ ServerFails(m) \/ ServerExits(m) \/ ClientErrors(m) \/ ClientExits(m)

Spec == Init /\ [][Next]_vars /\ WF_vars(UpdateDatabase) /\ WF_vars(DbSync)
-----------------------------------------------------------------------------
\* The types of the state.
TypeOK ==
    /\ app \in {"down", "up"}
    /\ \A state \in {store, mem, file} :
         /\ DOMAIN state = Tables
         /\ state.matches \in [Matches -> {"none", "playing", "finished", "error"}]
         /\ state.bots \subseteq Bots /\ state.maps \subseteq Maps
    /\ syncs \in Nat
    /\ runner \in [Matches -> {"none", "running", "failed", "ended"}]
    /\ \A m \in Matches : onDisk[m] \in 0 .. MaxEntries
    /\ thrown \in {"nothing", "not_playing", "no_log"}

\* What the database will hold of a table when the writes under way are done.
Promised(table) ==
    LET pending == {i \in DOMAIN writes : writes[i].table = table}
    IN IF pending = {} THEN mem[table]
       ELSE writes[CHOOSE i \in pending : \A j \in pending : j <= i].value

\* The database follows the store: once the writes under way are done, its
\* matches, bots and maps are those of the store, in whatever order
\* dispatches, updates and synchronisations come.
DatabaseFollowsStore ==
    app = "up" =>
        \A t \in Tables \ {"notifications"} : Promised(t) = store[t]

\* initializeListeners and oldValue: a dbSync is not followed by another, and no
\* dispatch writes a table it did not change, but for an empty list of
\* notifications.
OnlyChangesAreWritten ==
    app = "up" /\ app' = "up" =>
        /\ syncs' < syncs => writes' = writes
        /\ \A i \in Len(writes) + 1 .. Len(writes') :
             \/ store'[writes'[i].table] # store[writes'[i].table]
             \/ writes'[i].table = "notifications" /\ store.notifications = <<>>

\* A match whose server failed stays an error, although its exit, which
\* completes a match, comes after the error; and a match that is finished
\* stays so.
OutcomesAreFinal ==
    app = "up" /\ app' = "up" =>
        \A m \in Matches :
            store.matches[m] \in {"finished", "error"} =>
                store'.matches[m] = store.matches[m]

\* A match is finished only if something of its log can be shown, also after
\* a restart, when the log file is all there is.
FinishedMatchesHaveLogs ==
    \A m \in Matches :
        "finished" \in {store.matches[m], mem.matches[m], file.matches[m]} =>
            onDisk[m] > 0

\* No match is finished or errored without a notification that says so.
EndsAreAnnounced ==
    app = "up" /\ app' = "up" =>
        \A m \in Matches :
            store'.matches[m] # store.matches[m]
                /\ store'.matches[m] \in {"finished", "error"} =>
              \E i \in Len(store.notifications) + 1
                       .. Len(store'.notifications) :
                  store'.notifications[i][2] = m

\* Defaults are imported into an empty table only: a bot the user removed
\* does not come back as long as there are others.
RemovedBotsStayAway ==
    \A b \in Bots : app = "down" /\ b \in toImport' => file.bots = {}

\* A store that is left alone is in the database before long.
Synchronises ==
    <>[][ UpdateDatabase \/ DbSync ]_<<app, dbVars, mem>>
        => <>[](app = "up" => writes = <<>> /\ syncs = 0)

\* What the code does not keep (Database.ts: "populate the store initially
\* with the DB info"): notifications are there again after a restart.
NotificationsAreRestored ==
    app = "up" => Promised("notifications") = store.notifications

\* What the code does not keep (matches.ts, 'We suck at coding.'): only a
\* match that is playing is completed.
CompletesPlayingMatches == thrown # "not_playing"
=============================================================================
