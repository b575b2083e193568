------------------------------ MODULE MatchView -----------------------------
(***************************************************************************)
(* The view of a match on the page of matches (MatchView.tsx).  It keeps a *)
(* MatchLog of its own, which it fills in componentWillReceiveProps: with  *)
(* the entries it has not consumed of the log in the redux store, or, for  *)
(* a match of an earlier session, with the log file.                       *)
(*                                                                         *)
(* The page is one instance under /matches and under /matches/:matchId; it *)
(* goes when the user leaves it or reloads the app.                        *)
(***************************************************************************)
EXTENDS Naturals, Sequences

CONSTANTS
    Hosted, Joined,      \* matches
    NoMatch, NoLog,
    Throws,              \* the outcome of a call that throws
    MaxEntries           \* bound: entries in the log of a match

Matches == Hosted \union Joined

Entries(m, from, to) == [i \in 1 .. to - from |-> <<m, from + i>>]

\* A log is a sequence of entries.
ViewAssumption ==
    /\ NoMatch \notin Matches /\ MaxEntries \in Nat \ {0}
    /\ NoLog \notin Nat /\ NoLog # Throws
    /\ \A m \in Matches, size \in 0 .. MaxEntries :
         Entries(m, 0, size) \notin {NoLog, Throws}

VARIABLES
    status,      \* of the matches in the store, "none" for those that are not
    live,        \* matches whose server or client is running
    logs,        \* per match: size of its log in the store, or NoLog
    onDisk,      \* per match: entries in its log file
    page,        \* "away", "open", "crashed" with an error for all of the page
    selected,    \* props.match
    matchLog,    \* this.matchLog
    logPos,      \* this.logPos
    error        \* this.state.error

storeVars == <<status, live, logs, onDisk>>
viewVars  == <<page, selected, matchLog, logPos, error>>
vars == <<storeVars, viewVars>>

\* Size of a log after addLogEntry.
Size(log) == IF log = NoLog THEN 1 ELSE log + 1

Init ==
    /\ status = [m \in Matches |-> "none"]
    /\ live = {}
    /\ logs = [m \in Matches |-> NoLog]
    /\ onDisk = [m \in Matches |-> 0]
    /\ page = "away" /\ selected = NoMatch
    /\ matchLog = NoLog /\ logPos = 0 /\ error = FALSE

\* Adding entries to a log that is not there throws.
Added(log, entries) ==
    CASE entries = <<>> -> log
      [] entries # <<>> /\ log = NoLog -> Throws
      [] OTHER -> log \o entries

\* parseLog throws on an empty file.
Parsed(m) == IF onDisk[m] = 0 THEN Throws ELSE Entries(m, 0, onDisk[m])

\* Mutant: the position in the log of the match before is kept.
Consumed_kept(m) == logPos

\* Where to go on in the log of m.
Consumed(m) == IF selected = m THEN logPos ELSE 0

\* The log to go on with; another match, or none before, starts a new one.
Base(m) == IF selected = m THEN matchLog ELSE <<>>

\* What componentWillReceiveProps makes of this.matchLog.
Received(m, log) ==
    CASE m = NoMatch -> NoLog
      [] m # NoMatch /\ log # NoLog -> Added(Base(m), Entries(m, Consumed(m), log))
      [] m # NoMatch /\ log = NoLog -> Parsed(m)

\* componentWillReceiveProps.  What it throws is caught by the page.
Receive(m, log) ==
    LET received == Received(m, log) IN
    IF received = Throws
    THEN /\ page' = "crashed"
         /\ selected' = m
         /\ UNCHANGED <<matchLog, logPos, error>>
    ELSE /\ selected' = m
         /\ matchLog' = received
         /\ logPos' = IF m # NoMatch /\ log # NoLog THEN log ELSE logPos
         /\ UNCHANGED <<page, error>>

\* The view hears of the store through its selectors: only a change of the
\* match it shows, or of its log, is news.
Hears(m, log) ==
    IF page = "open" /\ selected = m THEN Receive(m, log)
                                     ELSE UNCHANGED viewVars

\* A new instance; componentWillReceiveProps is not called for its first props.
Mount(m) ==
    /\ page' = "open" /\ selected' = m
    /\ matchLog' = NoLog /\ logPos' = 0 /\ error' = FALSE
-----------------------------------------------------------------------------
(* The user *)

\* The link of the navigation bar, from another page or from a match.
OpenPage ==
    /\ \/ page = "away" /\ Mount(NoMatch)
       \/ page = "open" /\ selected # NoMatch /\ Receive(NoMatch, NoLog)
    /\ UNCHANGED storeVars

\* selectMatch
Select(m) ==
    /\ page = "open"
    /\ m # selected /\ status[m] # "none"
    /\ Receive(m, logs[m])
    /\ UNCHANGED storeVars

Leave ==
    /\ page # "away"
    /\ page' = "away"
    /\ selected' = NoMatch /\ matchLog' = NoLog /\ logPos' = 0 /\ error' = FALSE
    /\ UNCHANGED storeVars

\* The app starts again.  The store is filled from the database, which has no
\* logs; the location, and so the match, is what it was.
Reload ==
    /\ Mount(selected)
    /\ page # "away"
    /\ live' = {}
    /\ logs' = [m \in Matches |-> NoLog]
    /\ UNCHANGED <<status, onDisk>>
-----------------------------------------------------------------------------
(* Matches: see MatchRecords *)

\* joinMatch creates a log; the lobby does not.
Play(m) ==
    /\ status[m] = "none"
    /\ status' = [status EXCEPT ![m] = "playing"]
    /\ live' = live \union {m}
    /\ logs' = IF m \in Joined THEN [logs EXCEPT ![m] = 0] ELSE logs
    /\ UNCHANGED <<onDisk, viewVars>>

\* logsReducer
LogEntry(m) ==
    /\ m \in live
    /\ logs[m] # NoLog => logs[m] < MaxEntries
    /\ logs' = [logs EXCEPT ![m] = Size(@)]
    /\ Hears(m, logs'[m])
    /\ UNCHANGED <<status, live, onDisk>>

WriteLog(m) ==
    /\ logs[m] # NoLog /\ onDisk[m] < logs[m]
    /\ onDisk' = [onDisk EXCEPT ![m] = @ + 1]
    /\ UNCHANGED <<status, live, logs, viewVars>>

\* completeMatch, handleMatchError
End(m) ==
    /\ m \in live
    /\ live' = live \ {m}
    /\ \/ /\ onDisk[m] > 0
          /\ status' = [status EXCEPT ![m] = "finished"]
          /\ Hears(m, logs[m])
       \/ /\ m \in Hosted
          /\ status' = [status EXCEPT ![m] = "error"]
          /\ Hears(m, logs[m])
       \/ /\ onDisk[m] = 0
          /\ UNCHANGED <<status, viewVars>>
    /\ UNCHANGED <<logs, onDisk>>
-----------------------------------------------------------------------------
\* What MatchView.render shows.
Shown ==
    CASE error                                   -> "crash"
      [] ~error /\ selected = NoMatch            -> "nothing"
      [] ~error /\ selected # NoMatch ->
           CASE status[selected] = "error"       -> "match error"
             [] status[selected] # "error" /\ (matchLog = NoLog \/ matchLog = <<>>)
                                                 -> "match in progress"
             [] OTHER                            -> "viewer"

\* The visualizer or the log view throws: componentDidCatch.
ViewerCrashes ==
    /\ page = "open" /\ Shown = "viewer"
    /\ error' = TRUE
    /\ UNCHANGED <<storeVars, page, selected, matchLog, logPos>>

Next ==
    \/ OpenPage \/ Leave \/ Reload \/ ViewerCrashes
    \/ \E m \in Matches :
         Select(m) \/ Play(m) \/ LogEntry(m) \/ WriteLog(m) \/ End(m)

Spec == Init /\ [][Next]_vars
-----------------------------------------------------------------------------
\* The types of the state.
TypeOK ==
    /\ status \in [Matches -> {"none", "playing", "finished", "error"}]
    /\ live \subseteq Matches
    /\ \A m \in Matches : logs[m] = NoLog \/ logs[m] \in 0 .. MaxEntries
    /\ onDisk \in [Matches -> 0 .. MaxEntries]
    /\ page \in {"away", "open", "crashed"}
    /\ selected \in Matches \union {NoMatch}
    /\ logPos \in 0 .. MaxEntries /\ error \in BOOLEAN

\* The log that is shown is all of the log of the match that is shown, each
\* entry once and in order, whichever matches were shown before, live or from
\* disk, and however far their logs were.
ShowsTheWholeLog ==
    page = "open" /\ selected # NoMatch /\ matchLog # NoLog =>
        matchLog = Entries(selected, 0, IF logs[selected] = NoLog
                                        THEN onDisk[selected] ELSE logs[selected])

\* The page of matches goes down only for a match that has no log in the
\* store and nothing in its file: entries are never added to no log.
CrashesOnEmptyFilesOnly ==
    page = "open" /\ page' = "crashed" =>
        logs'[selected'] = NoLog /\ onDisk[selected'] = 0

\* What the code does not keep (MatchView.tsx: "no log is present in redux
\* store; read from disk"): a match that is finished is not shown as one that
\* is in progress.
FinishedMatchesAreShown ==
    page = "open" /\ selected # NoMatch =>
        ~(status[selected] = "finished" /\ Shown = "match in progress")

\* What the code does not keep (MatchView.tsx: "so your whole app isn't
\* broken"): a match can be shown after the viewer of another one crashed.
CrashesStayWithTheirMatch ==
    page = "open" /\ page' = "open" /\ selected' # selected => ~error'
=============================================================================
