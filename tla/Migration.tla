------------------------------ MODULE Migration -----------------------------
(***************************************************************************)
(* The database of the desktop client at start (Database.ts, migrate.ts):  *)
(* the file of an older version is brought up to date version by version,  *)
(* and what comes out is given to the store while it is written back.  The *)
(* app may be killed at any moment and started again on the file as it is  *)
(* then; the library replaces the file as a whole or not at all.           *)
(***************************************************************************)
EXTENDS Naturals, SequencesExt

CONSTANTS
    Bots,            \* uuids of bots
    NoMatch,
    MaxScore         \* bound: the score of a player

VARIABLES
    file,        \* the database file
    written,     \* history: the file that an older app left
    phase,       \* "off", "migrate", "import", "bound", "failed"
    db,          \* the state of the database in memory
    writing,     \* what is being written: nothing, or one database
    store        \* what the store was given: bots and the match

vars == <<file, written, phase, db, writing, store>>

Versions == {"v1", "v2", "v3", "v4"}
Nothing == [bots |-> {}, match |-> NoMatch]

Name(uuid) == <<"name of", uuid>>

\* A bot ran as a command with arguments in v2.
OldConfig(version, uuid) ==
    IF version = "v2" THEN [name |-> Name(uuid), command |-> <<"run">>, args |-> <<uuid>>]
                      ELSE [name |-> Name(uuid), command |-> <<"run", uuid>>]

\* A match up to v3: uuids of bots as players and as winners, scores by uuid.
OldMatches ==
    UNION {{[status |-> s, players |-> p, winners |-> w, score |-> sc] :
              w \in IF s = "finished" THEN SUBSET ToSet(p) ELSE {{}},
              sc \in IF s = "finished" THEN [ToSet(p) -> 0 .. MaxScore] ELSE {<<>>}} :
           s \in {"playing", "finished", "error"}, p \in [1 .. 2 -> Bots]}

\* Databases of older versions; a bot of the match may have been removed since.
OldDatabases ==
    {[version |-> "v1", bots |-> {}, match |-> NoMatch]}
    \union
    {[version |-> v, bots |-> {[uuid |-> b, config |-> OldConfig(v, b)] : b \in known},
      match |-> m] :
        v \in {"v2", "v3"}, known \in SUBSET Bots, m \in OldMatches \union {NoMatch}}

Init ==
    /\ file \in OldDatabases
    /\ written = file
    /\ phase = "off" /\ db = file /\ writing = {} /\ store = Nothing
-----------------------------------------------------------------------------
(* migrate.ts *)

\* migrateConfig joins the command and its arguments.
MigrateConfig(config) ==
    [name |-> config.name, command |-> config.command \o config.args]

\* upgradeV1: nothing is kept.
UpgradeV1(old) == [version |-> "v2", bots |-> {}, match |-> NoMatch]

UpgradeV2(old) ==
    [old EXCEPT !.version = "v3",
                !.bots = {[bot EXCEPT !.config = MigrateConfig(@)] : bot \in @}]

NewBot(bot) ==
    [uuid |-> bot.uuid, name |-> bot.config.name, command |-> bot.config.command]

\* The bots of the players, by name: throws for one that is not there.
Nameable(old) ==
    old.match # NoMatch =>
        ToSet(old.match.players) \subseteq {bot.uuid : bot \in old.bots}

BotSlot(uuid, bots) ==
    [botId |-> uuid, connected |-> TRUE,
     name |-> (CHOOSE bot \in bots : bot.uuid = uuid).name]

\* players.indexOf, from 0.
IndexOf(players, uuid) == SelectInSeq(players, LAMBDA p : p = uuid) - 1

\* Nobody plays a match that was being played.
NewStatus(status) == IF status = "playing" THEN "error" ELSE status

NewMatch(match, bots) ==
    [status |-> NewStatus(match.status),
     players |-> [i \in DOMAIN match.players |-> BotSlot(match.players[i], bots)],
     winners |-> {IndexOf(match.players, w) : w \in match.winners},
     score |-> match.score]

\* A match is a record, which NoMatch is not.
MigrationAssumption ==
    /\ MaxScore \in Nat
    /\ LET everybody == {[uuid |-> b, name |-> Name(b)] : b \in Bots} IN
       \A match \in OldMatches : NoMatch \notin {match, NewMatch(match, everybody)}

UpgradeV3(old) ==
    LET bots == {NewBot(bot) : bot \in old.bots} IN
    [version |-> "v4", bots |-> bots,
     match |-> IF old.match = NoMatch THEN NoMatch ELSE NewMatch(old.match, bots)]

Upgraded ==
    CASE db.version = "v1" -> UpgradeV1(db)
      [] db.version = "v2" -> UpgradeV2(db)
      [] db.version = "v3" -> UpgradeV3(db)
-----------------------------------------------------------------------------
(* bindToStore *)

\* The database is read, and given the defaults of what it lacks.
Open ==
    /\ phase = "off"
    /\ db' = file
    /\ phase' = IF file.version = "v4" THEN "import" ELSE "migrate"
    /\ UNCHANGED <<file, written, writing, store>>

\* One round of the loop of migrate.
Upgrade ==
    /\ phase = "migrate" /\ db.version # "v4"
    /\ db.version = "v3" => Nameable(db)
    /\ db' = Upgraded
    /\ UNCHANGED <<file, written, phase, writing, store>>

\* What throws is caught: dbError, which no reducer handles.  The app starts
\* with nothing in the store and no listener that would save it.
UpgradeThrows ==
    /\ phase = "migrate" /\ db.version = "v3" /\ ~Nameable(db)
    /\ phase' = "failed"
    /\ UNCHANGED <<file, written, db, writing, store>>

\* Mutant: the write is of the state before the migration.
ToWrite_early == file

ToWrite == db

\* db.setState(migrate(...)).write(): the callback does not return the promise of
\* the write, so nothing waits for it.
SaveMigrated ==
    /\ phase = "migrate" /\ db.version = "v4"
    /\ writing' = {ToWrite}
    /\ phase' = "import"
    /\ UNCHANGED <<file, written, db, store>>

\* The write is done, before the store has the database or after.
WriteFile ==
    /\ writing # {}
    /\ file' \in writing
    /\ writing' = {}
    /\ UNCHANGED <<written, phase, db, store>>

Import ==
    /\ phase = "import"
    /\ store' = [bots |-> db.bots, match |-> db.match]
    /\ phase' = "bound"
    /\ UNCHANGED <<file, written, db, writing>>

\* The app is quit, or killed, and a write under way with it.
Kill ==
    /\ phase # "off"
    /\ phase' = "off" /\ store' = Nothing /\ writing' = {}
    /\ UNCHANGED <<file, written, db>>

Next == Open \/ Upgrade \/ UpgradeThrows \/ SaveMigrated \/ WriteFile \/ Import \/ Kill

Spec == Init /\ [][Next]_vars
-----------------------------------------------------------------------------
\* The types of the state.
TypeOK ==
    /\ \A d \in {file, db} \union writing : d.version \in Versions
    /\ phase \in {"off", "migrate", "import", "bound", "failed"}
    /\ \A bot \in store.bots : bot.uuid \in Bots
    /\ store.match # NoMatch => store.match.status \in {"finished", "error"}

\* However often the start was interrupted, before the write or after, the store
\* has each bot of the old file with the command that it ran, and the match with
\* its players in their order, under the names of their bots, finished if it
\* was, with the scores it had, and as winners the places, from 0, at which those
\* that had won come first.
NothingIsLost ==
    phase = "bound" =>
      /\ written.version # "v1" =>
           /\ store.bots
              = {[uuid |-> bot.uuid, name |-> Name(bot.uuid),
                    command |-> <<"run", bot.uuid>>] :
                  bot \in written.bots}
           /\ (store.match = NoMatch) = (written.match = NoMatch)
      /\ written.match # NoMatch =>
           LET was == written.match  is == store.match IN
           /\ \A i \in DOMAIN was.players :
                /\ is.players[i].botId = was.players[i]
                /\ is.players[i].name = Name(was.players[i])
           /\ is.status = IF was.status = "finished" THEN "finished" ELSE "error"
           /\ is.score = was.score
           /\ is.winners =
                {i - 1 : i \in {j \in DOMAIN was.players :
                                 /\ was.players[j] \in was.winners
                                 /\ \A k \in 1 .. j - 1 : was.players[k] # was.players[j]}}

\* The file is the one that the older app left or the new one, never one half
\* way; a session whose file is the old one has the new one on its way, so that
\* only a kill before the write is done makes the next start migrate again.
FileIsOldOrNew ==
    /\ file = written \/ file.version = "v4"
    /\ phase \in {"import", "bound"} =>
         db.version = "v4" /\ (file = db \/ (file = written /\ writing = {db}))

\* What the code does not keep (game.ts: "player numbers are 1-based"): the
\* winners of a match are the numbers of the players that had won.
WinnersAreNumbered ==
    phase = "bound" /\ written.match # NoMatch =>
      \A i \in DOMAIN written.match.players :
        i \in store.match.winners => written.match.players[i] \in written.match.winners

\* What the code does not keep (Database.ts: "This function will populate the
\* store initially with the DB info"): the start never ends without the database.
StoreIsPopulated == phase # "failed"
=============================================================================
