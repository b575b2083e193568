------------------------------ MODULE MatchList -----------------------------
(***************************************************************************)
(* The list on the page of matches (Matches.tsx, MatchesPage.ts): what it  *)
(* makes of the matches in the store, newest first, each with its players  *)
(* in the order of their outcome, and what the view of a match calls its   *)
(* players (MatchViewer in MatchView.tsx).  The sorts are those of the     *)
(* engine for at most ten elements: by insertion.                          *)
(***************************************************************************)
EXTENDS Naturals, SequencesExt

CONSTANTS
    Matches,         \* uuids of matches
    Lineups,         \* bound: the names of the players of a match
    Maps,
    MaxScore,        \* bound: the score of a player
    MaxTime          \* bound: the clock

ListAssumption ==
    /\ \A players \in Lineups :
         DOMAIN players = 1 .. Len(players) /\ Len(players) \in 1 .. 10
    /\ MaxScore \in Nat /\ MaxTime \in Nat

VARIABLES
    matches,     \* the matches in the store, in the order of their keys
    now

vars == <<matches, now>>

Init == matches = <<>> /\ now = 0

Uuids == {matches[i].uuid : i \in DOMAIN matches}

\* saveMatch: a hosted match has all its players, a joined one the bot that
\* the user joined with.
Save(m, type, players, map) ==
    /\ m \notin Uuids
    /\ type = "joined" => Len(players) = 1
    /\ matches' = Append(matches,
         [uuid |-> m, type |-> type, players |-> players, map |-> map,
          timestamp |-> now, status |-> "playing", winners |-> {}, score |-> <<>>])
    /\ UNCHANGED now

\* completeMatch, with the statistics of the log.
Complete(i, winners, score) ==
    /\ matches[i].status = "playing"
    /\ matches' = [matches EXCEPT ![i].status = "finished",
                                  ![i].winners = winners, ![i].score = score]
    /\ UNCHANGED now

\* handleMatchError
Fail(i) ==
    /\ matches[i].status = "playing"
    /\ matches' = [matches EXCEPT ![i].status = "error"]
    /\ UNCHANGED now

Tick == now < MaxTime /\ now' = now + 1 /\ UNCHANGED matches
-----------------------------------------------------------------------------
\* Array.sort of at most ten elements: each goes down past those that belong
\* after it, where After has the pairs <<a, b>> of an a that belongs after b.
Inserted(sorted, x, After) ==
    LET stays == {j \in DOMAIN sorted : <<sorted[j], x>> \notin After}
    IN InsertAt(sorted, Max(stays \union {0}) + 1, x)

InsertionSort(seq, After) ==
    LET Sorted[n \in 0 .. Len(seq)] ==
          IF n = 0 THEN <<>> ELSE Inserted(Sorted[n - 1], seq[n], After)
    IN Sorted[Len(seq)]

\* The players of an entry are numbered from 1, as they are in the log.
Numbered(match) ==
    [i \in DOMAIN match.players |-> [name |-> match.players[i], number |-> i]]

\* getMatchData
MatchData(match) == [match EXCEPT !.players = Numbered(match)]

Pairs(seq) == ToSet(seq) \X ToSet(seq)

MatchAfter(seq) == {p \in Pairs(seq) : p[2].timestamp > p[1].timestamp}

\* matchListSelector
MatchListed ==
    LET data == [i \in DOMAIN matches |-> MatchData(matches[i])]
    IN InsertionSort(data, MatchAfter(data))

\* "sort major on isWinner, minor on score"
PlayerAfter(seq) ==
    {p \in Pairs(seq) :
        \/ p[2].isWinner /\ ~p[1].isWinner
        \/ p[1].isWinner = p[2].isWinner /\ p[2].score > p[1].score}

\* calcPlayerData
PlayerData(entry) ==
    LET finished == entry.status = "finished"
        data == [i \in DOMAIN entry.players |->
                   [name |-> entry.players[i].name, number |-> entry.players[i].number,
                    isWinner |-> finished /\ i \in entry.winners,
                    score |-> IF finished THEN entry.score[i] ELSE 0]]
    IN IF finished THEN InsertionSort(data, PlayerAfter(data)) ELSE data

\* PlayerEntry, PlayerScore: a trophy for the winners, a rocket with the score.
PlayerEntry(p) ==
    [name |-> p.name, number |-> p.number, trophy |-> p.isWinner, rocket |-> p.score]

Location(entry) == IF entry.type = "hosted" THEN {entry.map} ELSE {}

StatusLabel(entry) ==
    CASE entry.status = "finished" -> {}
      [] entry.status = "playing"  -> {"in progress"}
      [] entry.status = "error"    -> {"failed"}

MatchListEntry(entry) ==
    LET data == PlayerData(entry) IN
    [uuid |-> entry.uuid,
     players |-> [i \in DOMAIN data |-> PlayerEntry(data[i])],
     location |-> Location(entry), time |-> entry.timestamp,
     status |-> StatusLabel(entry)]

\* What the page renders; an empty list is "No matches played yet!"
Rendered ==
    LET list == MatchListed IN [i \in DOMAIN list |-> MatchListEntry(list[i])]

\* MatchViewer.playerName: the name the view of a match gives to a number.
PlayerName(match, number) ==
    IF match.type = "joined"
    THEN IF number = 1 THEN match.players[1] ELSE "Player"
    ELSE IF number \in DOMAIN match.players THEN match.players[number] ELSE "Player"
-----------------------------------------------------------------------------
Next ==
    \/ Tick
    \/ \E m \in Matches, type \in {"hosted", "joined"}, map \in Maps :
         \E players \in Lineups : Save(m, type, players, map)
    \/ \E i \in DOMAIN matches :
         \/ Fail(i)
         \/ LET seats == DOMAIN matches[i].players IN
            \E winners \in SUBSET seats, score \in [seats -> 0 .. MaxScore] :
              Complete(i, winners, score)

Spec == Init /\ [][Next]_vars
-----------------------------------------------------------------------------
Find(uuid) == CHOOSE m \in ToSet(matches) : m.uuid = uuid

\* Each match is in the list once, and none is above a newer one, however the
\* matches came into the store.
NewestFirst ==
    LET list == Rendered IN
    /\ Len(list) = Len(matches)
    /\ {list[i].uuid : i \in DOMAIN list} = Uuids
    /\ \A i, j \in DOMAIN list : i < j => list[i].time >= list[j].time

\* Winners come before the others, and among equals the higher score first,
\* although the comparison is no order: it calls a winner and a loser equal
\* when the winner comes first.
RankedByOutcome ==
    \A e \in ToSet(Rendered) :
      LET match == Find(e.uuid) IN
      match.status = "finished" =>
        \A i, j \in DOMAIN e.players :
          LET a == e.players[i].number
              b == e.players[j].number
          IN i < j =>
               \/ a \in match.winners /\ b \notin match.winners
               \/ (a \in match.winners) = (b \in match.winners)
                  /\ match.score[a] >= match.score[b]

\* The list and the view agree on who a player is: under each number the view
\* has the name of the list, and the trophies are with the names of the winners.
NamesAgree ==
    \A e \in ToSet(Rendered) :
      LET match == Find(e.uuid) IN
      \A p \in ToSet(e.players) :
        /\ p.name = PlayerName(match, p.number)
        /\ p.trophy <=> match.status = "finished" /\ p.number \in match.winners
=============================================================================
