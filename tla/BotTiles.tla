------------------------------ MODULE BotTiles ------------------------------
(***************************************************************************)
(* The page of bots (Bots.tsx): a tile for each bot in the store, where it *)
(* is shown or edited, and one to add a bot.  React keeps the state of a   *)
(* tile under its key, which is its place in the list: the tile stays when *)
(* the bot in its place is another.                                        *)
(***************************************************************************)
EXTENDS Naturals, SequencesExt

CONSTANTS
    Configs,         \* a name and a command
    Blank,           \* the one of a new bot: both empty
    MaxBots          \* bound: bots ever added

BotsAssumption == Blank \notin Configs /\ MaxBots \in Nat

VARIABLES
    bots,        \* state.bots, in the order of its keys
    uuids,       \* uuids given out so far
    page,        \* "away", "open"
    tiles,       \* the state of the tile at each place
    adder        \* the state of AddBot

vars == <<bots, uuids, page, tiles, adder>>

\* A tile that shows its bot, and one that edits: what is typed in EditBot.
\* History: whether the user typed it, and the bot he opened.
Showing == [editing |-> FALSE]
Editing(text, typed, of) ==
    [editing |-> TRUE, text |-> text, typed |-> typed, of |-> of]

Init ==
    /\ bots = <<>> /\ uuids = 0
    /\ page = "away" /\ tiles = <<>> /\ adder = Showing
-----------------------------------------------------------------------------
(* botsReducer *)

Bot(uuid, config) == [uuid |-> uuid, config |-> config]

Places(uuid) == {i \in DOMAIN bots : bots[i].uuid = uuid}

WithAdded(config) == Append(bots, Bot(uuids + 1, config))

\* editBot sets the bot of its uuid, known or not.
WithEdited(bot) ==
    IF Places(bot.uuid) = {} THEN Append(bots, bot)
    ELSE [i \in DOMAIN bots |-> IF i \in Places(bot.uuid) THEN bot ELSE bots[i]]

\* delete bots[uuid]: the other keys stay in their order.
WithRemoved(uuid) ==
    IF Places(uuid) = {} THEN bots ELSE RemoveAt(bots, CHOOSE i \in Places(uuid) : TRUE)

\* BotOverview.render: tiles keep their places; those of places that are gone
\* are unmounted, new ones show their bot.
Rendered(newTiles, newBots) ==
    [i \in DOMAIN newBots |-> IF i \in DOMAIN newTiles THEN newTiles[i] ELSE Showing]

\* What the listeners of the store do when the bots are these.
Update(newBots, newTiles) ==
    /\ bots' = newBots
    /\ tiles' = IF page = "open" THEN Rendered(newTiles, newBots) ELSE <<>>
-----------------------------------------------------------------------------
(* The rest of the app *)

OpenPage ==
    /\ page = "away" /\ page' = "open"
    /\ tiles' = Rendered(<<>>, bots) /\ adder' = Showing
    /\ UNCHANGED <<bots, uuids>>

LeavePage ==
    /\ page = "open" /\ page' = "away"
    /\ tiles' = <<>> /\ adder' = Showing
    /\ UNCHANGED <<bots, uuids>>

\* populateBots: the default bots arrive while the user is at work.
PopulateBots(config) ==
    /\ uuids < MaxBots
    /\ uuids' = uuids + 1
    /\ Update(WithAdded(config), tiles)
    /\ UNCHANGED <<page, adder>>
-----------------------------------------------------------------------------
(* The user *)

\* validate: neither field is empty.
Valid(config) == config # Blank

\* Bot.onEdit mounts an EditBot with the data of the bot.
Edit(i) ==
    /\ ~tiles[i].editing
    /\ tiles' = [tiles EXCEPT ![i] = Editing(bots[i].config, FALSE, bots[i].uuid)]
    /\ UNCHANGED <<bots, uuids, page, adder>>

\* onChangeName, onChangeCommand
Change(i, text) ==
    /\ tiles[i].editing
    /\ tiles' = [tiles EXCEPT ![i] = Editing(text, TRUE, @.of)]
    /\ UNCHANGED <<bots, uuids, page, adder>>

\* EditBot.onReset
Reset(i) ==
    /\ tiles[i].editing
    /\ tiles' = [tiles EXCEPT ![i] = Editing(bots[i].config, FALSE, bots[i].uuid)]
    /\ UNCHANGED <<bots, uuids, page, adder>>

Saved(i) == Bot(bots[i].uuid, tiles[i].text)

\* EditBot.handleSubmit, for a click on Save or the enter key; what is not
\* valid is for the user to correct.
Save(i) ==
    /\ tiles[i].editing
    /\ Valid(tiles[i].text)
    /\ Update(WithEdited(Saved(i)), [tiles EXCEPT ![i] = Showing])
    /\ UNCHANGED <<uuids, page, adder>>

\* Bot.onDelete, shown or edited.
Delete(i) ==
    /\ Update(WithRemoved(bots[i].uuid), tiles)
    /\ UNCHANGED <<uuids, page, adder>>

\* AddBot.onAdd
Add ==
    /\ page = "open" /\ ~adder.editing
    /\ adder' = Editing(Blank, FALSE, 0)
    /\ UNCHANGED <<bots, uuids, page, tiles>>

ChangeAdded(text) ==
    /\ adder.editing
    /\ adder' = Editing(text, TRUE, 0)
    /\ UNCHANGED <<bots, uuids, page, tiles>>

ResetAdded ==
    /\ adder.editing
    /\ adder' = Editing(Blank, FALSE, 0)
    /\ UNCHANGED <<bots, uuids, page, tiles>>

\* AddBot.onSave
SaveAdded ==
    /\ adder.editing
    /\ Valid(adder.text)
    /\ uuids < MaxBots
    /\ uuids' = uuids + 1
    /\ adder' = Showing
    /\ Update(WithAdded(adder.text), tiles)
    /\ UNCHANGED page

\* AddBot.onDelete
DeleteAdded ==
    /\ adder.editing
    /\ adder' = Showing
    /\ UNCHANGED <<bots, uuids, page, tiles>>

Next ==
    \/ OpenPage \/ LeavePage \/ Add \/ ResetAdded \/ SaveAdded \/ DeleteAdded
    \/ \E config \in Configs : PopulateBots(config)
    \/ \E text \in Configs \union {Blank} : ChangeAdded(text)
    \/ \E i \in DOMAIN tiles :
         \/ Edit(i) \/ Reset(i) \/ Save(i) \/ Delete(i)
         \/ \E text \in Configs \union {Blank} : Change(i, text)

Spec == Init /\ [][Next]_vars
-----------------------------------------------------------------------------
\* The types of the state: a tile for each bot while the page is open.
TypeOK ==
    /\ \A i \in DOMAIN bots : bots[i].uuid \in 1 .. uuids /\ bots[i].config \in Configs
    /\ uuids \in 0 .. MaxBots
    /\ Len(tiles) = IF page = "open" THEN Len(bots) ELSE 0
    /\ page = "away" => ~adder.editing

\* No sequence of edits, deletions and additions under tiles that shift gives
\* two bots one uuid, or brings back a bot that was deleted.
BotsAreUnique ==
    Cardinality({bots[i].uuid : i \in DOMAIN bots}) = Len(bots)

DeletedBotsStayAway ==
    \A uuid \in 1 .. uuids : Places(uuid) = {} => Places(uuid)' = {}

\* As long as no bot is deleted, whatever is added under it, a tile edits the
\* bot it was opened for.
AdditionsLeaveTilesAlone ==
    (\A i \in DOMAIN tiles : tiles[i].editing => tiles[i].of = bots[i].uuid)
      /\ (\A uuid \in 1 .. uuids : Places(uuid) # {} => Places(uuid)' # {})
    => \A i \in DOMAIN tiles' : tiles'[i].editing => tiles'[i].of = bots'[i].uuid

\* What the code does not keep (root.ts: "All components are essentially
\* functions of this state to HTML + JS"): a tile in which nothing was typed has
\* the data of the bot in its place.  One tile of two is edited and deleted: the
\* other bot moves under its text, and Save overwrites it.
TilesShowTheStore ==
    \A i \in DOMAIN tiles :
      tiles[i].editing /\ ~tiles[i].typed => tiles[i].text = bots[i].config
=============================================================================
