------------------------------ MODULE MapPicker -----------------------------
(***************************************************************************)
(* The choice of a map on the page to play (Config.tsx, MapPreview.tsx):   *)
(* maps are imported from files (Importer.ts), by the user or at the first *)
(* start; each has a preview, which reads its file; and what is chosen and *)
(* typed is handed to the page for the lobby.                              *)
(***************************************************************************)
EXTENDS Naturals, SequencesExt, FiniteSets

CONSTANTS
    Contents,        \* of files with a map: the owner of each planet
    NoOwner,
    Invalid,         \* contents that are no map
    NoMap,
    Values,          \* of the other fields: those of the default and others
    Default,
    MaxMaps          \* bound: maps ever imported

Uuids == 1 .. MaxMaps

Forms == [mapId : Uuids \union {NoMap}, rest : Values]

PickerAssumption ==
    /\ Default \in Values /\ MaxMaps \in Nat
    /\ NoMap \notin Nat \union Contents \union Forms /\ Invalid \notin Contents

VARIABLES
    maps,        \* state.maps, in the order of its keys: [uuid, slots]
    disk,        \* per uuid: the contents of its file, or NoMap
    imports,     \* imports whose file is written, their maps yet to be filed
    uuids,       \* uuids given out so far
    page,        \* "away", "open"
    form,        \* Config.state: [mapId, rest]
    config,      \* PlayPage.state.config, or NoMap before the first setConfig
    previews,    \* the state of the MapPreview at each place, NoMap before it read
    reading,     \* places whose preview reads a file, and which
    atOpening    \* history: whether there was a map when the page opened

mapVars  == <<maps, disk, imports, uuids>>
pageVars == <<page, form, config, previews, reading, atOpening>>
vars == <<mapVars, pageVars>>

NewForm == [mapId |-> NoMap, rest |-> Default]

Init ==
    /\ maps = <<>> /\ disk = [u \in Uuids |-> NoMap]
    /\ imports = {} /\ uuids = 0
    /\ page = "away" /\ form = NewForm /\ config = NoMap
    /\ previews = <<>> /\ reading = {} /\ atOpening = FALSE
-----------------------------------------------------------------------------
(* Importer.importMapFromFile *)

\* isGameMap, isJsonPlanet
isGameMap(contents) == contents # Invalid

\* The planets that have an owner.
Slots(contents) == Cardinality({i \in DOMAIN contents : contents[i] # NoOwner})

\* The file of the map is written before the map is filed.
Written(contents) == contents

\* A file that is no map is rejected.
ImportMapFromFile(contents) ==
    /\ uuids < MaxMaps
    /\ isGameMap(contents)
    /\ uuids' = uuids + 1
    /\ disk' = [disk EXCEPT ![uuids + 1] = Written(contents)]
    /\ imports' = imports \union {[uuid |-> uuids + 1, slots |-> Slots(contents)]}
    /\ UNCHANGED <<maps, pageVars>>
-----------------------------------------------------------------------------
(* The page *)

\* mapsReducer: a new key comes last.
Filed(map) == Append(maps, map)

\* MapSelector.render: previews keep their places; a new one reads its file.
Mounted(count) == {[place |-> i, uuid |-> maps'[i].uuid] : i \in count + 1 .. Len(maps')}

\* componentDidUpdate: the preview of a place where the map is another reads
\* again, and shows what it has until then.
Replaced ==
    {[place |-> i, uuid |-> maps'[i].uuid] :
        i \in {j \in DOMAIN previews : maps[j].uuid # maps'[j].uuid}}

\* importMap is dispatched, whoever asked for it and whatever is shown now.
FileMap(map) ==
    /\ map \in imports
    /\ imports' = imports \ {map}
    /\ maps' = Filed(map)
    /\ IF page = "open"
       THEN /\ previews' = Append(previews, NoMap)
            /\ reading' = reading \union Mounted(Len(previews)) \union Replaced
       ELSE UNCHANGED <<previews, reading>>
    /\ UNCHANGED <<disk, uuids, page, form, config, atOpening>>

\* The constructor of MapSelector selects the first map there is.
OpenPage ==
    /\ page = "away" /\ page' = "open"
    /\ form' = [NewForm EXCEPT !.mapId = IF maps = <<>> THEN NoMap ELSE maps[1].uuid]
    /\ config' = IF maps = <<>> THEN NoMap ELSE form'
    /\ previews' = [i \in DOMAIN maps |-> NoMap]
    /\ reading' = {[place |-> i, uuid |-> maps[i].uuid] : i \in DOMAIN maps}
    /\ atOpening' = (maps # <<>>)
    /\ UNCHANGED mapVars

\* What is still read for the previews that are gone is dropped.
LeavePage ==
    /\ page = "open" /\ page' = "away"
    /\ form' = NewForm /\ config' = NoMap
    /\ previews' = <<>> /\ reading' = {} /\ atOpening' = FALSE
    /\ UNCHANGED mapVars

\* callBack: setConfig with the new state.
CallBack == form'

SelectMap(i) ==
    /\ page = "open"
    /\ form' = [form EXCEPT !.mapId = maps[i].uuid]
    /\ config' = CallBack
    /\ UNCHANGED <<mapVars, page, previews, reading, atOpening>>

\* setMax, setServer, setPort
SetField(value) ==
    /\ page = "open"
    /\ form' = [form EXCEPT !.rest = value]
    /\ config' = CallBack
    /\ UNCHANGED <<mapVars, page, previews, reading, atOpening>>

\* MapPreview.update: files are read in any order.
ReadFile(read) ==
    /\ read \in reading
    /\ reading' = reading \ {read}
    /\ previews' = [previews EXCEPT ![read.place] =
                      IF disk[read.uuid] = NoMap \/ ~isGameMap(disk[read.uuid])
                      THEN Invalid ELSE disk[read.uuid]]
    /\ UNCHANGED <<mapVars, page, form, config, atOpening>>

\* MapView.createGraph: a circle for each planet, and a tick if it is selected.
Drawn(i) ==
    [circles |-> IF previews[i] = NoMap \/ previews[i] = Invalid
                 THEN <<>> ELSE previews[i],
     ticked |-> maps[i].uuid = form.mapId]

Next ==
    \/ \E c \in Contents \union {Invalid} : ImportMapFromFile(c)
    \/ \E map \in imports : FileMap(map)
    \/ OpenPage \/ LeavePage
    \/ \E i \in DOMAIN maps : SelectMap(i)
    \/ \E value \in Values : SetField(value)
    \/ \E read \in reading : ReadFile(read)

\* The file system answers.
Fairness == WF_vars(\E read \in reading : ReadFile(read))

Spec == Init /\ [][Next]_vars /\ Fairness
-----------------------------------------------------------------------------
\* The types of the state: one preview for each map while the page is open.
TypeOK ==
    /\ \A i \in DOMAIN maps : maps[i].uuid \in 1 .. uuids
    /\ Len(previews) = IF page = "open" THEN Len(maps) ELSE 0
    /\ form \in Forms

\* A preview that has read shows the map in its place, whatever was imported
\* while it read and whichever file came first; a map in the list always has a
\* file to be read, which the server of a match needs too.
PreviewsShowTheirMap ==
    /\ \A i \in DOMAIN maps : disk[maps[i].uuid] \in Contents
    /\ \A i \in DOMAIN previews :
         previews[i] # NoMap => previews[i] = disk[maps[i].uuid]

\* The lobby is given what the form shows: the map that is ticked and what is
\* typed; it goes without only on a page that opened before there was a map.
LobbyGetsTheForm ==
    /\ config # NoMap => config = form
    /\ atOpening => /\ config # NoMap
                    /\ \E i \in DOMAIN previews :
                         Drawn(i).ticked /\ maps[i].uuid = config.mapId

\* Every preview ends up showing its map, unless the user leaves before.
PreviewsLoad ==
    \A i \in 1 .. MaxMaps :
      (i \in DOMAIN previews) ~> (page = "away" \/ (i \in DOMAIN previews
                                                   /\ Drawn(i).circles # <<>>))

\* What the code does not keep (Host.tsx: "slots + \" players)\""): a map has as
\* many slots as players.
SlotsArePlayers ==
    \A i \in DOMAIN maps :
      maps[i].slots = Cardinality(ToSet(disk[maps[i].uuid]) \ {NoOwner})
=============================================================================
