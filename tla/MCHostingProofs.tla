-------------------------- MODULE MCHostingProofs --------------------------
(***************************************************************************)
(* Proofs about the parts of module MCHosting.                             *)
(*                                                                         *)
(* The lobby (LobbySlots), in three parts.  The first holds on any ports:  *)
(* the books of the lobby (Books), so that a listed slot exists and the    *)
(* server of a saved match is not killed.  The second is about the page,   *)
(* the slot manager and the server agreeing on which slot is whose         *)
(* (Current), which needs that a server has ended before the next is up:   *)
(* answers of a killed server are still handled until it ends.  The third: *)
(* with one port that is so.                                               *)
(*                                                                         *)
(* The log of the match (MatchLogs), in two: the log that is viewed        *)
(* (ViewInv) and the statistics with the logs that join (StatsInv).  Last, *)
(* what the parts of HostingSpec make of these.                            *)
(***************************************************************************)
EXTENDS MCHosting, FiniteSetTheorems, SequenceTheorems, WellFoundedInduction,
        TLAPS

-----------------------------------------------------------------------------
(* The inductive invariant *)

Requests == [type : {"add", "remove", "start"}, manager : Managers \union {None},
             token : Nat, id : Nat]
News     == [type : {"connected", "disconnected"}, id : Nat]
Settlements == [type : {"created", "failed"}, server : Servers]
Objects  == [connected : BOOLEAN, clientId : Nat, bot : Bots \union {None}]

\* The values of the variables, as far as the proofs need them.
Typed ==
    /\ wanted \in Nat /\ next_token \in 1 .. MaxTokens + 1
    /\ server \in Servers \union {None} /\ manager \in Managers
    /\ list \in [Managers -> Seq(Nat)]
    /\ slots \in [Managers -> SUBSET Nat]
    /\ DOMAIN clients = Managers
    /\ runner \in [Managers -> Servers \union {None}]
    /\ slot \in [Tokens -> Objects]
    /\ promise \in [Servers -> {"none", "pending", "hanging", "resolved", "rejected"}]
    /\ captured \in [Servers -> Managers \union {None}]
    /\ subs \in [Servers -> [own : Managers \union {None},
                             captured : Managers \union {None}]]
    /\ \A match \in saved : match.server \in Servers
    /\ tasks \in Seq(Requests \union Settlements)
    /\ chunk \in Servers \union {None}
    /\ stalled \in [Servers -> BOOLEAN]
    /\ proc \in [Servers -> {"idle", "up", "killed", "failing", "dead"}]
    /\ port \in [Servers -> Ports \union {None}]
    /\ phase \in [Servers -> {"lobby", "playing"}]
    /\ DOMAIN players = Servers
    /\ counter \in [Servers -> Nat]
    /\ to_server \in [Servers -> Seq(Requests)]
    /\ to_client \in [Servers -> Seq(Requests \union News)]

\* A slot is listed once.
TokensDiffer ==
    \A m \in Managers :
        /\ \A i \in DOMAIN list[m] : list[m][i] \in 1 .. next_token - 1
        /\ \A i, j \in DOMAIN list[m] : list[m][i] = list[m][j] => i = j

\* A slot whose player is being removed is not listed, and will not be again.
GoneFrom(x, lists, next) ==
    x.type = "remove" =>
        /\ x.manager \in Managers
        /\ x.token \in 1 .. next - 1
        /\ \A i \in DOMAIN lists[x.manager] : lists[x.manager][i] # x.token

Gone(x) == GoneFrom(x, list, next_token)

RemovedAreGone ==
    /\ \A i \in DOMAIN tasks : Gone(tasks[i])
    /\ \A s \in Servers :
        /\ \A i \in DOMAIN to_server[s] : Gone(to_server[s][i])
        /\ \A i \in DOMAIN to_client[s] : Gone(to_client[s][i])

SavedServers == {match.server : match \in saved}

\* One manager for every match saved, and one for the next.
ManagersCounted == manager = 1 + Cardinality(SavedServers)

Alive(s) == proc[s] \in {"up", "killed"}

\* The callback of the promise of create has run.
Handed(s) ==
    /\ promise[s] = "resolved"
    /\ \A i \in DOMAIN tasks : tasks[i] # [type |-> "created", server |-> s]

\* A promise of create is settled when the loop is idle.
SettledAlone ==
    \A i \in DOMAIN tasks : tasks[i].type \in {"created", "failed"} =>
        /\ Len(tasks) = 1 /\ chunk = None
        /\ tasks[i].type = "created" => promise[tasks[i].server] = "resolved"

\* The server of the lobby is one it was handed, has not killed and has not
\* saved a match of.
ServersHanded ==
    /\ server # None =>
        Handed(server) /\ proc[server] # "killed" /\ server \notin SavedServers
    /\ \A s \in SavedServers : Handed(s) /\ proc[s] # "killed"
    /\ \A s \in Servers : proc[s] = "killed" => Handed(s)

\* Nothing was asked of a server before it was handed over, or is on its way
\* when it is gone.
QuietBefore ==
    \A s \in Servers :
        /\ ~Handed(s) =>
            /\ subs[s] = NoSubs /\ phase[s] = "lobby"
            /\ DOMAIN players[s] = {}
            /\ \A m \in Managers : runner[m] # s
        /\ ~Handed(s) \/ ~Alive(s) => to_server[s] = <<>> /\ to_client[s] = <<>>
        /\ proc[s] = "idle" => promise[s] = "none"

\* The lobby numbers its players from 1.
PlayersNumbered ==
    \A s \in Servers : \A id \in DOMAIN players[s] : id \in Nat /\ id < counter[s]

Books == /\ Typed /\ TokensDiffer /\ ListedSlotsExist /\ RemovedAreGone
         /\ ManagersCounted /\ SettledAlone /\ ServersHanded /\ QuietBefore
         /\ PlayersNumbered

\* What the page has still to hear of a server, in order.
Unheard(s) == tasks \o to_client[s]

\* The hypothesis of the second part: a server ends before the next is up.
OneServerAtATime == \A r, s \in Servers : Alive(r) /\ Alive(s) => r = s

ForManager(x) == x.type \in {"add", "remove"} => x.manager = manager

\* Requests and answers are the current manager's, until the game starts; the
\* answer to that is the last one.
CurrentAnswers(s) ==
    /\ \A i \in DOMAIN Unheard(s) :
        /\ ForManager(Unheard(s)[i])
        /\ Unheard(s)[i].type = "start" =>
            /\ phase[s] = "playing"
            /\ \A j \in DOMAIN Unheard(s) :
                j > i => Unheard(s)[j].type \notin {"add", "remove"}
    /\ phase[s] # "playing" =>
        \A i \in DOMAIN to_server[s] : ForManager(to_server[s][i])

\* News is for the current manager, as long as the page listens.
CurrentListeners(s) ==
    /\ subs[s] # NoSubs => subs[s] = [own |-> manager, captured |-> manager]
    /\ promise[s] \in {"pending", "resolved"} /\ ~Handed(s) => captured[s] = manager
    /\ phase[s] = "playing" => subs[s] = NoSubs
    /\ \A i \in DOMAIN to_server[s] :
        to_server[s][i].type = "start" => subs[s] = NoSubs

\* The numbers in answers are the server's, and its last word on each.
NumbersAgree(s) ==
    \A i \in DOMAIN Unheard(s) :
        LET x == Unheard(s)[i] IN
        /\ x.type = "add" =>
            /\ x.id < counter[s]
            /\ x.id \in DOMAIN players[s] => players[s][x.id] = x.token
        /\ x.type = "remove" =>
            \/ x.id \notin DOMAIN players[s]
            \/ \E j \in DOMAIN Unheard(s) :
                j > i /\ Unheard(s)[j].type = "add" /\ Unheard(s)[j].id = x.id

\* Only a server that is alive has its answers in the event loop.
AnswersOfTheLiving ==
    \A i \in DOMAIN tasks : tasks[i].type \in {"add", "remove", "start"} =>
        \E s \in Servers : Alive(s) /\ Handed(s)

Current ==
    /\ \A s \in Servers : Alive(s) =>
        CurrentAnswers(s) /\ CurrentListeners(s) /\ NumbersAgree(s)
    /\ AnswersOfTheLiving
    /\ ShowsCurrentSlots
    /\ ManagerKnowsPlayers
-----------------------------------------------------------------------------
(* Numbers in ascending order *)

\* What Ascending(R) is, if there is one.
IsAscending(f, R) ==
    /\ f \in [1 .. Cardinality(R) -> R]
    /\ \A i, j \in DOMAIN f : i < j => f[i] < f[j]

\* A set of numbers has a least one: induction without an operator.
LEMMA LeastNumber ==
    ASSUME NEW T, T \subseteq Nat, T # {}
    PROVE  \E n \in T : \A m \in T : n <= m
<1>1. IsWellFoundedOn(OpToRel(<, Nat), Nat)
  BY NatLessThanWellFounded
<1>2. PICK n \in T : \A m \in T : <<m, n>> \notin OpToRel(<, Nat)
  BY <1>1, WFMin
<1>3. \A m \in T : ~(m < n)
  BY <1>2 DEF OpToRel
<1> QED BY <1>3

\* The numbers up to n that are in a set can be listed in ascending order: a
\* least n for which that fails has n in the set, and the list for n - 1 goes on
\* with n.
LEMMA AscendingExists ==
    ASSUME NEW n \in Nat, NEW R, R \subseteq 1 .. n
    PROVE  /\ Cardinality(R) \in Nat
           /\ IsAscending(Ascending(R), R)
<1> DEFINE Bad == {k \in Nat : \E S \in SUBSET (1 .. k) : ~ \E f : IsAscending(f, S)}
<1>1. Bad = {}
  <2> SUFFICES ASSUME Bad # {} PROVE FALSE
    OBVIOUS
  <2>1. PICK k \in Bad : \A m \in Bad : k <= m
    BY LeastNumber
  <2>2. PICK S \in SUBSET (1 .. k) : ~ \E f : IsAscending(f, S)
    BY <2>1
  <2>3. k \in Nat
    BY <2>1
  <2>4. k # 0
    <3> SUFFICES ASSUME k = 0 PROVE FALSE
      OBVIOUS
    <3>0. S = {}
      BY <2>2
    <3>1. S = {} /\ Cardinality(S) = 0
      BY <3>0, FS_EmptySet
    <3>2. IsAscending([i \in {} |-> 0], S)
      BY <3>1 DEF IsAscending
    <3> QED BY <3>2, <2>2
  <2>5. \A A \in SUBSET (1 .. k - 1) : \E f : IsAscending(f, A)
    <3>1. k - 1 \in Nat /\ k - 1 \notin Bad
      BY <2>1, <2>3, <2>4
    <3> QED BY <3>1
  <2>6. k \in S
    BY <2>2, <2>3, <2>4, <2>5
  <2>7. S \ {k} \in SUBSET (1 .. k - 1) /\ IsFiniteSet(S)
    <3>1. IsFiniteSet(1 .. k)
      BY <2>3, FS_Interval
    <3>2. IsFiniteSet(S)
      BY <3>1, <2>2, FS_Subset
    <3> QED BY <3>2, <2>2, <2>3
  <2>8. PICK f : IsAscending(f, S \ {k})
    BY <2>5, <2>7
  <2> DEFINE c == Cardinality(S \ {k})
  <2>9. c \in Nat /\ Cardinality(S) = c + 1
    BY <2>7, <2>6, FS_RemoveElement, FS_CardinalityType, FS_Subset
  <2> HIDE DEF c
  <2>10. f \in [1 .. c -> S \ {k}] /\ \A i, j \in 1 .. c : i < j => f[i] < f[j]
    BY <2>8 DEF IsAscending, c
  <2>11. IsAscending([i \in 1 .. c + 1 |-> IF i <= c THEN f[i] ELSE k], S)
    <3> DEFINE g == [i \in 1 .. c + 1 |-> IF i <= c THEN f[i] ELSE k]
    <3>1. \A i \in 1 .. c : f[i] \in S /\ f[i] < k
      <4> TAKE i \in 1 .. c
      <4>1. f[i] \in S \ {k}
        BY <2>10
      <4>2. f[i] \in 1 .. k - 1
        BY <4>1, <2>7
      <4> QED BY <4>1, <4>2, <2>3
    <3>2. \A i \in 1 .. c + 1 : g[i] \in S
      BY <3>1, <2>6
    <3>3. \A i, j \in 1 .. c + 1 : i < j => g[i] < g[j]
      BY <3>1, <2>10, <2>9
    <3>4. DOMAIN g = 1 .. c + 1 /\ g \in [1 .. c + 1 -> S]
      BY <3>2
    <3> HIDE DEF g
    <3>5. IsAscending(g, S)
      BY <3>3, <3>4, <2>9 DEF IsAscending
    <3> QED BY <3>5 DEF g
  <2> QED BY <2>11, <2>2
<1>2. \E f : IsAscending(f, R)
  BY <1>1
<1>3. IsFiniteSet(R)
  <2>1. IsFiniteSet(1 .. n)
    BY FS_Interval
  <2> QED BY <2>1, FS_Subset
<1> QED BY <1>2, <1>3, FS_CardinalityType DEF IsAscending, Ascending
-----------------------------------------------------------------------------
(* The operators *)

\* A request is a message of its manager.
LEMMA RequestsTyped ==
    ASSUME NEW m \in Managers, NEW t \in Nat, NEW id \in Nat
    PROVE  /\ AddPlayer(m, t) \in Requests
           /\ RemovePlayer(m, t, id) \in Requests
           /\ StartGame \in Requests
BY DEF AddPlayer, RemovePlayer, StartGame, Requests, None

\* unregisterSlot is called with slots of the list that was passed.
LEMMA RemovalsAre ==
    ASSUME LobbyAssumption, Typed, NEW m \in Managers, NEW ts \in Seq(Tokens)
    PROVE  /\ Removals(m, ts) \in Seq(Requests)
           /\ \A k \in DOMAIN Removals(m, ts) : \E i \in DOMAIN ts :
                /\ Removals(m, ts)[k].type = "remove"
                /\ Removals(m, ts)[k].manager = m
                /\ Removals(m, ts)[k].token = ts[i]
<1> DEFINE at == {i \in DOMAIN ts : slot[ts[i]].clientId # None}
           f == Ascending(at)
           Ask(k) == RemovePlayer(m, ts[f[k]], slot[ts[f[k]]].clientId)
<1>1. DOMAIN ts = 1 .. Len(ts) /\ Len(ts) \in Nat
  BY LenProperties
<1>2. Cardinality(at) \in Nat /\ IsAscending(f, at)
  BY <1>1, AscendingExists
<1>3. f \in [1 .. Cardinality(at) -> at]
  BY <1>2 DEF IsAscending
<1>4. \A k \in 1 .. Cardinality(at) :
        /\ f[k] \in DOMAIN ts /\ ts[f[k]] \in Tokens
        /\ Ask(k) \in Requests
        /\ Ask(k).type = "remove" /\ Ask(k).manager = m /\ Ask(k).token = ts[f[k]]
  <2> TAKE k \in 1 .. Cardinality(at)
  <2>1. f[k] \in at
    BY <1>3
  <2>2. f[k] \in DOMAIN ts
    BY <2>1
  <2>3. ts[f[k]] \in Tokens
    BY <2>2, <1>1, ElementOfSeq
  <2> HIDE DEF f
  <2>4. slot[ts[f[k]]].clientId \in Nat /\ ts[f[k]] \in Nat
    <3>1. slot[ts[f[k]]] \in Objects
      BY <2>3 DEF Typed
    <3> QED BY <3>1, <2>3 DEF Objects, Tokens, LobbyAssumption
  <2>5. Ask(k) \in Requests
    BY <2>4, RequestsTyped
  <2>6. Ask(k).type = "remove" /\ Ask(k).manager = m /\ Ask(k).token = ts[f[k]]
    BY DEF RemovePlayer
  <2> QED BY <2>2, <2>3, <2>5, <2>6
<1>5. CASE runner[m] = None
  <2>1. Removals(m, ts) = <<>>
    BY <1>5 DEF Removals
  <2> QED BY <2>1
<1>6. CASE runner[m] # None
  <2>1. Removals(m, ts) = [k \in DOMAIN f |-> Ask(k)]
    BY <1>6 DEF Removals
  <2> HIDE DEF f, Ask, at
  <2>2. Removals(m, ts) = [k \in 1 .. Cardinality(at) |-> Ask(k)]
    BY <2>1, <1>3
  <2>3. Removals(m, ts) \in [1 .. Cardinality(at) -> Requests]
    BY <2>2, <1>4
  <2>4. Removals(m, ts) \in Seq(Requests)
    BY <2>3, <1>2
  <2>5. \A k \in 1 .. Cardinality(at) : Removals(m, ts)[k] = Ask(k)
    BY <2>2
  <2>6. DOMAIN Removals(m, ts) = 1 .. Cardinality(at)
    BY <2>2
  <2> QED BY <2>4, <2>5, <2>6, <1>4
<1> QED BY <1>5, <1>6

\* registerSlot is called with slots of the list that was passed.
LEMMA RegistrationsAre ==
    ASSUME NEW m \in Managers, NEW ts \in Seq(Nat)
    PROVE  /\ Registrations(m, ts) \in Seq(Requests)
           /\ \A k \in DOMAIN Registrations(m, ts) :
                /\ Registrations(m, ts)[k].type = "add"
                /\ Registrations(m, ts)[k].manager = m
<1>1. DOMAIN ts = 1 .. Len(ts) /\ Len(ts) \in Nat
  BY LenProperties
<1>2. \A i \in 1 .. Len(ts) : AddPlayer(m, ts[i]) \in Requests
  BY <1>1, ElementOfSeq, RequestsTyped DEF None
<1>3. [i \in DOMAIN ts |-> AddPlayer(m, ts[i])] \in Seq(Requests)
  <2>1. [i \in DOMAIN ts |-> AddPlayer(m, ts[i])] \in [1 .. Len(ts) -> Requests]
    BY <1>1, <1>2
  <2> QED BY <2>1, <1>1
<1>4. CASE runner[m] = None
  BY <1>4 DEF Registrations
<1>5. CASE runner[m] # None
  BY <1>5, <1>3 DEF Registrations, AddPlayer
<1> QED BY <1>4, <1>5

\* What is written to a server: new requests behind the ones it has.
LEMMA SendIs ==
    ASSUME Typed, NEW s, NEW requests \in Seq(Requests), Send(s, requests)
    PROVE  /\ to_server' \in [Servers -> Seq(Requests)]
           /\ \A r \in Servers :
                /\ to_server'[r] # to_server[r] => r = s /\ proc[r] = "up"
                /\ \A i \in DOMAIN to_server'[r] :
                    \/ i \in DOMAIN to_server[r] /\ to_server'[r][i] = to_server[r][i]
                    \/ /\ r = s /\ proc[r] = "up"
                       /\ \E k \in DOMAIN requests : to_server'[r][i] = requests[k]
<1>1. \A r \in Servers : to_server[r] \in Seq(Requests)
  BY DEF Typed
<1>2. ASSUME NEW r \in Servers
      PROVE  /\ to_server[r] \o requests \in Seq(Requests)
             /\ \A i \in DOMAIN (to_server[r] \o requests) :
                \/ i \in DOMAIN to_server[r]
                   /\ (to_server[r] \o requests)[i] = to_server[r][i]
                \/ \E k \in DOMAIN requests :
                        (to_server[r] \o requests)[i] = requests[k]
  <2>1. /\ to_server[r] \o requests \in Seq(Requests)
        /\ Len(to_server[r] \o requests) = Len(to_server[r]) + Len(requests)
        /\ \A i \in 1 .. Len(to_server[r]) + Len(requests) :
            (to_server[r] \o requests)[i] =
                IF i <= Len(to_server[r]) THEN to_server[r][i]
                ELSE requests[i - Len(to_server[r])]
    BY <1>1, ConcatProperties
  <2>2. /\ Len(to_server[r]) \in Nat /\ DOMAIN to_server[r] = 1 .. Len(to_server[r])
        /\ Len(requests) \in Nat /\ DOMAIN requests = 1 .. Len(requests)
        /\ DOMAIN (to_server[r] \o requests) = 1 .. Len(to_server[r] \o requests)
    BY <1>1, <2>1, LenProperties
  <2>3. ASSUME NEW i \in DOMAIN (to_server[r] \o requests), ~(i <= Len(to_server[r]))
        PROVE  \E k \in DOMAIN requests : (to_server[r] \o requests)[i] = requests[k]
    <3>1. /\ i - Len(to_server[r]) \in DOMAIN requests
          /\ (to_server[r] \o requests)[i] = requests[i - Len(to_server[r])]
      BY <2>1, <2>2, <2>3
    <3> QED BY <3>1
  <2>4. ASSUME NEW i \in DOMAIN (to_server[r] \o requests), i <= Len(to_server[r])
        PROVE  i \in DOMAIN to_server[r]
               /\ (to_server[r] \o requests)[i] = to_server[r][i]
    BY <2>1, <2>2, <2>4
  <2> QED BY <2>1, <2>3, <2>4
<1>3. \A r \in Servers : to_server'[r] = IF r = s /\ proc[r] = "up"
                                         THEN to_server[r] \o requests
                                         ELSE to_server[r]
  BY DEF Send
<1>4. to_server' \in [Servers -> Seq(Requests)]
  <2>1. \A r \in Servers : (IF r = s /\ proc[r] = "up" THEN to_server[r] \o requests
                            ELSE to_server[r]) \in Seq(Requests)
    BY <1>1, <1>2
  <2> QED BY <2>1 DEF Send
<1>5. ASSUME NEW r \in Servers
      PROVE  /\ to_server'[r] # to_server[r] => r = s /\ proc[r] = "up"
             /\ \A i \in DOMAIN to_server'[r] :
                    \/ i \in DOMAIN to_server[r] /\ to_server'[r][i] = to_server[r][i]
                    \/ /\ r = s /\ proc[r] = "up"
                       /\ \E k \in DOMAIN requests : to_server'[r][i] = requests[k]
  <2>1. CASE r = s /\ proc[r] = "up"
    <3>1. to_server'[r] = to_server[r] \o requests
      BY <1>3, <2>1
    <3> QED BY <3>1, <1>2, <2>1
  <2>2. CASE ~(r = s /\ proc[r] = "up")
    <3>1. to_server'[r] = to_server[r]
      BY <1>3, <2>2
    <3> QED BY <3>1
  <2> QED BY <2>1, <2>2
<1> QED BY <1>5, <1>4

\* createSlot, n times.
LEMMA FreshIs ==
    ASSUME LobbyAssumption, Typed, NEW n \in Nat, next_token + n <= MaxTokens + 1
    PROVE  /\ Fresh(n) \in Seq(Tokens) /\ Fresh(n) \in Seq(Nat)
           /\ Len(Fresh(n)) = n /\ DOMAIN Fresh(n) = 1 .. n
           /\ \A i \in 1 .. n : Fresh(n)[i] = next_token + i - 1
           /\ next_token + n \in 1 .. MaxTokens + 1
           /\ ToSet(Fresh(n)) \in SUBSET Nat
<1>1. \A i \in 1 .. n : next_token + i - 1 \in Tokens /\ next_token + i - 1 \in Nat
  BY DEF LobbyAssumption, Typed, Tokens
<1>2. Fresh(n) \in [1 .. n -> Tokens] /\ Fresh(n) \in [1 .. n -> Nat]
  BY <1>1 DEF Fresh
<1>3. Fresh(n) \in Seq(Tokens) /\ Fresh(n) \in Seq(Nat)
  BY <1>2
<1>4. \A i \in 1 .. n : Fresh(n)[i] = next_token + i - 1
  BY DEF Fresh
<1>5. ToSet(Fresh(n)) \in SUBSET Nat
  BY <1>2 DEF ToSet
<1>6. next_token + n \in 1 .. MaxTokens + 1
  BY DEF LobbyAssumption, Typed
<1>7. Len(Fresh(n)) = n /\ DOMAIN Fresh(n) = 1 .. n
  BY <1>2, <1>3, LenProperties
<1> QED BY <1>3, <1>4, <1>5, <1>6, <1>7

\* SlotManager.update: slots are kept in their places, new ones come behind
\* them, and what is dropped is not listed any more.
LEMMA ResizedIs ==
    ASSUME LobbyAssumption, Typed, TokensDiffer, NEW m \in Managers, NEW n \in Nat,
           next_token + Len(Grown(m, n)) <= MaxTokens + 1
    PROVE  /\ Resized(m, n) \in Seq(Nat)
           /\ Grown(m, n) \in Seq(Nat) /\ Dropped(m, n) \in Seq(Tokens)
           /\ next_token + Len(Grown(m, n)) \in next_token .. MaxTokens + 1
           /\ \A i \in DOMAIN Resized(m, n) :
                \/ i \in DOMAIN list[m] /\ Resized(m, n)[i] = list[m][i]
                \/ /\ i > Len(list[m])
                   /\ Resized(m, n)[i] = next_token + (i - Len(list[m])) - 1
                   /\ Resized(m, n)[i] < next_token + Len(Grown(m, n))
                   /\ Resized(m, n)[i] \in ToSet(Grown(m, n))
           /\ \A i \in DOMAIN Dropped(m, n) : \E j \in DOMAIN list[m] :
                /\ Dropped(m, n)[i] = list[m][j]
                /\ j > n /\ \A k \in DOMAIN Resized(m, n) : k <= n
           /\ ToSet(Grown(m, n)) \in SUBSET Nat
           /\ \A j \in DOMAIN list[m] :
                \/ j \in DOMAIN Resized(m, n) /\ Resized(m, n)[j] = list[m][j]
                \/ \E i \in DOMAIN Dropped(m, n) : Dropped(m, n)[i] = list[m][j]
           /\ \A i \in DOMAIN Grown(m, n) :
                /\ Grown(m, n)[i] = next_token + i - 1 /\ i \in Nat \ {0}
                /\ \E k \in DOMAIN Resized(m, n) : Resized(m, n)[k] = Grown(m, n)[i]
<1> DEFINE l == list[m]
<1>1. /\ l \in Seq(Nat) /\ Len(l) \in Nat /\ DOMAIN l = 1 .. Len(l)
      /\ \A i \in 1 .. Len(l) : l[i] \in Nat
  <2>1. l \in Seq(Nat)
    BY DEF Typed
  <2> QED BY <2>1, LenProperties, ElementOfSeq
<1>3. next_token \in 1 .. MaxTokens + 1 /\ MaxTokens \in Nat
  BY DEF Typed, LobbyAssumption
<1>2. \A i \in 1 .. Len(l) : l[i] \in Tokens
  <2>1. \A i \in DOMAIN list[m] : list[m][i] \in 1 .. next_token - 1
    BY DEF TokensDiffer
  <2>2. \A i \in 1 .. Len(l) : l[i] \in 1 .. next_token - 1
    BY <2>1, <1>1
  <2>3. 1 .. next_token - 1 \subseteq Tokens
    BY <1>3 DEF Tokens
  <2> QED BY <2>2, <2>3
<1> HIDE DEF l
<1>4. CASE n >= Len(l)
  <2> DEFINE d == n - Len(l)
             g == Fresh(d)
  <2>1. /\ Resized(m, n) = l \o g /\ Grown(m, n) = g
        /\ Dropped(m, n) = Reverse(SubSeq(l, n + 1, Len(l)))
    BY <1>4 DEF Resized, Grown, Dropped, l
  <2>2. d \in Nat /\ Len(g) = d
    <3>1. d \in Nat
      BY <1>4, <1>1
    <3>2. g \in [1 .. d -> Int]
      BY <1>3 DEF Fresh
    <3> QED BY <3>1, <3>2
  <2>3. /\ g \in Seq(Tokens) /\ g \in Seq(Nat)
        /\ Len(g) = d /\ DOMAIN g = 1 .. d
        /\ \A i \in 1 .. d : g[i] = next_token + i - 1
        /\ next_token + d \in 1 .. MaxTokens + 1
        /\ ToSet(g) \in SUBSET Nat
    <3>1. next_token + d <= MaxTokens + 1
      BY <2>1, <2>2
    <3> QED BY <2>2, <3>1, FreshIs
  <2> HIDE DEF g
  <2>4. /\ l \o g \in Seq(Nat) /\ Len(l \o g) = Len(l) + d
        /\ \A i \in 1 .. Len(l) + d :
            (l \o g)[i] = IF i <= Len(l) THEN l[i] ELSE g[i - Len(l)]
    <3>1. l \in Seq(Nat) /\ g \in Seq(Nat) /\ Len(g) = d
      BY <1>1, <2>3
    <3> HIDE DEF d
    <3> QED BY ONLY <3>1, ConcatProperties
  <2>5. DOMAIN (l \o g) = 1 .. Len(l) + d
    BY <2>4, LenProperties
  <2>6. \A i \in 1 .. d : g[i] \in ToSet(g)
    BY <2>3 DEF ToSet
  <2>7. ASSUME NEW i \in 1 .. Len(l) + d, ~(i <= Len(l))
        PROVE  /\ (l \o g)[i] = next_token + (i - Len(l)) - 1
               /\ (l \o g)[i] < next_token + d
               /\ (l \o g)[i] \in ToSet(g)
    <3>1. i - Len(l) \in 1 .. d
      BY <2>7, <2>2, <1>1
    <3>2. (l \o g)[i] = g[i - Len(l)] /\ g[i - Len(l)] = next_token + (i - Len(l)) - 1
      BY <2>4, <2>7, <3>1, <2>3
    <3>3. (l \o g)[i] \in ToSet(g)
      BY <3>2, <3>1, <2>6
    <3> QED BY <3>1, <3>2, <3>3, <1>3, <1>1
  <2>8. ASSUME NEW i \in 1 .. Len(l) + d
        PROVE  \/ i \in DOMAIN l /\ (l \o g)[i] = l[i]
               \/ /\ i > Len(l)
                  /\ (l \o g)[i] = next_token + (i - Len(l)) - 1
                  /\ (l \o g)[i] < next_token + d
                  /\ (l \o g)[i] \in ToSet(g)
    <3>1. CASE i <= Len(l)
      BY <3>1, <2>4, <1>1
    <3>2. CASE ~(i <= Len(l))
      <4>1. i > Len(l)
        BY <3>2, <1>1, <2>2
      <4>2. /\ (l \o g)[i] = next_token + (i - Len(l)) - 1
            /\ (l \o g)[i] < next_token + d
            /\ (l \o g)[i] \in ToSet(g)
        BY <3>2, <2>7
      <4> QED BY <4>1, <4>2
    <3> QED BY <3>1, <3>2
  <2>9. SubSeq(l, n + 1, Len(l)) = <<>>
    BY <1>1, <1>4, SubSeqEmpty
  <2>10. Dropped(m, n) \in Seq(Tokens) /\ DOMAIN Dropped(m, n) = {}
    <3>1. Dropped(m, n) = Reverse(<<>>)
      BY <2>1, <2>9
    <3>2. Dropped(m, n) = [i \in 1 .. 0 |-> <<>>[(0 - i) + 1]]
      BY <3>1, EmptySeq DEF Reverse
    <3>3. Dropped(m, n) \in [1 .. 0 -> Tokens] /\ DOMAIN Dropped(m, n) = 1 .. 0
      BY <3>2
    <3> QED BY <3>3
  <2>11. next_token + Len(Grown(m, n)) \in next_token .. MaxTokens + 1
    BY <2>1, <2>3, <1>3, <2>2
  <2>12. \A j \in DOMAIN l : j \in DOMAIN (l \o g) /\ (l \o g)[j] = l[j]
    BY <1>1, <2>2, <2>4, <2>5
  <2>13. ASSUME NEW i \in DOMAIN g
         PROVE  /\ g[i] = next_token + i - 1 /\ i \in Nat \ {0}
                /\ \E k \in DOMAIN (l \o g) : (l \o g)[k] = g[i]
    <3> DEFINE k == Len(l) + i
    <3>0. i \in 1 .. d
      BY <2>3
    <3>1. /\ i \in 1 .. d /\ k \in 1 .. Len(l) + d /\ ~(k <= Len(l)) /\ k - Len(l) = i
          /\ i \in Nat \ {0}
      <4>1. \A a, b, x \in Nat : x \in 1 .. b =>
                /\ a + x \in 1 .. a + b /\ ~(a + x <= a) /\ (a + x) - a = x /\ x \in Nat \ {0}
        OBVIOUS
      <4>2. Len(l) \in Nat /\ d \in Nat /\ i \in Nat
        BY <2>2, <3>0, <1>1
      <4> HIDE DEF d
      <4> QED BY <4>1, <4>2, <3>0
    <3> HIDE DEF k
    <3>2. k \in DOMAIN (l \o g) /\ (l \o g)[k] = g[i]
      BY <3>1, <2>4, <2>5
    <3>3. g[i] = next_token + i - 1
      BY <3>0, <2>3
    <3> QED BY <3>1, <3>2, <3>3
  <2>14. \A j \in DOMAIN list[m] :
            j \in DOMAIN Resized(m, n) /\ Resized(m, n)[j] = list[m][j]
    BY <2>1, <2>12 DEF l
  <2>15. \A i \in DOMAIN Grown(m, n) :
            /\ Grown(m, n)[i] = next_token + i - 1 /\ i \in Nat \ {0}
            /\ \E k \in DOMAIN Resized(m, n) : Resized(m, n)[k] = Grown(m, n)[i]
    BY <2>1, <2>13
  <2>16. \A i \in DOMAIN Resized(m, n) :
            \/ i \in DOMAIN list[m] /\ Resized(m, n)[i] = list[m][i]
            \/ /\ i > Len(list[m])
               /\ Resized(m, n)[i] = next_token + (i - Len(list[m])) - 1
               /\ Resized(m, n)[i] < next_token + Len(Grown(m, n))
               /\ Resized(m, n)[i] \in ToSet(Grown(m, n))
    BY <2>1, <2>3, <2>5, <2>8 DEF l
  <2>17. Resized(m, n) \in Seq(Nat) /\ Grown(m, n) \in Seq(Nat) /\ ToSet(Grown(m, n)) \in SUBSET Nat
    BY <2>1, <2>3, <2>4
  <2> QED BY <2>10, <2>11, <2>14, <2>15, <2>16, <2>17
<1>5. CASE ~(n >= Len(l))
  <2> DEFINE r == SubSeq(l, 1, n)
             t == SubSeq(l, n + 1, Len(l))
  <2>1. /\ Resized(m, n) = r /\ Grown(m, n) = <<>>
        /\ Dropped(m, n) = Reverse(t)
    BY <1>5 DEF Resized, Grown, Dropped, l
  <2>2. /\ r \in Seq(Nat) /\ Len(r) = n /\ DOMAIN r = 1 .. n
        /\ \A i \in 1 .. n : i \in DOMAIN l /\ r[i] = l[i]
    <3>1. \A i \in 1 .. n : l[i] \in Nat /\ i \in DOMAIN l
      BY <1>1, <1>5
    <3>2. /\ r \in Seq(Nat) /\ Len(r) = IF 1 <= n THEN n - 1 + 1 ELSE 0
          /\ \A i \in 1 .. n - 1 + 1 : r[i] = l[1 + i - 1]
      BY <3>1, SubSeqProperties
    <3>3. Len(r) = n
      BY <3>2
    <3>4. DOMAIN r = 1 .. n
      BY <3>2, <3>3, LenProperties
    <3>5. \A i \in 1 .. n : r[i] = l[i]
      BY <3>2
    <3> QED BY <3>1, <3>2, <3>3, <3>4, <3>5
  <2>3. /\ t \in Seq(Tokens) /\ Len(t) = Len(l) - n
        /\ \A i \in 1 .. Len(t) : t[i] = l[n + i]
    <3>1. \A i \in n + 1 .. Len(l) : l[i] \in Tokens
      BY <1>2
    <3>2. /\ t \in Seq(Tokens)
          /\ Len(t) = IF n + 1 <= Len(l) THEN Len(l) - (n + 1) + 1 ELSE 0
          /\ \A i \in 1 .. Len(l) - (n + 1) + 1 : t[i] = l[(n + 1) + i - 1]
      BY <3>1, <1>1, SubSeqProperties
    <3> HIDE DEF t
    <3>3. Len(t) = Len(l) - n
      <4>1. n + 1 <= Len(l) /\ Len(l) - (n + 1) + 1 = Len(l) - n
        BY <1>5, <1>1
      <4>2. Len(t) = Len(l) - (n + 1) + 1
        BY <3>2, <4>1
      <4> QED BY <4>1, <4>2
    <3>4. \A i \in 1 .. Len(t) : t[i] = l[n + i]
      <4> TAKE i \in 1 .. Len(t)
      <4>1. i \in 1 .. Len(l) - (n + 1) + 1 /\ (n + 1) + i - 1 = n + i
        BY <3>3, <1>1
      <4> QED BY <3>2, <4>1
    <3> QED BY <3>2, <3>3, <3>4
  <2> HIDE DEF r, t
  <2>4. /\ Reverse(t) \in Seq(Tokens) /\ DOMAIN Reverse(t) = 1 .. Len(t)
        /\ \A i \in 1 .. Len(t) : Reverse(t)[i] = l[n + (Len(t) - i + 1)]
    <3>1. \A i \in 1 .. Len(t) : (Len(t) - i) + 1 \in 1 .. Len(t)
      BY <2>3, <1>1, <1>5
    <3>2. \A i \in 1 .. Len(t) : t[(Len(t) - i) + 1] \in Tokens
      BY <3>1, <2>3, ElementOfSeq
    <3>3. Reverse(t) = [i \in 1 .. Len(t) |-> t[(Len(t) - i) + 1]]
      BY DEF Reverse
    <3>4. Reverse(t) \in [1 .. Len(t) -> Tokens] /\ Len(t) \in Nat
      BY <3>2, <3>3, <2>3, LenProperties
    <3>5. Reverse(t) \in Seq(Tokens)
      BY <3>4
    <3>6. ASSUME NEW i \in 1 .. Len(t)
          PROVE  Reverse(t)[i] = l[n + (Len(t) - i + 1)]
      <4>1. Reverse(t)[i] = t[(Len(t) - i) + 1]
        BY <3>3
      <4> QED BY <4>1, <3>1, <2>3
    <3> QED BY <3>3, <3>5, <3>6
  <2>5. ASSUME NEW i \in 1 .. Len(t)
        PROVE  \E j \in DOMAIN l : Reverse(t)[i] = l[j] /\ j > n
    <3>1. n + (Len(t) - i + 1) \in DOMAIN l /\ n + (Len(t) - i + 1) > n
      BY <2>3, <1>1, <1>5
    <3> QED BY <3>1, <2>4
  <2>6. ToSet(Grown(m, n)) \in SUBSET Nat /\ Len(Grown(m, n)) = 0
    BY <2>1 DEF ToSet
  <2>7. Grown(m, n) \in Seq(Nat) /\ next_token + Len(Grown(m, n)) \in next_token .. MaxTokens + 1
    BY <2>1, <2>6, <1>3
  <2>8. \A k \in DOMAIN Resized(m, n) : k <= n
    BY <2>1, <2>2
  <2>9. \A i \in DOMAIN Dropped(m, n) : \E j \in DOMAIN list[m] :
                /\ Dropped(m, n)[i] = list[m][j]
                /\ j > n /\ \A k \in DOMAIN Resized(m, n) : k <= n
    BY <2>1, <2>4, <2>5, <2>8 DEF l
  <2>10. Dropped(m, n) \in Seq(Tokens) /\ Resized(m, n) \in Seq(Nat)
    BY <2>1, <2>2, <2>4
  <2>11. \A i \in DOMAIN Resized(m, n) :
            i \in DOMAIN list[m] /\ Resized(m, n)[i] = list[m][i]
    BY <2>1, <2>2 DEF l
  <2>12. ASSUME NEW j \in DOMAIN l
         PROVE  \/ j \in DOMAIN r /\ r[j] = l[j]
                \/ \E i \in DOMAIN Reverse(t) : Reverse(t)[i] = l[j]
    <3>1. CASE j <= n
      BY <3>1, <2>2, <1>1
    <3>2. CASE ~(j <= n)
      <4> DEFINE i == (Len(l) - j) + 1
      <4>0. \A a, b \in Nat : b > n /\ b <= a =>
                /\ (a - b) + 1 \in 1 .. (a - n)
                /\ n + ((a - n) - ((a - b) + 1) + 1) = b
        OBVIOUS
      <4>00. j \in Nat /\ j <= Len(l) /\ j > n /\ Len(l) \in Nat /\ Len(t) = Len(l) - n
        BY <3>2, <2>3, <1>1
      <4>1. i \in 1 .. Len(t) /\ n + (Len(t) - i + 1) = j
        BY <4>0, <4>00
      <4> HIDE DEF i
      <4>2. i \in DOMAIN Reverse(t) /\ Reverse(t)[i] = l[n + (Len(t) - i + 1)]
        BY <4>1, <2>4
      <4>3. Reverse(t)[i] = l[j]
        BY <4>1, <4>2
      <4> QED BY <4>2, <4>3
    <3> QED BY <3>1, <3>2
  <2>13. DOMAIN Grown(m, n) = {}
    BY <2>1
  <2> QED BY <2>1, <2>6, <2>7, <2>9, <2>10, <2>11, <2>12, <2>13 DEF l
<1> QED BY <1>4, <1>5

LEMMA TailIs ==
    ASSUME NEW S, NEW q \in Seq(S), q # <<>>
    PROVE  /\ Head(q) = q[1] /\ 1 \in DOMAIN q /\ q[1] \in S
           /\ Tail(q) \in Seq(S)
           /\ Len(Tail(q)) = Len(q) - 1
           /\ \A i \in DOMAIN Tail(q) : i + 1 \in DOMAIN q /\ Tail(q)[i] = q[i + 1]
           /\ \A i \in DOMAIN q : i # 1 => i - 1 \in DOMAIN Tail(q)
<1>1. /\ Head(q) \in S /\ Tail(q) \in Seq(S) /\ Len(Tail(q)) = Len(q)-1
      /\ \A i \in 1 .. Len(Tail(q)) : Tail(q)[i] = q[i+1]
  BY HeadTailProperties
<1>2. Len(q) \in Nat \ {0} /\ DOMAIN q = 1 .. Len(q)
  BY EmptySeq, LenProperties
<1>3. DOMAIN Tail(q) = 1 .. Len(Tail(q))
  BY <1>1, LenProperties
<1>4. Head(q) = q[1] /\ q[1] \in S
  BY <1>1
<1> QED BY <1>1, <1>2, <1>3, <1>4

LEMMA AppendIs ==
    ASSUME NEW S, NEW q \in Seq(S), NEW e \in S
    PROVE  /\ Append(q, e) \in Seq(S)
           /\ Len(Append(q, e)) = Len(q) + 1
           /\ \A i \in DOMAIN q : i \in DOMAIN Append(q, e) /\ Append(q, e)[i] = q[i]
           /\ Len(q) + 1 \in DOMAIN Append(q, e) /\ Append(q, e)[Len(q) + 1] = e
           /\ \A i \in DOMAIN Append(q, e) : i \in DOMAIN q \/ i = Len(q) + 1
<1>1. /\ Append(q, e) \in Seq(S) /\ Len(Append(q, e)) = Len(q)+1
      /\ \A i \in 1 .. Len(q) : Append(q, e)[i] = q[i]
      /\ Append(q, e)[Len(q)+1] = e
  BY AppendProperties
<1>2. Len(q) \in Nat /\ DOMAIN q = 1 .. Len(q)
  BY LenProperties
<1>3. DOMAIN Append(q, e) = 1 .. Len(q) + 1
  BY <1>1, LenProperties
<1> QED BY <1>1, <1>2, <1>3

\* A callback belongs to a request or to a server.
LEMMA TaskIs ==
    ASSUME Typed, tasks # <<>>
    PROVE  /\ Head(tasks) = tasks[1] /\ 1 \in DOMAIN tasks
           /\ Tail(tasks) \in Seq(Requests \union Settlements)
           /\ \/ /\ Head(tasks) \in Requests
                 /\ Head(tasks).type \in {"add", "remove", "start"}
              \/ /\ Head(tasks) \in Settlements
                 /\ Head(tasks).type \in {"created", "failed"}
                 /\ Head(tasks).server \in Servers
                 /\ Head(tasks) = [type |-> Head(tasks).type, server |-> Head(tasks).server]
<1>1. tasks \in Seq(Requests \union Settlements)
  BY DEF Typed
<1>2. /\ Head(tasks) = tasks[1] /\ 1 \in DOMAIN tasks
      /\ tasks[1] \in Requests \union Settlements
      /\ Tail(tasks) \in Seq(Requests \union Settlements)
  BY <1>1, TailIs
<1>3. ASSUME tasks[1] \in Settlements
      PROVE  /\ tasks[1].type \in {"created", "failed"} /\ tasks[1].server \in Servers
             /\ tasks[1] = [type |-> tasks[1].type, server |-> tasks[1].server]
  BY <1>3 DEF Settlements
<1>4. ASSUME tasks[1] \in Requests PROVE tasks[1].type \in {"add", "remove", "start"}
  BY <1>4 DEF Requests
<1> QED BY <1>2, <1>3, <1>4

\* RunTask runs one of five callbacks.
LEMMA RunTaskIs ==
    ASSUME Typed, RunTask
    PROVE  /\ chunk = None /\ tasks # <<>> /\ tasks' = Tail(tasks)
           /\ UNCHANGED <<chunk, stalled, lobbyVars>>
           /\ \/ \E s \in Servers : /\ Head(tasks) = [type |-> "created", server |-> s]
                                    /\ Created(s)
              \/ Head(tasks).type = "failed" /\ StopServer
              \/ Head(tasks) \in Requests /\ Head(tasks).type = "add"
                 /\ PlayerAdded(Head(tasks))
              \/ Head(tasks) \in Requests /\ Head(tasks).type = "remove"
                 /\ PlayerRemoved(Head(tasks))
              \/ Head(tasks) \in Requests /\ Head(tasks).type = "start"
                 /\ next_token + wanted <= MaxTokens + 1 /\ GameStarted
<1>1. tasks # <<>> /\ chunk = None /\ tasks' = Tail(tasks)
      /\ UNCHANGED <<chunk, stalled, lobbyVars>>
  BY DEF RunTask
<1>2. \/ /\ Head(tasks) \in Requests
         /\ Head(tasks).type \in {"add", "remove", "start"}
      \/ /\ Head(tasks).type \in {"created", "failed"}
         /\ Head(tasks).server \in Servers
         /\ Head(tasks) = [type |-> Head(tasks).type, server |-> Head(tasks).server]
  BY <1>1, TaskIs
<1>3. /\ Head(tasks).type = "created" => Created(Head(tasks).server)
      /\ Head(tasks).type = "failed" => StopServer
      /\ Head(tasks).type = "add" => PlayerAdded(Head(tasks))
      /\ Head(tasks).type = "remove" => PlayerRemoved(Head(tasks))
      /\ Head(tasks).type = "start" => next_token + wanted <= MaxTokens + 1 /\ GameStarted
  BY DEF RunTask
<1> QED BY <1>1, <1>2, <1>3

\* Reading a frame leaves the ones behind it.
LEMMA FrameIs ==
    ASSUME Typed, NEW s \in Servers, NextFrame(s)
    PROVE  /\ to_client[s] # <<>> /\ Head(to_client[s]) = to_client[s][1]
           /\ 1 \in DOMAIN to_client[s]
           /\ \/ /\ Head(to_client[s]) \in Requests
                 /\ Head(to_client[s]).type \in {"add", "remove", "start"}
              \/ /\ Head(to_client[s]) \in News
                 /\ Head(to_client[s]).type \in {"connected", "disconnected"}
           /\ to_client' \in [Servers -> Seq(Requests \union News)]
           /\ to_client'[s] = Tail(to_client[s])
           /\ \A i \in DOMAIN to_client'[s] :
                i + 1 \in DOMAIN to_client[s] /\ to_client'[s][i] = to_client[s][i + 1]
           /\ \A r \in Servers : r # s => to_client'[r] = to_client[r]
<1>1. to_client \in [Servers -> Seq(Requests \union News)]
  BY DEF Typed
<1>2. to_client[s] \in Seq(Requests \union News) /\ to_client[s] # <<>>
      /\ to_client' = [to_client EXCEPT ![s] = Tail(@)]
  BY <1>1 DEF NextFrame
<1>3. /\ Head(to_client[s]) = to_client[s][1] /\ 1 \in DOMAIN to_client[s]
      /\ to_client[s][1] \in Requests \union News
      /\ Tail(to_client[s]) \in Seq(Requests \union News)
      /\ \A i \in DOMAIN Tail(to_client[s]) :
            i + 1 \in DOMAIN to_client[s] /\ Tail(to_client[s])[i] = to_client[s][i + 1]
  BY <1>2, TailIs
<1>4. ASSUME to_client[s][1] \in News
      PROVE  to_client[s][1].type \in {"connected", "disconnected"}
  BY <1>4 DEF News
<1>5. ASSUME to_client[s][1] \in Requests
      PROVE  to_client[s][1].type \in {"add", "remove", "start"}
  BY <1>5 DEF Requests
<1>6. /\ to_client' \in [Servers -> Seq(Requests \union News)]
      /\ to_client'[s] = Tail(to_client[s])
      /\ \A r \in Servers : r # s => to_client'[r] = to_client[r]
  BY <1>1, <1>2, <1>3
<1> QED BY <1>2, <1>3, <1>4, <1>5, <1>6

\* Telling puts a frame behind the others.
LEMMA TellIs ==
    ASSUME Typed, NEW s \in Servers, NEW frame \in Requests \union News, Tell(s, frame)
    PROVE  /\ to_client' \in [Servers -> Seq(Requests \union News)]
           /\ to_client'[s] = Append(to_client[s], frame)
           /\ \A i \in DOMAIN to_client'[s] :
                \/ i \in DOMAIN to_client[s] /\ to_client'[s][i] = to_client[s][i]
                \/ to_client'[s][i] = frame
           /\ \A r \in Servers : r # s => to_client'[r] = to_client[r]
<1>1. to_client \in [Servers -> Seq(Requests \union News)]
  BY DEF Typed
<1>2. to_client[s] \in Seq(Requests \union News)
      /\ to_client' = [to_client EXCEPT ![s] = Append(@, frame)]
  BY <1>1 DEF Tell
<1>3. /\ Append(to_client[s], frame) \in Seq(Requests \union News)
      /\ \A i \in DOMAIN to_client[s] : Append(to_client[s], frame)[i] = to_client[s][i]
      /\ Append(to_client[s], frame)[Len(to_client[s]) + 1] = frame
      /\ \A i \in DOMAIN Append(to_client[s], frame) :
            i \in DOMAIN to_client[s] \/ i = Len(to_client[s]) + 1
  BY <1>2, AppendIs
<1>4. /\ to_client' \in [Servers -> Seq(Requests \union News)]
      /\ to_client'[s] = Append(to_client[s], frame)
      /\ \A r \in Servers : r # s => to_client'[r] = to_client[r]
  BY <1>1, <1>2, <1>3
<1> QED BY <1>3, <1>4

\* The server reads the first request.
LEMMA ServeIs ==
    ASSUME Typed, NEW s \in Servers, Serve(s)
    PROVE  /\ Head(to_server[s]) = to_server[s][1] /\ 1 \in DOMAIN to_server[s]
           /\ Head(to_server[s]) \in Requests
           /\ to_server' \in [Servers -> Seq(Requests)]
           /\ \A i \in DOMAIN to_server'[s] :
                i + 1 \in DOMAIN to_server[s] /\ to_server'[s][i] = to_server[s][i + 1]
           /\ \A r \in Servers : r # s => to_server'[r] = to_server[r]
           /\ UNCHANGED <<uiVars, slotVars, runnerVars, noteVars, loopVars, procVars>>
           /\ proc[s] \in {"up", "killed"}
           /\ \/ phase[s] = "playing" /\ UNCHANGED <<to_client, lobbyVars>>
              \/ /\ phase[s] # "playing" /\ Head(to_server[s]).type = "add"
                 /\ players' = [players EXCEPT ![s] =
                                 With(players[s], counter[s], Head(to_server[s]).token)]
                 /\ counter' = [counter EXCEPT ![s] = @ + 1]
                 /\ Tell(s, [Head(to_server[s]) EXCEPT !.id = counter[s]])
                 /\ [Head(to_server[s]) EXCEPT !.id = counter[s]] \in Requests
                 /\ UNCHANGED <<phase, online>>
              \/ /\ phase[s] # "playing" /\ Head(to_server[s]).type = "remove"
                 /\ players' = [players EXCEPT ![s] =
                          [i \in DOMAIN @ \ {Head(to_server[s]).id} |-> @[i]]]
                 /\ Tell(s, Head(to_server[s]))
                 /\ UNCHANGED <<phase, counter, online>>
              \/ /\ phase[s] # "playing" /\ Head(to_server[s]).type = "start"
                 /\ phase' = [phase EXCEPT ![s] = "playing"]
                 /\ Tell(s, Head(to_server[s]))
                 /\ UNCHANGED <<players, counter, online>>
<1>1. to_server \in [Servers -> Seq(Requests)] /\ counter[s] \in Nat
  BY DEF Typed
<1>2. to_server[s] \in Seq(Requests) /\ to_server[s] # <<>>
      /\ to_server' = [to_server EXCEPT ![s] = Tail(@)]
  BY <1>1 DEF Serve
<1>3. /\ Head(to_server[s]) = to_server[s][1] /\ 1 \in DOMAIN to_server[s]
      /\ to_server[s][1] \in Requests
      /\ Tail(to_server[s]) \in Seq(Requests)
      /\ \A i \in DOMAIN Tail(to_server[s]) :
            i + 1 \in DOMAIN to_server[s] /\ Tail(to_server[s])[i] = to_server[s][i + 1]
  BY <1>2, TailIs
<1>4. Head(to_server[s]).type \in {"add", "remove", "start"}
      /\ [Head(to_server[s]) EXCEPT !.id = counter[s]] \in Requests
  BY <1>1, <1>3 DEF Requests
<1>5. /\ to_server' \in [Servers -> Seq(Requests)]
      /\ to_server'[s] = Tail(to_server[s])
      /\ \A r \in Servers : r # s => to_server'[r] = to_server[r]
  BY <1>1, <1>2, <1>3
<1>6. CASE phase[s] = "playing"
  <2>1. UNCHANGED <<to_client, lobbyVars>>
    BY <1>6 DEF Serve
  <2> QED BY <2>1, <1>3, <1>5, <1>6 DEF Serve
<1>7. CASE phase[s] # "playing"
  <2>1. CASE Head(to_server[s]).type = "add"
    <3>1. /\ players' = [players EXCEPT ![s] =
                                 With(players[s], counter[s], Head(to_server[s]).token)]
          /\ counter' = [counter EXCEPT ![s] = @ + 1]
          /\ Tell(s, [Head(to_server[s]) EXCEPT !.id = counter[s]])
          /\ UNCHANGED <<phase, online>>
      BY <2>1, <1>7 DEF Serve
    <3> QED BY <3>1, <2>1, <1>3, <1>4, <1>5, <1>7 DEF Serve
  <2>2. CASE Head(to_server[s]).type = "remove"
    <3>1. /\ players' = [players EXCEPT ![s] =
                          [i \in DOMAIN @ \ {Head(to_server[s]).id} |-> @[i]]]
          /\ Tell(s, Head(to_server[s]))
          /\ UNCHANGED <<phase, counter, online>>
      BY <2>2, <1>7 DEF Serve
    <3> QED BY <3>1, <2>2, <1>3, <1>4, <1>5, <1>7 DEF Serve
  <2>3. CASE Head(to_server[s]).type = "start"
    <3>1. /\ phase' = [phase EXCEPT ![s] = "playing"]
          /\ Tell(s, Head(to_server[s]))
          /\ UNCHANGED <<players, counter, online>>
      BY <2>3, <1>7 DEF Serve
    <3> QED BY <3>1, <2>3, <1>3, <1>4, <1>5, <1>7 DEF Serve
  <2> QED BY <2>1, <2>2, <2>3, <1>4
<1> QED BY <1>6, <1>7

LEMMA ConcatIs ==
    ASSUME NEW S, NEW q \in Seq(S), NEW r \in Seq(S)
    PROVE  /\ q \o r \in Seq(S)
           /\ \A i \in DOMAIN (q \o r) :
                \/ i \in DOMAIN q /\ (q \o r)[i] = q[i]
                \/ i > Len(q) /\ i - Len(q) \in DOMAIN r /\ (q \o r)[i] = r[i - Len(q)]
           /\ \A i \in DOMAIN q : i \in DOMAIN (q \o r) /\ (q \o r)[i] = q[i]
           /\ \A i \in DOMAIN r : Len(q) + i \in DOMAIN (q \o r)
                                  /\ (q \o r)[Len(q) + i] = r[i]
           /\ Len(q) \in Nat /\ DOMAIN q = 1 .. Len(q)
           /\ Len(r) \in Nat /\ DOMAIN r = 1 .. Len(r)
           /\ DOMAIN (q \o r) = 1 .. Len(q) + Len(r)
<1>1. /\ q \o r \in Seq(S) /\ Len(q \o r) = Len(q) + Len(r)
      /\ \A i \in 1 .. Len(q) + Len(r) :
            (q \o r)[i] = IF i <= Len(q) THEN q[i] ELSE r[i - Len(q)]
  BY ConcatProperties
<1>2. /\ Len(q) \in Nat /\ DOMAIN q = 1 .. Len(q)
      /\ Len(r) \in Nat /\ DOMAIN r = 1 .. Len(r)
      /\ DOMAIN (q \o r) = 1 .. Len(q) + Len(r)
  BY <1>1, LenProperties
<1>3. \A i \in DOMAIN (q \o r) :
         \/ i \in DOMAIN q /\ (q \o r)[i] = q[i]
         \/ i > Len(q) /\ i - Len(q) \in DOMAIN r /\ (q \o r)[i] = r[i - Len(q)]
  <2> TAKE i \in DOMAIN (q \o r)
  <2>1. CASE i <= Len(q)
    BY <1>1, <1>2, <2>1
  <2>2. CASE ~(i <= Len(q))
    <3>1. i > Len(q) /\ i - Len(q) \in DOMAIN r
      BY <1>2, <2>2
    <3> QED BY <3>1, <1>1, <1>2, <2>2
  <2> QED BY <2>1, <2>2
<1>4. \A i \in DOMAIN q : i \in DOMAIN (q \o r) /\ (q \o r)[i] = q[i]
  BY <1>1, <1>2
<1>5. \A i \in DOMAIN r : Len(q) + i \in DOMAIN (q \o r) /\ (q \o r)[Len(q) + i] = r[i]
  <2> TAKE i \in DOMAIN r
  <2>1. Len(q) + i \in 1 .. Len(q) + Len(r) /\ ~(Len(q) + i <= Len(q))
        /\ (Len(q) + i) - Len(q) = i
    BY <1>2
  <2> QED BY <2>1, <1>1, <1>2
<1> QED BY <1>1, <1>2, <1>3, <1>4, <1>5

\* What a click on slots writes: requests of the current manager, and removals
\* only of the slots that were dropped.
Clicked(x, dropped) ==
    /\ x \in Requests /\ x.type \in {"add", "remove"} /\ x.manager = manager
    /\ x.type = "remove" => x.token \in dropped

\* Requests behind the old ones, to a server that is up.
Written(s, dropped) ==
    /\ to_server' \in [Servers -> Seq(Requests)]
    /\ \A r \in Servers :
        /\ to_server'[r] # to_server[r] => r = s /\ proc[r] = "up"
        /\ \A i \in DOMAIN to_server'[r] :
            \/ i \in DOMAIN to_server[r] /\ to_server'[r][i] = to_server[r][i]
            \/ r = s /\ proc[r] = "up" /\ Clicked(to_server'[r][i], dropped)

LEMMA WrittenIs ==
    ASSUME Typed, NEW s, NEW requests \in Seq(Requests), Send(s, requests),
           NEW dropped, \A k \in DOMAIN requests : Clicked(requests[k], dropped)
    PROVE  Written(s, dropped)
<1>1. /\ to_server' \in [Servers -> Seq(Requests)]
      /\ \A r \in Servers :
           /\ to_server'[r] # to_server[r] => r = s /\ proc[r] = "up"
           /\ \A i \in DOMAIN to_server'[r] :
                    \/ i \in DOMAIN to_server[r] /\ to_server'[r][i] = to_server[r][i]
                    \/ /\ r = s /\ proc[r] = "up"
                       /\ \E k \in DOMAIN requests : to_server'[r][i] = requests[k]
  BY SendIs
<1> QED BY <1>1 DEF Written

\* SelectMap writes for the slots that are new and for those that are dropped.
LEMMA SelectMapIs ==
    ASSUME LobbyAssumption, Typed, TokensDiffer, NEW n \in SlotCounts, SelectMap(n)
    PROVE  Written(runner[manager], {list[manager][j] : j \in
                {k \in DOMAIN list[manager] :
                    \A i \in DOMAIN list'[manager] : i < k}})
<1> DEFINE drop == {list[manager][j] : j \in
                {k \in DOMAIN list[manager] :
                    \A i \in DOMAIN list'[manager] : i < k}}
           m == manager
<1>1. m \in Managers /\ n \in Nat /\ list \in [Managers -> Seq(Nat)]
  BY DEF Typed, LobbyAssumption
<1>2. /\ next_token + Len(Grown(m, n)) <= MaxTokens + 1
      /\ list' = [list EXCEPT ![m] = Resized(m, n)]
      /\ Send(runner[m], Registrations(m, Grown(m, n)) \o Removals(m, Dropped(m, n)))
  BY DEF SelectMap, UpdateSlots
<1>3. list'[m] = Resized(m, n)
  BY <1>1, <1>2
<1>4. /\ Grown(m, n) \in Seq(Nat) /\ Dropped(m, n) \in Seq(Tokens)
      /\ \A i \in DOMAIN Dropped(m, n) : \E j \in DOMAIN list[m] :
                /\ Dropped(m, n)[i] = list[m][j]
                /\ j > n /\ \A k \in DOMAIN Resized(m, n) : k <= n
      /\ Resized(m, n) \in Seq(Nat)
  BY <1>1, <1>2, ResizedIs
<1>5. \A i \in DOMAIN Dropped(m, n) : Dropped(m, n)[i] \in drop
  <2> TAKE i \in DOMAIN Dropped(m, n)
  <2>1. PICK j \in DOMAIN list[m] :
            /\ Dropped(m, n)[i] = list[m][j]
            /\ j > n /\ \A k \in DOMAIN Resized(m, n) : k <= n
    BY <1>4
  <2>2. j \in Nat /\ \A k \in DOMAIN Resized(m, n) : k \in Nat
    <3>1. list[m] \in Seq(Nat)
      BY <1>1
    <3> QED BY SMTT(30), <3>1, <1>4, LenProperties
  <2>3. \A k \in DOMAIN list'[m] : k < j
    BY <1>3, <2>1, <2>2, <1>1
  <2> QED BY <2>1, <2>3
<1> HIDE DEF drop
<1>6. /\ Registrations(m, Grown(m, n)) \in Seq(Requests)
      /\ \A k \in DOMAIN Registrations(m, Grown(m, n)) :
            /\ Registrations(m, Grown(m, n))[k].type = "add"
            /\ Registrations(m, Grown(m, n))[k].manager = m
  BY <1>1, <1>4, RegistrationsAre
<1>7. /\ Removals(m, Dropped(m, n)) \in Seq(Requests)
      /\ \A k \in DOMAIN Removals(m, Dropped(m, n)) : \E i \in DOMAIN Dropped(m, n) :
                /\ Removals(m, Dropped(m, n))[k].type = "remove"
                /\ Removals(m, Dropped(m, n))[k].manager = m
                /\ Removals(m, Dropped(m, n))[k].token = Dropped(m, n)[i]
  BY <1>1, <1>4, RemovalsAre
<1> DEFINE a == Registrations(m, Grown(m, n))
           b == Removals(m, Dropped(m, n))
<1>8. \A k \in DOMAIN a : Clicked(a[k], drop)
  BY <1>6, ElementOfSeq, LenProperties DEF Clicked
<1>9. \A k \in DOMAIN b : Clicked(b[k], drop)
  BY <1>7, <1>5, ElementOfSeq, LenProperties DEF Clicked
<1> HIDE DEF a, b
<1>10. a \o b \in Seq(Requests) /\ \A k \in DOMAIN (a \o b) : Clicked((a \o b)[k], drop)
  <2>1. /\ a \o b \in Seq(Requests)
        /\ \A i \in DOMAIN (a \o b) :
                \/ i \in DOMAIN a /\ (a \o b)[i] = a[i]
                \/ i > Len(a) /\ i - Len(a) \in DOMAIN b /\ (a \o b)[i] = b[i - Len(a)]
    BY <1>6, <1>7, ConcatIs DEF a, b
  <2> QED BY <2>1, <1>8, <1>9
<1>11. Written(runner[m], drop)
  BY <1>10, <1>2, WrittenIs DEF a, b
<1> QED BY <1>11 DEF drop

\* KickPlayer writes for the slot that goes and for the one in its place.
LEMMA KickPlayerIs ==
    ASSUME LobbyAssumption, Typed, TokensDiffer, NEW i \in 1 .. MaxTokens, KickPlayer(i)
    PROVE  Written(runner[manager], {list[manager][i]})
<1> DEFINE m == manager
           t == list[m][i]
           a == Removals(m, <<t>>)
           b == Registrations(m, <<next_token>>)
<1>1. /\ m \in Managers /\ next_token \in Nat
      /\ i \in DOMAIN list[m] /\ next_token \in 1 .. MaxTokens + 1 /\ MaxTokens \in Nat
      /\ Send(runner[m], a \o b)
  BY DEF Typed, KickPlayer, LobbyAssumption
<1>2. t \in Tokens
  <2>1. t \in 1 .. next_token - 1
    BY <1>1 DEF TokensDiffer
  <2> QED BY <2>1, <1>1 DEF Tokens
<1> HIDE DEF t
<1>3. /\ a \in Seq(Requests)
      /\ \A k \in DOMAIN a : a[k].type = "remove" /\ a[k].manager = m /\ a[k].token = t
  <2> DEFINE ts == <<t>>
  <2>1. ts \in Seq(Tokens) /\ \A j \in DOMAIN ts : ts[j] = t
    BY <1>2
  <2>2. a = Removals(m, ts)
    OBVIOUS
  <2> HIDE DEF ts, a
  <2>3. /\ a \in Seq(Requests)
        /\ \A k \in DOMAIN a : \E j \in DOMAIN ts :
            a[k].type = "remove" /\ a[k].manager = m /\ a[k].token = ts[j]
    BY <1>1, <2>1, <2>2, RemovalsAre
  <2> QED BY <2>1, <2>3
<1>4. /\ b \in Seq(Requests)
      /\ \A k \in DOMAIN b : b[k].type = "add" /\ b[k].manager = m
  <2>1. <<next_token>> \in Seq(Nat)
    BY <1>1
  <2> QED BY <2>1, <1>1, RegistrationsAre
<1>5. \A k \in DOMAIN a : Clicked(a[k], {t})
  <2> TAKE k \in DOMAIN a
  <2>1. a[k] \in Requests
    BY <1>3, ElementOfSeq, LenProperties
  <2> QED BY <2>1, <1>3 DEF Clicked
<1>6. \A k \in DOMAIN b : Clicked(b[k], {t})
  <2> TAKE k \in DOMAIN b
  <2>1. b[k] \in Requests
    BY <1>4, ElementOfSeq, LenProperties
  <2> QED BY <2>1, <1>4 DEF Clicked
<1> HIDE DEF a, b
<1>7. a \o b \in Seq(Requests) /\ \A k \in DOMAIN (a \o b) : Clicked((a \o b)[k], {t})
  <2>1. /\ a \o b \in Seq(Requests)
        /\ \A k \in DOMAIN (a \o b) :
                \/ k \in DOMAIN a /\ (a \o b)[k] = a[k]
                \/ k > Len(a) /\ k - Len(a) \in DOMAIN b /\ (a \o b)[k] = b[k - Len(a)]
    BY <1>3, <1>4, ConcatIs
  <2> QED BY <2>1, <1>5, <1>6
<1>8. Written(runner[m], {t})
  BY <1>7, <1>1, WrittenIs
<1> QED BY <1>8 DEF t

\* setMatchRunner asks for a player for every slot of the current manager.
LEMMA NewPlayersAre ==
    ASSUME Typed, NEW s
    PROVE  /\ NewPlayers(s) \in Seq(Requests)
           /\ \A i \in DOMAIN NewPlayers(s) :
                /\ NewPlayers(s)[i].type = "add"
                /\ NewPlayers(s)[i].manager = manager
<1>1. list[manager] \in Seq(Nat) /\ manager \in Managers
  BY DEF Typed
<1>2. DOMAIN list[manager] = 1 .. Len(list[manager]) /\ Len(list[manager]) \in Nat
  BY <1>1, LenProperties
<1>3. \A i \in 1 .. Len(list[manager]) :
         AddPlayer(manager, list[manager][i]) \in Requests
  BY <1>1, ElementOfSeq, RequestsTyped DEF None
<1>4. NewPlayers(s) \in [1 .. Len(list[manager]) -> Requests]
  BY <1>2, <1>3 DEF NewPlayers
<1>5. NewPlayers(s) \in Seq(Requests)
  BY <1>2, <1>4
<1> QED BY <1>2, <1>5 DEF NewPlayers, AddPlayer
-----------------------------------------------------------------------------
(* The values *)

\* The server of a match that is saved was not saved before, so there are no
\* more matches than servers, and the next slot manager is one of the Managers.
LEMMA NextManagerExists ==
    ASSUME LobbyAssumption, Books, validifyRunning
    PROVE  /\ manager + 1 \in Managers
           /\ IsFiniteSet(SavedServers)
           /\ Cardinality(SavedServers \union {server}) = Cardinality(SavedServers) + 1
<1>1. SavedServers \subseteq Servers /\ server \in Servers /\ server \notin SavedServers
  BY DEF Books, Typed, SavedServers, ServersHanded, validifyRunning
<1>2. IsFiniteSet(Servers) /\ Cardinality(Servers) = MaxServers /\ MaxServers \in Nat
  <2>1. MaxServers \in Nat
    BY DEF LobbyAssumption
  <2>2. IsFiniteSet(1 .. MaxServers)
        /\ Cardinality(1 .. MaxServers) = IF 1 > MaxServers THEN 0 ELSE MaxServers - 1 + 1
    BY <2>1, FS_Interval
  <2> QED BY <2>1, <2>2 DEF Servers
<1>3. IsFiniteSet(SavedServers)
  BY <1>1, <1>2, FS_Subset
<1>4. Cardinality(SavedServers \union {server}) = Cardinality(SavedServers) + 1
  BY <1>1, <1>3, FS_AddElement
<1>5. Cardinality(SavedServers \union {server}) <= MaxServers
  <2>1. SavedServers \union {server} \in SUBSET Servers
    BY <1>1
  <2> QED BY <2>1, <1>2, FS_Subset
<1>6. Cardinality(SavedServers) \in Nat
  BY <1>3, FS_CardinalityType
<1>7. manager = 1 + Cardinality(SavedServers)
  BY DEF Books, ManagersCounted
<1> QED BY <1>2, <1>3, <1>4, <1>5, <1>6, <1>7 DEF Managers

\* A slot whose fields are set is still a slot.
LEMMA ObjectsStay ==
    ASSUME NEW objects \in [Tokens -> Objects], NEW t,
           NEW b \in Bots \union {None}, NEW id \in Nat, NEW c \in BOOLEAN
    PROVE  /\ [objects EXCEPT ![t].bot = b] \in [Tokens -> Objects]
           /\ [objects EXCEPT ![t].clientId = id] \in [Tokens -> Objects]
           /\ [objects EXCEPT ![t].connected = c] \in [Tokens -> Objects]
<1>1. ASSUME NEW u \in Tokens
      PROVE  /\ [objects[u] EXCEPT !.bot = b] \in Objects
             /\ [objects[u] EXCEPT !.clientId = id] \in Objects
             /\ [objects[u] EXCEPT !.connected = c] \in Objects
  <2>1. objects[u] \in Objects
    OBVIOUS
  <2> QED BY <2>1 DEF Objects
<1> QED BY <1>1

LEMMA TypedStep ==
    ASSUME LobbyAssumption, Books, [Next]_vars
    PROVE  Typed'
<1>0. Typed /\ TokensDiffer
  BY DEF Books
<1>1. ASSUME NEW n \in SlotCounts, SelectMap(n) PROVE Typed'
  <2>1. Written(runner[manager], {list[manager][j] : j \in
                {k \in DOMAIN list[manager] :
                    \A i \in DOMAIN list'[manager] : i < k}})
    BY <1>0, <1>1, SelectMapIs
  <2>2. to_server' \in [Servers -> Seq(Requests)]
    BY <2>1 DEF Written
  <2>3. manager \in Managers /\ n \in Nat
    BY <1>0 DEF Typed, LobbyAssumption
  <2> DEFINE l == Resized(manager, n)
             g == Grown(manager, n)
  <2>4. /\ wanted' = n /\ next_token' = next_token + Len(g)
        /\ next_token + Len(g) <= MaxTokens + 1
        /\ list' = [list EXCEPT ![manager] = l]
        /\ slots' = [slots EXCEPT ![manager] = @ \union ToSet(g)]
        /\ UNCHANGED <<page, server, manager, clients, runner, slot, to_client,
                   runnerVars, noteVars, loopVars, procVars, lobbyVars>>
    BY <1>1 DEF SelectMap, UpdateSlots
  <2>5. /\ l \in Seq(Nat) /\ next_token + Len(g) \in next_token .. MaxTokens + 1
        /\ ToSet(g) \in SUBSET Nat
    BY <1>0, <2>3, <2>4, ResizedIs
  <2> HIDE DEF l, g
  <2>6. list' \in [Managers -> Seq(Nat)] /\ slots' \in [Managers -> SUBSET Nat]
        /\ next_token' \in 1 .. MaxTokens + 1 /\ wanted' \in Nat
    BY SMTT(30), <1>0, <2>3, <2>4, <2>5 DEF Typed
  <2> QED BY <1>0, <2>2, <2>4, <2>6 DEF Typed, runnerVars, noteVars, loopVars,
            procVars, lobbyVars
<1>2. ASSUME NEW b \in Bots, AddLocalBot(b) PROVE Typed'
  <2>1. PICK i \in DOMAIN list[manager] :
            slot' = [slot EXCEPT ![list[manager][i]].bot = b]
    BY <1>2 DEF AddLocalBot
  <2>2. slot' \in [Tokens -> Objects]
    <3>1. slot \in [Tokens -> Objects] /\ 0 \in Nat /\ TRUE \in BOOLEAN
      BY <1>0 DEF Typed
    <3> QED BY <3>1, <2>1, ObjectsStay
  <2> QED BY <1>0, <1>2, <2>2 DEF Typed, AddLocalBot, runnerVars, noteVars, loopVars,
            procVars, lobbyVars, netVars
<1>3. ASSUME NEW i \in 1 .. MaxTokens, KickPlayer(i) PROVE Typed'
  <2>1. Written(runner[manager], {list[manager][i]})
    BY <1>0, <1>3, KickPlayerIs
  <2>2. to_server' \in [Servers -> Seq(Requests)]
    BY <2>1 DEF Written
  <2>3. /\ manager \in Managers /\ i \in DOMAIN list[manager]
        /\ next_token <= MaxTokens /\ next_token \in 1 .. MaxTokens + 1 /\ MaxTokens \in Nat
        /\ list' = [list EXCEPT ![manager][i] = next_token]
        /\ slots' = [slots EXCEPT ![manager] = @ \union {next_token}]
        /\ next_token' = next_token + 1
    BY <1>0, <1>3 DEF Typed, KickPlayer, LobbyAssumption
  <2>4. [list[manager] EXCEPT ![i] = next_token] \in Seq(Nat)
    <3>1. list[manager] \in Seq(Nat)
      BY <1>0, <2>3 DEF Typed
    <3> QED BY <3>1, <2>3, ExceptSeq, LenProperties
  <2>5. list' = [list EXCEPT ![manager] = [list[manager] EXCEPT ![i] = next_token]]
    BY <2>3
  <2>6. list' \in [Managers -> Seq(Nat)] /\ slots' \in [Managers -> SUBSET Nat]
        /\ next_token' \in 1 .. MaxTokens + 1
    BY <1>0, <2>3, <2>4, <2>5 DEF Typed
  <2> QED BY <1>0, <1>3, <2>2, <2>6 DEF Typed, KickPlayer, runnerVars, noteVars, loopVars,
            procVars, lobbyVars
<1>4. ASSUME NEW i \in 1 .. MaxTokens, ConnectLocalBot(i) PROVE Typed'
  BY <1>0, <1>4 DEF Typed, ConnectLocalBot, uiVars, slotVars, netVars, runnerVars,
     loopVars, procVars, lobbyVars
<1>5. ASSUME NEW p \in Ports, StartServer(p) PROVE Typed'
  <2>1. PICK s \in Servers :
        /\ proc' = [proc EXCEPT ![s] =
                IF \E r \in Servers : proc[r] \in {"up", "killed"} /\ port[r] = p
                THEN "failing" ELSE "up"]
        /\ port' = [port EXCEPT ![s] = p]
        /\ promise' = [promise EXCEPT ![s] = "pending"]
        /\ captured' = [captured EXCEPT ![s] = manager]
    BY <1>5 DEF StartServer
  <2> QED BY <1>0, <1>5, <2>1 DEF Typed, StartServer, uiVars, slotVars, noteVars,
        loopVars, lobbyVars, netVars
<1>6. ASSUME StopServer, ClickStop PROVE Typed'
  BY <1>0, <1>6 DEF Typed, ClickStop, StopServer, KillServer, slotVars, runnerVars,
     noteVars, loopVars, lobbyVars, netVars
<1>7. ASSUME LaunchGame PROVE Typed'
  <2>1. Send(server, <<StartGame>>) /\ <<StartGame>> \in Seq(Requests)
    BY <1>7 DEF LaunchGame, StartGame, Requests, None
  <2>2. to_server' \in [Servers -> Seq(Requests)]
    BY <1>0, <2>1, SendIs
  <2> QED BY <1>0, <1>7, <2>2 DEF Typed, LaunchGame, NoSubs, None, uiVars, slotVars,
        noteVars, loopVars, procVars, lobbyVars
<1>8. ASSUME Unmount PROVE Typed'
  BY <1>0, <1>8 DEF Typed, Unmount, KillServer, slotVars, runnerVars,
     noteVars, loopVars, lobbyVars, netVars
<1>9. ASSUME RunTask PROVE Typed'
  <2>1. /\ tasks # <<>> /\ tasks' \in Seq(Requests \union Settlements)
        /\ UNCHANGED <<chunk, stalled, lobbyVars>>
    BY <1>0, <1>9, RunTaskIs, TaskIs
  <2>2. ASSUME NEW s \in Servers, Created(s) PROVE Typed'
    <3>1. NewPlayers(s) \in Seq(Requests) /\ manager \in Managers
      BY <1>0, NewPlayersAre DEF Typed
    <3>2. to_server' \in [Servers -> Seq(Requests)]
      BY <1>0, <2>2, <3>1, SendIs DEF Created
    <3> QED BY <1>0, <2>1, <2>2, <3>1, <3>2 DEF Typed, Created, noteVars, procVars,
            lobbyVars
  <2>3. ASSUME StopServer PROVE Typed'
    BY <1>0, <2>1, <2>3 DEF Typed, StopServer, KillServer, slotVars, runnerVars,
       noteVars, lobbyVars, netVars
  <2>4. ASSUME NEW task \in Requests, PlayerAdded(task) PROVE Typed'
    <3>1. slot' \in [Tokens -> Objects]
      <4>1. slot \in [Tokens -> Objects] /\ task.id \in Nat
        BY <1>0 DEF Typed, Requests
      <4> QED BY <4>1, <2>4, ObjectsStay DEF PlayerAdded
    <3>2. DOMAIN clients' = Managers
      BY <1>0, <2>4 DEF Typed, PlayerAdded
    <3> QED BY <1>0, <2>1, <2>4, <3>1, <3>2 DEF Typed, PlayerAdded, netVars, runnerVars,
            noteVars, procVars, lobbyVars
  <2>5. ASSUME NEW task \in Requests, PlayerRemoved(task) PROVE Typed'
    <3>1. DOMAIN clients' = Managers /\ slots' \in [Managers -> SUBSET Nat]
      BY <1>0, <2>5 DEF Typed, PlayerRemoved
    <3> QED BY <1>0, <2>1, <2>5, <3>1 DEF Typed, PlayerRemoved, netVars, runnerVars,
            noteVars, procVars, lobbyVars
  <2>6. ASSUME next_token + wanted <= MaxTokens + 1, GameStarted PROVE Typed'
    <3>1. CASE ~validifyRunning
      BY <1>0, <2>1, <2>6, <3>1 DEF Typed, GameStarted, uiVars, slotVars, noteVars,
         runnerVars, procVars, netVars, lobbyVars
    <3>2. CASE validifyRunning
      <4>1. manager + 1 \in Managers
        BY <3>2, NextManagerExists
      <4>2. /\ saved' = saved \union {[server |-> server, players |-> shown]}
            /\ server' = None
            /\ manager' = manager + 1
            /\ list' = [list EXCEPT ![manager + 1] = Fresh(wanted)]
            /\ slots' = [slots EXCEPT ![manager + 1] = ToSet(Fresh(wanted))]
            /\ next_token' = next_token + wanted
            /\ UNCHANGED <<wanted, clients, runner, slot, dialed, runnerVars,
                        procVars, netVars>>
        BY <2>6, <3>2 DEF GameStarted, ServerLeft, NextManager
      <4>3. server \in Servers /\ wanted \in Nat
        BY <1>0, <3>2 DEF Typed, validifyRunning
      <4>4. /\ Fresh(wanted) \in Seq(Nat) /\ ToSet(Fresh(wanted)) \in SUBSET Nat
            /\ next_token + wanted \in 1 .. MaxTokens + 1
        BY <1>0, <2>6, <4>3, FreshIs
      <4>5. list' \in [Managers -> Seq(Nat)] /\ slots' \in [Managers -> SUBSET Nat]
        BY <1>0, <4>1, <4>2, <4>4 DEF Typed
      <4>6. \A match \in saved' : match.server \in Servers
        BY <1>0, <4>2, <4>3 DEF Typed
      <4> QED BY <1>0, <2>1, <4>1, <4>2, <4>4, <4>5, <4>6 DEF Typed, runnerVars, procVars,
              netVars, lobbyVars
    <3> QED BY <3>1, <3>2
  <2> QED BY <1>0, <1>9, <2>2, <2>3, <2>4, <2>5, <2>6, RunTaskIs
<1>10. ASSUME NEW s \in Servers, Response(s) PROVE Typed'
  <2>1. /\ Head(to_client[s]) \in Requests
        /\ to_client' \in [Servers -> Seq(Requests \union News)]
    BY <1>0, <1>10, FrameIs DEF Response
  <2>2. tasks' \in Seq(Requests \union Settlements)
    BY <1>0, <1>10, <2>1, AppendIs DEF Response, Typed
  <2>3. chunk' \in Servers \union {None}
    BY <1>10 DEF Response, EndOfChunk
  <2> QED BY <1>0, <1>10, <2>1, <2>2, <2>3 DEF Typed, Response, uiVars, slotVars,
        runnerVars, noteVars, procVars, lobbyVars
<1>11. ASSUME NEW s \in Servers, PlayerNews(s) PROVE Typed'
  <2>1. to_client' \in [Servers -> Seq(Requests \union News)]
    BY <1>0, <1>11, FrameIs DEF PlayerNews
  <2>2. chunk' \in Servers \union {None}
    BY <1>11 DEF PlayerNews, EndOfChunk
  <2>3. stalled' \in [Servers -> BOOLEAN]
    BY <1>0, <1>11 DEF PlayerNews, Typed
  <2>4. ASSUME NEW m, NEW id, NEW c \in BOOLEAN
        PROVE  Marked(slot, m, id, c) \in [Tokens -> Objects]
    <3>1. slot \in [Tokens -> Objects] /\ 0 \in Nat
      BY <1>0 DEF Typed
    <3> QED BY <3>1, ObjectsStay DEF Marked
  <2>5. slot' \in [Tokens -> Objects]
    <3> DEFINE frame == Head(to_client[s])
    <3>1. \/ slot' = slot
          \/ slot' = Marked(slot, subs[s].own, frame.id, frame.type = "connected")
          \/ slot' = Marked(slot, subs[s].captured, frame.id, TRUE)
      BY <1>11 DEF PlayerNews, Connected
    <3>2. (frame.type = "connected") \in BOOLEAN /\ TRUE \in BOOLEAN
      OBVIOUS
    <3>3. slot \in [Tokens -> Objects]
      BY <1>0 DEF Typed
    <3> HIDE DEF frame
    <3>4. Marked(slot, subs[s].own, frame.id, frame.type = "connected")
                \in [Tokens -> Objects]
      BY <3>2, <2>4, Zenon
    <3>5. Marked(slot, subs[s].captured, frame.id, TRUE) \in [Tokens -> Objects]
      BY <2>4
    <3> QED BY <3>1, <3>3, <3>4, <3>5, Zenon
  <2> QED BY <1>0, <1>11, <2>1, <2>2, <2>3, <2>5 DEF Typed, PlayerNews,
        runnerVars, noteVars, procVars, lobbyVars
<1>12. ASSUME NEW s \in Servers, ServerConnected(s) PROVE Typed'
  <2>1. tasks' \in Seq(Requests \union Settlements)
    BY <1>12 DEF ServerConnected, Settlements
  <2> QED BY <1>0, <1>12, <2>1 DEF Typed, ServerConnected, uiVars, slotVars, noteVars,
        procVars, lobbyVars, netVars
<1>13. ASSUME NEW s \in Servers, ConnectFails(s) PROVE Typed'
  BY <1>0, <1>13 DEF Typed, ConnectFails, uiVars, slotVars, noteVars, loopVars,
        procVars, lobbyVars, netVars
<1>14. ASSUME NEW s \in Servers, ServerExits(s) PROVE Typed'
  <2>1. /\ tasks' \in Seq(Requests \union Settlements)
        /\ promise' \in [Servers -> {"none", "pending", "hanging", "resolved", "rejected"}]
    <3>1. CASE promise[s] \in {"pending", "hanging"}
      <4>1. /\ promise' = [promise EXCEPT ![s] = "rejected"]
            /\ tasks' = <<[type |-> "failed", server |-> s]>>
        BY <1>14, <3>1 DEF ServerExits
      <4>2. [type |-> "failed", server |-> s] \in Settlements
        BY DEF Settlements
      <4> QED BY <4>1, <4>2, <1>0 DEF Typed
    <3>2. CASE ~(promise[s] \in {"pending", "hanging"})
      <4>1. UNCHANGED <<promise, tasks>>
        BY <1>14, <3>2 DEF ServerExits
      <4> QED BY <4>1, <1>0 DEF Typed
    <3> QED BY <3>1, <3>2
  <2>3. /\ to_server' \in [Servers -> Seq(Requests)]
        /\ to_client' \in [Servers -> Seq(Requests \union News)]
    BY SMTT(30), <1>0, <1>14 DEF Typed, ServerExits
  <2> QED BY <1>0, <1>14, <2>1, <2>3 DEF Typed, ServerExits, uiVars, slotVars,
        noteVars
<1>15. ASSUME NEW s \in Servers, Serve(s) PROVE Typed'
  <2>1. /\ Head(to_server[s]) \in Requests
        /\ to_server' \in [Servers -> Seq(Requests)]
        /\ UNCHANGED <<uiVars, slotVars, runnerVars, noteVars, loopVars, procVars>>
    BY <1>0, <1>15, ServeIs
  <2>2. phase' \in [Servers -> {"lobby", "playing"}]
        /\ DOMAIN players' = Servers /\ counter' \in [Servers -> Nat]
    <3> DEFINE added == With(players[s], counter[s], Head(to_server[s]).token)
               left == [i \in DOMAIN players[s] \ {Head(to_server[s]).id} |-> players[s][i]]
    <3>1. \/ UNCHANGED lobbyVars
          \/ /\ players' = [players EXCEPT ![s] = added]
             /\ counter' = [counter EXCEPT ![s] = @ + 1]
             /\ UNCHANGED <<phase, online>>
          \/ /\ players' = [players EXCEPT ![s] = left]
             /\ UNCHANGED <<phase, counter, online>>
          \/ /\ phase' = [phase EXCEPT ![s] = "playing"]
             /\ UNCHANGED <<players, counter, online>>
      BY <1>0, <1>15, ServeIs
    <3> HIDE DEF added, left
    <3>2. /\ DOMAIN players = Servers /\ counter \in [Servers -> Nat]
          /\ phase \in [Servers -> {"lobby", "playing"}]
      BY <1>0 DEF Typed
    <3>3. CASE UNCHANGED lobbyVars
      BY <3>2, <3>3 DEF lobbyVars
    <3> QED BY <3>1, <3>2, <3>3
  <2>3. to_client' \in [Servers -> Seq(Requests \union News)]
    <3>1. \/ UNCHANGED to_client
          \/ \E frame \in Requests : Tell(s, frame)
      BY <2>1, <1>0, <1>15, ServeIs
    <3>2. ASSUME NEW frame \in Requests, Tell(s, frame)
          PROVE  to_client' \in [Servers -> Seq(Requests \union News)]
      BY <1>0, <3>2, TellIs
    <3> QED BY <3>1, <3>2, <1>0 DEF Typed
  <2> QED BY <1>0, <2>1, <2>2, <2>3 DEF Typed, uiVars, slotVars, runnerVars, noteVars,
        loopVars, procVars
<1>16. ASSUME NEW s \in Servers, NEW id \in DOMAIN players[s],
              NEW type \in {"connected", "disconnected"}, ClientMoves(s, id, type)
       PROVE  Typed'
  <2>1. [type |-> type, id |-> id] \in News
    BY <1>16, <1>0 DEF News, Books, PlayersNumbered
  <2>2. Tell(s, [type |-> type, id |-> id])
    BY <1>16 DEF ClientMoves
  <2>3. to_client' \in [Servers -> Seq(Requests \union News)]
    BY <1>0, <2>1, <2>2, TellIs
  <2> QED BY <1>0, <1>16, <2>3 DEF Typed, ClientMoves, uiVars, slotVars, runnerVars,
        noteVars, loopVars, procVars
<1>17. CASE UNCHANGED vars
  BY <1>0, <1>17 DEF Typed, vars, uiVars, slotVars, runnerVars, noteVars, loopVars, procVars,
     lobbyVars, netVars
<1> QED
  <2>1. Next \/ UNCHANGED vars
    OBVIOUS
  <2>2. ASSUME ClickStop PROVE StopServer
    BY <2>2 DEF ClickStop
  <2> QED BY <2>1, <2>2, <1>1, <1>2, <1>3, <1>4, <1>5, <1>6, <1>7, <1>8, <1>9, <1>10, <1>11,
          <1>12, <1>13, <1>14, <1>15, <1>16, <1>17 DEF Next, Slots, Controls, Loop, Server
-----------------------------------------------------------------------------
(* The tokens *)

\* What a launch changes.
Launched ==
    /\ validifyRunning /\ next_token + wanted <= MaxTokens + 1
    /\ saved' = saved \union {[server |-> server, players |-> shown]}
    /\ server' = None /\ manager' = manager + 1
    /\ list' = [list EXCEPT ![manager + 1] = Fresh(wanted)]
    /\ slots' = [slots EXCEPT ![manager + 1] = ToSet(Fresh(wanted))]
    /\ next_token' = next_token + wanted
    /\ shown' = Fresh(wanted)
    /\ UNCHANGED <<clients, runner, slot, runnerVars, procVars, netVars>>

\* Few steps change which slots there are.
LEMMA ListSteps ==
    ASSUME Typed, [Next]_vars
    PROVE  \/ UNCHANGED <<list, slots, next_token, manager, saved>>
           \/ \E n \in SlotCounts : SelectMap(n)
           \/ \E i \in 1 .. MaxTokens : KickPlayer(i)
           \/ /\ tasks # <<>> /\ Head(tasks) \in Requests
              /\ Head(tasks).type = "remove" /\ PlayerRemoved(Head(tasks))
           \/ tasks # <<>> /\ Head(tasks).type = "start" /\ Launched
<1>1. ASSUME RunTask
      PROVE  \/ UNCHANGED <<list, slots, next_token, manager, saved>>
             \/ /\ tasks # <<>> /\ Head(tasks) \in Requests
                /\ Head(tasks).type = "remove" /\ PlayerRemoved(Head(tasks))
             \/ tasks # <<>> /\ Head(tasks).type = "start" /\ Launched
  <2>1. ASSUME NEW s \in Servers, Created(s)
        PROVE  UNCHANGED <<list, slots, next_token, manager, saved>>
    BY <2>1 DEF Created, noteVars
  <2>2. ASSUME StopServer PROVE UNCHANGED <<list, slots, next_token, manager, saved>>
    BY <2>2 DEF StopServer, slotVars, noteVars
  <2>3. ASSUME PlayerAdded(Head(tasks))
        PROVE  UNCHANGED <<list, slots, next_token, manager, saved>>
    BY <2>3 DEF PlayerAdded, noteVars
  <2>4. ASSUME next_token + wanted <= MaxTokens + 1, GameStarted
        PROVE  UNCHANGED <<list, slots, next_token, manager, saved>> \/ Launched
    <3>1. CASE ~validifyRunning
      BY <3>1, <2>4 DEF GameStarted, uiVars, slotVars, noteVars
    <3>2. CASE validifyRunning
      BY <3>2, <2>4 DEF GameStarted, Launched, ServerLeft, NextManager
    <3> QED BY <3>1, <3>2
  <2> QED BY <1>1, <2>1, <2>2, <2>3, <2>4, RunTaskIs
<1>2. ASSUME NEW b \in Bots, AddLocalBot(b)
      PROVE  UNCHANGED <<list, slots, next_token, manager, saved>>
  BY <1>2 DEF AddLocalBot, noteVars
<1>3. ASSUME NEW i \in 1 .. MaxTokens, ConnectLocalBot(i)
      PROVE  UNCHANGED <<list, slots, next_token, manager, saved>>
  BY <1>3 DEF ConnectLocalBot, uiVars, slotVars
<1>4. ASSUME NEW p \in Ports, StartServer(p)
      PROVE  UNCHANGED <<list, slots, next_token, manager, saved>>
  BY <1>4 DEF StartServer, uiVars, slotVars, noteVars
<1>5. ASSUME ClickStop \/ Unmount
      PROVE  UNCHANGED <<list, slots, next_token, manager, saved>>
  BY <1>5 DEF ClickStop, StopServer, Unmount, slotVars, noteVars
<1>6. ASSUME LaunchGame PROVE UNCHANGED <<list, slots, next_token, manager, saved>>
  BY <1>6 DEF LaunchGame, uiVars, slotVars, noteVars
<1>7. ASSUME NEW s \in Servers, Response(s) \/ PlayerNews(s)
      PROVE  UNCHANGED <<list, slots, next_token, manager, saved>>
  BY <1>7 DEF Response, PlayerNews, uiVars, slotVars, noteVars
<1>8. ASSUME NEW s \in Servers, ServerConnected(s) \/ ConnectFails(s) \/ ServerExits(s)
      PROVE  UNCHANGED <<list, slots, next_token, manager, saved>>
  BY <1>8 DEF ServerConnected, ConnectFails, ServerExits, uiVars, slotVars, noteVars
<1>9. ASSUME NEW s \in Servers, Serve(s)
      PROVE  UNCHANGED <<list, slots, next_token, manager, saved>>
  BY <1>9 DEF Serve, uiVars, slotVars, noteVars
<1>10. ASSUME NEW s \in Servers, NEW id, NEW type, ClientMoves(s, id, type)
       PROVE  UNCHANGED <<list, slots, next_token, manager, saved>>
  BY <1>10 DEF ClientMoves, uiVars, slotVars, noteVars
<1>11. CASE UNCHANGED vars
  BY <1>11 DEF vars, uiVars, slotVars, noteVars
<1> QED
  <2>1. Next \/ UNCHANGED vars
    OBVIOUS
  <2> QED BY <2>1, <1>1, <1>2, <1>3, <1>4, <1>5, <1>6, <1>7, <1>8, <1>9, <1>10, <1>11
          DEF Next, Slots, Controls, Loop, Server

LEMMA TokensStep ==
    ASSUME LobbyAssumption, Books, [Next]_vars
    PROVE  TokensDiffer' /\ ListedSlotsExist' /\ next_token <= next_token'
<1>0. Typed /\ TokensDiffer /\ ListedSlotsExist
  BY DEF Books
<1>00. /\ list \in [Managers -> Seq(Nat)] /\ slots \in [Managers -> SUBSET Nat]
       /\ next_token \in 1 .. MaxTokens + 1 /\ MaxTokens \in Nat /\ manager \in Managers
       /\ wanted \in Nat
  BY <1>0 DEF Typed, LobbyAssumption
<1>01. \A m \in Managers : \A i \in DOMAIN list[m] :
          /\ list[m][i] \in 1 .. next_token - 1 /\ list[m][i] \in slots[m]
          /\ i \in Nat
  <2> TAKE m \in Managers
  <2>1. list[m] \in Seq(Nat)
    BY <1>00
  <2>2. \A i \in DOMAIN list[m] : i \in Nat
    BY <2>1, LenProperties
  <2> QED BY <1>0, <2>2 DEF TokensDiffer, ListedSlotsExist, ToSet
<1>02. \A m \in Managers : \A i, j \in DOMAIN list[m] : list[m][i] = list[m][j] => i = j
  BY <1>0 DEF TokensDiffer
<1>1. CASE UNCHANGED <<list, slots, next_token, manager>>
  <2>1. TokensDiffer'
    BY <1>1, <1>0 DEF TokensDiffer
  <2>2. ListedSlotsExist'
    BY <1>1, <1>0 DEF ListedSlotsExist
  <2> QED BY <1>1, <2>1, <2>2, <1>00
<1>2. ASSUME NEW n \in SlotCounts, SelectMap(n)
      PROVE  TokensDiffer' /\ ListedSlotsExist' /\ next_token <= next_token'
  <2> DEFINE l == Resized(manager, n)
             g == Grown(manager, n)
  <2>1. /\ list' = [list EXCEPT ![manager] = l]
        /\ slots' = [slots EXCEPT ![manager] = @ \union ToSet(g)]
        /\ next_token' = next_token + Len(g) /\ next_token + Len(g) <= MaxTokens + 1
    BY <1>2 DEF SelectMap, UpdateSlots
  <2>2. n \in Nat
    BY DEF LobbyAssumption
  <2>3. /\ l \in Seq(Nat) /\ next_token + Len(g) \in next_token .. MaxTokens + 1
        /\ \A i \in DOMAIN l :
            \/ i \in DOMAIN list[manager] /\ l[i] = list[manager][i]
            \/ /\ i > Len(list[manager])
               /\ l[i] = next_token + (i - Len(list[manager])) - 1
               /\ l[i] < next_token + Len(g)
               /\ l[i] \in ToSet(g)
    BY <1>0, <1>00, <2>1, <2>2, ResizedIs
  <2> HIDE DEF l, g
  <2>4. \A i \in DOMAIN l : i \in Nat
    BY <2>3, LenProperties
  <2>5. Len(list[manager]) \in Nat
    <3>1. list[manager] \in Seq(Nat)
      BY <1>00
    <3> QED BY <3>1, LenProperties
  <2>6. \A i \in DOMAIN l : l[i] \in 1 .. next_token' - 1
                            /\ l[i] \in slots[manager] \union ToSet(g)
    <3> TAKE i \in DOMAIN l
    <3>1. CASE i \in DOMAIN list[manager] /\ l[i] = list[manager][i]
      BY <3>1, <1>00, <1>01, <2>1, <2>3
    <3>2. CASE /\ i > Len(list[manager])
               /\ l[i] = next_token + (i - Len(list[manager])) - 1
               /\ l[i] < next_token + Len(g)
               /\ l[i] \in ToSet(g)
      BY SMTT(30), <3>2, <1>00, <2>1, <2>3, <2>4, <2>5
    <3> QED BY <3>1, <3>2, <2>3
  <2>7. \A i, j \in DOMAIN l : l[i] = l[j] => i = j
    <3> SUFFICES ASSUME NEW i \in DOMAIN l, NEW j \in DOMAIN l, l[i] = l[j]
                 PROVE  i = j
      OBVIOUS
    <3> DEFINE Old(k) == k \in DOMAIN list[manager] /\ l[k] = list[manager][k]
               New(k) == k > Len(list[manager])
                         /\ l[k] = next_token + (k - Len(list[manager])) - 1
    <3>1. (Old(i) \/ New(i)) /\ (Old(j) \/ New(j))
      BY <2>3
    <3>2. i \in Nat /\ j \in Nat
      BY <2>4
    <3>3. CASE Old(i) /\ Old(j)
      BY <3>3, <1>00, <1>02
    <3> DEFINE len == Len(list[manager])
    <3>20. next_token \in Int /\ len \in Int
      BY <1>00, <2>5
    <3>4. CASE New(i) /\ New(j)
      <4>1. /\ l[i] = next_token + (i - len) - 1
            /\ l[j] = next_token + (j - len) - 1
        BY <3>4
      <4>2. next_token + (i - len) - 1 = next_token + (j - len) - 1
        BY <4>1
      <4> HIDE DEF len
      <4> QED BY <4>2, <3>2, <3>20
    <3>5. CASE Old(i) /\ New(j)
      <4>1. l[i] \in 1 .. next_token - 1
        BY <3>5, <1>00, <1>01
      <4>2. l[j] >= next_token
        <5>1. j > len /\ l[j] = next_token + (j - len) - 1
          BY <3>5
        <5> HIDE DEF len
        <5> QED BY <5>1, <3>2, <3>20
      <4> QED BY <4>1, <4>2, <1>00
    <3>6. CASE New(i) /\ Old(j)
      <4>1. l[j] \in 1 .. next_token - 1
        BY <3>6, <1>00, <1>01
      <4>2. l[i] >= next_token
        BY <3>6, <3>2, <1>00, <2>5
      <4> QED BY <4>1, <4>2, <1>00
    <3> QED BY <3>1, <3>3, <3>4, <3>5, <3>6
  <2>8. \A m \in Managers :
            /\ m = manager => list'[m] = l /\ slots'[m] = slots[manager] \union ToSet(g)
            /\ m # manager => list'[m] = list[m] /\ slots'[m] = slots[m]
    BY <2>1, <1>00
  <2>9. next_token' \in next_token .. MaxTokens + 1
    BY <2>1, <2>3
  <2>10. ASSUME NEW m \in Managers
         PROVE  /\ \A i \in DOMAIN list'[m] : list'[m][i] \in 1 .. next_token' - 1
                                             /\ list'[m][i] \in slots'[m]
                /\ \A i, j \in DOMAIN list'[m] : list'[m][i] = list'[m][j] => i = j
    <3>1. CASE m = manager
      BY <3>1, <2>8, <2>6, <2>7
    <3>2. CASE m # manager
      <4>1. list'[m] = list[m] /\ slots'[m] = slots[m]
        BY <3>2, <2>8
      <4> QED BY <4>1, <1>01, <1>02, <2>9, <1>00
    <3> QED BY <3>1, <3>2
  <2> QED BY <2>9, <2>10, <1>00 DEF TokensDiffer, ListedSlotsExist, ToSet
<1>3. ASSUME NEW k \in 1 .. MaxTokens, KickPlayer(k)
      PROVE  TokensDiffer' /\ ListedSlotsExist' /\ next_token <= next_token'
  <2>1. /\ k \in DOMAIN list[manager]
        /\ list' = [list EXCEPT ![manager] = [list[manager] EXCEPT ![k] = next_token]]
        /\ slots' = [slots EXCEPT ![manager] = @ \union {next_token}]
        /\ next_token' = next_token + 1
    BY <1>3, <1>00 DEF KickPlayer
  <2> DEFINE l == [list[manager] EXCEPT ![k] = next_token]
  <2>2. DOMAIN l = DOMAIN list[manager]
        /\ \A i \in DOMAIN l : l[i] = IF i = k THEN next_token ELSE list[manager][i]
    OBVIOUS
  <2>3. \A m \in Managers :
            /\ m = manager => list'[m] = l /\ slots'[m] = slots[manager] \union {next_token}
            /\ m # manager => list'[m] = list[m] /\ slots'[m] = slots[m]
    BY <2>1, <1>00
  <2> HIDE DEF l
  <2>4. ASSUME NEW m \in Managers
        PROVE  /\ \A i \in DOMAIN list'[m] : list'[m][i] \in 1 .. next_token' - 1
                                             /\ list'[m][i] \in slots'[m]
               /\ \A i, j \in DOMAIN list'[m] : list'[m][i] = list'[m][j] => i = j
    <3>1. CASE m = manager
      <4>1. \A i \in DOMAIN l : l[i] \in 1 .. next_token' - 1
                                /\ l[i] \in slots[manager] \union {next_token}
        BY <2>2, <1>01, <1>00, <2>1
      <4>2. \A i, j \in DOMAIN l : l[i] = l[j] => i = j
        BY SMTT(30), <2>2, <1>01, <1>02, <1>00
      <4> QED BY <4>1, <4>2, <3>1, <2>3
    <3>2. CASE m # manager
      <4>1. list'[m] = list[m] /\ slots'[m] = slots[m]
        BY <3>2, <2>3
      <4> QED BY SMTT(30), <4>1, <1>01, <1>02, <2>1, <1>00
    <3> QED BY <3>1, <3>2
  <2> QED BY <2>1, <2>4, <1>00 DEF TokensDiffer, ListedSlotsExist, ToSet
<1>4. ASSUME tasks # <<>>, Head(tasks) \in Requests,
             Head(tasks).type = "remove", PlayerRemoved(Head(tasks))
      PROVE  TokensDiffer' /\ ListedSlotsExist' /\ next_token <= next_token'
  <2> DEFINE task == Head(tasks)
  <2>1. Gone(task)
    <3>1. Head(tasks) = tasks[1] /\ 1 \in DOMAIN tasks
      BY <1>0, <1>4, TaskIs
    <3> QED BY <3>1 DEF Books, RemovedAreGone
  <2> HIDE DEF task
  <2>2. /\ UNCHANGED <<list, next_token>>
        /\ slots' = [slots EXCEPT ![task.manager] = @ \ {task.token}]
    BY <1>4 DEF PlayerRemoved, Deleted, task
  <2>3. /\ task.manager \in Managers
        /\ \A i \in DOMAIN list[task.manager] : list[task.manager][i] # task.token
    BY <1>4, <2>1 DEF Gone, GoneFrom, task
  <2>4. TokensDiffer'
    BY <2>2, <1>0 DEF TokensDiffer
  <2>5. \A m \in Managers : \A i \in DOMAIN list[m] : list[m][i] \in slots'[m]
    BY <2>2, <2>3, <1>01, <1>00
  <2> QED BY <2>2, <2>4, <2>5, <1>00 DEF ListedSlotsExist, ToSet
<1>5. ASSUME Launched PROVE TokensDiffer' /\ ListedSlotsExist' /\ next_token <= next_token'
  <2>0. /\ list' = [list EXCEPT ![manager + 1] = Fresh(wanted)]
        /\ slots' = [slots EXCEPT ![manager + 1] = ToSet(Fresh(wanted))]
        /\ next_token' = next_token + wanted /\ next_token + wanted <= MaxTokens + 1
    BY <1>5 DEF Launched
  <2>1. /\ DOMAIN Fresh(wanted) = 1 .. wanted
        /\ \A i \in 1 .. wanted : Fresh(wanted)[i] = next_token + i - 1
        /\ next_token + wanted \in 1 .. MaxTokens + 1
    BY <1>0, <1>00, <2>0, FreshIs
  <2>2. manager + 1 \in Managers
    BY <1>5, NextManagerExists DEF Launched
  <2>3. \A m \in Managers :
            /\ m = manager + 1 => list'[m] = Fresh(wanted) /\ slots'[m] = ToSet(Fresh(wanted))
            /\ m # manager + 1 => list'[m] = list[m] /\ slots'[m] = slots[m]
    BY <2>0, <2>2, <1>00
  <2>4. ASSUME NEW m \in Managers
        PROVE  /\ \A i \in DOMAIN list'[m] : list'[m][i] \in 1 .. next_token' - 1
                                             /\ list'[m][i] \in slots'[m]
               /\ \A i, j \in DOMAIN list'[m] : list'[m][i] = list'[m][j] => i = j
    <3>1. CASE m = manager + 1
      <4>1. list'[m] = Fresh(wanted) /\ slots'[m] = ToSet(Fresh(wanted))
        BY <3>1, <2>3
      <4>2. \A i \in DOMAIN Fresh(wanted) : Fresh(wanted)[i] \in 1 .. next_token' - 1
        BY <2>0, <2>1, <1>00
      <4>3. \A i \in DOMAIN Fresh(wanted) : Fresh(wanted)[i] \in ToSet(Fresh(wanted))
        BY DEF ToSet
      <4>4. \A i, j \in DOMAIN Fresh(wanted) :
                Fresh(wanted)[i] = Fresh(wanted)[j] => i = j
        BY <2>1, <1>00
      <4> QED BY <4>1, <4>2, <4>3, <4>4
    <3>2. CASE m # manager + 1
      <4>1. list'[m] = list[m] /\ slots'[m] = slots[m]
        BY <3>2, <2>3
      <4> QED BY <4>1, <1>01, <1>02, <2>0, <1>00
    <3> QED BY <3>1, <3>2
  <2>5. next_token <= next_token'
    BY <2>0, <1>00
  <2> QED BY <2>4, <2>5 DEF TokensDiffer, ListedSlotsExist, ToSet
<1> QED BY <1>0, <1>1, <1>2, <1>3, <1>4, <1>5, ListSteps

\* A list gets only slots that are new.
LEMMA ListedBefore ==
    ASSUME LobbyAssumption, Books, [Next]_vars, NEW m \in Managers, NEW i \in DOMAIN list'[m]
    PROVE  list'[m][i] >= next_token \/ \E j \in DOMAIN list[m] : list'[m][i] = list[m][j]
<1>0. /\ Typed /\ TokensDiffer
      /\ list \in [Managers -> Seq(Nat)] /\ manager \in Managers
      /\ next_token \in 1 .. MaxTokens + 1 /\ MaxTokens \in Nat /\ wanted \in Nat
  BY DEF Books, Typed, LobbyAssumption
<1>1. CASE UNCHANGED list
  BY <1>1
<1>2. ASSUME NEW n \in SlotCounts, SelectMap(n)
      PROVE  list'[m][i] >= next_token \/ \E j \in DOMAIN list[m] : list'[m][i] = list[m][j]
  <2> DEFINE l == Resized(manager, n)
             g == Grown(manager, n)
             len == Len(list[manager])
  <2>1. /\ list' = [list EXCEPT ![manager] = l]
        /\ next_token + Len(g) <= MaxTokens + 1
    BY <1>2 DEF SelectMap, UpdateSlots
  <2>2. n \in Nat
    BY DEF LobbyAssumption
  <2>3. /\ l \in Seq(Nat)
        /\ \A k \in DOMAIN l :
            \/ k \in DOMAIN list[manager] /\ l[k] = list[manager][k]
            \/ k > len /\ l[k] = next_token + (k - len) - 1
    BY SMTT(30), <1>0, <2>1, <2>2, ResizedIs
  <2>4. len \in Nat
    <3>1. list[manager] \in Seq(Nat)
      BY <1>0
    <3> QED BY <3>1, LenProperties
  <2> HIDE DEF l, g, len
  <2>5. CASE m = manager
    <3>1. list'[m] = l /\ i \in DOMAIN l
      BY <2>5, <2>1, <1>0
    <3>2. i \in Nat
      BY <3>1, <2>3, LenProperties
    <3>3. CASE i > len /\ l[i] = next_token + (i - len) - 1
      <4>1. next_token + (i - len) - 1 >= next_token
        BY <3>2, <3>3, <2>4, <1>0
      <4> QED BY <4>1, <3>1, <3>3
    <3>4. CASE i \in DOMAIN list[manager] /\ l[i] = list[manager][i]
      BY <3>1, <3>4, <2>5
    <3> QED BY <3>1, <3>3, <3>4, <2>3
  <2>6. CASE m # manager
    <3>1. list'[m] = list[m]
      BY <2>6, <2>1, <1>0
    <3> QED BY <3>1
  <2> QED BY <2>5, <2>6
<1>3. ASSUME NEW k \in 1 .. MaxTokens, KickPlayer(k)
      PROVE  list'[m][i] >= next_token \/ \E j \in DOMAIN list[m] : list'[m][i] = list[m][j]
  <2>1. list' = [list EXCEPT ![manager] = [list[manager] EXCEPT ![k] = next_token]]
    BY <1>3, <1>0 DEF KickPlayer
  <2>2. CASE m = manager
    <3>1. list'[m] = [list[m] EXCEPT ![k] = next_token]
      BY <2>1, <2>2, <1>0
    <3>2. i \in DOMAIN list[m] /\ list'[m][i] = IF i = k THEN next_token ELSE list[m][i]
      BY <3>1
    <3>3. next_token >= next_token
      BY <1>0
    <3> QED BY <3>2, <3>3
  <2>3. CASE m # manager
    <3>1. list'[m] = list[m]
      BY <2>3, <2>1, <1>0
    <3> QED BY <3>1
  <2> QED BY <2>2, <2>3
<1>5. ASSUME Launched
      PROVE  list'[m][i] >= next_token \/ \E j \in DOMAIN list[m] : list'[m][i] = list[m][j]
  <2>1. list' = [list EXCEPT ![manager + 1] = Fresh(wanted)]
        /\ next_token + wanted <= MaxTokens + 1
    BY <1>5 DEF Launched
  <2>2. /\ DOMAIN Fresh(wanted) = 1 .. wanted
        /\ \A k \in 1 .. wanted : Fresh(wanted)[k] = next_token + k - 1
    BY <1>0, <2>1, FreshIs
  <2>3. CASE m = manager + 1
    <3>1. list'[m] = Fresh(wanted) /\ i \in 1 .. wanted
      BY <2>1, <2>2, <2>3, <1>0
    <3>2. next_token + i - 1 >= next_token
      BY <3>1, <1>0
    <3> QED BY <3>1, <3>2, <2>2
  <2>4. CASE m # manager + 1
    <3>1. list'[m] = list[m]
      BY <2>4, <2>1, <1>0
    <3> QED BY <3>1
  <2> QED BY <2>3, <2>4
<1>6. ASSUME PlayerRemoved(Head(tasks)) PROVE UNCHANGED list
  BY <1>6 DEF PlayerRemoved
<1> QED BY <1>0, <1>1, <1>2, <1>3, <1>5, <1>6, ListSteps

\* What is gone stays gone.
LEMMA GoneStays ==
    ASSUME LobbyAssumption, Books, [Next]_vars, NEW x, Gone(x)
    PROVE  GoneFrom(x, list', next_token')
<1> SUFFICES ASSUME x.type = "remove"
             PROVE  /\ x.manager \in Managers
                    /\ x.token \in 1 .. next_token' - 1
                    /\ \A i \in DOMAIN list'[x.manager] : list'[x.manager][i] # x.token
  BY DEF GoneFrom
<1>1. /\ x.manager \in Managers
      /\ x.token \in 1 .. next_token - 1
      /\ \A i \in DOMAIN list[x.manager] : list[x.manager][i] # x.token
  BY DEF Gone, GoneFrom
<1>2. next_token <= next_token' /\ next_token' \in Nat /\ next_token \in Nat
  <2>1. next_token <= next_token' /\ Typed' /\ Typed
    BY TokensStep, TypedStep DEF Books
  <2> QED BY <2>1 DEF Typed, LobbyAssumption
<1>3. ASSUME NEW i \in DOMAIN list'[x.manager]
      PROVE  list'[x.manager][i] # x.token
  <2>1. list'[x.manager][i] >= next_token
        \/ \E j \in DOMAIN list[x.manager] : list'[x.manager][i] = list[x.manager][j]
    BY <1>1, <1>3, ListedBefore
  <2> QED BY <1>1, <1>2, <2>1
<1> QED BY <1>1, <1>2, <1>3

\* A message that is on its way, or whose callback is.
OnItsWay(x) ==
    \/ \E i \in DOMAIN tasks : x = tasks[i]
    \/ \E s \in Servers : \/ \E i \in DOMAIN to_server[s] : x = to_server[s][i]
                          \/ \E i \in DOMAIN to_client[s] : x = to_client[s][i]

Explained(x) == \/ OnItsWay(x) \/ x.type # "remove"
                \/ GoneFrom(x, list', next_token')

AllExplained ==
    /\ \A i \in DOMAIN tasks' : Explained(tasks'[i])
    /\ \A s \in Servers :
        /\ \A i \in DOMAIN to_server'[s] : Explained(to_server'[s][i])
        /\ \A i \in DOMAIN to_client'[s] : Explained(to_client'[s][i])

LEMMA SomeExplained ==
    /\ UNCHANGED tasks => \A i \in DOMAIN tasks' : Explained(tasks'[i])
    /\ \A s \in Servers :
        /\ to_server'[s] = to_server[s] =>
            \A i \in DOMAIN to_server'[s] : Explained(to_server'[s][i])
        /\ to_client'[s] = to_client[s] =>
            \A i \in DOMAIN to_client'[s] : Explained(to_client'[s][i])
BY DEF Explained, OnItsWay

\* No step makes a removal of a slot that is listed.
LEMMA MessagesExplained ==
    ASSUME LobbyAssumption, Books, [Next]_vars
    PROVE  AllExplained
<1>0. Typed /\ TokensDiffer
  BY DEF Books
<1>00. /\ list \in [Managers -> Seq(Nat)] /\ manager \in Managers
       /\ next_token \in 1 .. MaxTokens + 1 /\ MaxTokens \in Nat
       /\ \A s \in Servers : to_server[s] \in Seq(Requests)
       /\ to_client \in [Servers -> Seq(Requests \union News)]
  BY <1>0 DEF Typed, LobbyAssumption
<1>01. UNCHANGED <<tasks, to_server, to_client>> => AllExplained
  BY SomeExplained DEF AllExplained
<1>02. next_token <= next_token' /\ next_token' \in Nat
  <2>1. next_token <= next_token' /\ Typed'
    BY TokensStep, TypedStep
  <2> QED BY <2>1 DEF Typed, LobbyAssumption
<1>03. \A i \in DOMAIN list[manager] : list[manager][i] \in 1 .. next_token - 1
  BY <1>0, <1>00 DEF TokensDiffer
<1>1. ASSUME NEW n \in SlotCounts, SelectMap(n) PROVE AllExplained
  <2> DEFINE drop == {list[manager][j] : j \in
                {k \in DOMAIN list[manager] :
                    \A i \in DOMAIN list'[manager] : i < k}}
  <2>1. Written(runner[manager], drop)
    BY <1>0, <1>1, SelectMapIs
  <2>2. UNCHANGED <<tasks, to_client, manager>>
    BY <1>1 DEF SelectMap, UpdateSlots, loopVars
  <2>3. ASSUME NEW x, Clicked(x, drop) PROVE Explained(x)
    <3> SUFFICES ASSUME x.type = "remove" PROVE GoneFrom(x, list', next_token')
      BY DEF Explained
    <3>1. x.manager = manager /\ x.token \in drop
      BY <2>3 DEF Clicked
    <3>2. PICK j \in DOMAIN list[manager] :
            x.token = list[manager][j] /\ \A i \in DOMAIN list'[manager] : i < j
      BY <3>1
    <3>3. \A i \in DOMAIN list'[manager] : list'[manager][i] # x.token
      <4> SUFFICES ASSUME NEW i \in DOMAIN list'[manager], list'[manager][i] = x.token
                   PROVE  FALSE
        OBVIOUS
      <4>1. /\ next_token + Len(Grown(manager, n)) <= MaxTokens + 1
            /\ list' = [list EXCEPT ![manager] = Resized(manager, n)]
        BY <1>1 DEF SelectMap, UpdateSlots
      <4>2. n \in Nat
        BY DEF LobbyAssumption
      <4>3. i \in DOMAIN list[manager]
        <5>1. list[manager] \in Seq(Nat) /\ i < j
          BY <1>00, <3>2
        <5>2. i \in Nat \ {0}
          <6>1. list'[manager] = Resized(manager, n)
            BY <4>1, <1>00
          <6>2. Resized(manager, n) \in Seq(Nat)
            BY <4>1, <4>2, <1>0, <1>00, ResizedIs
          <6> QED BY <6>1, <6>2, LenProperties
        <5>3. DOMAIN list[manager] = 1 .. Len(list[manager]) /\ Len(list[manager]) \in Nat
          BY <5>1, LenProperties
        <5> QED BY <5>1, <5>2, <5>3
      <4>4. \/ i \in DOMAIN list[manager] /\ list'[manager][i] = list[manager][i]
            \/ i > Len(list[manager])
        <5>1. list'[manager] = Resized(manager, n)
          BY <4>1, <1>00
        <5> QED BY <5>1, <4>1, <4>2, <1>0, <1>00, ResizedIs
      <4>5. ~(i > Len(list[manager])) /\ i < j /\ i \in Nat
        <5>1. list[manager] \in Seq(Nat)
          BY <1>00
        <5>2. DOMAIN list[manager] = 1 .. Len(list[manager]) /\ Len(list[manager]) \in Nat
          BY <5>1, LenProperties
        <5> QED BY <5>2, <4>3, <3>2
      <4>6. list[manager][i] = list[manager][j] /\ i # j
        BY <4>4, <4>5, <3>2
      <4> QED BY <4>3, <4>6, <3>2, <1>0, <1>00 DEF TokensDiffer
    <3>4. x.token \in 1 .. next_token' - 1
      BY <3>2, <1>03, <1>02, <1>00
    <3> QED BY <3>1, <3>3, <3>4, <1>00 DEF GoneFrom
  <2> HIDE DEF drop
  <2>4. \A s \in Servers : \A i \in DOMAIN to_server'[s] : Explained(to_server'[s][i])
    BY <2>1, <2>3 DEF Written, Explained, OnItsWay
  <2> QED BY <2>2, <2>4, SomeExplained DEF AllExplained
<1>2. ASSUME NEW k \in 1 .. MaxTokens, KickPlayer(k) PROVE AllExplained
  <2>1. Written(runner[manager], {list[manager][k]})
    BY <1>0, <1>2, KickPlayerIs
  <2>2. UNCHANGED <<tasks, to_client, manager>> /\ k \in DOMAIN list[manager]
        /\ list' = [list EXCEPT ![manager] = [list[manager] EXCEPT ![k] = next_token]]
    BY <1>2, <1>00 DEF KickPlayer, loopVars
  <2>3. ASSUME NEW x, Clicked(x, {list[manager][k]}) PROVE Explained(x)
    <3> SUFFICES ASSUME x.type = "remove" PROVE GoneFrom(x, list', next_token')
      BY DEF Explained
    <3>1. x.manager = manager /\ x.token = list[manager][k]
      BY <2>3 DEF Clicked
    <3>2. list'[manager] = [list[manager] EXCEPT ![k] = next_token]
      BY <2>2, <1>00
    <3>3. ASSUME NEW i \in DOMAIN list'[manager] PROVE list'[manager][i] # x.token
      <4>1. i \in DOMAIN list[manager]
            /\ list'[manager][i] = IF i = k THEN next_token ELSE list[manager][i]
        BY <3>2
      <4>2. CASE i = k
        <5>1. list[manager][k] \in 1 .. next_token - 1
          BY <2>2, <1>03
        <5> QED BY <5>1, <4>1, <4>2, <3>1, <1>00
      <4>3. CASE i # k
        BY <4>1, <4>3, <3>1, <2>2, <1>0, <1>00 DEF TokensDiffer
      <4> QED BY <4>2, <4>3
    <3>4. x.token \in 1 .. next_token' - 1
      BY <3>1, <2>2, <1>03, <1>02, <1>00
    <3> QED BY <3>1, <3>3, <3>4, <1>00 DEF GoneFrom
  <2>4. \A s \in Servers : \A i \in DOMAIN to_server'[s] : Explained(to_server'[s][i])
    BY <2>1, <2>3 DEF Written, Explained, OnItsWay
  <2> QED BY <2>2, <2>4, SomeExplained DEF AllExplained
<1>3. ASSUME LaunchGame PROVE AllExplained
  <2>1. Send(server, <<StartGame>>) /\ UNCHANGED <<tasks, to_client>>
    BY <1>3 DEF LaunchGame, loopVars
  <2> DEFINE requests == <<StartGame>>
  <2>2. requests \in Seq(Requests)
        /\ \A j \in DOMAIN requests : requests[j].type # "remove"
    BY DEF StartGame, Requests, None
  <2>3. Send(server, requests)
    BY <2>1
  <2> HIDE DEF requests
  <2>4. \A s \in Servers : \A i \in DOMAIN to_server'[s] :
            \/ i \in DOMAIN to_server[s] /\ to_server'[s][i] = to_server[s][i]
            \/ \E j \in DOMAIN requests : to_server'[s][i] = requests[j]
    BY <2>2, <2>3, <1>0, SendIs
  <2>5. \A s \in Servers : \A i \in DOMAIN to_server'[s] : Explained(to_server'[s][i])
    BY <2>4, <2>2 DEF Explained, OnItsWay
  <2> QED BY <2>1, <2>5, SomeExplained DEF AllExplained
<1>4. ASSUME RunTask PROVE AllExplained
  <2>1. tasks # <<>> /\ tasks' = Tail(tasks)
    BY <1>0, <1>4, RunTaskIs
  <2>2. \A i \in DOMAIN tasks' : Explained(tasks'[i])
    <3>1. tasks \in Seq(Requests \union Settlements)
      BY <1>0 DEF Typed
    <3>2. \A i \in DOMAIN tasks' : i + 1 \in DOMAIN tasks /\ tasks'[i] = tasks[i + 1]
      BY <2>1, <3>1, TailIs
    <3> QED BY <3>2 DEF Explained, OnItsWay
  <2>3. ASSUME NEW s \in Servers, Created(s) PROVE AllExplained
    <3>1. Send(s, NewPlayers(s)) /\ UNCHANGED to_client
      BY <2>3 DEF Created
    <3>2. NewPlayers(s) \in Seq(Requests)
          /\ \A i \in DOMAIN NewPlayers(s) : NewPlayers(s)[i].type # "remove"
      BY <1>0, NewPlayersAre
    <3>3. \A r \in Servers : \A i \in DOMAIN to_server'[r] :
            \/ i \in DOMAIN to_server[r] /\ to_server'[r][i] = to_server[r][i]
            \/ \E j \in DOMAIN NewPlayers(s) : to_server'[r][i] = NewPlayers(s)[j]
      BY <3>1, <3>2, <1>0, SendIs
    <3>4. \A r \in Servers : \A i \in DOMAIN to_server'[r] : Explained(to_server'[r][i])
      BY <3>2, <3>3 DEF Explained, OnItsWay
    <3> QED BY <3>1, <3>4, <2>2, SomeExplained DEF AllExplained
  <2>4. ASSUME UNCHANGED netVars PROVE AllExplained
    BY <2>4, <2>2, SomeExplained DEF AllExplained, netVars
  <2>5. ASSUME StopServer \/ PlayerAdded(Head(tasks)) \/ PlayerRemoved(Head(tasks))
               \/ GameStarted
        PROVE  UNCHANGED netVars
    BY <2>5 DEF StopServer, PlayerAdded, PlayerRemoved, GameStarted
  <2> QED BY <1>0, <1>4, <2>3, <2>4, <2>5, RunTaskIs
<1>5. ASSUME NEW s \in Servers, Response(s) PROVE AllExplained
  <2>1. NextFrame(s) /\ tasks' = Append(tasks, Head(to_client[s])) /\ UNCHANGED to_server
    BY <1>5 DEF Response
  <2>2. /\ Head(to_client[s]) = to_client[s][1] /\ 1 \in DOMAIN to_client[s]
        /\ \A i \in DOMAIN to_client'[s] :
                i + 1 \in DOMAIN to_client[s] /\ to_client'[s][i] = to_client[s][i + 1]
        /\ \A r \in Servers : r # s => to_client'[r] = to_client[r]
    BY <2>1, <1>0, FrameIs
  <2>3. Head(to_client[s]) \in Requests
    BY <2>1, <1>0, <1>5, FrameIs DEF Response
  <2>4. \A i \in DOMAIN tasks' : \/ i \in DOMAIN tasks /\ tasks'[i] = tasks[i]
                                 \/ tasks'[i] = Head(to_client[s])
    <3>1. tasks \in Seq(Requests \union Settlements)
      BY <1>0 DEF Typed
    <3> QED BY <3>1, <2>1, <2>3, AppendIs
  <2>5. \A i \in DOMAIN tasks' : Explained(tasks'[i])
    BY <2>2, <2>4 DEF Explained, OnItsWay
  <2>6. \A i \in DOMAIN to_client'[s] : Explained(to_client'[s][i])
    BY <2>2 DEF Explained, OnItsWay
  <2> QED BY <2>1, <2>2, <2>5, <2>6, SomeExplained DEF AllExplained
<1>6. ASSUME NEW s \in Servers, PlayerNews(s) PROVE AllExplained
  <2>1. NextFrame(s) /\ UNCHANGED <<tasks, to_server>>
    BY <1>6 DEF PlayerNews
  <2>2. /\ \A i \in DOMAIN to_client'[s] :
                i + 1 \in DOMAIN to_client[s] /\ to_client'[s][i] = to_client[s][i + 1]
        /\ \A r \in Servers : r # s => to_client'[r] = to_client[r]
    BY <2>1, <1>0, FrameIs
  <2>3. \A i \in DOMAIN to_client'[s] : Explained(to_client'[s][i])
    BY <2>2 DEF Explained, OnItsWay
  <2> QED BY <2>1, <2>2, <2>3, SomeExplained DEF AllExplained
<1>7. ASSUME NEW s \in Servers, ServerConnected(s) \/ ServerExits(s) PROVE AllExplained
  <2>1. \A i \in DOMAIN tasks' : Explained(tasks'[i])
    <3>1. \/ tasks' = <<[type |-> "created", server |-> s]>>
          \/ tasks' = <<[type |-> "failed", server |-> s]>>
          \/ UNCHANGED tasks
      BY <1>7 DEF ServerConnected, ServerExits
    <3> QED BY <3>1, SomeExplained DEF Explained
  <2>2. \A r \in Servers : \/ to_server'[r] = to_server[r] /\ to_client'[r] = to_client[r]
                           \/ to_server'[r] = <<>> /\ to_client'[r] = <<>>
    <3>1. CASE ServerConnected(s)
      BY <3>1 DEF ServerConnected, netVars
    <3>2. CASE ServerExits(s)
      <4>1. to_client' = [to_client EXCEPT ![s] = <<>>]
            /\ to_server' = [to_server EXCEPT ![s] = <<>>]
        BY <3>2 DEF ServerExits
      <4>2. DOMAIN to_client = Servers /\ DOMAIN to_server = Servers
        BY <1>0 DEF Typed
      <4> QED BY <4>1, <4>2
    <3> QED BY <1>7, <3>1, <3>2
  <2>3. DOMAIN <<>> = {}
    OBVIOUS
  <2> QED BY <2>1, <2>2, <2>3, SomeExplained DEF AllExplained
<1>8. ASSUME NEW s \in Servers, Serve(s) PROVE AllExplained
  <2>1. /\ Head(to_server[s]) = to_server[s][1] /\ 1 \in DOMAIN to_server[s]
        /\ \A i \in DOMAIN to_server'[s] :
                i + 1 \in DOMAIN to_server[s] /\ to_server'[s][i] = to_server[s][i + 1]
        /\ \A r \in Servers : r # s => to_server'[r] = to_server[r]
        /\ UNCHANGED tasks
    BY <1>0, <1>8, ServeIs DEF loopVars
  <2> DEFINE old == Head(to_server[s])
             new == [Head(to_server[s]) EXCEPT !.id = counter[s]]
  <2>2. old \in Requests
    BY <1>0, <1>8, ServeIs
  <2>3. \/ UNCHANGED to_client
        \/ new \in Requests /\ new.type = "add" /\ Tell(s, new)
        \/ Tell(s, old)
    <3>1. \/ UNCHANGED to_client
          \/ new \in Requests /\ old.type = "add" /\ Tell(s, new)
          \/ Tell(s, old)
      BY <1>0, <1>8, ServeIs
    <3>2. new.type = old.type
      BY <2>2 DEF Requests
    <3> QED BY <3>1, <3>2
  <2>4. Explained(old)
    BY <2>1 DEF Explained, OnItsWay
  <2>5. \A i \in DOMAIN to_server'[s] : Explained(to_server'[s][i])
    BY <2>1 DEF Explained, OnItsWay
  <2> HIDE DEF old, new
  <2>6. ASSUME NEW frame \in Requests \union News, Tell(s, frame), Explained(frame)
        PROVE  \A r \in Servers : \A i \in DOMAIN to_client'[r] :
                    Explained(to_client'[r][i])
    <3>1. /\ \A i \in DOMAIN to_client'[s] :
                \/ i \in DOMAIN to_client[s] /\ to_client'[s][i] = to_client[s][i]
                \/ to_client'[s][i] = frame
          /\ \A r \in Servers : r # s => to_client'[r] = to_client[r]
      BY <1>0, <2>6, TellIs
    <3>2. \A i \in DOMAIN to_client'[s] : Explained(to_client'[s][i])
      BY <3>1, <2>6 DEF Explained, OnItsWay
    <3> QED BY <3>1, <3>2, SomeExplained
  <2>7. new.type = "add" => Explained(new)
    BY DEF Explained
  <2>8. \A r \in Servers : \A i \in DOMAIN to_client'[r] : Explained(to_client'[r][i])
    BY <2>2, <2>3, <2>4, <2>6, <2>7, SomeExplained
  <2> QED BY <2>1, <2>5, <2>8, SomeExplained DEF AllExplained
<1>9. ASSUME NEW s \in Servers, NEW id \in DOMAIN players[s],
             NEW type \in {"connected", "disconnected"}, ClientMoves(s, id, type)
      PROVE  AllExplained
  <2> DEFINE frame == [type |-> type, id |-> id]
  <2>1. frame \in News /\ frame.type # "remove"
    BY <1>9 DEF News, Books, PlayersNumbered
  <2>2. Tell(s, frame) /\ UNCHANGED <<tasks, to_server>>
    BY <1>9 DEF ClientMoves, loopVars
  <2> HIDE DEF frame
  <2>3. /\ \A i \in DOMAIN to_client'[s] :
                \/ i \in DOMAIN to_client[s] /\ to_client'[s][i] = to_client[s][i]
                \/ to_client'[s][i] = frame
        /\ \A r \in Servers : r # s => to_client'[r] = to_client[r]
    BY <1>0, <2>1, <2>2, TellIs
  <2>4. \A i \in DOMAIN to_client'[s] : Explained(to_client'[s][i])
    BY <2>1, <2>3 DEF Explained, OnItsWay
  <2> QED BY <2>2, <2>3, <2>4, SomeExplained DEF AllExplained
<1>10. ASSUME NEW b \in Bots, AddLocalBot(b) PROVE AllExplained
  BY <1>01, <1>10 DEF AddLocalBot, loopVars, netVars
<1>11. ASSUME NEW i \in 1 .. MaxTokens, ConnectLocalBot(i) PROVE AllExplained
  BY <1>01, <1>11 DEF ConnectLocalBot, loopVars, netVars
<1>12. ASSUME NEW p \in Ports, StartServer(p) PROVE AllExplained
  BY <1>01, <1>12 DEF StartServer, loopVars, netVars
<1>13. ASSUME ClickStop \/ Unmount PROVE AllExplained
  BY <1>01, <1>13 DEF ClickStop, StopServer, Unmount, loopVars, netVars
<1>14. ASSUME NEW s \in Servers, ConnectFails(s) PROVE AllExplained
  BY <1>01, <1>14 DEF ConnectFails, loopVars, netVars
<1>15. CASE UNCHANGED vars
  BY <1>01, <1>15 DEF vars, loopVars, netVars
<1> QED
  <2>1. Next \/ UNCHANGED vars
    OBVIOUS
  <2> QED BY <2>1, <1>1, <1>2, <1>3, <1>4, <1>5, <1>6, <1>7, <1>8, <1>9, <1>10, <1>11,
          <1>12, <1>13, <1>14, <1>15 DEF Next, Slots, Controls, Loop, Server

LEMMA GoneStep ==
    ASSUME LobbyAssumption, Books, [Next]_vars
    PROVE  RemovedAreGone'
<1>1. \A x : OnItsWay(x) => Gone(x)
  BY DEF Books, RemovedAreGone, OnItsWay
<1>2. \A x : Gone(x) => GoneFrom(x, list', next_token')
  BY GoneStays
<1>3. \A x : Explained(x) => GoneFrom(x, list', next_token')
  BY <1>1, <1>2 DEF Explained, GoneFrom
<1>4. AllExplained
  BY MessagesExplained
<1> QED BY <1>3, <1>4 DEF AllExplained, RemovedAreGone, Gone

\* A launch adds a match and a manager.
LEMMA CountedStep ==
    ASSUME LobbyAssumption, Books, [Next]_vars
    PROVE  ManagersCounted'
<1>0. Typed /\ manager = 1 + Cardinality(SavedServers)
  BY DEF Books, ManagersCounted
<1>1. CASE UNCHANGED <<manager, saved>>
  BY <1>0, <1>1 DEF ManagersCounted, SavedServers
<1>2. CASE Launched
  <2>1. /\ IsFiniteSet(SavedServers)
        /\ Cardinality(SavedServers \union {server}) = Cardinality(SavedServers) + 1
    BY <1>2, NextManagerExists DEF Launched
  <2>2. SavedServers' = SavedServers \union {server}
    <3> DEFINE match == [server |-> server, players |-> shown]
    <3>1. saved' = saved \union {match} /\ match.server = server
      BY <1>2 DEF Launched
    <3> HIDE DEF match
    <3> QED BY <3>1 DEF SavedServers
  <2>3. manager' = manager + 1 /\ Cardinality(SavedServers) \in Nat
    BY <1>2, <2>1, FS_CardinalityType DEF Launched
  <2> QED BY <1>0, <2>1, <2>2, <2>3 DEF ManagersCounted
<1>3. ASSUME NEW n \in SlotCounts, SelectMap(n) PROVE UNCHANGED <<manager, saved>>
  BY <1>3 DEF SelectMap, UpdateSlots, noteVars
<1>4. ASSUME NEW i \in 1 .. MaxTokens, KickPlayer(i) PROVE UNCHANGED <<manager, saved>>
  BY <1>4 DEF KickPlayer, noteVars
<1>5. ASSUME PlayerRemoved(Head(tasks)) PROVE UNCHANGED <<manager, saved>>
  BY <1>5 DEF PlayerRemoved, noteVars
<1> QED BY <1>0, <1>1, <1>2, <1>3, <1>4, <1>5, ListSteps
-----------------------------------------------------------------------------
(* The servers *)

CreatedTask(s) == [type |-> "created", server |-> s]

\* Frames are read when no promise of create is waiting for its callback.
LEMMA NoSettlementWhileReading ==
    ASSUME Books, NEW s \in Servers, NextFrame(s)
    PROVE  \A i \in DOMAIN tasks : tasks[i].type \notin {"created", "failed"}
<1>1. chunk \in {None, s} /\ (chunk = None => tasks = <<>>) /\ s # None
  BY DEF NextFrame, Servers, None
<1>2. \A i \in DOMAIN tasks : tasks[i].type \in {"created", "failed"} => chunk = None
  BY DEF Books, SettledAlone
<1> QED BY <1>1, <1>2

\* Once handed over, for ever; and only the callback of create hands over.
LEMMA HandedSteps ==
    ASSUME Books, [Next]_vars
    PROVE  /\ SettledAlone'
           /\ \A s \in Servers :
                /\ Handed(s) => Handed(s)'
                /\ Handed(s)' => \/ Handed(s)
                                 \/ /\ RunTask /\ Head(tasks) = CreatedTask(s)
                                    /\ Created(s) /\ Len(tasks) = 1
                /\ RunTask /\ Head(tasks) = CreatedTask(s) => Handed(s)'
<1> DEFINE Goal == /\ SettledAlone'
                   /\ \A s \in Servers :
                        /\ Handed(s) => Handed(s)'
                        /\ Handed(s)' => \/ Handed(s)
                                         \/ /\ RunTask /\ Head(tasks) = CreatedTask(s)
                                            /\ Created(s) /\ Len(tasks) = 1
                        /\ RunTask /\ Head(tasks) = CreatedTask(s) => Handed(s)'
<1>0. /\ Typed /\ SettledAlone
      /\ tasks \in Seq(Requests \union Settlements)
      /\ DOMAIN tasks = 1 .. Len(tasks) /\ Len(tasks) \in Nat
      /\ promise \in [Servers -> {"none", "pending", "hanging", "resolved", "rejected"}]
  <2>1. Typed /\ SettledAlone /\ tasks \in Seq(Requests \union Settlements)
    BY DEF Books, Typed
  <2> QED BY <2>1, LenProperties DEF Typed
<1>1. ASSUME UNCHANGED <<tasks, chunk, promise>>, ~RunTask PROVE Goal
  BY <1>0, <1>1 DEF SettledAlone, Handed
<1>2. ASSUME RunTask PROVE Goal
  <2>1. /\ tasks # <<>> /\ tasks' = Tail(tasks) /\ UNCHANGED chunk
        /\ \/ \E s \in Servers : Head(tasks) = CreatedTask(s) /\ Created(s)
           \/ Head(tasks).type \in {"failed", "add", "remove", "start"}
    BY <1>0, <1>2, RunTaskIs DEF CreatedTask
  <2>2. /\ Head(tasks) = tasks[1] /\ 1 \in DOMAIN tasks
        /\ \A i \in DOMAIN tasks' : i + 1 \in DOMAIN tasks /\ tasks'[i] = tasks[i + 1]
                                    /\ i \in Nat \ {0}
    <3>1. /\ Head(tasks) = tasks[1] /\ 1 \in DOMAIN tasks
          /\ tasks' \in Seq(Requests \union Settlements)
          /\ \A i \in DOMAIN tasks' : i + 1 \in DOMAIN tasks /\ tasks'[i] = tasks[i + 1]
      BY <1>0, <2>1, TailIs
    <3> QED BY <3>1, LenProperties
  <2>3. \A i \in DOMAIN tasks' : tasks'[i].type \notin {"created", "failed"}
    <3> TAKE i \in DOMAIN tasks'
    <3>1. i + 1 \in DOMAIN tasks /\ i + 1 # 1 /\ tasks'[i] = tasks[i + 1] /\ i \in Nat \ {0}
      BY <2>2
    <3>2. tasks[i + 1].type \in {"created", "failed"} => Len(tasks) = 1
      BY <3>1, <1>0 DEF SettledAlone
    <3> QED BY <3>1, <3>2, <1>0
  <2>4. UNCHANGED promise
    BY <1>0, <1>2, RunTaskIs DEF StopServer, Created, PlayerAdded, PlayerRemoved, GameStarted,
       runnerVars
  <2>5. SettledAlone'
    BY <2>3 DEF SettledAlone
  <2>6. \A s \in Servers : Handed(s)' <=> promise[s] = "resolved"
    BY <2>3, <2>4 DEF Handed
  <2>7. ASSUME NEW s \in Servers, promise[s] = "resolved", ~Handed(s)
        PROVE  Head(tasks) = CreatedTask(s) /\ Created(s) /\ Len(tasks) = 1
    <3>1. PICK i \in DOMAIN tasks : tasks[i] = CreatedTask(s)
      BY <2>7 DEF Handed, CreatedTask
    <3>2. Len(tasks) = 1
      BY <3>1, <1>0 DEF SettledAlone, CreatedTask
    <3>3. Head(tasks) = CreatedTask(s)
      BY <3>1, <3>2, <2>2, <1>0
    <3>4. Head(tasks).type = "created" /\ Head(tasks).server = s
      BY <3>3 DEF CreatedTask
    <3>5. Created(s)
      BY <3>4, <2>1 DEF CreatedTask
    <3> QED BY <3>2, <3>3, <3>5
  <2>8. ASSUME NEW s \in Servers, Head(tasks) = CreatedTask(s)
        PROVE  promise[s] = "resolved"
    BY <2>8, <2>2, <1>0 DEF SettledAlone, CreatedTask
  <2>9. \A s \in Servers : Handed(s) => promise[s] = "resolved"
    BY DEF Handed
  <2> QED BY <1>2, <2>5, <2>6, <2>7, <2>8, <2>9
<1>3. ASSUME NEW p \in Ports, StartServer(p), ~RunTask PROVE Goal
  <2>1. PICK s \in Servers : /\ proc[s] = "idle"
                             /\ promise' = [promise EXCEPT ![s] = "pending"]
    BY <1>3 DEF StartServer
  <2>2. promise[s] = "none" /\ UNCHANGED <<tasks, chunk>> /\ tasks = <<>>
    BY <1>3, <2>1 DEF StartServer, Books, QuietBefore, loopVars, Click, Idle
  <2>3. DOMAIN tasks = {} /\ DOMAIN tasks' = {}
    BY <2>2
  <2>4. SettledAlone'
    BY <2>3 DEF SettledAlone
  <2>5. \A r \in Servers : promise'[r] = "resolved" <=> promise[r] = "resolved"
    BY <2>1, <2>2, <1>0
  <2> QED BY <1>3, <2>3, <2>4, <2>5 DEF Handed
<1>4. ASSUME NEW s \in Servers, Response(s), ~RunTask PROVE Goal
  <2>1. NextFrame(s) /\ tasks' = Append(tasks, Head(to_client[s])) /\ UNCHANGED promise
    BY <1>4 DEF Response, runnerVars
  <2>2. /\ Head(to_client[s]) \in Requests
        /\ Head(to_client[s]).type \in {"add", "remove", "start"}
    BY <1>0, <1>4, <2>1, FrameIs DEF Response
  <2>3. \A i \in DOMAIN tasks : tasks[i].type \notin {"created", "failed"}
    BY <2>1, NoSettlementWhileReading
  <2>4. \A i \in DOMAIN tasks' : tasks'[i].type \notin {"created", "failed"}
    <3>1. \A i \in DOMAIN tasks' : \/ i \in DOMAIN tasks /\ tasks'[i] = tasks[i]
                                   \/ tasks'[i] = Head(to_client[s])
      BY <1>0, <2>1, <2>2, AppendIs
    <3> QED BY <3>1, <2>2, <2>3
  <2>5. \A r \in Servers : /\ Handed(r) <=> promise[r] = "resolved"
                           /\ Handed(r)' <=> promise[r] = "resolved"
    BY <2>1, <2>3, <2>4 DEF Handed
  <2> QED BY <1>4, <2>4, <2>5 DEF SettledAlone
<1>5. ASSUME NEW s \in Servers, PlayerNews(s), ~RunTask PROVE Goal
  <2>1. NextFrame(s) /\ UNCHANGED <<tasks, promise>>
    BY <1>5 DEF PlayerNews, runnerVars
  <2>2. \A i \in DOMAIN tasks : tasks[i].type \notin {"created", "failed"}
    BY <2>1, NoSettlementWhileReading
  <2> QED BY <1>5, <2>1, <2>2 DEF SettledAlone, Handed
<1>6. ASSUME NEW s \in Servers, ServerConnected(s), ~RunTask PROVE Goal
  <2>1. /\ tasks = <<>> /\ chunk = None /\ UNCHANGED chunk
        /\ promise[s] = "pending"
        /\ promise' = [promise EXCEPT ![s] = "resolved"]
        /\ tasks' = <<CreatedTask(s)>>
    BY <1>6 DEF ServerConnected, Idle, CreatedTask
  <2>2. DOMAIN tasks = {} /\ DOMAIN tasks' = {1} /\ tasks'[1] = CreatedTask(s)
        /\ Len(tasks') = 1
    BY <2>1
  <2>3. promise'[s] = "resolved" /\ \A r \in Servers : r # s => promise'[r] = promise[r]
    BY <2>1, <1>0
  <2>4. SettledAlone'
    BY <2>1, <2>2, <2>3 DEF SettledAlone, CreatedTask
  <2>5. ~Handed(s) /\ ~Handed(s)'
    BY <2>1, <2>2 DEF Handed, CreatedTask
  <2>6. \A r \in Servers : r # s => (Handed(r) <=> Handed(r)')
    <3> SUFFICES ASSUME NEW r \in Servers, r # s PROVE Handed(r) <=> Handed(r)'
      OBVIOUS
    <3>1. tasks'[1] # [type |-> "created", server |-> r]
      BY <2>2 DEF CreatedTask
    <3> QED BY <3>1, <2>2, <2>3 DEF Handed
  <2> QED BY <1>6, <2>4, <2>5, <2>6
<1>7. ASSUME NEW s \in Servers, ConnectFails(s), ~RunTask PROVE Goal
  <2>1. /\ tasks = <<>> /\ UNCHANGED tasks
        /\ promise[s] = "pending"
        /\ promise' = [promise EXCEPT ![s] = "hanging"]
    BY <1>7 DEF ConnectFails, Idle, loopVars
  <2>2. DOMAIN tasks = {} /\ DOMAIN tasks' = {}
    BY <2>1
  <2>3. \A r \in Servers : promise'[r] = "resolved" <=> promise[r] = "resolved"
    BY <2>1, <1>0
  <2> QED BY <1>7, <2>2, <2>3 DEF SettledAlone, Handed
<1>8. ASSUME NEW s \in Servers, ServerExits(s), ~RunTask PROVE Goal
  <2>1. /\ tasks = <<>> /\ chunk = None /\ UNCHANGED chunk
        /\ \/ UNCHANGED <<promise, tasks>>
           \/ /\ promise[s] \in {"pending", "hanging"}
              /\ promise' = [promise EXCEPT ![s] = "rejected"]
              /\ tasks' = <<[type |-> "failed", server |-> s]>>
    BY <1>8 DEF ServerExits, Idle
  <2>2. \A r \in Servers : promise'[r] = "resolved" <=> promise[r] = "resolved"
    BY <2>1, <1>0
  <2>3. DOMAIN tasks = {}
    BY <2>1
  <2>4. CASE UNCHANGED <<promise, tasks>>
    BY <1>8, <2>4, <2>3 DEF SettledAlone, Handed
  <2>5. CASE tasks' = <<[type |-> "failed", server |-> s]>>
    <3>1. DOMAIN tasks' = {1} /\ Len(tasks') = 1 /\ tasks'[1].type = "failed"
      BY <2>5
    <3>2. SettledAlone'
      BY <3>1, <2>1 DEF SettledAlone
    <3>3. \A r \in Servers : tasks'[1] # [type |-> "created", server |-> r]
      BY <3>1
    <3>4. \A r \in Servers : Handed(r) <=> Handed(r)'
      BY <3>1, <3>3, <2>2, <2>3 DEF Handed
    <3> QED BY <1>8, <3>2, <3>4
  <2> QED BY <2>1, <2>4, <2>5
<1>9. ASSUME NEW n \in SlotCounts, SelectMap(n) PROVE UNCHANGED <<tasks, chunk, promise>>
  BY <1>9 DEF SelectMap, UpdateSlots, loopVars, runnerVars
<1>10. ASSUME NEW b \in Bots, AddLocalBot(b) PROVE UNCHANGED <<tasks, chunk, promise>>
  BY <1>10 DEF AddLocalBot, loopVars, runnerVars
<1>11. ASSUME NEW i \in 1 .. MaxTokens, KickPlayer(i) \/ ConnectLocalBot(i)
       PROVE  UNCHANGED <<tasks, chunk, promise>>
  BY <1>11 DEF KickPlayer, ConnectLocalBot, loopVars, runnerVars
<1>12. ASSUME ClickStop \/ LaunchGame \/ Unmount PROVE UNCHANGED <<tasks, chunk, promise>>
  BY <1>12 DEF ClickStop, StopServer, LaunchGame, Unmount, loopVars, runnerVars
<1>13. ASSUME NEW s \in Servers, Serve(s) PROVE UNCHANGED <<tasks, chunk, promise>>
  BY <1>13 DEF Serve, loopVars, runnerVars
<1>14. ASSUME NEW s \in Servers, NEW id, NEW type, ClientMoves(s, id, type)
       PROVE  UNCHANGED <<tasks, chunk, promise>>
  BY <1>14 DEF ClientMoves, loopVars, runnerVars
<1>15. UNCHANGED vars => UNCHANGED <<tasks, chunk, promise>>
  BY DEF vars, loopVars, runnerVars
<1> HIDE DEF Goal
<1>16. Goal
  <2>1. Next \/ UNCHANGED vars
    OBVIOUS
  <2>2. CASE RunTask
    BY <2>2, <1>2
  <2>3. CASE ~RunTask
    BY <2>1, <2>3, <1>1, <1>3, <1>4, <1>5, <1>6, <1>7, <1>8, <1>9, <1>10, <1>11,
       <1>12, <1>13, <1>14, <1>15 DEF Next, Slots, Controls, Loop, Server
  <2> QED BY <2>2, <2>3
<1> QED BY <1>16 DEF Goal

\* Who is the server of the lobby, and what is kept of the servers before.
LEMMA ServersStep ==
    ASSUME LobbyAssumption, Books, [Next]_vars
    PROVE  ServersHanded'
<1>0. /\ Typed /\ ServersHanded
      /\ proc \in [Servers -> {"idle", "up", "killed", "failing", "dead"}]
      /\ server \in Servers \union {None}
      /\ SavedServers \subseteq Servers
      /\ \A s \in Servers : Handed(s) => Handed(s)'
  BY SMTT(30), HandedSteps DEF Books, Typed, SavedServers
<1>00. /\ server # None =>
            Handed(server) /\ proc[server] # "killed" /\ server \notin SavedServers
       /\ \A s \in SavedServers : Handed(s) /\ proc[s] # "killed"
       /\ \A s \in Servers : proc[s] = "killed" => Handed(s)
  BY <1>0 DEF ServersHanded
<1> DEFINE HandedNext(s) ==
                /\ promise'[s] = "resolved"
                /\ \A i \in DOMAIN tasks' : tasks'[i] # [type |-> "created", server |-> s]
<1>01. \A s \in Servers : Handed(s) => HandedNext(s)
  BY <1>0 DEF Handed
<1>02. ASSUME server' # None =>
                HandedNext(server') /\ proc'[server'] # "killed"
                /\ server' \notin SavedServers',
              \A s \in SavedServers' : HandedNext(s) /\ proc'[s] # "killed",
              \A s \in Servers : proc'[s] = "killed" => HandedNext(s)
       PROVE  ServersHanded'
  <2>1. \A s : HandedNext(s) => Handed(s)'
    BY DEF Handed
  <2>2. HandedNext(server') => Handed(server)'
    BY DEF Handed
  <2> QED BY <1>02, <2>1, <2>2 DEF ServersHanded
<1> HIDE DEF HandedNext
<1>1. ASSUME UNCHANGED <<server, proc, saved>> PROVE ServersHanded'
  <2>1. SavedServers' = SavedServers
    BY <1>1 DEF SavedServers
  <2> QED BY <1>0, <1>00, <1>01, <1>02, <1>1, <2>1
<1>2. ASSUME KillServer, UNCHANGED saved PROVE ServersHanded'
  <2>1. SavedServers' = SavedServers
    BY <1>2 DEF SavedServers
  <2>2. server' = None
        /\ \A s \in Servers : proc'[s] = proc[s] \/ (s = server /\ server # None)
    <3>1. CASE server # None /\ proc[server] = "up"
      <4>1. server' = None /\ proc' = [proc EXCEPT ![server] = "killed"]
        BY <3>1, <1>2 DEF KillServer
      <4> QED BY <4>1, <3>1, <1>0
    <3>2. CASE ~(server # None /\ proc[server] = "up")
      BY <3>2, <1>2 DEF KillServer
    <3> QED BY <3>1, <3>2
  <2> QED BY <1>0, <1>00, <1>01, <1>02, <2>1, <2>2
<1>3. ASSUME NEW p \in Ports, StartServer(p) PROVE ServersHanded'
  <2>1. PICK s \in Servers : /\ proc[s] = "idle"
                             /\ \/ proc' = [proc EXCEPT ![s] = "failing"]
                                \/ proc' = [proc EXCEPT ![s] = "up"]
    BY <1>3 DEF StartServer
  <2>2. \A r \in Servers : proc'[r] = "killed" => proc[r] = "killed"
    BY <2>1, <1>0
  <2>3. UNCHANGED server /\ SavedServers' = SavedServers
    BY <1>3 DEF StartServer, uiVars, noteVars, SavedServers
  <2> QED BY <1>0, <1>00, <1>01, <1>02, <2>2, <2>3
<1>4. ASSUME NEW s \in Servers, ServerExits(s) PROVE ServersHanded'
  <2>1. \A r \in Servers : proc'[r] = "killed" => proc[r] = "killed"
    BY <1>0, <1>4 DEF ServerExits
  <2>2. UNCHANGED server /\ SavedServers' = SavedServers
    BY <1>4 DEF ServerExits, uiVars, noteVars, SavedServers
  <2> QED BY <1>0, <1>00, <1>01, <1>02, <2>1, <2>2
<1>5. ASSUME NEW s \in Servers, RunTask, Head(tasks) = CreatedTask(s), Created(s)
      PROVE  ServersHanded'
  <2>1. server' = s /\ UNCHANGED proc /\ SavedServers' = SavedServers
    BY <1>5 DEF Created, noteVars, procVars, SavedServers
  <2>2. HandedNext(s)
    BY <1>5, HandedSteps DEF HandedNext, Handed
  <2>3. ~Handed(s)
    <3>1. 1 \in DOMAIN tasks /\ tasks[1] = [type |-> "created", server |-> s]
      BY <1>0, <1>5, TaskIs, RunTaskIs DEF CreatedTask
    <3> QED BY <3>1 DEF Handed
  <2> QED BY <1>0, <1>00, <1>01, <1>02, <2>1, <2>2, <2>3
<1>6. ASSUME Launched PROVE ServersHanded'
  <2>1. /\ server' = None /\ server # None /\ UNCHANGED proc
        /\ saved' = saved \union {[server |-> server, players |-> shown]}
    BY <1>6 DEF Launched, validifyRunning, procVars
  <2>2. SavedServers' = SavedServers \union {server}
    <3> DEFINE match == [server |-> server, players |-> shown]
    <3>1. saved' = saved \union {match} /\ match.server = server
      BY <2>1
    <3> HIDE DEF match
    <3> QED BY <3>1 DEF SavedServers
  <2> QED BY <1>0, <1>00, <1>01, <1>02, <2>1, <2>2
<1>7. ASSUME RunTask PROVE ServersHanded'
  <2>1. ASSUME PlayerAdded(Head(tasks)) \/ PlayerRemoved(Head(tasks))
        PROVE  UNCHANGED <<server, proc, saved>>
    BY <2>1 DEF PlayerAdded, PlayerRemoved, noteVars, procVars
  <2>2. ASSUME StopServer PROVE KillServer /\ UNCHANGED saved
    BY <2>2 DEF StopServer, noteVars
  <2>3. ASSUME next_token + wanted <= MaxTokens + 1, GameStarted
        PROVE  UNCHANGED <<server, proc, saved>> \/ Launched
    <3>1. CASE ~validifyRunning
      BY <3>1, <2>3 DEF GameStarted, uiVars, procVars, noteVars
    <3>2. CASE validifyRunning
      BY <3>2, <2>3 DEF GameStarted, Launched, ServerLeft, NextManager
    <3> QED BY <3>1, <3>2
  <2> QED BY <1>0, <1>1, <1>2, <1>5, <1>6, <1>7, <2>1, <2>2, <2>3, RunTaskIs DEF CreatedTask
<1>8. ASSUME ClickStop \/ Unmount PROVE KillServer /\ UNCHANGED saved
  BY <1>8 DEF ClickStop, StopServer, Unmount, noteVars
<1>9. ASSUME NEW n \in SlotCounts, SelectMap(n) PROVE UNCHANGED <<server, proc, saved>>
  BY <1>9 DEF SelectMap, UpdateSlots, noteVars, procVars
<1>10. ASSUME NEW b \in Bots, AddLocalBot(b) PROVE UNCHANGED <<server, proc, saved>>
  BY <1>10 DEF AddLocalBot, noteVars, procVars
<1>11. ASSUME NEW i \in 1 .. MaxTokens, KickPlayer(i) \/ ConnectLocalBot(i)
       PROVE  UNCHANGED <<server, proc, saved>>
  BY <1>11 DEF KickPlayer, ConnectLocalBot, noteVars, procVars, uiVars
<1>12. ASSUME LaunchGame PROVE UNCHANGED <<server, proc, saved>>
  BY <1>12 DEF LaunchGame, noteVars, procVars, uiVars
<1>13. ASSUME NEW s \in Servers, Response(s) \/ PlayerNews(s) \/ Serve(s)
       PROVE  UNCHANGED <<server, proc, saved>>
  BY <1>13 DEF Response, PlayerNews, Serve, noteVars, procVars, uiVars
<1>14. ASSUME NEW s \in Servers, NEW id, NEW type, ClientMoves(s, id, type)
       PROVE  UNCHANGED <<server, proc, saved>>
  BY <1>14 DEF ClientMoves, noteVars, procVars, uiVars
<1>15. ASSUME NEW s \in Servers, ServerConnected(s) \/ ConnectFails(s)
       PROVE  UNCHANGED <<server, proc, saved>>
  BY <1>15 DEF ServerConnected, ConnectFails, noteVars, procVars, uiVars
<1>16. UNCHANGED vars => UNCHANGED <<server, proc, saved>>
  BY DEF vars, uiVars, noteVars, procVars
<1> QED
  <2>1. Next \/ UNCHANGED vars
    OBVIOUS
  <2> QED BY <2>1, <1>1, <1>2, <1>3, <1>4, <1>7, <1>8, <1>9, <1>10, <1>11, <1>12, <1>13,
          <1>14, <1>15, <1>16 DEF Next, Slots, Controls, Loop, Server

\* A server that was not handed over is left alone by every step but the
\* callback that hands it over.
LeftAlone(s) ==
    /\ subs'[s] \in {subs[s], NoSubs} /\ phase'[s] = phase[s]
    /\ DOMAIN players'[s] \subseteq DOMAIN players[s]
    /\ \A m \in Managers : runner'[m] = runner[m] \/ runner'[m] # s

\* Nothing new is on its way to or from it.
NothingNew(s) ==
    /\ to_server'[s] \in {to_server[s], <<>>}
    /\ to_client'[s] \in {to_client[s], <<>>}
    /\ \/ proc[s] \in {"up", "killed"} => proc'[s] \in {"up", "killed"}
       \/ to_server'[s] = <<>> /\ to_client'[s] = <<>>

StaysIdle(s) == proc'[s] = "idle" => proc[s] = "idle" /\ promise'[s] = promise[s]

LEMMA QuietStep ==
    ASSUME LobbyAssumption, Books, [Next]_vars
    PROVE  QuietBefore'
<1> DEFINE HandedNext(s) ==
                /\ promise'[s] = "resolved"
                /\ \A i \in DOMAIN tasks' : tasks'[i] # [type |-> "created", server |-> s]
           Fine(s) == /\ HandedNext(s) \/ LeftAlone(s)
                      /\ (HandedNext(s) /\ proc'[s] \in {"up", "killed"}) \/ NothingNew(s)
                      /\ StaysIdle(s)
<1>0. /\ Typed /\ TokensDiffer /\ ServersHanded /\ QuietBefore
      /\ proc \in [Servers -> {"idle", "up", "killed", "failing", "dead"}]
      /\ promise \in [Servers -> {"none", "pending", "hanging", "resolved", "rejected"}]
      /\ subs \in [Servers -> [own : Managers \union {None},
                               captured : Managers \union {None}]]
      /\ phase \in [Servers -> {"lobby", "playing"}]
      /\ to_server \in [Servers -> Seq(Requests)]
      /\ to_client \in [Servers -> Seq(Requests \union News)]
      /\ runner \in [Managers -> Servers \union {None}]
      /\ server \in Servers \union {None} /\ manager \in Managers
      /\ DOMAIN players = Servers
  BY DEF Books, Typed
<1>00. \A s \in Servers : Handed(s) => HandedNext(s)
  BY HandedSteps DEF Handed
<1>01. \A s \in Servers :
        /\ ~Handed(s) => /\ subs[s] = NoSubs /\ phase[s] = "lobby"
                         /\ DOMAIN players[s] = {}
                         /\ \A m \in Managers : runner[m] # s
        /\ ~Handed(s) \/ proc[s] \notin {"up", "killed"} =>
                to_server[s] = <<>> /\ to_client[s] = <<>>
        /\ proc[s] = "idle" => promise[s] = "none"
  BY <1>0 DEF QuietBefore, Alive
<1>02. \A s \in Servers : HandedNext(s) => Handed(s)'
  BY DEF Handed
<1> HIDE DEF HandedNext
<1>03. ASSUME \A s \in Servers : Fine(s) PROVE QuietBefore'
  <2>1. ASSUME NEW s \in Servers
        PROVE  /\ ~HandedNext(s) =>
                    /\ subs'[s] = NoSubs /\ phase'[s] = "lobby"
                    /\ DOMAIN players'[s] = {}
                    /\ \A m \in Managers : runner'[m] # s
               /\ ~HandedNext(s) \/ proc'[s] \notin {"up", "killed"} =>
                    to_server'[s] = <<>> /\ to_client'[s] = <<>>
               /\ proc'[s] = "idle" => promise'[s] = "none"
    <3>1. ~HandedNext(s) => ~Handed(s)
      BY <1>00
    <3>2. Fine(s)
      BY <1>03
    <3>3. ~HandedNext(s) => LeftAlone(s)
      BY <3>2
    <3>4. ~HandedNext(s) \/ proc'[s] \notin {"up", "killed"} => NothingNew(s)
      BY <3>2
    <3>5. StaysIdle(s)
      BY <3>2
    <3>6. ~HandedNext(s) =>
                    /\ subs'[s] = NoSubs /\ phase'[s] = "lobby"
                    /\ DOMAIN players'[s] = {}
                    /\ \A m \in Managers : runner'[m] # s
      BY <3>1, <3>3, <1>01 DEF LeftAlone
    <3>7. ~HandedNext(s) \/ proc'[s] \notin {"up", "killed"} =>
                    to_server'[s] = <<>> /\ to_client'[s] = <<>>
      BY <3>1, <3>4, <1>01 DEF NothingNew
    <3>8. proc'[s] = "idle" => promise'[s] = "none"
      BY <3>5, <1>01 DEF StaysIdle
    <3> QED BY <3>6, <3>7, <3>8
  <2> QED BY <2>1, <1>02 DEF QuietBefore, Alive
<1>1. ASSUME UNCHANGED <<subs, phase, players, runner, promise, proc>>, NEW r, NEW dropped,
             Written(r, dropped), UNCHANGED to_client, r # None => r \in Servers /\ Handed(r)
      PROVE  \A s \in Servers : Fine(s)
  <2> TAKE s \in Servers
  <2>1. to_server'[s] = to_server[s] \/ (s = r /\ proc[s] = "up")
    BY <1>1 DEF Written
  <2>2. (HandedNext(s) /\ proc'[s] \in {"up", "killed"}) \/ NothingNew(s)
    <3>1. CASE to_server'[s] = to_server[s]
      BY <3>1, <1>1 DEF NothingNew
    <3>2. CASE s = r /\ proc[s] = "up"
      BY <3>2, <1>1, <1>00 DEF Servers, None
    <3> QED BY <2>1, <3>1, <3>2
  <2>3. LeftAlone(s) /\ StaysIdle(s)
    BY <1>1 DEF LeftAlone, StaysIdle
  <2> QED BY <2>2, <2>3
<1>2. runner[manager] # None => runner[manager] \in Servers /\ Handed(runner[manager])
  BY <1>0, <1>01
<1>3. ASSUME NEW n \in SlotCounts, SelectMap(n) PROVE \A s \in Servers : Fine(s)
  <2>1. Written(runner[manager], {list[manager][j] : j \in
                {k \in DOMAIN list[manager] :
                    \A i \in DOMAIN list'[manager] : i < k}})
    BY <1>0, <1>3, SelectMapIs
  <2>2. UNCHANGED <<subs, phase, players, runner, promise, proc, to_client>>
    BY <1>3 DEF SelectMap, UpdateSlots, runnerVars, lobbyVars, procVars
  <2> QED BY <2>1, <2>2, <1>1, <1>2
<1>4. ASSUME NEW i \in 1 .. MaxTokens, KickPlayer(i) PROVE \A s \in Servers : Fine(s)
  <2>1. Written(runner[manager], {list[manager][i]})
    BY <1>0, <1>4, KickPlayerIs
  <2>2. UNCHANGED <<subs, phase, players, runner, promise, proc, to_client>>
    BY <1>4 DEF KickPlayer, runnerVars, lobbyVars, procVars
  <2> QED BY <2>1, <2>2, <1>1, <1>2
<1>5. ASSUME UNCHANGED <<subs, phase, players, runner, promise, to_server, to_client>>,
             \A s \in Servers : proc'[s] = proc[s]
                                \/ (proc[s] = "up" /\ proc'[s] = "killed")
      PROVE  \A s \in Servers : Fine(s)
  <2> TAKE s \in Servers
  <2>1. LeftAlone(s)
    BY <1>5 DEF LeftAlone
  <2>2. NothingNew(s)
    BY <1>5 DEF NothingNew
  <2>3. StaysIdle(s)
    BY <1>5 DEF StaysIdle
  <2> QED BY <2>1, <2>2, <2>3
<1>6. ASSUME KillServer
      PROVE  \A s \in Servers : proc'[s] = proc[s]
                                \/ (proc[s] = "up" /\ proc'[s] = "killed")
  <2>1. CASE server # None /\ proc[server] = "up"
    <3>1. proc' = [proc EXCEPT ![server] = "killed"]
      BY <2>1, <1>6 DEF KillServer
    <3> QED BY <3>1, <2>1, <1>0
  <2>2. CASE ~(server # None /\ proc[server] = "up")
    BY <2>2, <1>6 DEF KillServer
  <2> QED BY <2>1, <2>2
<1>7. ASSUME StopServer, UNCHANGED lobbyVars PROVE \A s \in Servers : Fine(s)
  <2>1. KillServer /\ UNCHANGED <<subs, phase, players, runner, promise, to_server, to_client>>
    BY <1>7 DEF StopServer, slotVars, runnerVars, netVars, lobbyVars
  <2> QED BY <2>1, <1>5, <1>6
<1>8. ASSUME Unmount PROVE \A s \in Servers : Fine(s)
  <2>1. KillServer /\ UNCHANGED <<subs, phase, players, runner, promise, to_server, to_client>>
    BY <1>8 DEF Unmount, slotVars, runnerVars, netVars, lobbyVars
  <2> QED BY <2>1, <1>5, <1>6
<1>9. ASSUME UNCHANGED <<subs, phase, players, runner, promise, to_server, to_client, proc>>
      PROVE  \A s \in Servers : Fine(s)
  BY <1>9, <1>5
<1>10. ASSUME NEW p \in Ports, StartServer(p) PROVE \A s \in Servers : Fine(s)
  <2>1. PICK r \in Servers :
            /\ proc[r] = "idle"
            /\ proc' = [proc EXCEPT ![r] =
                    IF \E q \in Servers : proc[q] \in {"up", "killed"} /\ port[q] = p
                    THEN "failing" ELSE "up"]
            /\ promise' = [promise EXCEPT ![r] = "pending"]
    BY <1>10 DEF StartServer
  <2>2. proc'[r] \in {"failing", "up"} /\ \A s \in Servers : s # r => proc'[s] = proc[s]
    BY <2>1, <1>0
  <2>3. UNCHANGED <<subs, phase, players, runner, to_server, to_client>>
    BY <1>10 DEF StartServer, slotVars, lobbyVars, netVars
  <2> TAKE s \in Servers
  <2>4. LeftAlone(s)
    BY <2>3 DEF LeftAlone
  <2>5. NothingNew(s)
    BY <2>1, <2>2, <2>3 DEF NothingNew
  <2>6. StaysIdle(s)
    BY <2>1, <2>2, <1>0 DEF StaysIdle
  <2> QED BY <2>4, <2>5, <2>6
<1>11. ASSUME NEW r \in Servers, ServerConnected(r) \/ ConnectFails(r)
       PROVE  \A s \in Servers : Fine(s)
  <2>1. /\ promise[r] = "pending"
        /\ \A s \in Servers : s # r => promise'[s] = promise[s]
        /\ UNCHANGED <<subs, phase, players, runner, to_server, to_client, proc>>
    BY <1>0, <1>11 DEF ServerConnected, ConnectFails, slotVars, lobbyVars, netVars, procVars
  <2>2. proc[r] # "idle"
    BY <2>1, <1>01
  <2> TAKE s \in Servers
  <2>3. LeftAlone(s) /\ NothingNew(s)
    BY <2>1 DEF LeftAlone, NothingNew
  <2>4. StaysIdle(s)
    BY <2>1, <2>2 DEF StaysIdle
  <2> QED BY <2>3, <2>4
<1>12. ASSUME NEW r \in Servers, ServerExits(r) PROVE \A s \in Servers : Fine(s)
  <2>1. /\ proc' = [proc EXCEPT ![r] = "dead"]
        /\ to_client' = [to_client EXCEPT ![r] = <<>>]
        /\ to_server' = [to_server EXCEPT ![r] = <<>>]
        /\ players' = [players EXCEPT ![r] = [i \in {} |-> None]]
        /\ promise' = [promise EXCEPT ![r] = "rejected"] \/ UNCHANGED promise
        /\ UNCHANGED <<subs, phase, runner>>
    BY <1>12 DEF ServerExits, slotVars
  <2>2. /\ proc'[r] = "dead" /\ to_client'[r] = <<>> /\ to_server'[r] = <<>>
        /\ DOMAIN players'[r] = {}
        /\ \A s \in Servers : s # r => /\ proc'[s] = proc[s] /\ promise'[s] = promise[s]
                                       /\ to_client'[s] = to_client[s]
                                       /\ to_server'[s] = to_server[s]
                                       /\ players'[s] = players[s]
    BY <2>1, <1>0
  <2> TAKE s \in Servers
  <2>3. LeftAlone(s)
    BY <2>1, <2>2 DEF LeftAlone
  <2>4. NothingNew(s)
    BY <2>2 DEF NothingNew
  <2>5. StaysIdle(s)
    BY <2>2 DEF StaysIdle
  <2> QED BY <2>3, <2>4, <2>5
<1>13. ASSUME RunTask PROVE \A s \in Servers : Fine(s)
  <2>0. UNCHANGED lobbyVars /\ tasks # <<>>
    BY <1>0, <1>13, RunTaskIs
  <2>1. ASSUME PlayerAdded(Head(tasks)) \/ PlayerRemoved(Head(tasks))
        PROVE  \A s \in Servers : Fine(s)
    BY <2>0, <2>1, <1>9 DEF PlayerAdded, PlayerRemoved, netVars, runnerVars, procVars, lobbyVars
  <2>2. ASSUME GameStarted PROVE \A s \in Servers : Fine(s)
    BY <2>0, <2>2, <1>9 DEF GameStarted, slotVars, netVars, runnerVars, procVars, lobbyVars
  <2>3. ASSUME NEW r \in Servers, Head(tasks) = [type |-> "created", server |-> r], Created(r)
        PROVE  \A s \in Servers : Fine(s)
    <3>1. HandedNext(r)
      BY <1>13, <2>3, HandedSteps DEF HandedNext, Handed, CreatedTask
    <3>2. /\ runner' = [runner EXCEPT ![manager] = r]
          /\ subs' = [subs EXCEPT ![r] = [own |-> manager, captured |-> captured[r]]]
          /\ Send(r, NewPlayers(r))
          /\ UNCHANGED <<phase, players, promise, proc, to_client>>
      BY <2>0, <2>3 DEF Created, procVars, lobbyVars
    <3>3. \A s \in Servers : to_server'[s] # to_server[s] => s = r /\ proc[s] = "up"
      BY <1>0, <3>2, NewPlayersAre, SendIs
    <3> TAKE s \in Servers
    <3>4. HandedNext(s) \/ LeftAlone(s)
      <4>1. CASE s = r
        BY <4>1, <3>1
      <4>2. CASE s # r
        <5>1. subs'[s] = subs[s] /\ \A m \in Managers : runner'[m] = runner[m] \/ runner'[m] = r
          BY <3>2, <4>2, <1>0
        <5> QED BY <5>1, <4>2, <3>2 DEF LeftAlone
      <4> QED BY <4>1, <4>2
    <3>5. (HandedNext(s) /\ proc'[s] \in {"up", "killed"}) \/ NothingNew(s)
      <4>1. CASE to_server'[s] = to_server[s]
        BY <4>1, <3>2 DEF NothingNew
      <4>2. CASE to_server'[s] # to_server[s]
        BY <4>2, <3>1, <3>2, <3>3
      <4> QED BY <4>1, <4>2
    <3>6. StaysIdle(s)
      BY <3>2 DEF StaysIdle
    <3> QED BY <3>4, <3>5, <3>6
  <2> QED BY <1>0, <1>7, <1>13, <2>0, <2>1, <2>2, <2>3, RunTaskIs
<1>14. ASSUME LaunchGame PROVE \A s \in Servers : Fine(s)
  <2>1. /\ server # None /\ subs' = [subs EXCEPT ![server] = NoSubs]
        /\ Send(server, <<StartGame>>)
        /\ UNCHANGED <<phase, players, runner, promise, proc, to_client>>
    BY <1>14 DEF LaunchGame, serverRunning, slotVars, procVars, lobbyVars
  <2>2. Handed(server) /\ server \in Servers
    BY <2>1, <1>0 DEF ServersHanded
  <2>3. \A s \in Servers : to_server'[s] # to_server[s] => s = server /\ proc[s] = "up"
    <3>1. <<StartGame>> \in Seq(Requests)
      <4>1. StartGame \in Requests
        BY <1>0 DEF StartGame, Requests, None
      <4> QED BY <4>1
    <3> DEFINE ask == <<StartGame>>
    <3>2. ask \in Seq(Requests) /\ Send(server, ask)
      BY <3>1, <2>1
    <3> HIDE DEF ask
    <3> QED BY <3>2, <1>0, SendIs
  <2> TAKE s \in Servers
  <2>4. LeftAlone(s) /\ StaysIdle(s)
    BY <2>1, <1>0 DEF LeftAlone, StaysIdle
  <2>5. (HandedNext(s) /\ proc'[s] \in {"up", "killed"}) \/ NothingNew(s)
    <3>1. CASE to_server'[s] = to_server[s]
      BY <3>1, <2>1 DEF NothingNew
    <3>2. CASE to_server'[s] # to_server[s]
      BY <3>2, <2>1, <2>2, <2>3, <1>00
    <3> QED BY <3>1, <3>2
  <2> QED BY <2>4, <2>5
<1>15. ASSUME NEW r \in Servers, Handed(r), proc[r] \in {"up", "killed"},
              UNCHANGED <<subs, runner, promise, proc>>,
              \A s \in Servers : s # r => /\ phase'[s] = phase[s] /\ players'[s] = players[s]
                                          /\ to_server'[s] = to_server[s]
                                          /\ to_client'[s] = to_client[s]
       PROVE  \A s \in Servers : Fine(s)
  <2> TAKE s \in Servers
  <2>1. HandedNext(r)
    BY <1>00, <1>15
  <2>2. s # r => LeftAlone(s) /\ NothingNew(s)
    BY <1>15 DEF LeftAlone, NothingNew
  <2>3. StaysIdle(s)
    BY <1>15 DEF StaysIdle
  <2> QED BY <1>15, <2>1, <2>2, <2>3
<1>16. ASSUME NEW r \in Servers, Response(r) \/ PlayerNews(r)
       PROVE  \A s \in Servers : Fine(s)
  <2>1. NextFrame(r) /\ UNCHANGED <<subs, runner, promise, proc, phase, players, to_server>>
    BY <1>16 DEF Response, PlayerNews, slotVars, runnerVars, procVars, lobbyVars
  <2>2. to_client[r] # <<>> /\ \A s \in Servers : s # r => to_client'[s] = to_client[s]
    BY <2>1, <1>0, FrameIs
  <2>3. Handed(r) /\ proc[r] \in {"up", "killed"}
    BY <2>2, <1>01
  <2> QED BY <2>1, <2>2, <2>3, <1>15
<1>17. ASSUME NEW r \in Servers, Serve(r) PROVE \A s \in Servers : Fine(s)
  <2>1. /\ to_server[r] # <<>>
        /\ UNCHANGED <<subs, runner, promise, proc>>
        /\ \A s \in Servers : s # r => to_server'[s] = to_server[s]
    BY <1>17, <1>0, ServeIs DEF Serve, slotVars, runnerVars, procVars
  <2>2. Handed(r) /\ proc[r] \in {"up", "killed"}
    BY <2>1, <1>01
  <2> DEFINE old == Head(to_server[r])
             new == [old EXCEPT !.id = counter[r]]
  <2>3. /\ \/ UNCHANGED <<to_client, lobbyVars>>
           \/ /\ UNCHANGED phase
              /\ \/ players' = [players EXCEPT ![r] = With(players[r], counter[r], old.token)]
                 \/ players' = [players EXCEPT ![r] = [i \in DOMAIN @ \ {old.id} |-> @[i]]]
           \/ phase' = [phase EXCEPT ![r] = "playing"] /\ UNCHANGED players
        /\ \/ UNCHANGED to_client
           \/ Tell(r, new)
           \/ Tell(r, old)
    BY ZenonT(40), <1>17, <1>0, ServeIs
  <2> HIDE DEF old, new
  <2>4. ASSUME NEW s \in Servers, s # r
        PROVE  phase'[s] = phase[s] /\ players'[s] = players[s] /\ to_client'[s] = to_client[s]
    <3>1. phase'[s] = phase[s] /\ players'[s] = players[s]
      BY <2>3, <2>4, <1>0 DEF lobbyVars
    <3>2. to_client'[s] = to_client[s]
      BY <2>3, <2>4, <1>0 DEF Tell
    <3> QED BY <3>1, <3>2
  <2> QED BY <2>1, <2>2, <2>4, <1>15
<1>18. ASSUME NEW r \in Servers, NEW id \in DOMAIN players[r], NEW type,
              ClientMoves(r, id, type)
       PROVE  \A s \in Servers : Fine(s)
  <2>1. /\ proc[r] = "up" /\ UNCHANGED <<subs, runner, promise, proc, phase, players, to_server>>
        /\ \A s \in Servers : s # r => to_client'[s] = to_client[s]
    BY <1>18, <1>0 DEF ClientMoves, Tell, slotVars, runnerVars, procVars
  <2>2. Handed(r)
    BY <1>01, <1>18
  <2> QED BY <2>1, <2>2, <1>15
<1>19. ASSUME NEW b \in Bots, AddLocalBot(b) PROVE \A s \in Servers : Fine(s)
  BY <1>9, <1>19 DEF AddLocalBot, netVars, runnerVars, procVars, lobbyVars
<1>20. ASSUME NEW i \in 1 .. MaxTokens, ConnectLocalBot(i) PROVE \A s \in Servers : Fine(s)
  BY <1>9, <1>20 DEF ConnectLocalBot, slotVars, netVars, runnerVars, procVars, lobbyVars
<1>21. ASSUME ClickStop PROVE \A s \in Servers : Fine(s)
  BY <1>7, <1>21 DEF ClickStop
<1>22. CASE UNCHANGED vars
  <2>1. UNCHANGED <<subs, phase, players, runner, promise, to_server, to_client, proc>>
    BY <1>22 DEF vars, slotVars, netVars, runnerVars, procVars, lobbyVars
  <2> QED BY <2>1, <1>9, <1>03
<1> HIDE DEF Fine
<1> QED
  <2>1. Next \/ UNCHANGED vars
    OBVIOUS
  <2>2. Next => \A s \in Servers : Fine(s)
    BY <1>3, <1>4, <1>7, <1>8, <1>10, <1>11, <1>12, <1>13, <1>14, <1>16, <1>17, <1>18,
       <1>19, <1>20, <1>21 DEF Next, Slots, Controls, Loop, Server
  <2> QED BY <2>1, <2>2, <1>22, <1>03

\* A number is given once, and every number is below the next one.
LEMMA NumberedStep ==
    ASSUME LobbyAssumption, Books, [Next]_vars
    PROVE  PlayersNumbered'
<1>0. /\ Typed /\ PlayersNumbered
      /\ DOMAIN players = Servers /\ counter \in [Servers -> Nat]
  BY DEF Books, Typed
<1>1. ASSUME UNCHANGED <<players, counter>> PROVE PlayersNumbered'
  BY <1>0, <1>1 DEF PlayersNumbered
<1>2. ASSUME NEW s \in Servers, Serve(s) PROVE PlayersNumbered'
  <2> DEFINE old == Head(to_server[s])
             new == [old EXCEPT !.id = counter[s]]
  <2>1. \/ UNCHANGED lobbyVars
        \/ /\ players' = [players EXCEPT ![s] = With(players[s], counter[s], old.token)]
           /\ counter' = [counter EXCEPT ![s] = @ + 1]
        \/ /\ players' = [players EXCEPT ![s] = [i \in DOMAIN @ \ {old.id} |-> @[i]]]
           /\ UNCHANGED counter
        \/ UNCHANGED <<players, counter>>
    BY <1>2, <1>0, ServeIs
  <2> HIDE DEF old, new
  <2>2. ASSUME players' = [players EXCEPT ![s] = With(players[s], counter[s], old.token)],
               counter' = [counter EXCEPT ![s] = @ + 1]
        PROVE  PlayersNumbered'
    <3>1. DOMAIN players'[s] = {counter[s]} \union DOMAIN players[s]
      <4>1. players'[s] = With(players[s], counter[s], old.token)
        BY <2>2, <1>0
      <4> QED BY <4>1 DEF With
    <3>2. counter'[s] = counter[s] + 1 /\ counter[s] \in Nat
      BY <2>2, <1>0
    <3>3. \A r \in Servers : r # s => players'[r] = players[r] /\ counter'[r] = counter[r]
      BY <2>2, <1>0
    <3>4. \A id \in DOMAIN players'[s] : id \in Nat /\ id < counter'[s]
      BY <3>1, <3>2, <1>0 DEF PlayersNumbered
    <3> QED BY <3>3, <3>4, <1>0 DEF PlayersNumbered
  <2>3. ASSUME players' = [players EXCEPT ![s] = [i \in DOMAIN @ \ {old.id} |-> @[i]]],
               UNCHANGED counter
        PROVE  PlayersNumbered'
    <3>1. DOMAIN players'[s] \subseteq DOMAIN players[s]
          /\ \A r \in Servers : r # s => players'[r] = players[r]
      BY <2>3, <1>0
    <3> QED BY <3>1, <2>3, <1>0 DEF PlayersNumbered
  <2> QED BY <2>1, <2>2, <2>3, <1>1 DEF lobbyVars
<1>3. ASSUME NEW s \in Servers, ServerExits(s) PROVE PlayersNumbered'
  <2>1. /\ players' = [players EXCEPT ![s] = [i \in {} |-> None]]
        /\ counter' = [counter EXCEPT ![s] = 1]
    BY <1>3 DEF ServerExits
  <2>2. /\ DOMAIN players'[s] = {}
        /\ \A r \in Servers : r # s => players'[r] = players[r] /\ counter'[r] = counter[r]
    BY <2>1, <1>0
  <2> QED BY <2>2, <1>0 DEF PlayersNumbered
<1>4. ASSUME RunTask PROVE UNCHANGED <<players, counter>>
  BY <1>4, <1>0, RunTaskIs DEF lobbyVars
<1>5. ASSUME NEW n \in SlotCounts, SelectMap(n) PROVE UNCHANGED <<players, counter>>
  BY <1>5 DEF SelectMap, UpdateSlots, lobbyVars
<1>6. ASSUME NEW b \in Bots, AddLocalBot(b) PROVE UNCHANGED <<players, counter>>
  BY <1>6 DEF AddLocalBot, lobbyVars
<1>7. ASSUME NEW i \in 1 .. MaxTokens, KickPlayer(i) \/ ConnectLocalBot(i)
      PROVE  UNCHANGED <<players, counter>>
  BY <1>7 DEF KickPlayer, ConnectLocalBot, lobbyVars
<1>8. ASSUME NEW p \in Ports, StartServer(p) PROVE UNCHANGED <<players, counter>>
  BY <1>8 DEF StartServer, lobbyVars
<1>9. ASSUME ClickStop \/ LaunchGame \/ Unmount PROVE UNCHANGED <<players, counter>>
  BY <1>9 DEF ClickStop, LaunchGame, Unmount, lobbyVars
<1>10. ASSUME NEW s \in Servers, Response(s) \/ PlayerNews(s)
       PROVE  UNCHANGED <<players, counter>>
  BY <1>10 DEF Response, PlayerNews, lobbyVars
<1>11. ASSUME NEW s \in Servers, ServerConnected(s) \/ ConnectFails(s)
       PROVE  UNCHANGED <<players, counter>>
  BY <1>11 DEF ServerConnected, ConnectFails, lobbyVars
<1>12. ASSUME NEW s \in Servers, NEW id, NEW type, ClientMoves(s, id, type)
       PROVE  UNCHANGED <<players, counter>>
  BY <1>12 DEF ClientMoves
<1>13. CASE UNCHANGED vars
  BY <1>13, <1>1 DEF vars, lobbyVars
<1> QED
  <2>1. Next \/ UNCHANGED vars
    OBVIOUS
  <2> QED BY <2>1, <1>1, <1>2, <1>3, <1>4, <1>5, <1>6, <1>7, <1>8, <1>9, <1>10, <1>11,
          <1>12, <1>13 DEF Next, Slots, Controls, Loop, Server
-----------------------------------------------------------------------------
(* Books is an invariant *)

LEMMA BooksInit ==
    ASSUME LobbyAssumption, Init
    PROVE  Books
<1>1. MaxTokens \in Nat /\ MaxServers \in Nat
  BY DEF LobbyAssumption
<1>2. /\ tasks = <<>> /\ DOMAIN tasks = {} /\ saved = {} /\ SavedServers = {}
      /\ server = None /\ next_token = 1 /\ manager = 1
      /\ \A m \in Managers : /\ list[m] = <<>> /\ DOMAIN list[m] = {} /\ ToSet(list[m]) = {}
                             /\ runner[m] = None
      /\ \A s \in Servers :
            /\ promise[s] = "none" /\ proc[s] = "idle" /\ subs[s] = NoSubs
            /\ phase[s] = "lobby" /\ DOMAIN players[s] = {}
            /\ to_server[s] = <<>> /\ to_client[s] = <<>>
            /\ DOMAIN to_server[s] = {} /\ DOMAIN to_client[s] = {}
            /\ s # None
  BY DEF Init, SavedServers, Servers, None, ToSet
<1>3. Typed
  <2>1. \A b : <<>> \in Seq(b)
    OBVIOUS
  <2>2. NewSlot \in Objects /\ NoSubs \in [own : Managers \union {None},
                                          captured : Managers \union {None}]
    BY DEF NewSlot, Objects, NoSubs, None
  <2>3. slot \in [Tokens -> Objects] /\ subs \in [Servers -> [own : Managers \union {None},
                                          captured : Managers \union {None}]]
    BY <2>2 DEF Init
  <2>4. /\ wanted \in Nat /\ next_token \in 1 .. MaxTokens + 1
        /\ server \in Servers \union {None} /\ manager \in Managers
        /\ DOMAIN clients = Managers /\ DOMAIN players = Servers
        /\ slots \in [Managers -> SUBSET Nat]
        /\ runner \in [Managers -> Servers \union {None}]
        /\ counter \in [Servers -> Nat]
    BY <1>1 DEF Init, Managers, None
  <2>5. /\ list \in [Managers -> Seq(Nat)]
        /\ to_server \in [Servers -> Seq(Requests)]
        /\ to_client \in [Servers -> Seq(Requests \union News)]
        /\ tasks \in Seq(Requests \union Settlements)
    BY <2>1 DEF Init
  <2>6. /\ promise \in [Servers -> {"none", "pending", "hanging", "resolved", "rejected"}]
        /\ captured \in [Servers -> Managers \union {None}]
        /\ \A match \in saved : match.server \in Servers
        /\ chunk \in Servers \union {None}
        /\ stalled \in [Servers -> BOOLEAN]
        /\ proc \in [Servers -> {"idle", "up", "killed", "failing", "dead"}]
        /\ port \in [Servers -> Ports \union {None}]
        /\ phase \in [Servers -> {"lobby", "playing"}]
    BY DEF Init
  <2> QED BY <2>3, <2>4, <2>5, <2>6 DEF Typed
<1>4. TokensDiffer /\ ListedSlotsExist
  BY <1>2 DEF TokensDiffer, ListedSlotsExist
<1>5. RemovedAreGone
  BY <1>2 DEF RemovedAreGone
<1>6. ManagersCounted
  BY <1>2, FS_EmptySet DEF ManagersCounted
<1>7. SettledAlone /\ ServersHanded
  BY <1>2 DEF SettledAlone, ServersHanded
<1>8. QuietBefore /\ PlayersNumbered
  BY <1>2 DEF QuietBefore, PlayersNumbered
<1> QED BY <1>3, <1>4, <1>5, <1>6, <1>7, <1>8 DEF Books

LEMMA BooksStep ==
    ASSUME LobbyAssumption, Books, [Next]_vars
    PROVE  Books'
BY TypedStep, TokensStep, GoneStep, CountedStep, HandedSteps, ServersStep, QuietStep,
   NumberedStep DEF Books

\* Whatever the user clicks and on whatever ports the servers run: the books of
\* the lobby are in order.
THEOREM LobbySlotsBooks == LobbyAssumption /\ Spec => []Books
<1> SUFFICES ASSUME LobbyAssumption PROVE Spec => []Books
  OBVIOUS
<1>1. Init => Books
  BY BooksInit
<1>2. Books /\ [Next]_vars => Books'
  BY BooksStep
<1> QED BY <1>1, <1>2, PTL DEF Spec

\* A token that is listed has its slot in the slot manager, so that the page is
\* never handed an undefined one: the removal of a slot that is answered late
\* forgets only slots that are not listed any more and never will be
\* (SlotManager.ts:94-98, 122-133).
THEOREM ListedSlotsAlwaysExist == LobbyAssumption /\ Spec => []ListedSlotsExist
<1>1. Books => ListedSlotsExist
  BY DEF Books
<1> QED BY <1>1, LobbySlotsBooks, PTL

\* The server of a match that was saved is not killed: resetState has made the
\* lobby forget it (Lobby.tsx:341-357), and the answer that saves a match comes
\* when the lobby has a server that it did not save a match of before.
THEOREM MatchesAreNotKilled == LobbyAssumption /\ Spec => []NeverKillsAMatch
<1>1. Books => NeverKillsAMatch
  BY DEF Books, ServersHanded, SavedServers, NeverKillsAMatch
<1> QED BY <1>1, LobbySlotsBooks, PTL
-----------------------------------------------------------------------------
(* What the page has still to hear: the lists *)

LEMMA MovedAcross ==
    ASSUME NEW S, NEW q \in Seq(S), NEW r \in Seq(S), r # <<>>
    PROVE  Append(q, Head(r)) \o Tail(r) = q \o r
<1> DEFINE a == Append(q, Head(r))
           t == Tail(r)
<1>1. /\ Head(r) = r[1] /\ r[1] \in S /\ t \in Seq(S) /\ Len(t) = Len(r) - 1
      /\ \A i \in DOMAIN t : t[i] = r[i + 1]
  BY TailIs
<1>2. /\ a \in Seq(S) /\ Len(a) = Len(q) + 1
      /\ \A i \in DOMAIN q : a[i] = q[i]
      /\ a[Len(q) + 1] = r[1]
  BY <1>1, AppendIs
<1> DEFINE n == Len(q)
           k == Len(r)
<1> HIDE DEF a, t
<1>3. /\ a \o t \in Seq(S) /\ Len(a \o t) = Len(a) + Len(t)
      /\ \A i \in 1 .. Len(a) + Len(t) :
            (a \o t)[i] = IF i <= Len(a) THEN a[i] ELSE t[i - Len(a)]
  BY <1>1, <1>2, ConcatProperties
<1>4. /\ q \o r \in Seq(S) /\ Len(q \o r) = n + k
      /\ \A i \in 1 .. n + k : (q \o r)[i] = IF i <= n THEN q[i] ELSE r[i - n]
  BY ConcatProperties
<1>5. /\ n \in Nat /\ DOMAIN q = 1 .. n /\ k \in Nat /\ DOMAIN t = 1 .. k - 1
      /\ Len(a) = n + 1 /\ Len(t) = k - 1
  BY <1>1, <1>2, LenProperties
<1> HIDE DEF n, k
<1>51. \A i \in 1 .. n + k : (a \o t)[i] = IF i <= n + 1 THEN a[i] ELSE t[i - (n + 1)]
  <2>1. (n + 1) + (k - 1) = n + k
    BY <1>5
  <2> QED BY <2>1, <1>3, <1>5
<1>52. (\A i \in 1 .. n : a[i] = q[i]) /\ a[n + 1] = r[1] /\ \A i \in 1 .. k - 1 : t[i] = r[i + 1]
  BY <1>1, <1>2, <1>5 DEF n
<1>6. ASSUME NEW i \in 1 .. n + k PROVE (a \o t)[i] = (q \o r)[i]
  <2>1. CASE i <= n
    <3>1. i <= n + 1 /\ i \in 1 .. n
      BY <2>1, <1>5
    <3> QED BY <3>1, <2>1, <1>51, <1>4, <1>52
  <2>2. CASE i = n + 1
    <3>1. (a \o t)[i] = a[n + 1]
      BY <2>2, <1>51, <1>5
    <3>2. (q \o r)[i] = r[1]
      <4>1. ~(i <= n) /\ i - n = 1
        BY <2>2, <1>5
      <4> QED BY <4>1, <1>4
    <3> QED BY <3>1, <3>2, <1>52
  <2>3. CASE i > n + 1
    <3>1. ~(i <= n + 1) /\ ~(i <= n) /\ i - (n + 1) \in 1 .. k - 1
          /\ i - (n + 1) + 1 = i - n
      BY <2>3, <1>5
    <3>2. (a \o t)[i] = t[i - (n + 1)] /\ (q \o r)[i] = r[i - n]
      BY <3>1, <1>51, <1>4
    <3>3. t[i - (n + 1)] = r[i - n]
      BY <3>1, <1>52
    <3> QED BY <3>2, <3>3
  <2> QED
    <3>1. i <= n \/ i = n + 1 \/ i > n + 1
      BY <1>5
    <3> QED BY <3>1, <2>1, <2>2, <2>3
<1>7. Len(a \o t) = n + k /\ Len(q \o r) = n + k
  BY <1>3, <1>4, <1>5
<1>8. a \o t = q \o r
  BY <1>3, <1>4, <1>6, <1>7, SeqEqual
<1> QED BY <1>8 DEF a, t

LEMMA TailOfConcat ==
    ASSUME NEW S, NEW q \in Seq(S), NEW r \in Seq(S), q # <<>>
    PROVE  /\ Tail(q) \o r = Tail(q \o r)
           /\ q \o r # <<>> /\ Head(q \o r) = Head(q)
<1> DEFINE t == Tail(q)
           u == q \o r
<1>1. /\ Head(q) = q[1] /\ 1 \in DOMAIN q /\ t \in Seq(S) /\ Len(t) = Len(q) - 1
      /\ \A i \in DOMAIN t : t[i] = q[i + 1]
  BY TailIs
<1>2. /\ u \in Seq(S) /\ Len(u) = Len(q) + Len(r)
      /\ \A i \in 1 .. Len(q) + Len(r) :
            u[i] = IF i <= Len(q) THEN q[i] ELSE r[i - Len(q)]
  BY ConcatProperties
<1> DEFINE n == Len(q)
           k == Len(r)
<1> HIDE DEF t, u
<1>3. /\ t \o r \in Seq(S) /\ Len(t \o r) = Len(t) + Len(r)
      /\ \A i \in 1 .. Len(t) + Len(r) :
            (t \o r)[i] = IF i <= Len(t) THEN t[i] ELSE r[i - Len(t)]
  BY <1>1, ConcatProperties
<1>4. /\ n \in Nat /\ DOMAIN q = 1 .. n /\ k \in Nat /\ n >= 1
      /\ DOMAIN t = 1 .. n - 1 /\ Len(t) = n - 1
  <2>1. n \in Nat /\ DOMAIN q = 1 .. n /\ k \in Nat
    BY LenProperties
  <2> QED BY <2>1, <1>1, LenProperties
<1>41. /\ \A i \in 1 .. n + k : u[i] = IF i <= n THEN q[i] ELSE r[i - n]
       /\ Len(u) = n + k
  BY <1>2
<1> HIDE DEF n, k
<1>42. \A i \in 1 .. n - 1 + k : (t \o r)[i] = IF i <= n - 1 THEN t[i] ELSE r[i - (n - 1)]
  BY <1>3, <1>4 DEF k
<1>5. u # <<>> /\ Len(u) >= 1
  BY <1>41, <1>4
<1>6. /\ Head(u) = u[1] /\ Tail(u) \in Seq(S) /\ Len(Tail(u)) = n + k - 1
      /\ \A i \in DOMAIN Tail(u) : Tail(u)[i] = u[i + 1]
  <2>1. /\ Head(u) = u[1] /\ Tail(u) \in Seq(S) /\ Len(Tail(u)) = Len(u) - 1
        /\ \A i \in DOMAIN Tail(u) : Tail(u)[i] = u[i + 1]
    BY <1>2, <1>5, TailIs
  <2> QED BY <2>1, <1>41, <1>4
<1>7. DOMAIN Tail(u) = 1 .. n - 1 + k /\ n + k - 1 = n - 1 + k
  BY <1>6, <1>4, LenProperties
<1>8. ASSUME NEW i \in 1 .. n - 1 + k PROVE (t \o r)[i] = Tail(u)[i]
  <2>0. Tail(u)[i] = u[i + 1] /\ i + 1 \in 1 .. n + k
    BY <1>6, <1>7, <1>4
  <2>1. CASE i <= n - 1
    <3>1. i \in 1 .. n - 1 /\ i + 1 <= n
      BY <2>1, <1>4
    <3>2. (t \o r)[i] = t[i] /\ t[i] = q[i + 1]
      BY <2>1, <3>1, <1>1, <1>42, <1>4
    <3>3. u[i + 1] = q[i + 1]
      BY <3>1, <2>0, <1>41
    <3> QED BY <2>0, <3>2, <3>3
  <2>2. CASE ~(i <= n - 1)
    <3>1. ~(i + 1 <= n) /\ i - (n - 1) = (i + 1) - n
      BY <2>2, <1>4
    <3>2. (t \o r)[i] = r[i - (n - 1)]
      BY <2>2, <1>42
    <3>3. u[i + 1] = r[(i + 1) - n]
      BY <3>1, <2>0, <1>41
    <3> QED BY <2>0, <3>1, <3>2, <3>3
  <2> QED BY <2>1, <2>2
<1>9. Len(t \o r) = n - 1 + k /\ Len(Tail(u)) = n - 1 + k
  BY <1>3, <1>4, <1>6, <1>7 DEF k
<1>10. t \o r = Tail(u)
  BY <1>3, <1>6, <1>8, <1>9, SeqEqual
<1>11. Head(u) = Head(q)
  <2>1. 1 \in 1 .. n + k /\ 1 <= n
    BY <1>4
  <2> QED BY <2>1, <1>41, <1>6, <1>1
<1> QED BY <1>5, <1>10, <1>11 DEF t, u

LEMMA AppendOfConcat ==
    ASSUME NEW S, NEW q \in Seq(S), NEW r \in Seq(S), NEW e \in S
    PROVE  q \o Append(r, e) = Append(q \o r, e)
<1>1. q \o r \in Seq(S) /\ <<e>> \in Seq(S)
  BY ConcatProperties
<1> DEFINE one == <<e>>
<1>2. Append(r, e) = r \o one /\ Append(q \o r, e) = (q \o r) \o one /\ one \in Seq(S)
  BY <1>1, AppendIsConcat
<1> HIDE DEF one
<1>3. (q \o r) \o one = q \o (r \o one)
  BY <1>2, ConcatAssociative
<1> QED BY <1>2, <1>3
-----------------------------------------------------------------------------
(* What the page has still to hear: what a step leaves of it *)

Answers == {"add", "remove", "start"}

\* Every answer of v was in u, no answer has overtaken another one, and the
\* players that were added after it are still told of.
Carried(u, v) ==
    \A i \in DOMAIN v : v[i].type \in Answers =>
        \E k \in DOMAIN u :
            /\ v[i] = u[k]
            /\ \A l \in DOMAIN u : l > k /\ u[l].type = "add" =>
                    \E j \in DOMAIN v : j > i /\ v[j] = u[l]
            /\ \A j \in DOMAIN v : j > i /\ v[j].type \in Answers =>
                    \E l \in DOMAIN u : l > k /\ v[j] = u[l]

\* No player that was added is forgotten.
AddsKept(u, v) ==
    \A k \in DOMAIN u : u[k].type = "add" => \E i \in DOMAIN v : v[i] = u[k]

LEMMA CarriedSame ==
    ASSUME NEW u
    PROVE  Carried(u, u) /\ AddsKept(u, u)
BY DEF Carried, AddsKept

LEMMA CarriedTail ==
    ASSUME NEW S, NEW u \in Seq(S), u # <<>>
    PROVE  /\ Carried(u, Tail(u))
           /\ Head(u).type # "add" => AddsKept(u, Tail(u))
           /\ \A k \in DOMAIN u : u[k] = Head(u) \/ \E i \in DOMAIN Tail(u) : Tail(u)[i] = u[k]
<1> DEFINE v == Tail(u)
<1>1. /\ Head(u) = u[1] /\ v \in Seq(S) /\ Len(v) = Len(u) - 1
      /\ \A i \in DOMAIN v : i + 1 \in DOMAIN u /\ v[i] = u[i + 1]
  BY TailIs
<1> HIDE DEF v
<1>2. DOMAIN u = 1 .. Len(u) /\ Len(u) \in Nat /\ DOMAIN v = 1 .. Len(u) - 1
  BY <1>1, LenProperties
<1>3. \A l \in DOMAIN u : l # 1 => l - 1 \in DOMAIN v /\ v[l - 1] = u[l]
  <2> SUFFICES ASSUME NEW l \in DOMAIN u, l # 1
               PROVE  l - 1 \in DOMAIN v /\ v[l - 1] = u[l]
    OBVIOUS
  <2>1. l - 1 \in DOMAIN v /\ (l - 1) + 1 = l
    BY <1>2
  <2> QED BY <2>1, <1>1
<1>4. ASSUME NEW i \in DOMAIN v
      PROVE  /\ i + 1 \in DOMAIN u /\ v[i] = u[i + 1]
             /\ \A l \in DOMAIN u : l > i + 1 => \E j \in DOMAIN v : j > i /\ v[j] = u[l]
             /\ \A j \in DOMAIN v : j > i => \E l \in DOMAIN u : l > i + 1 /\ v[j] = u[l]
  <2>1. \A l \in DOMAIN u : l > i + 1 =>
            l - 1 \in DOMAIN v /\ l - 1 > i /\ v[l - 1] = u[l]
    BY <1>2, <1>3
  <2>2. \A j \in DOMAIN v : j > i => j + 1 \in DOMAIN u /\ j + 1 > i + 1 /\ v[j] = u[j + 1]
    BY <1>1, <1>2
  <2> QED BY <1>1, <2>1, <2>2
<1>5. Carried(u, v)
  BY <1>4 DEF Carried
<1>6. \A k \in DOMAIN u : u[k] = Head(u) \/ \E i \in DOMAIN v : v[i] = u[k]
  BY <1>1, <1>3
<1>7. Head(u).type # "add" => AddsKept(u, v)
  BY <1>6 DEF AddsKept
<1> QED BY <1>5, <1>6, <1>7 DEF v

LEMMA CarriedAppend ==
    ASSUME NEW S, NEW u \in Seq(S), NEW e \in S, e.type \notin Answers
    PROVE  Carried(u, Append(u, e)) /\ AddsKept(u, Append(u, e))
<1> DEFINE v == Append(u, e)
<1>1. /\ \A i \in DOMAIN u : i \in DOMAIN v /\ v[i] = u[i]
      /\ v[Len(u) + 1] = e
      /\ \A i \in DOMAIN v : i \in DOMAIN u \/ i = Len(u) + 1
  BY AppendIs
<1> HIDE DEF v
<1>2. \A i \in DOMAIN v : v[i].type \in Answers => i \in DOMAIN u
  BY <1>1
<1>3. Carried(u, v)
  BY <1>1, <1>2 DEF Carried
<1>4. AddsKept(u, v)
  BY <1>1 DEF AddsKept
<1> QED BY <1>3, <1>4 DEF v

\* A promise that is settled while the loop is idle comes before the frames.
LEMMA CarriedFront ==
    ASSUME NEW S, NEW r \in Seq(S), NEW e \in S, e.type \notin Answers
    PROVE  Carried(<<>> \o r, <<e>> \o r) /\ AddsKept(<<>> \o r, <<e>> \o r)
<1> DEFINE one == <<e>>
           v == one \o r
<1>1. one \in Seq(S) /\ Len(one) = 1 /\ one[1] = e /\ <<>> \o r = r
  BY ConcatEmptySeq
<1>11. v = one \o r
  OBVIOUS
<1> HIDE DEF one, v
<1>2. /\ \A i \in DOMAIN v :
            \/ i \in DOMAIN one /\ v[i] = one[i]
            \/ i > 1 /\ i - 1 \in DOMAIN r /\ v[i] = r[i - 1]
      /\ \A i \in DOMAIN r : 1 + i \in DOMAIN v /\ v[1 + i] = r[i]
      /\ DOMAIN one = 1 .. 1 /\ Len(r) \in Nat /\ DOMAIN r = 1 .. Len(r)
      /\ DOMAIN v = 1 .. 1 + Len(r)
  <2>0. one \in Seq(S) /\ r \in Seq(S)
    BY <1>1
  <2>1. /\ \A i \in DOMAIN (one \o r) :
                \/ i \in DOMAIN one /\ (one \o r)[i] = one[i]
                \/ i > Len(one) /\ i - Len(one) \in DOMAIN r /\ (one \o r)[i] = r[i - Len(one)]
        /\ \A i \in DOMAIN r : Len(one) + i \in DOMAIN (one \o r) /\ (one \o r)[Len(one) + i] = r[i]
        /\ DOMAIN one = 1 .. Len(one) /\ Len(r) \in Nat /\ DOMAIN r = 1 .. Len(r)
        /\ DOMAIN (one \o r) = 1 .. Len(one) + Len(r)
    BY <2>0, ConcatIs
  <2> QED BY <2>1, <1>1, <1>11
<1>3. \A i \in DOMAIN v : v[i].type \in Answers =>
            i > 1 /\ i - 1 \in DOMAIN r /\ v[i] = r[i - 1]
  <2> SUFFICES ASSUME NEW i \in DOMAIN v, v[i].type \in Answers
               PROVE  i > 1 /\ i - 1 \in DOMAIN r /\ v[i] = r[i - 1]
    OBVIOUS
  <2>1. i \in DOMAIN one => v[i] # one[i]
    BY <1>1, <1>2
  <2> QED BY <1>2, <2>1
<1>4. ASSUME NEW i \in DOMAIN v, v[i].type \in Answers
      PROVE  /\ i - 1 \in DOMAIN r /\ v[i] = r[i - 1]
             /\ \A l \in DOMAIN r : l > i - 1 => \E j \in DOMAIN v : j > i /\ v[j] = r[l]
             /\ \A j \in DOMAIN v : j > i /\ v[j].type \in Answers =>
                    \E l \in DOMAIN r : l > i - 1 /\ v[j] = r[l]
  <2>1. \A l \in DOMAIN r : l > i - 1 => 1 + l \in DOMAIN v /\ 1 + l > i /\ v[1 + l] = r[l]
    BY <1>2
  <2>2. \A j \in DOMAIN v : j > i /\ v[j].type \in Answers =>
            j - 1 \in DOMAIN r /\ j - 1 > i - 1 /\ v[j] = r[j - 1]
    BY <1>2, <1>3
  <2> QED BY <1>3, <1>4, <2>1, <2>2
<1>5. Carried(r, v)
  BY <1>4 DEF Carried
<1>6. AddsKept(r, v)
  BY <1>2 DEF AddsKept
<1> QED BY <1>1, <1>5, <1>6 DEF v, one

\* News is read while answers wait for their callbacks.
LEMMA CarriedNews ==
    ASSUME NEW S, NEW q \in Seq(S), NEW r \in Seq(S), r # <<>>,
           Head(r).type \notin Answers
    PROVE  Carried(q \o r, q \o Tail(r)) /\ AddsKept(q \o r, q \o Tail(r))
<1> DEFINE t == Tail(r)
           u == q \o r
           v == q \o t
           n == Len(q)
<1>1. /\ Head(r) = r[1] /\ t \in Seq(S) /\ Len(t) = Len(r) - 1
      /\ \A i \in DOMAIN t : i + 1 \in DOMAIN r /\ t[i] = r[i + 1]
  BY TailIs
<1> HIDE DEF t
<1>2. /\ Len(u) = n + Len(r) /\ u \in Seq(S)
      /\ \A i \in 1 .. n + Len(r) : u[i] = IF i <= n THEN q[i] ELSE r[i - n]
  BY ConcatProperties
<1>3. /\ Len(v) = n + Len(t) /\ v \in Seq(S)
      /\ \A i \in 1 .. n + Len(t) : v[i] = IF i <= n THEN q[i] ELSE t[i - n]
  BY <1>1, ConcatProperties
<1> DEFINE k == Len(r)
<1>4. n \in Nat /\ k \in Nat /\ DOMAIN t = 1 .. k - 1 /\ Len(t) = k - 1 /\ k >= 1
  <2>1. k # 0 /\ k \in Nat
    BY EmptySeq
  <2> QED BY <1>1, <2>1, LenProperties
<1> HIDE DEF u, v, n, k
<1>41. \A i \in 1 .. n + k : u[i] = IF i <= n THEN q[i] ELSE r[i - n]
  BY <1>2 DEF k
<1>42. \A i \in 1 .. n + k - 1 : v[i] = IF i <= n THEN q[i] ELSE t[i - n]
  BY <1>3, <1>4
<1>5. DOMAIN u = 1 .. n + k /\ DOMAIN v = 1 .. n + k - 1
  <2>1. Len(u) = n + k /\ Len(v) = n + k - 1
    BY <1>2, <1>3, <1>4 DEF k
  <2> QED BY <2>1, <1>2, <1>3, LenProperties
<1>6. ASSUME NEW i \in DOMAIN v
      PROVE  /\ i <= n => i \in DOMAIN u /\ v[i] = u[i]
             /\ ~(i <= n) => i + 1 \in DOMAIN u /\ v[i] = u[i + 1]
  <2>1. CASE i <= n
    <3>1. i \in 1 .. n + k /\ i \in 1 .. n + k - 1
      BY <1>4, <1>5
    <3> QED BY <2>1, <3>1, <1>41, <1>42, <1>5
  <2>2. CASE ~(i <= n)
    <3>1. i \in 1 .. n + k - 1 /\ i - n \in DOMAIN t
      BY <2>2, <1>4, <1>5
    <3>2. v[i] = t[i - n] /\ t[i - n] = r[i - n + 1]
      BY <3>1, <2>2, <1>1, <1>42
    <3>3. i + 1 \in 1 .. n + k /\ ~(i + 1 <= n) /\ (i + 1) - n = i - n + 1
      BY SMTT(30), <2>2, <1>4, <1>5
    <3>4. u[i + 1] = r[i - n + 1]
      BY <3>3, <1>41
    <3> QED BY <2>2, <3>2, <3>3, <3>4, <1>5
  <2> QED BY <2>1, <2>2
<1>7. ASSUME NEW l \in DOMAIN u, l # n + 1
      PROVE  /\ l <= n => l \in DOMAIN v /\ v[l] = u[l]
             /\ ~(l <= n) => l - 1 \in DOMAIN v /\ v[l - 1] = u[l] /\ ~(l - 1 <= n)
  <2>1. CASE l <= n
    <3>1. l \in DOMAIN v
      BY <2>1, <1>4, <1>5
    <3> QED BY <2>1, <3>1, <1>6
  <2>2. CASE ~(l <= n)
    <3>1. l - 1 \in DOMAIN v /\ ~(l - 1 <= n) /\ (l - 1) + 1 = l
      BY <2>2, <1>4, <1>5, <1>7
    <3> QED BY <2>2, <3>1, <1>6
  <2> QED BY <2>1, <2>2
<1>8. u[n + 1].type \notin Answers
  <2>1. n + 1 \in 1 .. n + k /\ ~(n + 1 <= n) /\ (n + 1) - n = 1
    BY <1>4
  <2>2. u[n + 1] = r[1]
    BY <2>1, <1>41
  <2> QED BY <2>2, <1>1
<1>9. \A l \in DOMAIN u : u[l].type = "add" => l # n + 1
  BY <1>8 DEF Answers
<1> DEFINE h(i) == IF i <= n THEN i ELSE i + 1
<1>10. \A i \in DOMAIN v : h(i) \in DOMAIN u /\ v[i] = u[h(i)]
  BY <1>6
<1>11. \A i, j \in DOMAIN v : j > i => h(j) > h(i)
  BY <1>4, <1>5
<1>12. \A i \in DOMAIN v, l \in DOMAIN u : l > h(i) /\ u[l].type = "add" =>
            \E j \in DOMAIN v : j > i /\ v[j] = u[l]
  <2> SUFFICES ASSUME NEW i \in DOMAIN v, NEW l \in DOMAIN u, l > h(i), u[l].type = "add"
               PROVE  \E j \in DOMAIN v : j > i /\ v[j] = u[l]
    OBVIOUS
  <2>1. l # n + 1
    BY <1>9
  <2>2. CASE l <= n
    <3>1. l \in DOMAIN v /\ v[l] = u[l] /\ l > i
      BY <2>1, <2>2, <1>7, <1>4, <1>5
    <3> QED BY <3>1
  <2>3. CASE ~(l <= n)
    <3>1. l - 1 \in DOMAIN v /\ v[l - 1] = u[l] /\ l - 1 > i
      BY <2>1, <2>3, <1>7, <1>4, <1>5
    <3> QED BY <3>1
  <2> QED BY <2>2, <2>3
<1>13. Carried(u, v)
  <2> SUFFICES ASSUME NEW i \in DOMAIN v, v[i].type \in Answers
               PROVE  \E x \in DOMAIN u :
                        /\ v[i] = u[x]
                        /\ \A l \in DOMAIN u : l > x /\ u[l].type = "add" =>
                                \E j \in DOMAIN v : j > i /\ v[j] = u[l]
                        /\ \A j \in DOMAIN v : j > i /\ v[j].type \in Answers =>
                                \E l \in DOMAIN u : l > x /\ v[j] = u[l]
    BY DEF Carried
  <2> HIDE DEF h
  <2>1. h(i) \in DOMAIN u /\ v[i] = u[h(i)]
    BY <1>10
  <2>2. \A l \in DOMAIN u : l > h(i) /\ u[l].type = "add" =>
            \E j \in DOMAIN v : j > i /\ v[j] = u[l]
    BY <1>12
  <2>3. \A j \in DOMAIN v : j > i => h(j) \in DOMAIN u /\ h(j) > h(i) /\ v[j] = u[h(j)]
    BY <1>10, <1>11
  <2> QED BY <2>1, <2>2, <2>3
<1>14. AddsKept(u, v)
  BY <1>7, <1>9 DEF AddsKept
<1> QED BY <1>13, <1>14 DEF u, v, t
-----------------------------------------------------------------------------
(* What the page has still to hear: the steps *)

Anything == Requests \union News \union Settlements

LEMMA UnheardTyped ==
    ASSUME Typed, NEW s \in Servers
    PROVE  /\ tasks \in Seq(Anything) /\ to_client[s] \in Seq(Anything)
           /\ Unheard(s) \in Seq(Anything)
           /\ DOMAIN Unheard(s) = 1 .. Len(Unheard(s)) /\ Len(Unheard(s)) \in Nat
           /\ \A i \in DOMAIN Unheard(s) :
                /\ Unheard(s)[i] \in Anything
                /\ Unheard(s)[i].type \in Answers => Unheard(s)[i] \in Requests
           /\ \A i \in DOMAIN tasks : i \in DOMAIN Unheard(s) /\ Unheard(s)[i] = tasks[i]
           /\ \A i \in DOMAIN to_client[s] :
                \E j \in DOMAIN Unheard(s) : Unheard(s)[j] = to_client[s][i]
           /\ \A j \in DOMAIN Unheard(s) :
                \/ \E i \in DOMAIN tasks : Unheard(s)[j] = tasks[i]
                \/ \E i \in DOMAIN to_client[s] : Unheard(s)[j] = to_client[s][i]
<1>1. tasks \in Seq(Requests \union Settlements) /\ to_client[s] \in Seq(Requests \union News)
  BY DEF Typed
<1>2. tasks \in Seq(Anything) /\ to_client[s] \in Seq(Anything)
  <2>1. Requests \union Settlements \subseteq Anything /\ Requests \union News \subseteq Anything
    BY DEF Anything
  <2> QED BY <1>1, <2>1, SeqMonotonic
<1>3. /\ tasks \o to_client[s] \in Seq(Anything)
      /\ \A i \in DOMAIN (tasks \o to_client[s]) :
            \/ i \in DOMAIN tasks /\ (tasks \o to_client[s])[i] = tasks[i]
            \/ i > Len(tasks) /\ i - Len(tasks) \in DOMAIN to_client[s]
               /\ (tasks \o to_client[s])[i] = to_client[s][i - Len(tasks)]
      /\ \A i \in DOMAIN tasks : i \in DOMAIN (tasks \o to_client[s])
                                 /\ (tasks \o to_client[s])[i] = tasks[i]
      /\ \A i \in DOMAIN to_client[s] : Len(tasks) + i \in DOMAIN (tasks \o to_client[s])
                               /\ (tasks \o to_client[s])[Len(tasks) + i] = to_client[s][i]
  BY SMTT(30), <1>2, ConcatIs
<1>4. /\ Unheard(s) \in Seq(Anything)
      /\ \A i \in DOMAIN Unheard(s) :
            \/ i \in DOMAIN tasks /\ Unheard(s)[i] = tasks[i]
            \/ i - Len(tasks) \in DOMAIN to_client[s]
               /\ Unheard(s)[i] = to_client[s][i - Len(tasks)]
      /\ \A i \in DOMAIN tasks : i \in DOMAIN Unheard(s) /\ Unheard(s)[i] = tasks[i]
      /\ \A i \in DOMAIN to_client[s] : Len(tasks) + i \in DOMAIN Unheard(s)
                               /\ Unheard(s)[Len(tasks) + i] = to_client[s][i]
  BY <1>3 DEF Unheard
<1>5. DOMAIN Unheard(s) = 1 .. Len(Unheard(s)) /\ Len(Unheard(s)) \in Nat
  BY <1>4, LenProperties
<1>6. \A i \in DOMAIN Unheard(s) : Unheard(s)[i] \in Anything
  BY <1>4, <1>5, ElementOfSeq
<1>7. \A x \in Anything : x.type \in Answers => x \in Requests
  BY DEF Anything, Answers, News, Settlements
<1> QED BY <1>2, <1>4, <1>5, <1>6, <1>7

\* The callback of the first answer leaves the others.
LEMMA RunTaskHears ==
    ASSUME Typed, RunTask, NEW s \in Servers
    PROVE  /\ UNCHANGED to_client
           /\ Unheard(s) # <<>> /\ Head(Unheard(s)) = Head(tasks)
           /\ 1 \in DOMAIN Unheard(s) /\ Unheard(s)[1] = Head(tasks)
           /\ tasks' \o to_client'[s] = Tail(Unheard(s))
<1>1. tasks # <<>> /\ tasks' = Tail(tasks)
  BY RunTaskIs
<1>2. UNCHANGED to_client
  <2>1. ASSUME NEW r \in Servers, Created(r) PROVE UNCHANGED to_client
    BY <2>1 DEF Created
  <2>2. ASSUME PlayerAdded(Head(tasks)) \/ PlayerRemoved(Head(tasks)) \/ StopServer \/ GameStarted
        PROVE  UNCHANGED to_client
    BY <2>2 DEF PlayerAdded, PlayerRemoved, StopServer, GameStarted, netVars
  <2> QED BY <2>1, <2>2, RunTaskIs
<1>3. /\ Tail(tasks) \o to_client[s] = Tail(tasks \o to_client[s])
      /\ tasks \o to_client[s] # <<>> /\ Head(tasks \o to_client[s]) = Head(tasks)
  BY <1>1, UnheardTyped, TailOfConcat
<1>4. Unheard(s) # <<>> /\ Head(Unheard(s)) = Head(tasks) /\ Unheard(s) \in Seq(Anything)
  BY <1>3, UnheardTyped DEF Unheard
<1>5. 1 \in DOMAIN Unheard(s) /\ Unheard(s)[1] = Head(Unheard(s))
  BY <1>4, TailIs
<1> QED BY <1>1, <1>2, <1>3, <1>4, <1>5 DEF Unheard

\* Only an alive server has messages on their way.
LEMMA OnlyTheAlive ==
    ASSUME Books, OneServerAtATime, NEW s \in Servers, Alive(s), NEW r \in Servers,
           to_client[r] # <<>> \/ to_server[r] # <<>> \/ proc[r] \in {"up", "killed"}
    PROVE  r = s
<1>1. Alive(r)
  BY DEF Books, QuietBefore, Alive
<1> QED BY <1>1 DEF OneServerAtATime

LEMMA UnheardSteps ==
    ASSUME LobbyAssumption, Books, OneServerAtATime, [Next]_vars,
           NEW s \in Servers, Alive(s), proc'[s] \in {"up", "killed"}
    PROVE  \/ Serve(s)
           \/ /\ Carried(Unheard(s), tasks' \o to_client'[s])
              /\ \/ AddsKept(Unheard(s), tasks' \o to_client'[s])
                 \/ RunTask /\ Head(tasks).type = "add"
              /\ phase'[s] = phase[s] /\ players'[s] = players[s] /\ counter'[s] = counter[s]
<1> DEFINE v == tasks' \o to_client'[s]
           Goal == /\ Carried(Unheard(s), v)
                   /\ AddsKept(Unheard(s), v) \/ (RunTask /\ Head(tasks).type = "add")
                   /\ phase'[s] = phase[s] /\ players'[s] = players[s]
                   /\ counter'[s] = counter[s]
<1>0. /\ Typed
      /\ proc \in [Servers -> {"idle", "up", "killed", "failing", "dead"}]
      /\ to_client \in [Servers -> Seq(Requests \union News)]
      /\ DOMAIN players = Servers /\ counter \in [Servers -> Nat]
  BY DEF Books, Typed
<1>00. /\ tasks \in Seq(Anything) /\ to_client[s] \in Seq(Anything)
       /\ Unheard(s) \in Seq(Anything)
  BY <1>0, UnheardTyped
<1>1. ASSUME UNCHANGED <<tasks, to_client, phase, players, counter>> PROVE Goal
  <2>1. v = Unheard(s)
    BY <1>1 DEF Unheard
  <2> HIDE DEF v
  <2> QED BY <1>1, <2>1, CarriedSame
<1>2. ASSUME NEW e \in Anything, e.type \notin Answers, tasks = <<>>, tasks' = <<e>>,
             to_client'[s] = to_client[s],
             phase'[s] = phase[s], players'[s] = players[s], counter'[s] = counter[s]
      PROVE  Goal
  <2>1. Unheard(s) = <<>> \o to_client[s]
    BY <1>2 DEF Unheard
  <2>2. v = <<e>> \o to_client[s]
    BY <1>2
  <2>3. /\ Carried(<<>> \o to_client[s], <<e>> \o to_client[s])
        /\ AddsKept(<<>> \o to_client[s], <<e>> \o to_client[s])
    BY <1>00, <1>2, CarriedFront
  <2> HIDE DEF v
  <2> QED BY <1>2, <2>1, <2>2, <2>3
<1>3. ASSUME NEW r \in Servers, ServerConnected(r) PROVE Goal
  <2> DEFINE e == [type |-> "created", server |-> r]
  <2>1. e \in Anything /\ e.type \notin Answers
    BY DEF Anything, Settlements, Answers
  <2>2. tasks = <<>> /\ tasks' = <<e>> /\ UNCHANGED <<to_client, phase, players, counter>>
    BY <1>3 DEF ServerConnected, Idle, netVars, lobbyVars
  <2> HIDE DEF e, Goal
  <2> QED BY <2>1, <2>2, <1>2
<1>4. ASSUME NEW r \in Servers, ServerExits(r) PROVE Goal
  <2> DEFINE e == [type |-> "failed", server |-> r]
  <2>1. e \in Anything /\ e.type \notin Answers
    BY DEF Anything, Settlements, Answers
  <2>2. /\ tasks = <<>> /\ tasks' \in {<<e>>, tasks} /\ proc' = [proc EXCEPT ![r] = "dead"]
        /\ to_client' = [to_client EXCEPT ![r] = <<>>]
        /\ players' = [players EXCEPT ![r] = [i \in {} |-> None]]
        /\ counter' = [counter EXCEPT ![r] = 1]
        /\ UNCHANGED phase
    BY <1>4 DEF ServerExits, Idle
  <2> HIDE DEF e
  <2>3. r # s
    BY <2>2, <1>0
  <2>4. to_client'[s] = to_client[s] /\ players'[s] = players[s] /\ counter'[s] = counter[s]
    BY <2>2, <2>3, <1>0
  <2>5. CASE tasks' = <<e>>
    BY <2>1, <2>2, <2>4, <2>5, <1>2
  <2>6. CASE tasks' = tasks
    <3>1. v = Unheard(s)
      BY <2>4, <2>6 DEF Unheard
    <3> HIDE DEF v
    <3> QED BY <3>1, <2>2, <2>4, CarriedSame
  <2> QED BY <2>2, <2>5, <2>6
<1>5. ASSUME NEW r \in Servers, Response(r) PROVE Goal
  <2>1. /\ NextFrame(r) /\ tasks' = Append(tasks, Head(to_client[r]))
        /\ UNCHANGED <<phase, players, counter>>
    BY <1>5 DEF Response, lobbyVars
  <2>2. to_client[r] # <<>> /\ to_client'[r] = Tail(to_client[r])
    BY <2>1, <1>0, FrameIs
  <2>3. r = s
    BY <2>2, OnlyTheAlive
  <2>4. Append(tasks, Head(to_client[s])) \o Tail(to_client[s]) = tasks \o to_client[s]
    BY <2>2, <2>3, <1>00, MovedAcross
  <2>5. v = Unheard(s)
    BY <2>1, <2>2, <2>3, <2>4 DEF Unheard
  <2> HIDE DEF v
  <2> QED BY <2>1, <2>5, CarriedSame
<1>6. ASSUME NEW r \in Servers, PlayerNews(r) PROVE Goal
  <2>1. /\ NextFrame(r) /\ UNCHANGED <<tasks, phase, players, counter>>
        /\ Head(to_client[r]).type \in {"connected", "disconnected"}
    BY <1>6 DEF PlayerNews, lobbyVars
  <2>2. to_client[r] # <<>> /\ to_client'[r] = Tail(to_client[r])
    BY <2>1, <1>0, FrameIs
  <2>3. r = s
    BY <2>2, OnlyTheAlive
  <2>4. Head(to_client[s]).type \notin Answers
    BY <2>1, <2>3 DEF Answers
  <2>5. /\ Carried(tasks \o to_client[s], tasks \o Tail(to_client[s]))
        /\ AddsKept(tasks \o to_client[s], tasks \o Tail(to_client[s]))
    BY <2>2, <2>3, <2>4, <1>00, CarriedNews
  <2>6. v = tasks \o Tail(to_client[s]) /\ Unheard(s) = tasks \o to_client[s]
    BY <2>1, <2>2, <2>3 DEF Unheard
  <2> HIDE DEF v
  <2> QED BY <2>1, <2>5, <2>6
<1>7. ASSUME NEW r \in Servers, NEW id \in DOMAIN players[r],
             NEW type \in {"connected", "disconnected"}, ClientMoves(r, id, type)
      PROVE  Goal
  <2> DEFINE e == [type |-> type, id |-> id]
  <2>1. e \in News /\ e \in Anything /\ e.type \notin Answers
    BY <1>7 DEF Anything, News, Answers, Books, PlayersNumbered
  <2>2. Tell(r, e) /\ proc[r] = "up" /\ UNCHANGED <<tasks, phase, players, counter>>
    BY <1>7 DEF ClientMoves, loopVars
  <2> HIDE DEF e
  <2>3. r = s
    BY <2>2, OnlyTheAlive
  <2>4. to_client'[s] = Append(to_client[s], e)
    BY <2>1, <2>2, <2>3, <1>0, TellIs
  <2>5. v = Append(Unheard(s), e)
    <3>1. tasks \o Append(to_client[s], e) = Append(tasks \o to_client[s], e)
      BY <1>00, <2>1, AppendOfConcat
    <3> QED BY <3>1, <2>2, <2>4 DEF Unheard
  <2> HIDE DEF v
  <2> QED BY <2>1, <2>2, <2>5, <1>00, CarriedAppend
<1>8. ASSUME RunTask PROVE Goal
  <2>1. v = Tail(Unheard(s)) /\ Unheard(s) # <<>> /\ Head(Unheard(s)) = Head(tasks)
    BY <1>0, <1>8, RunTaskHears
  <2>2. UNCHANGED <<phase, players, counter>>
    BY <1>0, <1>8, RunTaskIs DEF lobbyVars
  <2> HIDE DEF v
  <2>3. /\ Carried(Unheard(s), Tail(Unheard(s)))
        /\ Head(Unheard(s)).type # "add" => AddsKept(Unheard(s), Tail(Unheard(s)))
    BY <2>1, <1>00, CarriedTail
  <2> QED BY <1>8, <2>1, <2>2, <2>3
<1>9. ASSUME NEW r \in Servers, Serve(r) PROVE Serve(s)
  <2>1. proc[r] \in {"up", "killed"}
    BY <1>9 DEF Serve
  <2>2. r = s
    BY <2>1, OnlyTheAlive
  <2> QED BY <1>9, <2>2
<1> HIDE DEF Goal, v
<1>10. ASSUME NEW n \in SlotCounts, SelectMap(n) PROVE Goal
  BY <1>1, <1>10 DEF SelectMap, UpdateSlots, loopVars, lobbyVars
<1>11. ASSUME NEW b \in Bots, AddLocalBot(b) PROVE Goal
  BY <1>1, <1>11 DEF AddLocalBot, loopVars, lobbyVars, netVars
<1>12. ASSUME NEW i \in 1 .. MaxTokens, KickPlayer(i) \/ ConnectLocalBot(i) PROVE Goal
  BY <1>1, <1>12 DEF KickPlayer, ConnectLocalBot, loopVars, lobbyVars, netVars
<1>13. ASSUME NEW p \in Ports, StartServer(p) PROVE Goal
  BY <1>1, <1>13 DEF StartServer, loopVars, lobbyVars, netVars
<1>14. ASSUME ClickStop \/ LaunchGame \/ Unmount PROVE Goal
  BY <1>1, <1>14 DEF ClickStop, StopServer, LaunchGame, Unmount, loopVars, lobbyVars, netVars
<1>15. ASSUME NEW r \in Servers, ConnectFails(r) PROVE Goal
  BY <1>1, <1>15 DEF ConnectFails, loopVars, lobbyVars, netVars
<1>16. CASE UNCHANGED vars
  <2>1. UNCHANGED <<tasks, to_client, phase, players, counter>>
    BY <1>16 DEF vars, loopVars, lobbyVars, netVars
  <2> QED BY <2>1, <1>1 DEF Goal, v
<1> QED
  <2>1. Next \/ UNCHANGED vars
    OBVIOUS
  <2>2. Next => Goal \/ Serve(s)
    BY <1>3, <1>4, <1>5, <1>6, <1>7, <1>8, <1>9, <1>10, <1>11, <1>12, <1>13, <1>14, <1>15
       DEF Next, Slots, Controls, Loop, Server
  <2> QED BY <2>1, <2>2, <1>16 DEF Goal, v
-----------------------------------------------------------------------------
(* A request is served *)

\* What the lobby answers comes last.
LEMMA ServedIsLast ==
    ASSUME Typed, NEW s \in Servers, Serve(s)
    PROVE  LET v == tasks' \o to_client'[s]
               old == Head(to_server[s])
               new == [old EXCEPT !.id = counter[s]]
           IN  /\ UNCHANGED tasks
               /\ \/ phase[s] = "playing" /\ v = Unheard(s) /\ UNCHANGED lobbyVars
                  \/ /\ phase[s] # "playing" /\ old.type = "add" /\ UNCHANGED phase
                     /\ players'[s] = With(players[s], counter[s], old.token)
                     /\ counter'[s] = counter[s] + 1
                     /\ v = Append(Unheard(s), new) /\ new \in Requests
                  \/ /\ phase[s] # "playing" /\ old.type = "remove"
                     /\ UNCHANGED <<phase, counter>>
                     /\ players'[s] = [i \in DOMAIN players[s] \ {old.id} |-> players[s][i]]
                     /\ v = Append(Unheard(s), old)
                  \/ /\ phase[s] # "playing" /\ old.type = "start"
                     /\ phase'[s] = "playing" /\ UNCHANGED <<players, counter>>
                     /\ v = Append(Unheard(s), old)
<1> DEFINE v == tasks' \o to_client'[s]
           old == Head(to_server[s])
           new == [old EXCEPT !.id = counter[s]]
<1>0. /\ tasks \in Seq(Anything) /\ to_client[s] \in Seq(Anything)
      /\ DOMAIN players = Servers /\ counter \in [Servers -> Nat]
      /\ phase \in [Servers -> {"lobby", "playing"}]
  BY UnheardTyped DEF Typed
<1>1. /\ UNCHANGED tasks
      /\ old \in Requests
      /\ \/ phase[s] = "playing" /\ UNCHANGED <<to_client, lobbyVars>>
         \/ /\ phase[s] # "playing" /\ old.type = "add"
            /\ players' = [players EXCEPT ![s] = With(players[s], counter[s], old.token)]
            /\ counter' = [counter EXCEPT ![s] = @ + 1]
            /\ Tell(s, new) /\ new \in Requests
            /\ UNCHANGED <<phase, online>>
         \/ /\ phase[s] # "playing" /\ old.type = "remove"
            /\ players' = [players EXCEPT ![s] = [i \in DOMAIN @ \ {old.id} |-> @[i]]]
            /\ Tell(s, old)
            /\ UNCHANGED <<phase, counter, online>>
         \/ /\ phase[s] # "playing" /\ old.type = "start"
            /\ phase' = [phase EXCEPT ![s] = "playing"]
            /\ Tell(s, old)
            /\ UNCHANGED <<players, counter, online>>
  BY ServeIs DEF loopVars
<1> HIDE DEF old, new
<1>2. ASSUME NEW frame \in Requests, Tell(s, frame) PROVE v = Append(Unheard(s), frame)
  <2>1. to_client'[s] = Append(to_client[s], frame)
    BY <1>2, TellIs
  <2>2. frame \in Anything
    BY DEF Anything
  <2>3. tasks \o Append(to_client[s], frame) = Append(tasks \o to_client[s], frame)
    BY <1>0, <2>2, AppendOfConcat
  <2> QED BY <1>1, <2>1, <2>3 DEF Unheard
<1>3. UNCHANGED to_client => v = Unheard(s)
  BY <1>1 DEF Unheard
<1> HIDE DEF v
<1>4. CASE phase[s] = "playing" /\ UNCHANGED <<to_client, lobbyVars>>
  BY <1>1, <1>3, <1>4 DEF v, old, new
<1>5. CASE /\ phase[s] # "playing" /\ old.type = "add"
           /\ players' = [players EXCEPT ![s] = With(players[s], counter[s], old.token)]
           /\ counter' = [counter EXCEPT ![s] = @ + 1]
           /\ Tell(s, new) /\ new \in Requests
           /\ UNCHANGED <<phase, online>>
  <2>1. v = Append(Unheard(s), new)
    BY <1>2, <1>5
  <2>2. /\ players'[s] = With(players[s], counter[s], old.token)
        /\ counter'[s] = counter[s] + 1
    BY <1>0, <1>5
  <2> QED BY <1>1, <1>5, <2>1, <2>2 DEF v, old, new
<1>6. CASE /\ phase[s] # "playing" /\ old.type = "remove"
           /\ players' = [players EXCEPT ![s] = [i \in DOMAIN @ \ {old.id} |-> @[i]]]
           /\ Tell(s, old)
           /\ UNCHANGED <<phase, counter, online>>
  <2>1. v = Append(Unheard(s), old)
    BY <1>1, <1>2, <1>6
  <2>2. players'[s] = [i \in DOMAIN players[s] \ {old.id} |-> players[s][i]]
    BY <1>0, <1>6
  <2> QED BY <1>1, <1>6, <2>1, <2>2 DEF v, old, new
<1>7. CASE /\ phase[s] # "playing" /\ old.type = "start"
           /\ phase' = [phase EXCEPT ![s] = "playing"]
           /\ Tell(s, old)
           /\ UNCHANGED <<players, counter, online>>
  <2>1. v = Append(Unheard(s), old)
    BY <1>1, <1>2, <1>7
  <2>2. phase'[s] = "playing"
    BY <1>0, <1>7
  <2> QED BY <1>1, <1>7, <2>1, <2>2 DEF v, old, new
<1> QED BY <1>1, <1>4, <1>5, <1>6, <1>7

\* An answer at the end is the server's last word.
LEMMA ServedAgrees ==
    ASSUME Books, NEW s \in Servers, Serve(s),
           CurrentAnswers(s), CurrentListeners(s), NumbersAgree(s)
    PROVE  CurrentAnswers(s)' /\ NumbersAgree(s)'
<1> DEFINE u == Unheard(s)
           v == tasks' \o to_client'[s]
           old == Head(to_server[s])
           new == [old EXCEPT !.id = counter[s]]
<1>0. /\ Typed
      /\ counter \in [Servers -> Nat]
      /\ \A i \in DOMAIN players[s] : i \in Nat /\ i < counter[s]
  BY DEF Books, Typed, PlayersNumbered
<1>1. /\ old = to_server[s][1] /\ 1 \in DOMAIN to_server[s] /\ old \in Requests
      /\ \A i \in DOMAIN to_server'[s] :
            i + 1 \in DOMAIN to_server[s] /\ to_server'[s][i] = to_server[s][i + 1]
      /\ UNCHANGED <<manager, tasks>>
  BY <1>0, ServeIs DEF uiVars, loopVars
<1>2. /\ u \in Seq(Anything) /\ DOMAIN u = 1 .. Len(u) /\ Len(u) \in Nat
      /\ \A i \in DOMAIN u : u[i] \in Anything /\ (u[i].type \in Answers => u[i] \in Requests)
  BY <1>0, UnheardTyped
<1>3. \/ phase[s] = "playing" /\ v = u /\ UNCHANGED lobbyVars
      \/ /\ phase[s] # "playing" /\ old.type = "add" /\ UNCHANGED phase
         /\ players'[s] = With(players[s], counter[s], old.token)
         /\ counter'[s] = counter[s] + 1
         /\ v = Append(u, new) /\ new \in Requests
      \/ /\ phase[s] # "playing" /\ old.type = "remove"
         /\ UNCHANGED <<phase, counter>>
         /\ players'[s] = [i \in DOMAIN players[s] \ {old.id} |-> players[s][i]]
         /\ v = Append(u, old)
      \/ /\ phase[s] # "playing" /\ old.type = "start"
         /\ phase'[s] = "playing" /\ UNCHANGED <<players, counter>>
         /\ v = Append(u, old)
  BY <1>0, ServedIsLast
<1>4. new.type = old.type /\ new.manager = old.manager /\ new.token = old.token
      /\ new.id = counter[s] /\ old.id \in Nat
  BY <1>1 DEF Requests
<1>5. Unheard(s)' = v
  BY DEF Unheard
<1>6. /\ \A i \in DOMAIN u :
            /\ ForManager(u[i])
            /\ u[i].type = "start" =>
                /\ phase[s] = "playing"
                /\ \A j \in DOMAIN u : j > i => u[j].type \notin {"add", "remove"}
      /\ phase[s] # "playing" =>
            \A i \in DOMAIN to_server[s] : ForManager(to_server[s][i])
  BY DEF CurrentAnswers
<1>7. \A i \in DOMAIN u :
        /\ u[i].type = "add" =>
            /\ u[i].id < counter[s]
            /\ u[i].id \in DOMAIN players[s] => players[s][u[i].id] = u[i].token
        /\ u[i].type = "remove" =>
            \/ u[i].id \notin DOMAIN players[s]
            \/ \E j \in DOMAIN u : j > i /\ u[j].type = "add" /\ u[j].id = u[i].id
  BY DEF NumbersAgree
<1>8. \A i \in DOMAIN u : u[i].type = "add" => u[i].id \in Nat
  BY <1>2 DEF Answers, Requests
<1> HIDE DEF u, v, old, new
<1>10. ASSUME \A i \in DOMAIN v :
                /\ ForManager(v[i])
                /\ v[i].type = "start" =>
                    /\ phase'[s] = "playing"
                    /\ \A j \in DOMAIN v : j > i => v[j].type \notin {"add", "remove"},
              phase'[s] # "playing" => phase[s] # "playing"
       PROVE  CurrentAnswers(s)'
  <2>1. phase'[s] # "playing" =>
            \A i \in DOMAIN to_server'[s] : ForManager(to_server'[s][i])
    BY <1>1, <1>6, <1>10
  <2>2. \A i \in DOMAIN v : v[i].type \in {"add", "remove"} => v[i].manager = manager'
    BY <1>10, <1>1 DEF ForManager
  <2>3. phase'[s] # "playing" =>
            \A i \in DOMAIN to_server'[s] : to_server'[s][i].type \in {"add", "remove"} =>
                to_server'[s][i].manager = manager'
    BY <2>1, <1>1 DEF ForManager
  <2> QED BY <2>2, <2>3, <1>5, <1>10 DEF CurrentAnswers, ForManager
<1>11. ASSUME \A i \in DOMAIN v :
                /\ v[i].type = "add" =>
                    /\ v[i].id < counter'[s]
                    /\ v[i].id \in DOMAIN players'[s] => players'[s][v[i].id] = v[i].token
                /\ v[i].type = "remove" =>
                    \/ v[i].id \notin DOMAIN players'[s]
                    \/ \E j \in DOMAIN v : j > i /\ v[j].type = "add" /\ v[j].id = v[i].id
       PROVE  NumbersAgree(s)'
  BY <1>5, <1>11 DEF NumbersAgree
<1>12. CASE phase[s] = "playing" /\ v = u /\ UNCHANGED lobbyVars
  <2>1. UNCHANGED <<phase, players, counter>>
    BY <1>12 DEF lobbyVars
  <2>2. CurrentAnswers(s)'
    BY <1>6, <1>10, <1>12, <2>1
  <2>3. NumbersAgree(s)'
    BY <1>7, <1>11, <1>12, <2>1
  <2> QED BY <2>2, <2>3
<1>13. ASSUME phase[s] # "playing", NEW frame \in Requests, v = Append(u, frame),
              frame.type = old.type, frame.manager = old.manager
       PROVE  /\ \A i \in DOMAIN u : i \in DOMAIN v /\ v[i] = u[i] /\ u[i].type # "start"
                                     /\ i < Len(u) + 1
              /\ Len(u) + 1 \in DOMAIN v /\ v[Len(u) + 1] = frame
              /\ \A i \in DOMAIN v : i \in DOMAIN u \/ i = Len(u) + 1
              /\ ForManager(frame)
  <2>1. frame \in Anything
    BY DEF Anything
  <2>2. /\ \A i \in DOMAIN u : i \in DOMAIN v /\ v[i] = u[i]
        /\ Len(u) + 1 \in DOMAIN v /\ v[Len(u) + 1] = frame
        /\ \A i \in DOMAIN v : i \in DOMAIN u \/ i = Len(u) + 1
    BY <1>2, <1>13, <2>1, AppendIs
  <2>3. ForManager(frame)
    BY <1>1, <1>6, <1>13 DEF ForManager
  <2>4. \A i \in DOMAIN u : i < Len(u) + 1
    BY <1>2
  <2> QED BY <1>6, <1>13, <2>2, <2>3, <2>4
<1>14. ASSUME phase[s] # "playing", NEW frame \in Requests, v = Append(u, frame),
              frame.type = old.type, frame.manager = old.manager,
              phase'[s] # phase[s] => frame.type = "start" /\ phase'[s] = "playing",
              frame.type = "start" => phase'[s] = "playing"
       PROVE  CurrentAnswers(s)'
  <2>1. \A i \in DOMAIN v : ForManager(v[i])
    BY <1>6, <1>13, <1>14
  <2>2. ASSUME NEW i \in DOMAIN v, v[i].type = "start"
        PROVE  /\ phase'[s] = "playing"
               /\ \A j \in DOMAIN v : j > i => v[j].type \notin {"add", "remove"}
    <3>1. i = Len(u) + 1
      BY <1>13, <1>14, <2>2
    <3>2. \A j \in DOMAIN v : ~(j > i)
      <4>1. \A j \in DOMAIN u : j < Len(u) + 1 /\ j \in Nat
        BY <1>2
      <4> QED BY <3>1, <4>1, <1>2, <1>13, <1>14
    <3>3. frame.type = "start"
      BY <3>1, <2>2, <1>13, <1>14
    <3> QED BY <3>2, <3>3, <1>14
  <2> QED BY <1>10, <1>14, <2>1, <2>2
<1>15. CASE /\ phase[s] # "playing" /\ old.type = "add" /\ UNCHANGED phase
            /\ players'[s] = With(players[s], counter[s], old.token)
            /\ counter'[s] = counter[s] + 1
            /\ v = Append(u, new) /\ new \in Requests
  <2>1. CurrentAnswers(s)'
    BY <1>4, <1>14, <1>15
  <2>2. /\ DOMAIN players'[s] = DOMAIN players[s] \union {counter[s]}
        /\ players'[s][counter[s]] = old.token
        /\ \A i \in DOMAIN players[s] : i # counter[s] => players'[s][i] = players[s][i]
    BY <1>15 DEF With
  <2>3. /\ \A i \in DOMAIN u : i \in DOMAIN v /\ v[i] = u[i] /\ i < Len(u) + 1
        /\ Len(u) + 1 \in DOMAIN v /\ v[Len(u) + 1] = new
        /\ \A i \in DOMAIN v : i \in DOMAIN u \/ i = Len(u) + 1
    BY <1>4, <1>13, <1>15
  <2>4. counter[s] \in Nat
    BY <1>0
  <2>5. ASSUME NEW i \in DOMAIN u, u[i].type = "add"
        PROVE  /\ u[i].id < counter'[s]
               /\ u[i].id \in DOMAIN players'[s] => players'[s][u[i].id] = u[i].token
    <3>1. u[i].id < counter[s] /\ u[i].id \in Nat
      BY <1>7, <1>8, <2>5
    <3> QED BY SMTT(30), <3>1, <2>2, <2>4, <2>5, <1>7, <1>15
  <2>6. ASSUME NEW i \in DOMAIN u, u[i].type = "remove"
        PROVE  \/ u[i].id \notin DOMAIN players'[s]
               \/ \E j \in DOMAIN v : j > i /\ v[j].type = "add" /\ v[j].id = u[i].id
    <3>1. CASE u[i].id = counter[s]
      <4>1. Len(u) + 1 > i /\ v[Len(u) + 1].type = "add" /\ v[Len(u) + 1].id = u[i].id
        BY <3>1, <2>3, <1>4, <1>15, <1>2
      <4> QED BY <4>1, <2>3
    <3>2. CASE u[i].id # counter[s]
      <4>1. u[i].id \in DOMAIN players'[s] => u[i].id \in DOMAIN players[s]
        BY <3>2, <2>2
      <4>2. u[i].id \in DOMAIN players[s] =>
                \E j \in DOMAIN u : j > i /\ u[j].type = "add" /\ u[j].id = u[i].id
        BY <1>7, <2>6
      <4> QED BY <4>1, <4>2, <2>3
    <3> QED BY <3>1, <3>2
  <2>7. new.type = "add" /\ new.id < counter'[s] /\ players'[s][new.id] = new.token
    BY <1>4, <1>15, <2>2, <2>4
  <2>8. NumbersAgree(s)'
    BY <2>3, <2>5, <2>6, <2>7, <1>11
  <2> QED BY <2>1, <2>8
<1>16. CASE /\ phase[s] # "playing" /\ old.type = "remove"
            /\ UNCHANGED <<phase, counter>>
            /\ players'[s] = [i \in DOMAIN players[s] \ {old.id} |-> players[s][i]]
            /\ v = Append(u, old)
  <2>1. CurrentAnswers(s)'
    BY <1>1, <1>14, <1>16
  <2>2. /\ DOMAIN players'[s] = DOMAIN players[s] \ {old.id}
        /\ \A i \in DOMAIN players'[s] : players'[s][i] = players[s][i]
    BY <1>16
  <2>3. /\ \A i \in DOMAIN u : i \in DOMAIN v /\ v[i] = u[i]
        /\ Len(u) + 1 \in DOMAIN v /\ v[Len(u) + 1] = old
        /\ \A i \in DOMAIN v : i \in DOMAIN u \/ i = Len(u) + 1
    BY <1>1, <1>13, <1>16
  <2>4. \A i \in DOMAIN u :
            /\ u[i].type = "add" =>
                /\ u[i].id < counter'[s]
                /\ u[i].id \in DOMAIN players'[s] => players'[s][u[i].id] = u[i].token
            /\ u[i].type = "remove" =>
                \/ u[i].id \notin DOMAIN players'[s]
                \/ \E j \in DOMAIN v : j > i /\ v[j].type = "add" /\ v[j].id = u[i].id
    BY <1>7, <1>16, <2>2, <2>3
  <2>5. ASSUME NEW i \in DOMAIN v
        PROVE  /\ v[i].type = "add" =>
                    /\ v[i].id < counter'[s]
                    /\ v[i].id \in DOMAIN players'[s] => players'[s][v[i].id] = v[i].token
               /\ v[i].type = "remove" =>
                    \/ v[i].id \notin DOMAIN players'[s]
                    \/ \E j \in DOMAIN v : j > i /\ v[j].type = "add" /\ v[j].id = v[i].id
    <3>1. CASE i \in DOMAIN u
      BY <3>1, <2>3, <2>4
    <3>2. CASE i = Len(u) + 1
      BY <3>2, <2>2, <2>3, <1>16
    <3> QED BY <2>3, <3>1, <3>2
  <2>6. NumbersAgree(s)'
    BY <2>5, <1>11
  <2> QED BY <2>1, <2>6
<1>17. CASE /\ phase[s] # "playing" /\ old.type = "start"
            /\ phase'[s] = "playing" /\ UNCHANGED <<players, counter>>
            /\ v = Append(u, old)
  <2>1. CurrentAnswers(s)'
    BY <1>1, <1>14, <1>17
  <2>2. /\ \A i \in DOMAIN u : i \in DOMAIN v /\ v[i] = u[i]
        /\ v[Len(u) + 1] = old
        /\ \A i \in DOMAIN v : i \in DOMAIN u \/ i = Len(u) + 1
    BY <1>1, <1>13, <1>17
  <2>3. NumbersAgree(s)'
    BY <2>2, <1>7, <1>11, <1>17
  <2> QED BY <2>1, <2>3
<1> QED BY <1>3, <1>12, <1>15, <1>16, <1>17
-----------------------------------------------------------------------------
(* The steps, as the second part of the invariant sees them *)

\* A process is started, killed, or ends.
LEMMA ProcSteps ==
    ASSUME Typed, [Next]_vars
    PROVE  \/ \E p \in Ports : StartServer(p)
           \/ \E s \in Servers : ServerExits(s)
           \/ \A s \in Servers : proc'[s] = proc[s] \/ (proc[s] = "up" /\ proc'[s] = "killed")
<1> DEFINE Kept == \A s \in Servers :
                        proc'[s] = proc[s] \/ (proc[s] = "up" /\ proc'[s] = "killed")
<1>1. ASSUME KillServer PROVE Kept
  <2>1. CASE server # None /\ proc[server] = "up"
    <3>1. proc' = [proc EXCEPT ![server] = "killed"]
      BY <2>1, <1>1 DEF KillServer
    <3>2. proc \in [Servers -> {"idle", "up", "killed", "failing", "dead"}]
          /\ server \in Servers
      BY <2>1 DEF Typed
    <3> QED BY <3>1, <3>2, <2>1
  <2>2. CASE ~(server # None /\ proc[server] = "up")
    BY <2>2, <1>1 DEF KillServer
  <2> QED BY <2>1, <2>2
<1>2. ASSUME UNCHANGED proc PROVE Kept
  BY <1>2
<1> HIDE DEF Kept
<1>3. ASSUME RunTask PROVE Kept
  <2>1. ASSUME PlayerAdded(Head(tasks)) \/ PlayerRemoved(Head(tasks)) \/ GameStarted
        PROVE  UNCHANGED proc
    BY <2>1 DEF PlayerAdded, PlayerRemoved, GameStarted, procVars
  <2>2. ASSUME NEW s \in Servers, Created(s) PROVE UNCHANGED proc
    BY <2>2 DEF Created, procVars
  <2>3. ASSUME StopServer PROVE KillServer
    BY <2>3 DEF StopServer
  <2> QED BY <1>1, <1>2, <1>3, <2>1, <2>2, <2>3, RunTaskIs
<1>4. ASSUME ClickStop \/ Unmount PROVE Kept
  BY <1>1, <1>4 DEF ClickStop, StopServer, Unmount
<1>5. ASSUME LaunchGame PROVE Kept
  BY <1>2, <1>5 DEF LaunchGame, procVars
<1>6. ASSUME NEW n \in SlotCounts, SelectMap(n) PROVE Kept
  BY <1>2, <1>6 DEF SelectMap, UpdateSlots, procVars
<1>7. ASSUME NEW b \in Bots, AddLocalBot(b) PROVE Kept
  BY <1>2, <1>7 DEF AddLocalBot, procVars
<1>8. ASSUME NEW i \in 1 .. MaxTokens, KickPlayer(i) \/ ConnectLocalBot(i) PROVE Kept
  BY <1>2, <1>8 DEF KickPlayer, ConnectLocalBot, procVars
<1>9. ASSUME NEW s \in Servers, Response(s) \/ PlayerNews(s) \/ Serve(s) PROVE Kept
  BY <1>2, <1>9 DEF Response, PlayerNews, Serve, procVars
<1>10. ASSUME NEW s \in Servers, ServerConnected(s) \/ ConnectFails(s) PROVE Kept
  BY <1>2, <1>10 DEF ServerConnected, ConnectFails, procVars
<1>11. ASSUME NEW s \in Servers, NEW id, NEW type, ClientMoves(s, id, type) PROVE Kept
  BY <1>2, <1>11 DEF ClientMoves, procVars
<1>12. CASE UNCHANGED vars
  BY <1>2, <1>12 DEF vars, procVars, Kept
<1> QED
  <2>1. Next \/ UNCHANGED vars
    OBVIOUS
  <2> QED BY <2>1, <1>3, <1>4, <1>5, <1>6, <1>7, <1>8, <1>9, <1>10, <1>11, <1>12
          DEF Next, Slots, Controls, Loop, Server, Kept

\* Only the answer to startGame changes the manager.
LEMMA ManagerSteps ==
    ASSUME Typed, [Next]_vars
    PROVE  \/ UNCHANGED manager
           \/ /\ RunTask /\ Head(tasks) \in Requests /\ Head(tasks).type = "start"
              /\ Launched
<1> DEFINE Goal == \/ UNCHANGED manager
                   \/ /\ RunTask /\ Head(tasks) \in Requests /\ Head(tasks).type = "start"
                      /\ Launched
<1>1. ASSUME RunTask PROVE Goal
  <2>1. ASSUME PlayerAdded(Head(tasks)) \/ PlayerRemoved(Head(tasks)) \/ StopServer
        PROVE  UNCHANGED manager
    BY <2>1 DEF PlayerAdded, PlayerRemoved, StopServer
  <2>2. ASSUME NEW s \in Servers, Created(s) PROVE UNCHANGED manager
    BY <2>2 DEF Created
  <2>3. ASSUME next_token + wanted <= MaxTokens + 1, GameStarted
        PROVE  UNCHANGED manager \/ Launched
    <3>1. CASE ~validifyRunning
      BY <3>1, <2>3 DEF GameStarted, uiVars
    <3>2. CASE validifyRunning
      BY <3>2, <2>3 DEF GameStarted, Launched, ServerLeft, NextManager
    <3> QED BY <3>1, <3>2
  <2> QED BY <1>1, <2>1, <2>2, <2>3, RunTaskIs
<1>2. ASSUME ~RunTask PROVE UNCHANGED manager
  <2>2. ASSUME NEW n \in SlotCounts, SelectMap(n) PROVE UNCHANGED manager
    BY <2>2 DEF SelectMap, UpdateSlots
  <2>3. ASSUME NEW i \in 1 .. MaxTokens, KickPlayer(i) \/ ConnectLocalBot(i)
        PROVE  UNCHANGED manager
    BY <2>3 DEF KickPlayer, ConnectLocalBot, uiVars
  <2>4. ASSUME NEW b \in Bots, AddLocalBot(b) PROVE UNCHANGED manager
    BY <2>4 DEF AddLocalBot
  <2>5. ASSUME NEW p \in Ports, StartServer(p) PROVE UNCHANGED manager
    BY <2>5 DEF StartServer, uiVars
  <2>6. ASSUME ClickStop \/ LaunchGame \/ Unmount PROVE UNCHANGED manager
    BY <2>6 DEF ClickStop, StopServer, LaunchGame, Unmount, uiVars
  <2>7. ASSUME NEW s \in Servers, Response(s) \/ PlayerNews(s) \/ Serve(s)
        PROVE  UNCHANGED manager
    BY <2>7 DEF Response, PlayerNews, Serve, uiVars
  <2>8. ASSUME NEW s \in Servers, ServerConnected(s) \/ ConnectFails(s) \/ ServerExits(s)
        PROVE  UNCHANGED manager
    BY <2>8 DEF ServerConnected, ConnectFails, ServerExits, uiVars
  <2>9. ASSUME NEW s \in Servers, NEW id, NEW type, ClientMoves(s, id, type)
        PROVE  UNCHANGED manager
    BY <2>9 DEF ClientMoves, uiVars
  <2>10. UNCHANGED vars => UNCHANGED manager
    BY DEF vars, uiVars
  <2>11. Next \/ UNCHANGED vars
    OBVIOUS
  <2> QED BY <1>2, <2>2, <2>3, <2>4, <2>5, <2>6, <2>7, <2>8, <2>9, <2>10, <2>11
          DEF Next, Slots, Controls, Loop, Server
<1> QED BY <1>1, <1>2

\* A request on its way was there before, or is one of the current manager's
\* slots, or the last one.
LEMMA WritesAre ==
    ASSUME LobbyAssumption, Books, [Next]_vars, NEW s \in Servers,
           NEW i \in DOMAIN to_server'[s]
    PROVE  \/ \E k \in DOMAIN to_server[s] : to_server'[s][i] = to_server[s][k]
           \/ /\ to_server'[s][i].type \in {"add", "remove"}
              /\ to_server'[s][i].manager = manager
           \/ to_server'[s][i].type = "start" /\ LaunchGame /\ s = server
<1> DEFINE x == to_server'[s][i]
           Old == \E k \in DOMAIN to_server[s] : x = to_server[s][k]
           Mine == x.type \in {"add", "remove"} /\ x.manager = manager
           Goal == Old \/ Mine \/ (x.type = "start" /\ LaunchGame /\ s = server)
<1>0. /\ Typed /\ TokensDiffer /\ to_server \in [Servers -> Seq(Requests)]
  BY DEF Books, Typed
<1>1. ASSUME to_server'[s] = to_server[s] PROVE Old
  BY <1>1
<1>2. ASSUME NEW r, NEW dropped, Written(r, dropped) PROVE Old \/ Mine
  <2>1. \/ i \in DOMAIN to_server[s] /\ to_server'[s][i] = to_server[s][i]
        \/ Clicked(to_server'[s][i], dropped)
    BY <1>2 DEF Written
  <2> QED BY <2>1 DEF Clicked
<1>3. ASSUME NEW n \in SlotCounts, SelectMap(n) PROVE Old \/ Mine
  <2> HIDE DEF Old, Mine
  <2> QED BY <1>0, <1>2, <1>3, SelectMapIs
<1>4. ASSUME NEW j \in 1 .. MaxTokens, KickPlayer(j) PROVE Old \/ Mine
  <2> HIDE DEF Old, Mine
  <2> QED BY <1>0, <1>2, <1>4, KickPlayerIs
<1>5. ASSUME NEW r \in Servers, Created(r) PROVE Old \/ Mine
  <2> DEFINE ask == NewPlayers(r)
  <2>1. Send(r, ask) /\ ask \in Seq(Requests)
        /\ \A k \in DOMAIN ask : ask[k].type = "add" /\ ask[k].manager = manager
    BY <1>0, <1>5, NewPlayersAre DEF Created
  <2> HIDE DEF ask
  <2>2. \/ i \in DOMAIN to_server[s] /\ to_server'[s][i] = to_server[s][i]
        \/ \E k \in DOMAIN ask : to_server'[s][i] = ask[k]
    BY <1>0, <2>1, SendIs
  <2> QED BY <2>1, <2>2
<1>6. ASSUME LaunchGame PROVE Goal
  <2> DEFINE ask == <<StartGame>>
  <2>1. Send(server, ask) /\ ask \in Seq(Requests)
        /\ \A k \in DOMAIN ask : ask[k].type = "start"
    <3>1. StartGame \in Requests /\ StartGame.type = "start"
      BY <1>0 DEF StartGame, Requests, None
    <3> QED BY <1>6, <3>1 DEF LaunchGame
  <2> HIDE DEF ask
  <2>2. \/ i \in DOMAIN to_server[s] /\ to_server'[s][i] = to_server[s][i]
        \/ s = server /\ \E k \in DOMAIN ask : to_server'[s][i] = ask[k]
    BY <1>0, <2>1, SendIs
  <2> QED BY <1>6, <2>1, <2>2
<1>7. ASSUME NEW r \in Servers, Serve(r) PROVE Old
  <2>1. CASE r = s
    <3>1. i + 1 \in DOMAIN to_server[s] /\ to_server'[s][i] = to_server[s][i + 1]
      BY <1>0, <1>7, <2>1, ServeIs
    <3> QED BY <3>1
  <2>2. CASE r # s
    <3>1. to_server'[s] = to_server[s]
      BY <1>0, <1>7, <2>2, ServeIs
    <3> QED BY <3>1
  <2> QED BY <2>1, <2>2
<1>8. ASSUME NEW r \in Servers, ServerExits(r) PROVE Old
  <2>1. to_server' = [to_server EXCEPT ![r] = <<>>]
    BY <1>8 DEF ServerExits
  <2>2. r # s
    BY <2>1, <1>0
  <2> QED BY <2>1, <2>2, <1>0
<1>9. ASSUME RunTask PROVE Old \/ Mine
  <2>1. ASSUME PlayerAdded(Head(tasks)) \/ PlayerRemoved(Head(tasks)) \/ StopServer
               \/ GameStarted
        PROVE  to_server'[s] = to_server[s]
    BY <2>1 DEF PlayerAdded, PlayerRemoved, StopServer, GameStarted, netVars
  <2> HIDE DEF Old, Mine
  <2> QED BY <1>0, <1>1, <1>5, <1>9, <2>1, RunTaskIs
<1> HIDE DEF Old, Mine
<1>10. ASSUME NEW b \in Bots, AddLocalBot(b) PROVE Old
  BY <1>1, <1>10 DEF AddLocalBot, netVars
<1>11. ASSUME NEW j \in 1 .. MaxTokens, ConnectLocalBot(j) PROVE Old
  BY <1>1, <1>11 DEF ConnectLocalBot, netVars
<1>12. ASSUME NEW p \in Ports, StartServer(p) PROVE Old
  BY <1>1, <1>12 DEF StartServer, netVars
<1>13. ASSUME ClickStop \/ Unmount PROVE Old
  BY <1>1, <1>13 DEF ClickStop, StopServer, Unmount, netVars
<1>14. ASSUME NEW r \in Servers, Response(r) \/ PlayerNews(r) PROVE Old
  BY <1>1, <1>14 DEF Response, PlayerNews
<1>15. ASSUME NEW r \in Servers, ServerConnected(r) \/ ConnectFails(r) PROVE Old
  BY <1>1, <1>15 DEF ServerConnected, ConnectFails, netVars
<1>16. ASSUME NEW r \in Servers, NEW id, NEW type, ClientMoves(r, id, type) PROVE Old
  BY <1>1, <1>16 DEF ClientMoves
<1>17. UNCHANGED vars => Old
  BY <1>1 DEF vars, netVars
<1> HIDE DEF Goal, x
<1>18. Old \/ Mine => Goal
  BY DEF Goal
<1>19. Goal
  <2>1. Next \/ UNCHANGED vars
    OBVIOUS
  <2> QED BY <2>1, <1>3, <1>4, <1>6, <1>7, <1>8, <1>9, <1>10, <1>11, <1>12, <1>13, <1>14,
             <1>15, <1>16, <1>17, <1>18 DEF Next, Slots, Controls, Loop, Server
<1> QED BY <1>19 DEF Goal, Old, Mine, x

\* The part of the invariant about the answers of one server, for a step that
\* brings no new one.
LEMMA CarriedAgrees ==
    ASSUME LobbyAssumption, Books, [Next]_vars, NEW s \in Servers,
           CurrentAnswers(s), NumbersAgree(s),
           Carried(Unheard(s), tasks' \o to_client'[s]), UNCHANGED manager,
           phase'[s] = phase[s], players'[s] = players[s], counter'[s] = counter[s]
    PROVE  CurrentAnswers(s)' /\ NumbersAgree(s)'
<1> DEFINE u == Unheard(s)
           v == tasks' \o to_client'[s]
<1>1. Unheard(s)' = v
  BY DEF Unheard
<1>2. /\ \A i \in DOMAIN u :
            /\ ForManager(u[i])
            /\ u[i].type = "start" =>
                /\ phase[s] = "playing"
                /\ \A j \in DOMAIN u : j > i => u[j].type \notin {"add", "remove"}
      /\ phase[s] # "playing" =>
            \A i \in DOMAIN to_server[s] : ForManager(to_server[s][i])
  BY DEF CurrentAnswers
<1>3. \A i \in DOMAIN u :
        /\ u[i].type = "add" =>
            /\ u[i].id < counter[s]
            /\ u[i].id \in DOMAIN players[s] => players[s][u[i].id] = u[i].token
        /\ u[i].type = "remove" =>
            \/ u[i].id \notin DOMAIN players[s]
            \/ \E j \in DOMAIN u : j > i /\ u[j].type = "add" /\ u[j].id = u[i].id
  BY DEF NumbersAgree
<1>4. Carried(u, v)
  OBVIOUS
<1> HIDE DEF u, v
<1>5. ASSUME NEW i \in DOMAIN v
      PROVE  /\ v[i].type \in {"add", "remove"} => v[i].manager = manager
             /\ v[i].type = "start" =>
                /\ phase[s] = "playing"
                /\ \A j \in DOMAIN v : j > i => v[j].type \notin {"add", "remove"}
             /\ v[i].type = "add" =>
                /\ v[i].id < counter[s]
                /\ v[i].id \in DOMAIN players[s] => players[s][v[i].id] = v[i].token
             /\ v[i].type = "remove" =>
                \/ v[i].id \notin DOMAIN players[s]
                \/ \E j \in DOMAIN v : j > i /\ v[j].type = "add" /\ v[j].id = v[i].id
  <2>1. CASE v[i].type \notin Answers
    BY <2>1 DEF Answers
  <2>2. CASE v[i].type \in Answers
    <3>1. PICK k \in DOMAIN u :
            /\ v[i] = u[k]
            /\ \A l \in DOMAIN u : l > k /\ u[l].type = "add" =>
                    \E j \in DOMAIN v : j > i /\ v[j] = u[l]
            /\ \A j \in DOMAIN v : j > i /\ v[j].type \in Answers =>
                    \E l \in DOMAIN u : l > k /\ v[j] = u[l]
      BY <2>2, <1>4 DEF Carried
    <3>2. v[i].type = "start" =>
            /\ phase[s] = "playing"
            /\ \A j \in DOMAIN v : j > i => v[j].type \notin {"add", "remove"}
      <4>1. SUFFICES ASSUME u[k].type = "start", NEW j \in DOMAIN v, j > i,
                            v[j].type \in {"add", "remove"}
                     PROVE  FALSE
        BY <3>1, <1>2
      <4>2. PICK l \in DOMAIN u : l > k /\ v[j] = u[l]
        BY <3>1, <4>1 DEF Answers
      <4> QED BY <4>1, <4>2, <1>2
    <3>3. v[i].type \in {"add", "remove"} => v[i].manager = manager
      BY <3>1, <1>2 DEF ForManager
    <3>4. v[i].type = "add" =>
                /\ v[i].id < counter[s]
                /\ v[i].id \in DOMAIN players[s] => players[s][v[i].id] = v[i].token
      BY <3>1, <1>3
    <3>5. v[i].type = "remove" =>
                \/ v[i].id \notin DOMAIN players[s]
                \/ \E j \in DOMAIN v : j > i /\ v[j].type = "add" /\ v[j].id = v[i].id
      <4>1. SUFFICES ASSUME u[k].type = "remove", u[k].id \in DOMAIN players[s]
                     PROVE  \E j \in DOMAIN v : j > i /\ v[j].type = "add" /\ v[j].id = u[k].id
        BY <3>1
      <4>2. PICK l \in DOMAIN u : l > k /\ u[l].type = "add" /\ u[l].id = u[k].id
        BY <4>1, <1>3
      <4> QED BY <4>2, <3>1
    <3> QED BY <3>2, <3>3, <3>4, <3>5
  <2> QED BY <2>1, <2>2
<1>6. phase'[s] # "playing" =>
        \A i \in DOMAIN to_server'[s] : to_server'[s][i].type \in {"add", "remove"} =>
            to_server'[s][i].manager = manager
  <2> SUFFICES ASSUME phase[s] # "playing", NEW i \in DOMAIN to_server'[s],
                      to_server'[s][i].type \in {"add", "remove"}
               PROVE  to_server'[s][i].manager = manager
    OBVIOUS
  <2>1. \/ \E k \in DOMAIN to_server[s] : to_server'[s][i] = to_server[s][k]
        \/ to_server'[s][i].manager = manager
    BY WritesAre
  <2> QED BY <2>1, <1>2 DEF ForManager
<1>7. CurrentAnswers(s)'
  BY <1>1, <1>5, <1>6 DEF CurrentAnswers, ForManager
<1>8. NumbersAgree(s)'
  BY <1>1, <1>5 DEF NumbersAgree
<1> QED BY <1>7, <1>8

\* Listeners are set by the callback of create, and only taken away after that.
LEMMA SubsSteps ==
    ASSUME Typed, [Next]_vars, NEW s \in Servers
    PROVE  \/ subs'[s] \in {subs[s], NoSubs}
           \/ RunTask /\ Head(tasks) = CreatedTask(s) /\ Created(s)
<1> DEFINE Goal == \/ subs'[s] \in {subs[s], NoSubs}
                   \/ RunTask /\ Head(tasks) = CreatedTask(s) /\ Created(s)
<1>0. subs \in [Servers -> [own : Managers \union {None}, captured : Managers \union {None}]]
  BY DEF Typed
<1>1. ASSUME UNCHANGED subs PROVE Goal
  BY <1>1
<1>2. ASSUME LaunchGame PROVE Goal
  <2>1. subs' = [subs EXCEPT ![server] = NoSubs]
    BY <1>2 DEF LaunchGame
  <2> QED BY <2>1, <1>0
<1>3. ASSUME RunTask PROVE Goal
  <2>1. ASSUME PlayerAdded(Head(tasks)) \/ PlayerRemoved(Head(tasks)) \/ StopServer \/ GameStarted
        PROVE  UNCHANGED subs
    BY <2>1 DEF PlayerAdded, PlayerRemoved, StopServer, GameStarted, runnerVars
  <2>2. ASSUME NEW r \in Servers, Created(r), Head(tasks) = [type |-> "created", server |-> r]
        PROVE  Goal
    <3>1. subs' = [subs EXCEPT ![r] = [own |-> manager, captured |-> captured[r]]]
      BY <2>2 DEF Created
    <3>2. CASE r = s
      BY <3>2, <2>2, <1>3 DEF CreatedTask
    <3>3. CASE r # s
      <4>1. subs'[s] = subs[s]
        BY <3>1, <3>3, <1>0
      <4> QED BY <4>1
    <3> QED BY <3>2, <3>3
  <2> HIDE DEF Goal
  <2> QED BY <1>1, <1>3, <2>1, <2>2, RunTaskIs
<1> HIDE DEF Goal
<1>4. ASSUME NEW n \in SlotCounts, SelectMap(n) PROVE Goal
  BY <1>1, <1>4 DEF SelectMap, UpdateSlots, runnerVars
<1>5. ASSUME NEW b \in Bots, AddLocalBot(b) PROVE Goal
  BY <1>1, <1>5 DEF AddLocalBot, runnerVars
<1>6. ASSUME NEW i \in 1 .. MaxTokens, KickPlayer(i) \/ ConnectLocalBot(i) PROVE Goal
  BY <1>1, <1>6 DEF KickPlayer, ConnectLocalBot, runnerVars
<1>7. ASSUME NEW p \in Ports, StartServer(p) PROVE Goal
  BY <1>1, <1>7 DEF StartServer
<1>8. ASSUME ClickStop \/ Unmount PROVE Goal
  BY <1>1, <1>8 DEF ClickStop, StopServer, Unmount, runnerVars
<1>9. ASSUME NEW r \in Servers, Response(r) \/ PlayerNews(r) \/ Serve(r) PROVE Goal
  BY <1>1, <1>9 DEF Response, PlayerNews, Serve, runnerVars
<1>10. ASSUME NEW r \in Servers, ServerConnected(r) \/ ConnectFails(r) \/ ServerExits(r)
       PROVE  Goal
  BY <1>1, <1>10 DEF ServerConnected, ConnectFails, ServerExits
<1>11. ASSUME NEW r \in Servers, NEW id, NEW type, ClientMoves(r, id, type) PROVE Goal
  BY <1>1, <1>11 DEF ClientMoves, runnerVars
<1>12. UNCHANGED vars => Goal
  BY <1>1 DEF vars, runnerVars
<1>13. Goal
  <2>1. Next \/ UNCHANGED vars
    OBVIOUS
  <2> QED BY <2>1, <1>2, <1>3, <1>4, <1>5, <1>6, <1>7, <1>8, <1>9, <1>10, <1>11, <1>12
          DEF Next, Slots, Controls, Loop, Server
<1> QED BY <1>13 DEF Goal

\* The slot manager captured by startServer is that of the moment, for good; and
\* no promise of create that failed is kept later.
LEMMA CapturedSteps ==
    ASSUME Typed, [Next]_vars, NEW s \in Servers, proc[s] # "idle"
    PROVE  /\ captured'[s] = captured[s]
           /\ promise'[s] \in {"pending", "resolved"} => promise[s] \in {"pending", "resolved"}
<1> DEFINE Goal == /\ captured'[s] = captured[s]
                   /\ promise'[s] \in {"pending", "resolved"} =>
                        promise[s] \in {"pending", "resolved"}
<1>0. /\ promise \in [Servers -> {"none", "pending", "hanging", "resolved", "rejected"}]
      /\ captured \in [Servers -> Managers \union {None}]
  BY DEF Typed
<1>1. ASSUME UNCHANGED <<captured, promise>> PROVE Goal
  BY <1>1
<1>2. ASSUME NEW p \in Ports, StartServer(p) PROVE Goal
  <2>1. PICK r \in Servers : /\ proc[r] = "idle"
                             /\ promise' = [promise EXCEPT ![r] = "pending"]
                             /\ captured' = [captured EXCEPT ![r] = manager]
    BY <1>2 DEF StartServer
  <2>2. promise'[s] = promise[s] /\ captured'[s] = captured[s]
    BY <2>1, <1>0
  <2> QED BY <2>2
<1>3. ASSUME NEW r \in Servers, ServerConnected(r) PROVE Goal
  <2>1. promise[r] = "pending" /\ promise' = [promise EXCEPT ![r] = "resolved"]
        /\ UNCHANGED captured
    BY <1>3 DEF ServerConnected
  <2> QED BY <2>1, <1>0
<1>4. ASSUME NEW r \in Servers, ConnectFails(r) PROVE Goal
  <2>1. promise[r] = "pending" /\ promise' = [promise EXCEPT ![r] = "hanging"]
        /\ UNCHANGED captured
    BY <1>4 DEF ConnectFails
  <2> QED BY <2>1, <1>0
<1>5. ASSUME NEW r \in Servers, ServerExits(r) PROVE Goal
  <2>1. promise' = [promise EXCEPT ![r] = "rejected"] \/ UNCHANGED promise
    BY <1>5 DEF ServerExits
  <2>2. UNCHANGED captured
    BY <1>5 DEF ServerExits
  <2> QED BY <2>1, <2>2, <1>0
<1> HIDE DEF Goal
<1>6. ASSUME RunTask PROVE Goal
  <2>1. ASSUME PlayerAdded(Head(tasks)) \/ PlayerRemoved(Head(tasks)) \/ StopServer \/ GameStarted
        PROVE  UNCHANGED <<captured, promise>>
    BY <2>1 DEF PlayerAdded, PlayerRemoved, StopServer, GameStarted, runnerVars
  <2>2. ASSUME NEW r \in Servers, Created(r) PROVE UNCHANGED <<captured, promise>>
    BY <2>2 DEF Created
  <2> QED BY <1>1, <1>6, <2>1, <2>2, RunTaskIs
<1>7. ASSUME NEW n \in SlotCounts, SelectMap(n) PROVE Goal
  BY <1>1, <1>7 DEF SelectMap, UpdateSlots, runnerVars
<1>8. ASSUME NEW b \in Bots, AddLocalBot(b) PROVE Goal
  BY <1>1, <1>8 DEF AddLocalBot, runnerVars
<1>9. ASSUME NEW i \in 1 .. MaxTokens, KickPlayer(i) \/ ConnectLocalBot(i) PROVE Goal
  BY <1>1, <1>9 DEF KickPlayer, ConnectLocalBot, runnerVars
<1>10. ASSUME ClickStop \/ Unmount \/ LaunchGame PROVE Goal
  BY <1>1, <1>10 DEF ClickStop, StopServer, Unmount, LaunchGame, runnerVars
<1>11. ASSUME NEW r \in Servers, Response(r) \/ PlayerNews(r) \/ Serve(r) PROVE Goal
  BY <1>1, <1>11 DEF Response, PlayerNews, Serve, runnerVars
<1>12. ASSUME NEW r \in Servers, NEW id, NEW type, ClientMoves(r, id, type) PROVE Goal
  BY <1>1, <1>12 DEF ClientMoves, runnerVars
<1>13. UNCHANGED vars => Goal
  BY <1>1 DEF vars, runnerVars
<1>14. Goal
  <2>1. Next \/ UNCHANGED vars
    OBVIOUS
  <2> QED BY <2>1, <1>2, <1>3, <1>4, <1>5, <1>6, <1>7, <1>8, <1>9, <1>10, <1>11, <1>12, <1>13
          DEF Next, Slots, Controls, Loop, Server
<1> QED BY <1>14 DEF Goal

\* The callback of create runs before anything was asked of its server, and sets
\* the listeners on the manager of now: nothing has been launched since.
LEMMA CreatedIsFirst ==
    ASSUME Books, NEW s \in Servers, RunTask, Head(tasks) = CreatedTask(s)
    PROVE  /\ ~Handed(s) /\ promise[s] = "resolved"
           /\ phase[s] = "lobby" /\ phase' = phase /\ DOMAIN players[s] = {}
           /\ to_server[s] = <<>>
<1>1. /\ tasks # <<>> /\ UNCHANGED lobbyVars /\ Head(tasks) = tasks[1] /\ 1 \in DOMAIN tasks
  BY RunTaskIs, TaskIs DEF Books
<1>2. tasks[1] = [type |-> "created", server |-> s]
  BY <1>1 DEF CreatedTask
<1>3. ~Handed(s)
  BY <1>1, <1>2 DEF Handed
<1>4. promise[s] = "resolved"
  BY <1>1, <1>2 DEF Books, SettledAlone
<1> QED BY <1>1, <1>3, <1>4 DEF Books, QuietBefore, lobbyVars

LEMMA ListenersStep ==
    ASSUME LobbyAssumption, Books, OneServerAtATime, [Next]_vars,
           NEW s \in Servers, Alive(s), proc'[s] \in {"up", "killed"},
           UNCHANGED manager, CurrentListeners(s)
    PROVE  CurrentListeners(s)'
<1>0. Typed /\ proc[s] # "idle"
      /\ subs \in [Servers -> [own : Managers \union {None}, captured : Managers \union {None}]]
  BY DEF Books, Typed, Alive
<1>1. /\ subs[s] # NoSubs => subs[s] = [own |-> manager, captured |-> manager]
      /\ promise[s] \in {"pending", "resolved"} /\ ~Handed(s) => captured[s] = manager
      /\ phase[s] = "playing" => subs[s] = NoSubs
      /\ \A i \in DOMAIN to_server[s] : to_server[s][i].type = "start" => subs[s] = NoSubs
  BY DEF CurrentListeners
<1>2. CASE subs'[s] \in {subs[s], NoSubs}
  <2>1. subs'[s] # NoSubs => subs'[s] = [own |-> manager, captured |-> manager]
    BY <1>1, <1>2
  <2>2. phase'[s] = "playing" => subs'[s] = NoSubs
    <3>1. phase'[s] = phase[s] \/ Serve(s)
      BY UnheardSteps
    <3>2. ASSUME Serve(s), phase'[s] = "playing", phase[s] # "playing"
          PROVE  subs[s] = NoSubs
      <4>1. Head(to_server[s]) = to_server[s][1] /\ 1 \in DOMAIN to_server[s]
        BY <1>0, <3>2, ServeIs
      <4>2. Head(to_server[s]).type = "start"
        BY <1>0, <3>2, ServedIsLast
      <4> QED BY <4>1, <4>2, <1>1
    <3> QED BY <3>1, <3>2, <1>1, <1>2
  <2>3. ASSUME NEW i \in DOMAIN to_server'[s], to_server'[s][i].type = "start"
        PROVE  subs'[s] = NoSubs
    <3>1. \/ \E k \in DOMAIN to_server[s] : to_server'[s][i] = to_server[s][k]
          \/ LaunchGame /\ s = server
      BY <2>3, WritesAre
    <3>2. ASSUME LaunchGame, s = server PROVE subs'[s] = NoSubs
      <4>1. subs' = [subs EXCEPT ![s] = NoSubs]
        BY <3>2 DEF LaunchGame
      <4> QED BY <4>1, <1>0
    <3> QED BY <3>1, <3>2, <2>3, <1>1, <1>2
  <2>4. promise'[s] \in {"pending", "resolved"} /\ ~Handed(s)' => captured'[s] = manager
    <3>1. Handed(s) => Handed(s)'
      BY HandedSteps
    <3> QED BY <3>1, <1>0, <1>1, CapturedSteps
  <2> QED BY <2>1, <2>2, <2>3, <2>4 DEF CurrentListeners
<1>3. CASE RunTask /\ Head(tasks) = CreatedTask(s) /\ Created(s)
  <2>1. /\ ~Handed(s) /\ promise[s] = "resolved" /\ phase[s] = "lobby" /\ phase' = phase
        /\ to_server[s] = <<>>
    BY <1>3, CreatedIsFirst
  <2>2. Handed(s)'
    BY <1>3, HandedSteps
  <2>3. subs'[s] = [own |-> manager, captured |-> manager]
    <3>1. subs' = [subs EXCEPT ![s] = [own |-> manager, captured |-> captured[s]]]
      BY <1>3 DEF Created
    <3> QED BY <3>1, <2>1, <1>0, <1>1
  <2>4. \A i \in DOMAIN to_server'[s] : to_server'[s][i].type = "start" => subs'[s] = NoSubs
    <3> SUFFICES ASSUME NEW i \in DOMAIN to_server'[s], to_server'[s][i].type = "start"
                 PROVE  subs'[s] = NoSubs
      OBVIOUS
    <3>1. \/ \E k \in DOMAIN to_server[s] : to_server'[s][i] = to_server[s][k]
          \/ LaunchGame /\ s = server
      BY WritesAre
    <3>2. DOMAIN to_server[s] = {}
      BY <2>1
    <3>3. LaunchGame /\ s = server
      BY <3>1, <3>2
    <3>4. subs' = [subs EXCEPT ![s] = NoSubs]
      BY <3>3 DEF LaunchGame
    <3> QED BY <3>4, <1>0
  <2> QED BY <2>1, <2>2, <2>3, <2>4 DEF CurrentListeners
<1> QED BY <1>0, <1>2, <1>3, SubsSteps

\* The three parts about one server, as long as the manager stays.
LEMMA LivingStep ==
    ASSUME LobbyAssumption, Books, OneServerAtATime, [Next]_vars,
           NEW s \in Servers, Alive(s), proc'[s] \in {"up", "killed"}, UNCHANGED manager,
           CurrentAnswers(s), CurrentListeners(s), NumbersAgree(s)
    PROVE  CurrentAnswers(s)' /\ CurrentListeners(s)' /\ NumbersAgree(s)'
<1>1. CurrentListeners(s)'
  BY ListenersStep
<1>2. CASE Serve(s)
  BY <1>1, <1>2, ServedAgrees
<1>3. CASE /\ Carried(Unheard(s), tasks' \o to_client'[s])
           /\ phase'[s] = phase[s] /\ players'[s] = players[s] /\ counter'[s] = counter[s]
  BY <1>1, <1>3, CarriedAgrees
<1> QED BY <1>2, <1>3, UnheardSteps

\* A server that comes up is one that was started now: nothing was asked of it.
LEMMA NewlyAlive ==
    ASSUME Books, [Next]_vars, NEW s \in Servers, ~Alive(s), proc'[s] \in {"up", "killed"}
    PROVE  /\ \E p \in Ports : StartServer(p)
           /\ UNCHANGED <<manager, tasks, players, subs, list, shown, clients>>
           /\ DOMAIN players[s] = {} /\ subs[s] = NoSubs
           /\ CurrentAnswers(s)' /\ CurrentListeners(s)' /\ NumbersAgree(s)'
<1>0. /\ Typed /\ QuietBefore
      /\ proc \in [Servers -> {"idle", "up", "killed", "failing", "dead"}]
      /\ promise \in [Servers -> {"none", "pending", "hanging", "resolved", "rejected"}]
      /\ captured \in [Servers -> Managers \union {None}]
  BY DEF Books, Typed
<1>1. proc[s] \notin {"up", "killed"}
  BY DEF Alive
<1>2. PICK p \in Ports : StartServer(p)
  <2>1. ASSUME NEW r \in Servers, ServerExits(r) PROVE FALSE
    <3>1. proc' = [proc EXCEPT ![r] = "dead"]
      BY <2>1 DEF ServerExits
    <3> QED BY <3>1, <1>0, <1>1
  <2> QED BY <1>0, <1>1, <2>1, ProcSteps
<1>3. PICK r \in Servers :
        /\ proc[r] = "idle"
        /\ proc' = [proc EXCEPT ![r] =
                IF \E q \in Servers : proc[q] \in {"up", "killed"} /\ port[q] = p
                THEN "failing" ELSE "up"]
        /\ promise' = [promise EXCEPT ![r] = "pending"]
        /\ captured' = [captured EXCEPT ![r] = manager]
  BY <1>2 DEF StartServer
<1>4. r = s
  BY <1>0, <1>1, <1>3
<1>5. captured'[s] = manager
  BY <1>0, <1>3, <1>4
<1>6. /\ tasks = <<>>
      /\ UNCHANGED <<manager, tasks, players, subs, phase, list, shown, clients,
                     to_server, to_client>>
  BY <1>2 DEF StartServer, Click, Idle, uiVars, slotVars, loopVars, lobbyVars, netVars
<1>7. /\ subs[s] = NoSubs /\ phase[s] = "lobby" /\ DOMAIN players[s] = {}
      /\ to_server[s] = <<>> /\ to_client[s] = <<>>
  <2>1. promise[s] = "none"
    BY <1>0, <1>3, <1>4 DEF QuietBefore
  <2>2. ~Handed(s)
    BY <2>1 DEF Handed
  <2> QED BY <2>2, <1>0 DEF QuietBefore
<1>8. Unheard(s)' = <<>> \o <<>>
  BY <1>6, <1>7 DEF Unheard
<1>9. DOMAIN Unheard(s)' = {} /\ DOMAIN to_server'[s] = {}
  <2>1. <<>> \o <<>> = <<>>
    OBVIOUS
  <2> QED BY <2>1, <1>6, <1>7, <1>8
<1>10. CurrentAnswers(s)' /\ NumbersAgree(s)'
  BY <1>9 DEF CurrentAnswers, NumbersAgree
<1>11. CurrentListeners(s)'
  BY <1>5, <1>6, <1>7, <1>9 DEF CurrentListeners
<1> QED BY <1>2, <1>6, <1>7, <1>10, <1>11

\* Where an answer in the event loop is from.
LEMMA AnswersCome ==
    ASSUME Books, [Next]_vars, NEW i \in DOMAIN tasks', tasks'[i].type \in Answers
    PROVE  \/ \E k \in DOMAIN tasks : tasks'[i] = tasks[k]
           \/ \E s \in Servers : Response(s)
<1> DEFINE Goal == \/ \E k \in DOMAIN tasks : tasks'[i] = tasks[k]
                   \/ \E s \in Servers : Response(s)
<1>0. Typed /\ tasks \in Seq(Requests \union Settlements)
  BY DEF Books, Typed
<1>1. ASSUME UNCHANGED tasks PROVE Goal
  BY <1>1
<1>2. ASSUME RunTask PROVE Goal
  <2>1. tasks # <<>> /\ tasks' = Tail(tasks)
    BY <1>0, <1>2, RunTaskIs
  <2>2. i + 1 \in DOMAIN tasks /\ tasks'[i] = tasks[i + 1]
    BY <1>0, <2>1, TailIs
  <2> QED BY <2>2
<1>3. ASSUME NEW e, e.type \notin Answers, tasks' = <<e>> PROVE FALSE
  <2>1. i = 1 /\ tasks'[i] = e
    BY <1>3
  <2> QED BY <2>1, <1>3
<1>4. ASSUME NEW s \in Servers, ServerConnected(s) PROVE FALSE
  <2> DEFINE e == [type |-> "created", server |-> s]
  <2>1. tasks' = <<e>> /\ e.type \notin Answers
    BY <1>4 DEF ServerConnected, Answers
  <2> HIDE DEF e
  <2> QED BY <2>1, <1>3
<1>5. ASSUME NEW s \in Servers, ServerExits(s) PROVE Goal
  <2> DEFINE e == [type |-> "failed", server |-> s]
  <2>1. (tasks' = <<e>> \/ UNCHANGED tasks) /\ e.type \notin Answers
    BY <1>5 DEF ServerExits, Answers
  <2> HIDE DEF e, Goal
  <2> QED BY <2>1, <1>1, <1>3
<1>6. ASSUME NEW s \in Servers, Response(s) PROVE Goal
  BY <1>6
<1> HIDE DEF Goal
<1>7. ASSUME NEW n \in SlotCounts, SelectMap(n) PROVE Goal
  BY <1>1, <1>7 DEF SelectMap, UpdateSlots, loopVars
<1>8. ASSUME NEW b \in Bots, AddLocalBot(b) PROVE Goal
  BY <1>1, <1>8 DEF AddLocalBot, loopVars
<1>9. ASSUME NEW j \in 1 .. MaxTokens, KickPlayer(j) \/ ConnectLocalBot(j) PROVE Goal
  BY <1>1, <1>9 DEF KickPlayer, ConnectLocalBot, loopVars
<1>10. ASSUME NEW p \in Ports, StartServer(p) PROVE Goal
  BY <1>1, <1>10 DEF StartServer, loopVars
<1>11. ASSUME ClickStop \/ Unmount \/ LaunchGame PROVE Goal
  BY <1>1, <1>11 DEF ClickStop, StopServer, Unmount, LaunchGame, loopVars
<1>12. ASSUME NEW r \in Servers, PlayerNews(r) \/ Serve(r) \/ ConnectFails(r) PROVE Goal
  BY <1>1, <1>12 DEF PlayerNews, Serve, ConnectFails, loopVars
<1>13. ASSUME NEW r \in Servers, NEW id, NEW type, ClientMoves(r, id, type) PROVE Goal
  BY <1>1, <1>13 DEF ClientMoves, loopVars
<1>14. UNCHANGED vars => Goal
  BY <1>1 DEF vars, loopVars
<1>15. Goal
  <2>1. Next \/ UNCHANGED vars
    OBVIOUS
  <2> QED BY <2>1, <1>2, <1>4, <1>5, <1>6, <1>7, <1>8, <1>9, <1>10, <1>11, <1>12, <1>13, <1>14
          DEF Next, Slots, Controls, Loop, Server
<1> QED BY <1>15 DEF Goal

\* A server does not end while its answers wait in the event loop.
LEMMA AnswersStep ==
    ASSUME Books, AnswersOfTheLiving, [Next]_vars
    PROVE  AnswersOfTheLiving'
<1> SUFFICES ASSUME NEW i \in DOMAIN tasks', tasks'[i].type \in {"add", "remove", "start"}
             PROVE  \E s \in Servers : proc'[s] \in {"up", "killed"} /\ Handed(s)'
  BY DEF AnswersOfTheLiving, Alive
<1>0. Typed /\ to_client \in [Servers -> Seq(Requests \union News)]
  BY DEF Books, Typed
<1>1. tasks'[i].type \in Answers
  BY DEF Answers
<1>2. PICK s \in Servers : Alive(s) /\ Handed(s)
  <2>1. CASE \E k \in DOMAIN tasks : tasks'[i] = tasks[k]
    BY <2>1 DEF AnswersOfTheLiving
  <2>2. ASSUME NEW s \in Servers, Response(s) PROVE Alive(s) /\ Handed(s)
    <3>1. to_client[s] # <<>>
      BY <2>2 DEF Response, NextFrame
    <3> QED BY <3>1 DEF Books, QuietBefore
  <2> QED BY <1>1, <2>1, <2>2, AnswersCome
<1>3. Handed(s)'
  BY <1>2, HandedSteps
<1>4. \A p \in Ports : ~StartServer(p)
  <2> SUFFICES ASSUME NEW p \in Ports, StartServer(p) PROVE FALSE
    OBVIOUS
  <2>1. tasks = <<>> /\ UNCHANGED tasks
    BY DEF StartServer, Click, Idle, loopVars
  <2> QED BY <2>1
<1>5. \A r \in Servers : ~ServerExits(r)
  <2> SUFFICES ASSUME NEW r \in Servers, ServerExits(r) PROVE FALSE
    OBVIOUS
  <2> DEFINE e == [type |-> "failed", server |-> r]
  <2>1. tasks = <<>> /\ tasks' \in {<<e>>, tasks} /\ e.type = "failed"
    BY DEF ServerExits, Idle
  <2> HIDE DEF e
  <2>2. tasks' = <<e>>
    BY <2>1
  <2>3. tasks'[i] = e
    BY <2>2
  <2> QED BY <2>1, <2>3
<1>6. proc'[s] \in {"up", "killed"}
  BY <1>0, <1>2, <1>4, <1>5, ProcSteps DEF Alive
<1> QED BY <1>3, <1>6
-----------------------------------------------------------------------------
(* The page shows the current slots *)

\* The answer whose callback is next is for the current manager.
LEMMA AnswerIsCurrent ==
    ASSUME Books, Current, tasks # <<>>, Head(tasks).type \in {"add", "remove"}
    PROVE  /\ Head(tasks).manager = manager
           /\ \E s \in Servers : Alive(s) /\ Handed(s)
<1>1. Head(tasks) = tasks[1] /\ 1 \in DOMAIN tasks
  BY TaskIs DEF Books
<1>2. PICK s \in Servers : Alive(s) /\ Handed(s)
  BY <1>1 DEF Current, AnswersOfTheLiving
<1>3. 1 \in DOMAIN Unheard(s) /\ Unheard(s)[1] = Head(tasks)
  BY <1>1, UnheardTyped DEF Books
<1>4. ForManager(Unheard(s)[1])
  BY <1>2, <1>3 DEF Current, CurrentAnswers
<1> QED BY <1>2, <1>3, <1>4 DEF ForManager

\* The listeners that hear of a player act on the current manager.
LEMMA ListenersAreCurrent ==
    ASSUME Books, Current, NEW s \in Servers, to_client[s] # <<>>, subs[s] # NoSubs
    PROVE  subs[s].own = manager /\ subs[s].captured = manager
<1>1. Alive(s)
  BY DEF Books, QuietBefore
<1>2. subs[s] = [own |-> manager, captured |-> manager]
  BY <1>1 DEF Current, CurrentListeners
<1> QED BY <1>2

LEMMA ShownStep ==
    ASSUME LobbyAssumption, Books, Current, [Next]_vars
    PROVE  ShowsCurrentSlots'
<1>0. /\ Typed /\ list \in [Managers -> Seq(Nat)] /\ manager \in Managers
      /\ shown = list[manager]
  BY DEF Books, Typed, Current, ShowsCurrentSlots
<1>1. ASSUME UNCHANGED <<shown, list, manager>> PROVE ShowsCurrentSlots'
  BY <1>0, <1>1 DEF ShowsCurrentSlots
<1>2. ASSUME shown' = list[manager], UNCHANGED <<list, manager>> PROVE ShowsCurrentSlots'
  BY <1>2 DEF ShowsCurrentSlots
<1>3. ASSUME RunTask PROVE ShowsCurrentSlots'
  <2>1. ASSUME PlayerAdded(Head(tasks)) \/ PlayerRemoved(Head(tasks)),
               Head(tasks).type \in {"add", "remove"}
        PROVE  ShowsCurrentSlots'
    <3>1. Head(tasks).manager = manager
      BY <1>0, <1>3, <2>1, AnswerIsCurrent, RunTaskIs
    <3>2. shown' = list[Head(tasks).manager] /\ UNCHANGED <<list, manager>>
      BY <2>1 DEF PlayerAdded, PlayerRemoved
    <3> QED BY <3>1, <3>2, <1>2
  <2>2. ASSUME StopServer PROVE ShowsCurrentSlots'
    BY <2>2, <1>1 DEF StopServer, slotVars
  <2>3. ASSUME NEW s \in Servers, Created(s) PROVE ShowsCurrentSlots'
    BY <2>3, <1>1 DEF Created
  <2>4. ASSUME GameStarted PROVE ShowsCurrentSlots'
    <3>1. CASE ~validifyRunning
      BY <3>1, <2>4, <1>1 DEF GameStarted, uiVars, slotVars
    <3>2. CASE validifyRunning
      <4>1. /\ shown' = Fresh(wanted) /\ manager' = manager + 1
            /\ list' = [list EXCEPT ![manager + 1] = Fresh(wanted)]
        BY <3>2, <2>4 DEF GameStarted, NextManager
      <4>2. manager + 1 \in Managers
        BY <3>2, NextManagerExists
      <4> QED BY <4>1, <4>2, <1>0 DEF ShowsCurrentSlots
    <3> QED BY <3>1, <3>2
  <2> QED BY <1>0, <1>3, <2>1, <2>2, <2>3, <2>4, RunTaskIs
<1>4. ASSUME NEW n \in SlotCounts, SelectMap(n) PROVE ShowsCurrentSlots'
  <2>1. /\ list' = [list EXCEPT ![manager] = Resized(manager, n)]
        /\ shown' = Resized(manager, n) /\ UNCHANGED manager
    BY <1>4 DEF SelectMap, UpdateSlots
  <2> QED BY <2>1, <1>0 DEF ShowsCurrentSlots
<1>5. ASSUME NEW i \in 1 .. MaxTokens, KickPlayer(i) PROVE ShowsCurrentSlots'
  BY <1>5 DEF KickPlayer, ShowsCurrentSlots
<1>6. ASSUME NEW r \in Servers, PlayerNews(r) PROVE ShowsCurrentSlots'
  <2>1. to_client[r] # <<>> /\ UNCHANGED <<list, manager>>
    BY <1>6 DEF PlayerNews, NextFrame
  <2>2. \/ UNCHANGED shown
        \/ subs[r] # NoSubs /\ shown' = list[subs[r].own]
        \/ subs[r] # NoSubs /\ shown' = list[subs[r].captured]
    BY <1>6 DEF PlayerNews
  <2> QED BY <2>1, <2>2, <1>1, <1>2, ListenersAreCurrent
<1>7. ASSUME NEW b \in Bots, AddLocalBot(b) PROVE ShowsCurrentSlots'
  BY <1>2, <1>7 DEF AddLocalBot
<1>8. ASSUME NEW j \in 1 .. MaxTokens, ConnectLocalBot(j) PROVE ShowsCurrentSlots'
  BY <1>1, <1>8 DEF ConnectLocalBot, uiVars, slotVars
<1>9. ASSUME NEW p \in Ports, StartServer(p) PROVE ShowsCurrentSlots'
  BY <1>1, <1>9 DEF StartServer, uiVars, slotVars
<1>10. ASSUME ClickStop \/ Unmount \/ LaunchGame PROVE ShowsCurrentSlots'
  BY <1>1, <1>10 DEF ClickStop, StopServer, Unmount, LaunchGame, uiVars, slotVars
<1>11. ASSUME NEW r \in Servers,
              Response(r) \/ Serve(r) \/ ServerConnected(r) \/ ConnectFails(r) \/ ServerExits(r)
       PROVE  ShowsCurrentSlots'
  BY <1>1, <1>11 DEF Response, Serve, ServerConnected, ConnectFails, ServerExits, uiVars, slotVars
<1>12. ASSUME NEW r \in Servers, NEW id, NEW type, ClientMoves(r, id, type)
       PROVE  ShowsCurrentSlots'
  BY <1>1, <1>12 DEF ClientMoves, uiVars, slotVars
<1>13. UNCHANGED vars => ShowsCurrentSlots'
  BY <1>1 DEF vars, uiVars, slotVars
<1> QED
  <2>1. Next \/ UNCHANGED vars
    OBVIOUS
  <2> QED BY <2>1, <1>3, <1>4, <1>5, <1>6, <1>7, <1>8, <1>9, <1>10, <1>11, <1>12, <1>13
          DEF Next, Slots, Controls, Loop, Server
-----------------------------------------------------------------------------
(* The manager knows the players *)

\* A list tells of a player that was added.
Tells(v, id) == \E i \in DOMAIN v : v[i].type = "add" /\ v[i].id = id

\* Two lists and their concatenation tell of the same players.
LEMMA InOneOfTwo ==
    ASSUME NEW S, NEW q \in Seq(S), NEW r \in Seq(S), NEW id
    PROVE  Tells(q, id) \/ Tells(r, id) <=> Tells(q \o r, id)
<1> DEFINE v == q \o r
<1>1. /\ \A i \in DOMAIN v :
            \/ i \in DOMAIN q /\ v[i] = q[i]
            \/ i - Len(q) \in DOMAIN r /\ v[i] = r[i - Len(q)]
      /\ \A i \in DOMAIN q : i \in DOMAIN v /\ v[i] = q[i]
      /\ \A i \in DOMAIN r : Len(q) + i \in DOMAIN v /\ v[Len(q) + i] = r[i]
  BY ConcatIs
<1> HIDE DEF v
<1>2. Tells(v, id) => Tells(q, id) \/ Tells(r, id)
  BY <1>1 DEF Tells
<1>3. Tells(q, id) => Tells(v, id)
  BY <1>1 DEF Tells
<1>4. Tells(r, id) => Tells(v, id)
  BY <1>1 DEF Tells
<1> QED BY <1>2, <1>3, <1>4 DEF v

\* The slot manager learns of its clients from the answers to its requests.
LEMMA ClientsSteps ==
    ASSUME Typed, [Next]_vars
    PROVE  \/ UNCHANGED clients
           \/ /\ RunTask /\ Head(tasks) \in Requests /\ Head(tasks).type = "add"
              /\ PlayerAdded(Head(tasks))
           \/ /\ RunTask /\ Head(tasks) \in Requests /\ Head(tasks).type = "remove"
              /\ PlayerRemoved(Head(tasks))
<1>1. ASSUME RunTask, NEW s \in Servers, Created(s) PROVE UNCHANGED clients
  BY <1>1 DEF Created
<1>2. ASSUME RunTask, StopServer \/ GameStarted PROVE UNCHANGED clients
  BY <1>2 DEF StopServer, GameStarted, slotVars
<1>3. ASSUME NEW n \in SlotCounts, SelectMap(n) PROVE UNCHANGED clients
  BY <1>3 DEF SelectMap, UpdateSlots
<1>4. ASSUME NEW b \in Bots, AddLocalBot(b) PROVE UNCHANGED clients
  BY <1>4 DEF AddLocalBot
<1>5. ASSUME NEW j \in 1 .. MaxTokens, KickPlayer(j) \/ ConnectLocalBot(j)
      PROVE  UNCHANGED clients
  BY <1>5 DEF KickPlayer, ConnectLocalBot, slotVars
<1>6. ASSUME NEW p \in Ports, StartServer(p) PROVE UNCHANGED clients
  BY <1>6 DEF StartServer, slotVars
<1>7. ASSUME ClickStop \/ Unmount \/ LaunchGame PROVE UNCHANGED clients
  BY <1>7 DEF ClickStop, StopServer, Unmount, LaunchGame, slotVars
<1>8. ASSUME NEW r \in Servers, Response(r) \/ PlayerNews(r) \/ Serve(r) PROVE UNCHANGED clients
  BY <1>8 DEF Response, PlayerNews, Serve, slotVars
<1>9. ASSUME NEW r \in Servers, ServerConnected(r) \/ ConnectFails(r) \/ ServerExits(r)
      PROVE  UNCHANGED clients
  BY <1>9 DEF ServerConnected, ConnectFails, ServerExits, slotVars
<1>10. ASSUME NEW r \in Servers, NEW id, NEW type, ClientMoves(r, id, type)
       PROVE  UNCHANGED clients
  BY <1>10 DEF ClientMoves, slotVars
<1>11. UNCHANGED vars => UNCHANGED clients
  BY DEF vars, slotVars
<1> QED
  <2>1. Next \/ UNCHANGED vars
    OBVIOUS
  <2> QED BY <2>1, <1>1, <1>2, <1>3, <1>4, <1>5, <1>6, <1>7, <1>8, <1>9, <1>10, <1>11, RunTaskIs
          DEF Next, Slots, Controls, Loop, Server

\* A control connection that is not read any more stays so.
LEMMA StalledStays ==
    ASSUME Typed, [Next]_vars, NEW s \in Servers, stalled[s]
    PROVE  stalled'[s]
<1>0. stalled \in [Servers -> BOOLEAN]
  BY DEF Typed
<1>1. UNCHANGED stalled => stalled'[s]
  OBVIOUS
<1>2. ASSUME NEW r \in Servers, PlayerNews(r) PROVE stalled'[s]
  <2>1. stalled' = [stalled EXCEPT ![r] = TRUE] \/ UNCHANGED stalled
    BY <1>2 DEF PlayerNews
  <2> QED BY <2>1, <1>0
<1>3. RunTask => UNCHANGED stalled
  BY RunTaskIs
<1>4. ASSUME NEW n \in SlotCounts, SelectMap(n) PROVE UNCHANGED stalled
  BY <1>4 DEF SelectMap, UpdateSlots, loopVars
<1>5. ASSUME NEW b \in Bots, AddLocalBot(b) PROVE UNCHANGED stalled
  BY <1>5 DEF AddLocalBot, loopVars
<1>6. ASSUME NEW j \in 1 .. MaxTokens, KickPlayer(j) \/ ConnectLocalBot(j)
      PROVE  UNCHANGED stalled
  BY <1>6 DEF KickPlayer, ConnectLocalBot, loopVars
<1>7. ASSUME NEW p \in Ports, StartServer(p) PROVE UNCHANGED stalled
  BY <1>7 DEF StartServer, loopVars
<1>8. ASSUME ClickStop \/ Unmount \/ LaunchGame PROVE UNCHANGED stalled
  BY <1>8 DEF ClickStop, StopServer, Unmount, LaunchGame, loopVars
<1>9. ASSUME NEW r \in Servers, Response(r) \/ Serve(r) PROVE UNCHANGED stalled
  BY <1>9 DEF Response, Serve, loopVars
<1>10. ASSUME NEW r \in Servers, ServerConnected(r) \/ ConnectFails(r) \/ ServerExits(r)
       PROVE  UNCHANGED stalled
  BY <1>10 DEF ServerConnected, ConnectFails, ServerExits, loopVars
<1>11. ASSUME NEW r \in Servers, NEW id, NEW type, ClientMoves(r, id, type)
       PROVE  UNCHANGED stalled
  BY <1>11 DEF ClientMoves, loopVars
<1>12. UNCHANGED vars => UNCHANGED stalled
  BY DEF vars, loopVars
<1> QED
  <2>1. Next \/ UNCHANGED vars
    OBVIOUS
  <2> QED BY <2>1, <1>1, <1>2, <1>3, <1>4, <1>5, <1>6, <1>7, <1>8, <1>9, <1>10, <1>11, <1>12
          DEF Next, Slots, Controls, Loop, Server

\* When a game has started, the page does not listen to its server any more.
LEMMA LaunchedIsDeaf ==
    ASSUME Books, Current, RunTask, Head(tasks).type = "start", NEW s \in Servers, Alive(s)
    PROVE  phase[s] = "playing" /\ subs[s] = NoSubs
<1>1. 1 \in DOMAIN Unheard(s) /\ Unheard(s)[1] = Head(tasks)
  BY RunTaskHears DEF Books
<1>2. phase[s] = "playing"
  BY <1>1 DEF Current, CurrentAnswers
<1> QED BY <1>2 DEF Current, CurrentListeners

KnownBy(m, books, id, token) == id \in DOMAIN books[m] /\ books[m][id] = token

\* The page learns of a player from the answer, and forgets it with the answer
\* to its removal: the player is gone from the server then, or its number was
\* given again and that answer is still to come.
LEMMA PlayerStaysKnown ==
    ASSUME LobbyAssumption, Books, Current, OneServerAtATime, [Next]_vars,
           NEW s \in Servers, Alive(s), proc'[s] \in {"up", "killed"}, UNCHANGED manager,
           NEW id \in DOMAIN players'[s],
           id \in DOMAIN players[s] =>
                Tells(Unheard(s), id) \/ KnownBy(manager, clients, id, players[s][id])
    PROVE  \/ Tells(tasks' \o to_client'[s], id)
           \/ KnownBy(manager, clients', id, players'[s][id])
<1> DEFINE u == Unheard(s)
           v == tasks' \o to_client'[s]
<1>0. Typed /\ DOMAIN clients = Managers /\ manager \in Managers
  BY DEF Books, Typed
<1>1. u \in Seq(Anything) /\ Len(u) \in Nat /\ DOMAIN u = 1 .. Len(u)
  BY <1>0, UnheardTyped
<1>2. NumbersAgree(s)
  BY DEF Current
<1>3. CASE Serve(s)
  <2> DEFINE old == Head(to_server[s])
             new == [old EXCEPT !.id = counter[s]]
  <2>1. UNCHANGED clients
    BY <1>3 DEF Serve, slotVars
  <2>2. \/ v = u /\ UNCHANGED lobbyVars
        \/ /\ old.type = "add"
           /\ players'[s] = With(players[s], counter[s], old.token)
           /\ v = Append(u, new) /\ new \in Requests
        \/ /\ players'[s] = [i \in DOMAIN players[s] \ {old.id} |-> players[s][i]]
           /\ v = Append(u, old)
        \/ UNCHANGED players /\ v = Append(u, old)
    BY <1>0, <1>3, ServedIsLast
  <2>3. old \in Requests
    BY <1>0, <1>3, ServeIs
  <2>4. new.type = old.type /\ new.id = counter[s]
    BY <2>3 DEF Requests
  <2> HIDE DEF u, v, old, new
  <2>5. ASSUME NEW e \in Requests, v = Append(u, e)
        PROVE  (Tells(u, id) => Tells(v, id))
               /\ (e.type = "add" /\ e.id = id => Tells(v, id))
    <3>1. e \in Anything
      BY DEF Anything
    <3>2. /\ \A i \in DOMAIN u : i \in DOMAIN v /\ v[i] = u[i]
          /\ Len(u) + 1 \in DOMAIN v /\ v[Len(u) + 1] = e
      BY <1>1, <2>5, <3>1, AppendIs
    <3> QED BY <3>2 DEF Tells
  <2>6. CASE id \in DOMAIN players[s] /\ players'[s][id] = players[s][id]
             /\ \/ v = u
                \/ \E e \in Requests : v = Append(u, e)
    <3>1. Tells(u, id) \/ KnownBy(manager, clients, id, players[s][id])
      BY <2>6 DEF u
    <3> QED BY <3>1, <2>1, <2>5, <2>6 DEF v
  <2>7. CASE old.type = "add" /\ id = counter[s] /\ v = Append(u, new) /\ new \in Requests
    BY <2>4, <2>5, <2>7 DEF v
  <2>8. ASSUME players'[s] = With(players[s], counter[s], old.token)
        PROVE  id = counter[s] \/ (id \in DOMAIN players[s] /\ players'[s][id] = players[s][id])
    BY <2>8 DEF With
  <2>9. ASSUME players'[s] = [i \in DOMAIN players[s] \ {old.id} |-> players[s][i]]
        PROVE  id \in DOMAIN players[s] /\ players'[s][id] = players[s][id]
    BY <2>9
  <2>10. ASSUME UNCHANGED players
         PROVE  id \in DOMAIN players[s] /\ players'[s][id] = players[s][id]
    BY <2>10
  <2> QED BY <2>2, <2>3, <2>6, <2>7, <2>8, <2>9, <2>10 DEF lobbyVars
<1>4. CASE /\ AddsKept(u, v) \/ (RunTask /\ Head(tasks).type = "add")
           /\ players'[s] = players[s]
  <2> DEFINE first == Head(tasks)
  <2>0. id \in DOMAIN players[s] /\ players'[s][id] = players[s][id]
        /\ (Tells(u, id) \/ KnownBy(manager, clients, id, players[s][id]))
    BY <1>4
  <2>1. ASSUME RunTask
        PROVE  /\ \A k \in DOMAIN u : u[k] = first \/ \E i \in DOMAIN v : v[i] = u[k]
               /\ 1 \in DOMAIN u /\ u[1] = first /\ tasks # <<>>
    <3>1. /\ u # <<>> /\ Head(u) = first /\ 1 \in DOMAIN u /\ u[1] = first /\ v = Tail(u)
      BY <1>0, <2>1, RunTaskHears
    <3>2. tasks # <<>>
      BY <2>1 DEF RunTask
    <3> HIDE DEF u, v
    <3> QED BY <1>1, <3>1, <3>2, CarriedTail
  <2>2. /\ \A i \in DOMAIN u :
            /\ u[i].type = "add" =>
                (u[i].id \in DOMAIN players[s] => players[s][u[i].id] = u[i].token)
            /\ u[i].type = "remove" =>
                \/ u[i].id \notin DOMAIN players[s]
                \/ \E j \in DOMAIN u : j > i /\ u[j].type = "add" /\ u[j].id = u[i].id
    BY <1>2 DEF NumbersAgree
  <2> HIDE DEF u, v, first
  <2>3. AddsKept(u, v) /\ Tells(u, id) => Tells(v, id)
    BY DEF AddsKept, Tells
  <2>4. ASSUME RunTask, first \in Requests, first.type = "add", PlayerAdded(first)
        PROVE  Tells(v, id) \/ KnownBy(manager, clients', id, players[s][id])
    <3>1. first.manager = manager
      BY <2>1, <2>4, AnswerIsCurrent DEF first
    <3>2. clients'[manager] = With(clients[manager], first.id, first.token)
      BY <1>0, <2>4, <3>1 DEF PlayerAdded, ClientsWith
    <3>3. /\ DOMAIN clients'[manager] = DOMAIN clients[manager] \union {first.id}
          /\ clients'[manager][first.id] = first.token
          /\ \A i \in DOMAIN clients[manager] :
                i # first.id => clients'[manager][i] = clients[manager][i]
      BY <3>2 DEF With
    <3>4. CASE first.id = id
      <4>1. players[s][id] = first.token
        BY <2>0, <2>1, <2>2, <2>4, <3>4
      <4> QED BY <3>3, <3>4, <4>1 DEF KnownBy
    <3>5. CASE first.id # id
      <4>1. CASE KnownBy(manager, clients, id, players[s][id])
        BY <3>3, <3>5, <4>1 DEF KnownBy
      <4>2. CASE Tells(u, id)
        <5>1. PICK k \in DOMAIN u : u[k].type = "add" /\ u[k].id = id
          BY <4>2 DEF Tells
        <5>2. u[k] # first
          BY <5>1, <3>5
        <5> QED BY <5>1, <5>2, <2>1, <2>4 DEF Tells
      <4> QED BY <4>1, <4>2, <2>0
    <3> QED BY <3>4, <3>5
  <2>5. ASSUME RunTask, first \in Requests, first.type = "remove", PlayerRemoved(first),
               KnownBy(manager, clients, id, players[s][id])
        PROVE  Tells(v, id) \/ KnownBy(manager, clients', id, players[s][id])
    <3>1. first.manager = manager
      BY <2>1, <2>5, AnswerIsCurrent DEF first
    <3>2. clients'[manager] = [i \in DOMAIN clients[manager] \ {first.id} |-> clients[manager][i]]
      BY <1>0, <2>5, <3>1 DEF PlayerRemoved
    <3>3. CASE first.id = id
      <4>1. PICK j \in DOMAIN u : u[j].type = "add" /\ u[j].id = id
        BY <2>0, <2>1, <2>2, <2>5, <3>3
      <4>2. u[j] # first
        BY <4>1, <2>5
      <4> QED BY <4>1, <4>2, <2>1, <2>5 DEF Tells
    <3>4. CASE first.id # id
      BY <2>5, <3>2, <3>4 DEF KnownBy
    <3> QED BY <3>3, <3>4
  <2>6. CASE KnownBy(manager, clients, id, players[s][id]) /\ UNCHANGED clients
    BY <2>0, <2>6
  <2>7. \/ UNCHANGED clients
        \/ RunTask /\ first \in Requests /\ first.type = "add" /\ PlayerAdded(first)
        \/ RunTask /\ first \in Requests /\ first.type = "remove" /\ PlayerRemoved(first)
    BY <1>0, ClientsSteps DEF first
  <2>8. ASSUME RunTask, first.type = "add"
        PROVE  first \in Requests /\ PlayerAdded(first)
    BY <1>0, <2>8, RunTaskIs DEF first
  <2>9. AddsKept(u, v) \/ (RunTask /\ first.type = "add")
    BY <1>4 DEF first
  <2>10. Tells(v, id) \/ KnownBy(manager, clients', id, players[s][id])
    <3>1. CASE Tells(u, id) /\ ~(RunTask /\ first.type = "add")
      BY <3>1, <2>3, <2>9
    <3>2. CASE RunTask /\ first.type = "add"
      BY <3>2, <2>4, <2>8
    <3>3. CASE KnownBy(manager, clients, id, players[s][id])
      BY <3>3, <2>4, <2>5, <2>6, <2>7, <2>0
    <3> QED BY <3>1, <3>2, <3>3, <2>0
  <2> QED BY <2>0, <2>10 DEF v
<1> QED BY <1>3, <1>4, UnheardSteps

LEMMA KnowsStep ==
    ASSUME LobbyAssumption, Books, Current, OneServerAtATime, [Next]_vars
    PROVE  ManagerKnowsPlayers'
<1>0. /\ Typed /\ manager \in Managers /\ DOMAIN clients = Managers
      /\ stalled \in [Servers -> BOOLEAN]
      /\ proc \in [Servers -> {"idle", "up", "killed", "failing", "dead"}]
      /\ Typed'
  BY TypedStep DEF Books, Typed
<1>1. SUFFICES ASSUME NEW s \in Servers, subs'[s] # NoSubs, ~stalled'[s], proc'[s] = "up",
                      NEW id \in DOMAIN players'[s]
               PROVE  \/ AddUnderWay(s, id)'
                      \/ KnownBy(subs'[s].own, clients', id, players'[s][id])
  BY DEF ManagerKnowsPlayers, KnownBy
<1>2. Alive(s)
  BY <1>1, NewlyAlive
<1>3. proc[s] = "up"
  <2>1. \A p \in Ports : StartServer(p) => proc[s] = "up"
    <3> SUFFICES ASSUME NEW p \in Ports, StartServer(p) PROVE proc[s] = "up"
      OBVIOUS
    <3>1. PICK r \in Servers :
                /\ proc[r] = "idle"
                /\ proc' = [proc EXCEPT ![r] =
                        IF \E q \in Servers : proc[q] \in {"up", "killed"} /\ port[q] = p
                        THEN "failing" ELSE "up"]
      BY DEF StartServer
    <3>2. r # s
      BY <3>1, <1>2 DEF Alive
    <3> QED BY <3>1, <3>2, <1>0, <1>1
  <2>2. \A r \in Servers : ServerExits(r) => proc[s] = "up"
    <3> SUFFICES ASSUME NEW r \in Servers, ServerExits(r) PROVE proc[s] = "up"
      OBVIOUS
    <3>1. proc' = [proc EXCEPT ![r] = "dead"]
      BY DEF ServerExits
    <3> QED BY <3>1, <1>0, <1>1
  <2> QED BY <1>0, <1>1, <2>1, <2>2, ProcSteps
<1>4. UNCHANGED manager
  <2> SUFFICES ASSUME RunTask, Head(tasks).type = "start", Launched PROVE FALSE
    BY <1>0, ManagerSteps
  <2>1. subs[s] = NoSubs
    BY <1>2, LaunchedIsDeaf
  <2> QED BY <2>1, <1>1 DEF Launched, runnerVars
<1>5. subs'[s] = subs[s] /\ subs[s].own = manager
  <2>1. subs'[s] = subs[s]
    <3> SUFFICES ASSUME RunTask, Head(tasks) = CreatedTask(s) PROVE FALSE
      BY <1>0, <1>1, SubsSteps
    <3>1. DOMAIN players[s] = {}
      BY CreatedIsFirst
    <3>2. UNCHANGED players
      BY <1>0, RunTaskIs DEF lobbyVars
    <3> QED BY <3>1, <3>2, <1>1
  <2>2. subs[s] = [own |-> manager, captured |-> manager]
    BY <2>1, <1>1, <1>2 DEF Current, CurrentListeners
  <2> QED BY <2>1, <2>2
<1>6. ~stalled[s]
  BY <1>0, <1>1, StalledStays
<1>7. ASSUME id \in DOMAIN players[s]
      PROVE  Tells(Unheard(s), id) \/ KnownBy(manager, clients, id, players[s][id])
  <2>1. AddUnderWay(s, id) \/ KnownBy(manager, clients, id, players[s][id])
    BY <1>1, <1>3, <1>5, <1>6, <1>7 DEF Current, ManagerKnowsPlayers, KnownBy
  <2>2. tasks \in Seq(Anything) /\ to_client[s] \in Seq(Anything)
    BY <1>0, UnheardTyped
  <2>3. AddUnderWay(s, id) => Tells(tasks \o to_client[s], id)
    <3>1. AddUnderWay(s, id) => Tells(tasks, id) \/ Tells(to_client[s], id)
      BY DEF AddUnderWay, Tells
    <3> QED BY <2>2, <3>1, InOneOfTwo
  <2> QED BY <2>1, <2>3 DEF Unheard
<1>8. Tells(tasks' \o to_client'[s], id) \/ KnownBy(manager, clients', id, players'[s][id])
  BY <1>1, <1>2, <1>4, <1>7, PlayerStaysKnown
<1>9. Tells(tasks' \o to_client'[s], id) => AddUnderWay(s, id)'
  <2>1. tasks' \in Seq(Anything) /\ to_client'[s] \in Seq(Anything)
    <3>1. tasks' \in Seq(Requests \union Settlements)
          /\ to_client'[s] \in Seq(Requests \union News)
      BY <1>0 DEF Typed
    <3>2. Requests \union Settlements \subseteq Anything /\ Requests \union News \subseteq Anything
      BY DEF Anything
    <3> QED BY <3>1, <3>2, SeqMonotonic
  <2>2. Tells(tasks' \o to_client'[s], id) => Tells(tasks', id) \/ Tells(to_client'[s], id)
    BY <2>1, InOneOfTwo
  <2>3. Tells(tasks', id) \/ Tells(to_client'[s], id) => AddUnderWay(s, id)'
    BY DEF AddUnderWay, Tells
  <2> QED BY <2>2, <2>3
<1> QED BY <1>5, <1>8, <1>9
-----------------------------------------------------------------------------
(* Current is an invariant, as long as one server is up at a time *)

\* The next match has a manager of its own: nothing on its way is for another
\* one, since the answer to startGame is the last one the page hears.
LEMMA LaunchedStep ==
    ASSUME LobbyAssumption, Books, Current, OneServerAtATime, [Next]_vars,
           RunTask, Head(tasks).type = "start", Launched,
           NEW s \in Servers, proc'[s] \in {"up", "killed"}
    PROVE  CurrentAnswers(s)' /\ CurrentListeners(s)' /\ NumbersAgree(s)'
<1> DEFINE u == Unheard(s)
           v == tasks' \o to_client'[s]
<1>0. Typed
  BY DEF Books
<1>1. UNCHANGED <<proc, subs, captured, promise, to_server>>
  BY DEF Launched, procVars, runnerVars, netVars
<1>2. Alive(s)
  BY <1>1 DEF Alive
<1>3. UNCHANGED <<phase, players, counter>>
  BY <1>0, RunTaskIs DEF lobbyVars
<1>4. phase[s] = "playing" /\ subs[s] = NoSubs
  BY <1>2, LaunchedIsDeaf
<1>5. Handed(s)'
  <2>1. Head(tasks) = tasks[1] /\ 1 \in DOMAIN tasks
    BY <1>0, TaskIs, RunTaskIs
  <2>2. PICK r \in Servers : Alive(r) /\ Handed(r)
    BY <2>1 DEF Current, AnswersOfTheLiving
  <2>3. r = s
    BY <1>2, <2>2 DEF OneServerAtATime
  <2> QED BY <2>2, <2>3, HandedSteps
<1>6. \A i \in DOMAIN v : v[i].type \notin {"add", "remove"}
  <2>0. u \in Seq(Anything) /\ DOMAIN u = 1 .. Len(u) /\ Len(u) \in Nat
    BY <1>0, UnheardTyped
  <2>1. u # <<>> /\ v = Tail(u) /\ 1 \in DOMAIN u /\ u[1] = Head(tasks)
    BY <1>0, RunTaskHears
  <2>2. \A i \in DOMAIN u : u[i].type = "start" =>
            \A j \in DOMAIN u : j > i => u[j].type \notin {"add", "remove"}
    BY <1>2 DEF Current, CurrentAnswers
  <2> HIDE DEF u, v
  <2>3. /\ \A i \in DOMAIN v : i + 1 \in DOMAIN u /\ v[i] = u[i + 1]
        /\ DOMAIN v = 1 .. Len(v)
    BY <2>0, <2>1, TailIs, LenProperties
  <2>4. Len(v) \in Nat
    BY <2>0, <2>1, TailIs, LenProperties
  <2>5. \A j \in DOMAIN u : j > 1 => u[j].type \notin {"add", "remove"}
    BY <2>1, <2>2
  <2> QED BY <2>3, <2>4, <2>5
<1>7. Unheard(s)' = v
  BY DEF Unheard
<1> HIDE DEF v
<1>8. CurrentAnswers(s)'
  BY <1>3, <1>4, <1>6, <1>7 DEF CurrentAnswers, ForManager
<1>9. CurrentListeners(s)'
  BY <1>1, <1>3, <1>4, <1>5 DEF CurrentListeners
<1>10. NumbersAgree(s)'
  BY <1>6, <1>7 DEF NumbersAgree
<1> QED BY <1>8, <1>9, <1>10

LEMMA CurrentStep ==
    ASSUME LobbyAssumption, Books, Current, OneServerAtATime, [Next]_vars
    PROVE  Current'
<1>0. Typed
  BY DEF Books
<1>1. ASSUME NEW s \in Servers, proc'[s] \in {"up", "killed"}
      PROVE  CurrentAnswers(s)' /\ CurrentListeners(s)' /\ NumbersAgree(s)'
  <2>1. CASE ~Alive(s)
    BY <1>1, <2>1, NewlyAlive
  <2>2. CASE Alive(s) /\ UNCHANGED manager
    <3>1. CurrentAnswers(s) /\ CurrentListeners(s) /\ NumbersAgree(s)
      BY <2>2 DEF Current
    <3> QED BY <1>1, <2>2, <3>1, LivingStep
  <2>3. CASE RunTask /\ Head(tasks).type = "start" /\ Launched
    BY <1>1, <2>3, LaunchedStep
  <2> QED BY <1>0, <2>1, <2>2, <2>3, ManagerSteps
<1>2. AnswersOfTheLiving'
  BY AnswersStep DEF Current
<1> QED BY <1>1, <1>2, ShownStep, KnowsStep DEF Current, Alive

LEMMA CurrentInit ==
    ASSUME LobbyAssumption, Init
    PROVE  Current
<1>1. 1 \in Managers
  BY DEF Managers, LobbyAssumption
<1>2. /\ \A s \in Servers : ~Alive(s) /\ subs[s] = NoSubs
      /\ DOMAIN tasks = {} /\ shown = list[manager]
  BY <1>1 DEF Init, Alive
<1> QED BY <1>2 DEF Current, AnswersOfTheLiving, ShowsCurrentSlots, ManagerKnowsPlayers

\* While no server is started before the last one has ended, the page, the slot
\* manager and the server agree on which slot is whose, however early the user
\* clicks and however the frames are cut into chunks (SlotManager.ts:104-133,
\* Lobby.tsx:119-192, 341-357).
THEOREM OneServerBooksAgree ==
    LobbyAssumption => (Spec /\ []OneServerAtATime => []LobbyBooksAgree)
<1> SUFFICES ASSUME LobbyAssumption PROVE Spec /\ []OneServerAtATime => []LobbyBooksAgree
  OBVIOUS
<1>1. Spec => []Books
  BY LobbySlotsBooks, PTL
<1>2. Init => Current
  BY CurrentInit
<1>3. Books /\ Current /\ OneServerAtATime /\ [Next]_vars => Current'
  BY CurrentStep
<1>4. Books /\ Current => LobbyBooksAgree
  BY DEF Books, Current, LobbyBooksAgree, ServersHanded, SavedServers, NeverKillsAMatch
<1> QED BY <1>1, <1>2, <1>3, <1>4, PTL DEF Spec
-----------------------------------------------------------------------------
(* One port, one server *)

\* The user keeps the port of the configuration.
PortIsKept == \A p, q \in Ports : p = q

\* A server that is up has the port it was started for, and no other has it.
OneOnThePort ==
    /\ proc \in [Servers -> {"idle", "up", "killed", "failing", "dead"}]
    /\ port \in [Servers -> Ports \union {None}]
    /\ \A s \in Servers : Alive(s) => port[s] \in Ports
    /\ OneServerAtATime

LEMMA PortStep ==
    ASSUME PortIsKept, Books, Books', OneOnThePort, [Next]_vars
    PROVE  OneOnThePort'
<1>0. /\ Typed
      /\ proc \in [Servers -> {"idle", "up", "killed", "failing", "dead"}]
      /\ port \in [Servers -> Ports \union {None}]
      /\ \A s \in Servers : proc[s] \in {"up", "killed"} => port[s] \in Ports
      /\ \A r, s \in Servers :
            proc[r] \in {"up", "killed"} /\ proc[s] \in {"up", "killed"} => r = s
  BY DEF Books, OneOnThePort, OneServerAtATime, Alive
<1>1. ASSUME NEW p \in Ports, StartServer(p) PROVE OneOnThePort'
  <2>1. PICK r \in Servers :
            /\ proc[r] = "idle"
            /\ proc' = [proc EXCEPT ![r] =
                    IF \E q \in Servers : proc[q] \in {"up", "killed"} /\ port[q] = p
                    THEN "failing" ELSE "up"]
            /\ port' = [port EXCEPT ![r] = p]
    BY <1>1 DEF StartServer
  <2>2. /\ \A s \in Servers : s # r => proc'[s] = proc[s] /\ port'[s] = port[s]
        /\ port'[r] = p /\ proc'[r] \in {"failing", "up"}
    BY <2>1, <1>0
  <2>3. proc'[r] = "up" => \A q \in Servers : proc[q] \notin {"up", "killed"}
    <3>1. \A q \in Servers : proc[q] \in {"up", "killed"} => port[q] = p
      BY <1>0 DEF PortIsKept
    <3>2. (\E q \in Servers : proc[q] \in {"up", "killed"} /\ port[q] = p) => proc'[r] = "failing"
      BY <2>1, <1>0
    <3> QED BY <3>1, <3>2
  <2>4. /\ proc' \in [Servers -> {"idle", "up", "killed", "failing", "dead"}]
        /\ port' \in [Servers -> Ports \union {None}]
    BY <2>1, <1>0
  <2>5. \A s \in Servers : proc'[s] \in {"up", "killed"} => port'[s] \in Ports
    BY <2>2, <1>0
  <2>6. \A q, s \in Servers :
            proc'[q] \in {"up", "killed"} /\ proc'[s] \in {"up", "killed"} => q = s
    BY <2>2, <2>3, <1>0
  <2> QED BY <2>4, <2>5, <2>6 DEF OneOnThePort, OneServerAtATime, Alive
<1>2. ASSUME UNCHANGED port,
             proc' \in [Servers -> {"idle", "up", "killed", "failing", "dead"}],
             \A s \in Servers : proc'[s] \in {"up", "killed"} => proc[s] \in {"up", "killed"}
      PROVE  OneOnThePort'
  BY <1>0, <1>2 DEF OneOnThePort, OneServerAtATime, Alive
<1>3. Books' => proc' \in [Servers -> {"idle", "up", "killed", "failing", "dead"}]
  BY DEF Books, Typed
<1>4. ASSUME ~ \E p \in Ports : StartServer(p)
      PROVE  UNCHANGED port
  <2>1. ASSUME RunTask PROVE UNCHANGED port
    BY <1>0, <2>1, RunTaskIs DEF Created, StopServer, PlayerAdded, PlayerRemoved, GameStarted,
       procVars
  <2>2. ASSUME NEW n \in SlotCounts, SelectMap(n) PROVE UNCHANGED port
    BY <2>2 DEF SelectMap, UpdateSlots, procVars
  <2>3. ASSUME NEW b \in Bots, AddLocalBot(b) PROVE UNCHANGED port
    BY <2>3 DEF AddLocalBot, procVars
  <2>4. ASSUME NEW j \in 1 .. MaxTokens, KickPlayer(j) \/ ConnectLocalBot(j) PROVE UNCHANGED port
    BY <2>4 DEF KickPlayer, ConnectLocalBot, procVars
  <2>5. ASSUME ClickStop \/ Unmount \/ LaunchGame PROVE UNCHANGED port
    BY <2>5 DEF ClickStop, StopServer, Unmount, LaunchGame, procVars
  <2>6. ASSUME NEW r \in Servers, Response(r) \/ PlayerNews(r) \/ Serve(r) PROVE UNCHANGED port
    BY <2>6 DEF Response, PlayerNews, Serve, procVars
  <2>7. ASSUME NEW r \in Servers, ServerConnected(r) \/ ConnectFails(r) \/ ServerExits(r)
        PROVE  UNCHANGED port
    BY <2>7 DEF ServerConnected, ConnectFails, ServerExits, procVars
  <2>8. ASSUME NEW r \in Servers, NEW id, NEW type, ClientMoves(r, id, type) PROVE UNCHANGED port
    BY <2>8 DEF ClientMoves, procVars
  <2>9. UNCHANGED vars => UNCHANGED port
    BY DEF vars, procVars
  <2>10. Next \/ UNCHANGED vars
    OBVIOUS
  <2> QED BY <1>4, <2>1, <2>2, <2>3, <2>4, <2>5, <2>6, <2>7, <2>8, <2>9, <2>10
          DEF Next, Slots, Controls, Loop, Server
<1>5. ASSUME NEW r \in Servers, ServerExits(r)
      PROVE  \A s \in Servers : proc'[s] \in {"up", "killed"} => proc[s] \in {"up", "killed"}
  <2>1. proc' = [proc EXCEPT ![r] = "dead"]
    BY <1>5 DEF ServerExits
  <2> QED BY <2>1, <1>0
<1>6. CASE \E p \in Ports : StartServer(p)
  BY <1>1, <1>6
<1>7. ASSUME ~ \E p \in Ports : StartServer(p) PROVE OneOnThePort'
  <2>1. \A s \in Servers : proc'[s] \in {"up", "killed"} => proc[s] \in {"up", "killed"}
    BY <1>0, <1>5, <1>7, ProcSteps
  <2> QED BY <1>2, <1>3, <1>4, <1>7, <2>1
<1> QED BY <1>6, <1>7

\* A server that is up keeps the next one from its port: with one port, a second
\* server fails (MatchRunner.ts:37-64), and the books always agree.
THEOREM BooksAgreeOnOnePort ==
    LobbyAssumption /\ PortIsKept /\ Spec => []LobbyBooksAgree
<1> SUFFICES ASSUME LobbyAssumption, PortIsKept PROVE Spec => []LobbyBooksAgree
  OBVIOUS
<1>1. Spec => []Books
  BY LobbySlotsBooks, PTL
<1>2. Init => OneOnThePort
  BY DEF Init, OneOnThePort, OneServerAtATime, Alive
<1>3. Books /\ Books' /\ OneOnThePort /\ [Next]_vars => OneOnThePort'
  BY PortStep
<1>4. OneOnThePort => OneServerAtATime
  BY DEF OneOnThePort
<1>5. Spec /\ []OneServerAtATime => []LobbyBooksAgree
  BY OneServerBooksAgree
<1> QED BY <1>1, <1>2, <1>3, <1>4, <1>5, PTL DEF Spec
-----------------------------------------------------------------------------
(* The log of a match that is viewed *)

PlayerTurns == [state : Nat, command : Nat, action : View!Outcomes \union {"none"}]

LogTyped ==
    /\ owners \in Seq([{} -> Viewers \union {Unowned}])
    /\ Len(owners) \in 1 .. MaxTurns + 1
    /\ outcome \in [Viewers -> Seq(View!Outcomes)]
    /\ heard \in [Viewers -> Nat] /\ replied \in [Viewers -> Nat]
    /\ received \in [Viewers -> Nat]
    /\ reported \in 0 .. Len(owners)
    /\ log \in [states : Seq(Nat), turns : [Viewers -> Seq(PlayerTurns)]]

\* The states of the control client come in order.
StatesInOrder ==
    /\ Len(log.states) = reported
    /\ \A i \in 1 .. reported : log.states[i] = i

\* What player p has heard and its bot printed, and the turns made of it.
TurnsInOrder(p) ==
    /\ Len(outcome[p]) <= Len(owners) /\ Len(outcome[p]) >= Len(owners) - 1
    /\ heard[p] <= 2 * Len(owners) - 1
    /\ Len(log.turns[p]) = View!Steps(heard[p])
    /\ replied[p] <= View!Steps(heard[p]) /\ received[p] <= replied[p]
    /\ \A i \in 1 .. Len(log.turns[p]) :
         /\ log.turns[p][i].state = i
         /\ log.turns[p][i].command <= i
         /\ log.turns[p][i].action = IF 2 * i <= heard[p] THEN outcome[p][i] ELSE "none"

\* A line that the server read in time is filed under its turn: the bot
\* printed it before it could be prompted again.
LinesInTime(p) ==
    /\ replied[p] = Len(log.turns[p]) /\ replied[p] # 0 =>
         log.turns[p][replied[p]].command = replied[p]
    /\ \A i \in 1 .. Len(outcome[p]) : outcome[p][i] # "timeout" =>
         /\ i <= replied[p]
         /\ log.turns[p][i].command = i

ViewInv ==
    /\ LogTyped /\ StatesInOrder
    /\ \A p \in Viewers : TurnsInOrder(p) /\ LinesInTime(p)

LEMMA StepsFacts ==
  ASSUME NEW h \in Nat
  PROVE  /\ View!Steps(h) \in Nat
         /\ \/ /\ (h + 1) % 2 = 1 /\ h = 2 * View!Steps(h)
               /\ View!Steps(h + 1) = View!Steps(h) + 1
            \/ /\ (h + 1) % 2 = 0 /\ h + 1 = 2 * View!Steps(h)
               /\ View!Steps(h + 1) = View!Steps(h) /\ (h + 1) \div 2 = View!Steps(h)
BY DEF View!Steps

LEMMA ViewInit ==
  ASSUME View!LogAssumption, View!Init
  PROVE  ViewInv
<1>1. PICK o \in View!FirstStates : owners = <<o>>
  BY DEF View!Init
<1>2. o \in [{} -> Viewers \union {Unowned}] /\ MaxTurns \in Nat
  BY DEF View!FirstStates, View!LogAssumption
<1>3. owners \in Seq([{} -> Viewers \union {Unowned}]) /\ Len(owners) = 1
  BY <1>1, <1>2
<1>4. /\ outcome = [p \in Viewers |-> <<>>] /\ heard = [p \in Viewers |-> 0]
      /\ replied = [p \in Viewers |-> 0] /\ received = [p \in Viewers |-> 0]
      /\ reported = 0 /\ log = [states |-> <<>>, turns |-> [p \in Viewers |-> <<>>]]
  BY DEF View!Init, View!EmptyLog
<1>5. View!Steps(0) = 0
  BY DEF View!Steps
<1>6. LogTyped
  BY <1>2, <1>3, <1>4 DEF LogTyped
<1>7. StatesInOrder
  BY <1>4 DEF StatesInOrder
<1>8. ASSUME NEW p \in Viewers PROVE TurnsInOrder(p) /\ LinesInTime(p)
  BY <1>3, <1>4, <1>5 DEF TurnsInOrder, LinesInTime
<1> QED
  BY <1>6, <1>7, <1>8 DEF ViewInv

\* What a record makes of the turns of a player.
LEMMA FiledFacts ==
  ASSUME NEW t \in Seq(PlayerTurns), NEW v
  PROVE  /\ v \in Nat => 
              /\ View!AddRecord(t, [type |-> "step", value |-> v])
                   = Append(t, [state |-> v, command |-> 0, action |-> "none"])
         /\ Len(t) # 0 => 
              /\ View!AddRecord(t, [type |-> "command", value |-> v])
                   = [t EXCEPT ![Len(t)] = [state |-> t[Len(t)].state, command |-> v,
                                            action |-> t[Len(t)].action]]
              /\ View!AddRecord(t, [type |-> "player_action", value |-> v])
                   = [t EXCEPT ![Len(t)] = [state |-> t[Len(t)].state, command |-> t[Len(t)].command,
                                            action |-> v]]
<1>1. View!AddRecord(t, [type |-> "step", value |-> v])
        = Append(t, [state |-> v, command |-> 0, action |-> "none"])
  BY DEF View!AddRecord, View!PlayerTurn, View!NoCommand
<1>2. ASSUME Len(t) # 0
      PROVE  /\ t[Len(t)] = [state |-> t[Len(t)].state, command |-> t[Len(t)].command,
                             action |-> t[Len(t)].action]
             /\ View!Last(t) = t[Len(t)]
  <2>1. t[Len(t)] \in PlayerTurns
    BY <1>2
  <2> QED BY <2>1 DEF PlayerTurns, View!Last
<1>3. ASSUME Len(t) # 0
      PROVE  View!AddRecord(t, [type |-> "command", value |-> v])
                   = [t EXCEPT ![Len(t)] = [state |-> t[Len(t)].state, command |-> v,
                                            action |-> t[Len(t)].action]]
  <2>1. [t[Len(t)] EXCEPT !.command = v] = [state |-> t[Len(t)].state, command |-> v,
                                            action |-> t[Len(t)].action]
    BY <1>2, <1>3
  <2>2. View!AddRecord(t, [type |-> "command", value |-> v])
          = View!UpdateLast(t, View!WithCommand(View!Last(t), v))
    BY DEF View!AddRecord, View!Turns
  <2> QED
    BY <1>2, <1>3, <2>1, <2>2 DEF View!UpdateLast, View!WithCommand
<1>4. ASSUME Len(t) # 0
      PROVE  View!AddRecord(t, [type |-> "player_action", value |-> v])
                   = [t EXCEPT ![Len(t)] = [state |-> t[Len(t)].state, command |-> t[Len(t)].command,
                                            action |-> v]]
  <2>1. [t[Len(t)] EXCEPT !.action = v] = [state |-> t[Len(t)].state, command |-> t[Len(t)].command,
                                            action |-> v]
    BY <1>2, <1>4
  <2>2. View!AddRecord(t, [type |-> "player_action", value |-> v])
          = View!UpdateLast(t, [View!Last(t) EXCEPT !.action = v])
    BY DEF View!AddRecord, View!Filed
  <2> QED
    BY <1>2, <1>4, <2>1, <2>2 DEF View!UpdateLast
<1> QED
  BY <1>1, <1>3, <1>4

LEMMA LogIs ==
  ASSUME LogTyped, NEW p \in Viewers, NEW type, NEW v, View!Log(p, type, v)
  PROVE  log' = [states |-> log.states,
                 turns |-> [log.turns EXCEPT ![p] =
                              View!AddRecord(log.turns[p], [type |-> type, value |-> v])]]
<1>1. log' = View!PlayerEntry(log, p, [type |-> type, value |-> v])
  BY DEF View!Log, View!AddHosted
<1>2. log = [states |-> log.states, turns |-> log.turns] /\ DOMAIN log.turns = Viewers
  BY DEF LogTyped
<1> QED
  BY <1>1, <1>2 DEF View!PlayerEntry

\* The steps of a player's client change its turns only.
LEMMA PlayerHearsInv ==
  ASSUME View!LogAssumption, ViewInv, NEW q \in Viewers, View!PlayerHears(q)
  PROVE  ViewInv'
<1>0. LogTyped /\ StatesInOrder /\ TurnsInOrder(q) /\ LinesInTime(q)
  BY DEF ViewInv
<1> DEFINE h == heard[q]
           t == log.turns[q]
<1>1. /\ h \in Nat /\ h + 1 \in Nat /\ h < 2 * Len(owners) - 1
      /\ heard' = [heard EXCEPT ![q] = h + 1] /\ heard'[q] = h + 1
      /\ UNCHANGED <<owners, outcome, replied, received, reported>>
      /\ Len(owners) \in Nat /\ replied[q] \in Nat
      /\ t \in Seq(PlayerTurns) /\ Len(t) \in Nat /\ outcome[q] \in Seq(View!Outcomes)
      /\ Len(outcome[q]) \in Nat
  BY SMTT(30), <1>0 DEF LogTyped, View!PlayerHears, View!Turn, View!gameVars
<1>2. \A n \in 1 .. Len(t) : t[n] \in PlayerTurns
  BY <1>1
<1>3. CASE (h + 1) % 2 = 1
  <2>1. /\ h = 2 * View!Steps(h) /\ View!Steps(h) \in Nat /\ View!Steps(h + 1) = View!Steps(h) + 1
        /\ Len(t) = View!Steps(h)
    <3>1. Len(t) = View!Steps(h)
      BY <1>0 DEF TurnsInOrder
    <3>2. h \in Nat
      BY <1>1
    <3> HIDE DEF h, t
    <3>3. (h + 1) % 2 = 1 => (h + 1) % 2 # 0
      OBVIOUS
    <3> QED BY <1>3, <3>1, <3>2, <3>3, StepsFacts, Zenon
  <2> DEFINE n == Len(t) + 1
             u == Append(t, [state |-> n, command |-> 0, action |-> "none"])
  <2>2. View!Log(q, "step", n)
    BY <1>1, <1>3, <2>1 DEF View!PlayerHears
  <2>3. log' = [states |-> log.states, turns |-> [log.turns EXCEPT ![q] = u]]
    <3>1. t \in Seq(PlayerTurns) /\ n \in Nat
      BY <1>1
    <3>2. View!AddRecord(t, [type |-> "step", value |-> n]) = u
      <4> HIDE DEF t, n
      <4> QED BY <3>1, FiledFacts, Zenon DEF u
    <3> HIDE DEF n, u
    <3> QED BY <1>0, <2>2, <3>2, LogIs
  <2>4. [state |-> n, command |-> 0, action |-> "none"] \in PlayerTurns
    BY <1>1 DEF PlayerTurns
  <2>5. /\ u \in Seq(PlayerTurns) /\ Len(u) = n
        /\ \A i \in 1 .. Len(t) : u[i] = t[i]
        /\ u[n] = [state |-> n, command |-> 0, action |-> "none"]
    BY <1>1, <2>4
  <2> HIDE DEF u
  <2>6. LogTyped'
    BY <1>0, <1>1, <2>3, <2>5 DEF LogTyped
  <2>7. StatesInOrder'
    BY <1>0, <1>1, <2>3 DEF StatesInOrder
  <2>8. log'.turns[q] = u /\ \A p \in Viewers : p # q => log'.turns[p] = log.turns[p] /\ heard'[p] = heard[p]
    BY <1>0, <1>1, <2>3 DEF LogTyped
  <2>9. ASSUME NEW p \in Viewers PROVE TurnsInOrder(p)' /\ LinesInTime(p)'
    <3>1. CASE p # q
      <4>1. TurnsInOrder(p) /\ LinesInTime(p)
        BY DEF ViewInv
      <4> QED BY <1>1, <2>8, <3>1, <4>1 DEF TurnsInOrder, LinesInTime
    <3>2. CASE p = q
      <4>1. TurnsInOrder(q)'
        <5>1. ASSUME NEW i \in 1 .. n
              PROVE  /\ u[i].state = i /\ u[i].command <= i
                     /\ u[i].action = IF 2 * i <= h + 1 THEN outcome[q][i] ELSE "none"
          <6>1. CASE i = n
            <7>1. ~(2 * i <= h + 1)
              BY <1>1, <2>1, <6>1
            <7> QED BY <1>1, <2>5, <6>1, <7>1
          <6>2. CASE i # n
            <7>1. i \in 1 .. Len(t) /\ (2 * i <= h + 1 <=> 2 * i <= h)
              BY SMTT(30), <1>1, <2>1, <6>2
            <7>2. /\ t[i].state = i /\ t[i].command <= i
                  /\ t[i].action = IF 2 * i <= h THEN outcome[q][i] ELSE "none"
              BY <1>0, <7>1 DEF TurnsInOrder
            <7> QED BY <2>5, <7>1, <7>2
          <6> QED BY <6>1, <6>2
        <5>2. /\ Len(outcome[q]) <= Len(owners) /\ Len(outcome[q]) >= Len(owners) - 1
              /\ h + 1 <= 2 * Len(owners) - 1
              /\ Len(u) = View!Steps(h + 1)
              /\ replied[q] <= View!Steps(h + 1) /\ received[q] <= replied[q]
          BY <1>0, <1>1, <2>1, <2>5 DEF TurnsInOrder
        <5> QED BY SMTT(30), <1>1, <2>5, <2>8, <5>1, <5>2 DEF TurnsInOrder
      <4>2. LinesInTime(q)'
        <5>1. replied[q] # n /\ replied[q] <= Len(t)
          BY <1>0, <1>1, <2>1 DEF TurnsInOrder
        <5>2. ASSUME NEW i \in 1 .. Len(outcome[q]), outcome[q][i] # "timeout"
              PROVE  i <= replied[q] /\ u[i].command = i
          <6>1. i <= replied[q] /\ t[i].command = i
            BY <1>0, <5>2 DEF LinesInTime
          <6>2. i \in 1 .. Len(t)
            BY <1>1, <5>1, <6>1
          <6> QED BY <2>5, <6>1, <6>2
        <5> QED BY <1>1, <2>5, <2>8, <5>1, <5>2 DEF LinesInTime
      <4> QED BY <3>2, <4>1, <4>2
    <3> QED BY <3>1, <3>2
  <2> QED BY <2>6, <2>7, <2>9 DEF ViewInv
<1>4. CASE (h + 1) % 2 # 1
  <2>1. /\ h + 1 = 2 * View!Steps(h) /\ View!Steps(h) \in Nat /\ View!Steps(h + 1) = View!Steps(h)
        /\ Len(t) = View!Steps(h) /\ (h + 1) \div 2 = Len(t)
    <3>1. Len(t) = View!Steps(h)
      BY <1>0 DEF TurnsInOrder
    <3> HIDE DEF h, t
    <3> QED BY <1>1, <1>4, <3>1, StepsFacts
  <2> DEFINE n == Len(t)
             a == outcome[q][n]
             e == [state |-> t[n].state, command |-> t[n].command, action |-> a]
             u == [t EXCEPT ![n] = e]
  <2>2. n # 0 /\ n \in 1 .. Len(t) /\ n \in 1 .. Len(outcome[q])
    BY SMTT(30), <1>0, <1>1, <2>1 DEF TurnsInOrder
  <2>3. View!Log(q, "player_action", a)
    BY <1>1, <1>4, <2>1 DEF View!PlayerHears
  <2>4. log' = [states |-> log.states, turns |-> [log.turns EXCEPT ![q] = u]]
    <3>1. View!AddRecord(t, [type |-> "player_action", value |-> a]) = u
      BY <1>1, <2>2, FiledFacts
    <3> HIDE DEF a, u
    <3> QED BY <1>0, <2>3, <3>1, LogIs
  <2>5. a \in View!Outcomes /\ e \in PlayerTurns
    <3>1. a \in View!Outcomes
      BY <1>1, <2>2
    <3>2. t[n] \in PlayerTurns
      BY <1>2, <2>2
    <3> QED BY <3>1, <3>2 DEF PlayerTurns
  <2>6. /\ u \in Seq(PlayerTurns) /\ Len(u) = n
        /\ \A i \in 1 .. n : u[i] = IF i = n THEN e ELSE t[i]
    BY <1>1, <2>2, <2>5
  <2>7. e.state = t[n].state /\ e.command = t[n].command /\ e.action = a
    OBVIOUS
  <2> HIDE DEF u, e
  <2>8. LogTyped'
    BY <1>0, <1>1, <2>4, <2>6 DEF LogTyped
  <2>9. StatesInOrder'
    BY <1>0, <1>1, <2>4 DEF StatesInOrder
  <2>10. log'.turns[q] = u /\ \A p \in Viewers : p # q => log'.turns[p] = log.turns[p] /\ heard'[p] = heard[p]
    BY <1>0, <1>1, <2>4 DEF LogTyped
  <2>11. ASSUME NEW p \in Viewers PROVE TurnsInOrder(p)' /\ LinesInTime(p)'
    <3>1. CASE p # q
      <4>1. TurnsInOrder(p) /\ LinesInTime(p)
        BY DEF ViewInv
      <4> QED BY <1>1, <2>10, <3>1, <4>1 DEF TurnsInOrder, LinesInTime
    <3>2. CASE p = q
      <4>1. ASSUME NEW i \in 1 .. n
            PROVE  /\ u[i].state = i /\ u[i].command = t[i].command /\ t[i].command <= i
                   /\ u[i].action = IF 2 * i <= h + 1 THEN outcome[q][i] ELSE "none"
        <5>1. /\ t[i].state = i /\ t[i].command <= i
              /\ t[i].action = IF 2 * i <= h THEN outcome[q][i] ELSE "none"
          BY <1>0 DEF TurnsInOrder
        <5>2. CASE i = n
          <6>1. 2 * i <= h + 1
            BY <1>1, <2>1, <5>2
          <6> QED BY <2>6, <2>7, <5>1, <5>2, <6>1
        <5>3. CASE i # n
          <6>1. 2 * i <= h + 1 <=> 2 * i <= h
            BY <1>1, <2>1, <5>3
          <6> QED BY <2>6, <5>1, <5>3, <6>1
        <5> QED BY <5>2, <5>3
      <4>2. /\ Len(outcome[q]) <= Len(owners) /\ Len(outcome[q]) >= Len(owners) - 1
            /\ h + 1 <= 2 * Len(owners) - 1
            /\ Len(u) = View!Steps(h + 1)
            /\ replied[q] <= View!Steps(h + 1) /\ received[q] <= replied[q]
        BY <1>0, <1>1, <2>1, <2>6 DEF TurnsInOrder
      <4>3. TurnsInOrder(q)'
        BY ZenonT(40), <1>1, <2>6, <2>10, <4>1, <4>2 DEF TurnsInOrder
      <4>4. replied[q] = n /\ replied[q] # 0 => u[replied[q]].command = replied[q]
        <5>1. replied[q] = n => u[n].command = t[n].command
          BY <2>2, <4>1
        <5> QED BY <1>0, <5>1 DEF LinesInTime
      <4>5. ASSUME NEW i \in 1 .. Len(outcome[q]), outcome[q][i] # "timeout"
            PROVE  i <= replied[q] /\ u[i].command = i
        <5>1. i <= replied[q] /\ t[i].command = i /\ replied[q] <= n
          BY <1>0, <2>1, <4>5 DEF LinesInTime, TurnsInOrder
        <5>2. i \in 1 .. n
          BY <1>1, <5>1
        <5> QED BY <4>1, <5>1, <5>2
      <4>6. LinesInTime(q)'
        BY <1>1, <2>6, <2>10, <4>4, <4>5 DEF LinesInTime
      <4> QED BY <3>2, <4>3, <4>6
    <3> QED BY <3>1, <3>2
  <2> QED BY <2>8, <2>9, <2>11 DEF ViewInv
<1> QED BY <1>3, <1>4

LEMMA BotRepliesInv ==
  ASSUME View!LogAssumption, ViewInv, NEW q \in Viewers, View!BotReplies(q)
  PROVE  ViewInv'
<1>0. LogTyped /\ StatesInOrder /\ TurnsInOrder(q) /\ LinesInTime(q)
  BY DEF ViewInv
<1> DEFINE t == log.turns[q]
           n == Len(t)
           v == replied[q] + 1
           e == [state |-> t[n].state, command |-> v, action |-> t[n].action]
           u == [t EXCEPT ![n] = e]
<1>1. /\ replied' = [replied EXCEPT ![q] = v] /\ replied'[q] = v
      /\ UNCHANGED <<owners, outcome, heard, received, reported>>
      /\ replied[q] \in Nat /\ v \in Nat /\ replied[q] < View!Steps(heard[q])
      /\ View!Log(q, "command", v)
      /\ t \in Seq(PlayerTurns) /\ n \in Nat /\ n = View!Steps(heard[q])
      /\ outcome[q] \in Seq(View!Outcomes) /\ received[q] \in Nat
  BY <1>0 DEF LogTyped, TurnsInOrder, View!BotReplies, View!gameVars
<1>2. n # 0 /\ n \in 1 .. n /\ v <= n
  BY <1>1
<1>3. log' = [states |-> log.states, turns |-> [log.turns EXCEPT ![q] = u]]
  <2>1. View!AddRecord(t, [type |-> "command", value |-> v]) = u
    BY <1>1, <1>2, FiledFacts
  <2> HIDE DEF v, u
  <2> QED BY <1>0, <1>1, <2>1, LogIs
<1>4. e \in PlayerTurns
  <2>1. t[n] \in PlayerTurns
    BY <1>1, <1>2
  <2> QED BY <1>1, <2>1 DEF PlayerTurns
<1>5. /\ u \in Seq(PlayerTurns) /\ Len(u) = n
      /\ \A i \in 1 .. n : u[i] = IF i = n THEN e ELSE t[i]
  BY <1>1, <1>2, <1>4
<1>6. e.state = t[n].state /\ e.command = v /\ e.action = t[n].action
  OBVIOUS
<1> HIDE DEF u, e
<1>7. LogTyped'
  BY <1>0, <1>1, <1>3, <1>5 DEF LogTyped
<1>8. StatesInOrder'
  BY <1>0, <1>1, <1>3 DEF StatesInOrder
<1>9. /\ log'.turns[q] = u
      /\ \A p \in Viewers : p # q => log'.turns[p] = log.turns[p] /\ replied'[p] = replied[p]
  BY <1>0, <1>1, <1>3 DEF LogTyped
<1>10. ASSUME NEW p \in Viewers PROVE TurnsInOrder(p)' /\ LinesInTime(p)'
  <2>1. CASE p # q
    <3>1. TurnsInOrder(p) /\ LinesInTime(p)
      BY DEF ViewInv
    <3> QED BY <1>1, <1>9, <2>1, <3>1 DEF TurnsInOrder, LinesInTime
  <2>2. CASE p = q
    <3>1. ASSUME NEW i \in 1 .. n
          PROVE  /\ u[i].state = i /\ u[i].command <= i
                 /\ u[i].action = IF 2 * i <= heard[q] THEN outcome[q][i] ELSE "none"
      <4>1. /\ t[i].state = i /\ t[i].command <= i
            /\ t[i].action = IF 2 * i <= heard[q] THEN outcome[q][i] ELSE "none"
        BY <1>0 DEF TurnsInOrder
      <4>2. CASE i = n
        BY <1>2, <1>5, <1>6, <4>1, <4>2
      <4>3. CASE i # n
        BY <1>5, <4>1, <4>3
      <4> QED BY <4>2, <4>3
    <3>2. /\ Len(outcome[q]) <= Len(owners) /\ Len(outcome[q]) >= Len(owners) - 1
          /\ heard[q] <= 2 * Len(owners) - 1
          /\ v <= View!Steps(heard[q]) /\ received[q] <= v
      BY <1>0, <1>1, <1>2 DEF TurnsInOrder
    <3>3. TurnsInOrder(q)'
      BY <1>1, <1>5, <1>9, <3>1, <3>2 DEF TurnsInOrder
    <3>4. v = n => u[v].command = v
      BY <1>2, <1>5, <1>6
    <3>5. ASSUME NEW i \in 1 .. Len(outcome[q]), outcome[q][i] # "timeout"
          PROVE  i <= v /\ u[i].command = i
      <4>1. i <= replied[q] /\ t[i].command = i
        BY <1>0, <3>5 DEF LinesInTime
      <4>2. i \in 1 .. n /\ i # n /\ i <= v
        BY <1>1, <1>2, <4>1
      <4> QED BY <1>5, <4>1, <4>2
    <3>6. LinesInTime(q)'
      BY <1>1, <1>5, <1>9, <3>4, <3>5 DEF LinesInTime
    <3> QED BY <2>2, <3>3, <3>6
  <2> QED BY <2>1, <2>2
<1> QED BY <1>7, <1>8, <1>10 DEF ViewInv

\* The server settles an answer.
LEMMA SettleInv ==
  ASSUME View!LogAssumption, ViewInv, NEW q \in Viewers, NEW how \in View!Outcomes,
         View!Settle(q, how),
         UNCHANGED <<owners, heard, replied, reported, log>>,
         received' \in [Viewers -> Nat],
         \A p \in Viewers : received'[p] <= replied[p],
         how # "timeout" => received'[q] = Len(owners)
  PROVE  ViewInv'
<1>0. LogTyped /\ StatesInOrder /\ TurnsInOrder(q) /\ LinesInTime(q)
  BY DEF ViewInv
<1> DEFINE o == outcome[q]
           t == log.turns[q]
           u == Append(o, how)
<1>1. /\ o \in Seq(View!Outcomes) /\ Len(owners) \in Nat /\ Len(o) \in Nat
      /\ outcome' = [outcome EXCEPT ![q] = u]
      /\ Len(o) = Len(owners) - 1 /\ Len(t) = View!Steps(heard[q])
      /\ replied[q] \in Nat /\ received'[q] \in Nat /\ heard[q] \in Nat
      /\ t \in Seq(PlayerTurns) /\ Len(t) \in Nat
      /\ heard[q] <= 2 * Len(owners) - 1 /\ replied[q] <= Len(t)
  BY <1>0 DEF LogTyped, TurnsInOrder, View!Settle, View!Turn
<1>2. /\ u \in Seq(View!Outcomes) /\ Len(u) = Len(owners) /\ u[Len(owners)] = how
      /\ \A i \in 1 .. Len(o) : u[i] = o[i]
  BY <1>1
<1>3. LogTyped'
  BY <1>0, <1>1, <1>2 DEF LogTyped
<1>4. StatesInOrder'
  BY <1>0 DEF StatesInOrder
<1> HIDE DEF u
<1>5. outcome'[q] = u /\ \A p \in Viewers : p # q => outcome'[p] = outcome[p]
  BY <1>0, <1>1 DEF LogTyped
<1>6. Len(t) <= Len(owners)
  <2>1. heard[q] + 1 = 2 * View!Steps(heard[q]) \/ heard[q] = 2 * View!Steps(heard[q])
    BY <1>1, StepsFacts
  <2>2. View!Steps(heard[q]) \in Nat
    BY <1>1, StepsFacts
  <2> QED BY <1>1, <2>1, <2>2
<1>7. ASSUME NEW p \in Viewers PROVE TurnsInOrder(p)' /\ LinesInTime(p)'
  <2>1. CASE p # q
    <3>1. TurnsInOrder(p) /\ LinesInTime(p)
      BY DEF ViewInv
    <3> QED BY <1>5, <2>1, <3>1 DEF TurnsInOrder, LinesInTime
  <2>2. CASE p = q
    <3>1. ASSUME NEW i \in 1 .. Len(t)
          PROVE  /\ t[i].state = i /\ t[i].command <= i
                 /\ t[i].action = IF 2 * i <= heard[q] THEN u[i] ELSE "none"
      <4>1. /\ t[i].state = i /\ t[i].command <= i
            /\ t[i].action = IF 2 * i <= heard[q] THEN o[i] ELSE "none"
        BY <1>0 DEF TurnsInOrder
      <4>2. 2 * i <= heard[q] => i \in 1 .. Len(o)
        BY <1>1
      <4> QED BY <1>2, <4>1, <4>2
    <3>2. TurnsInOrder(q)'
      BY <1>0, <1>1, <1>2, <1>5, <3>1 DEF TurnsInOrder
    <3>3. ASSUME NEW i \in 1 .. Len(u), u[i] # "timeout"
          PROVE  i <= replied[q] /\ t[i].command = i
      <4>1. CASE i \in 1 .. Len(o)
        <5>1. o[i] # "timeout"
          BY <1>2, <3>3, <4>1
        <5> QED BY <1>0, <4>1, <5>1 DEF LinesInTime
      <4>2. CASE i \notin 1 .. Len(o)
        <5>1. i = Len(owners) /\ how # "timeout"
          BY <1>1, <1>2, <3>3, <4>2
        <5>2. replied[q] = i /\ Len(t) = i /\ i # 0
          <6>1. received'[q] = i /\ received'[q] <= replied[q]
            BY <5>1
          <6> QED BY <1>1, <1>6, <5>1, <6>1
        <5> QED BY <1>0, <5>2 DEF LinesInTime
      <4> QED BY <4>1, <4>2
    <3>4. LinesInTime(q)'
      BY <1>0, <1>5, <3>3 DEF LinesInTime
    <3> QED BY <2>2, <3>2, <3>4
  <2> QED BY <2>1, <2>2
<1> QED BY <1>3, <1>4, <1>7 DEF ViewInv

LEMMA ServerHearsInv ==
  ASSUME View!LogAssumption, ViewInv, NEW q \in Viewers, View!ServerHears(q)
  PROVE  ViewInv'
<1>0. LogTyped /\ StatesInOrder /\ TurnsInOrder(q)
  BY DEF ViewInv
<1>1. /\ received' = [received EXCEPT ![q] = @ + 1]
      /\ received \in [Viewers -> Nat] /\ replied \in [Viewers -> Nat]
      /\ received[q] < replied[q]
      /\ UNCHANGED <<owners, heard, replied, reported, log>>
  BY <1>0 DEF LogTyped, View!ServerHears
<1>2. /\ received' \in [Viewers -> Nat]
      /\ \A p \in Viewers : received'[p] <= replied[p]
  <2>1. \A p \in Viewers : received[p] <= replied[p]
    BY DEF ViewInv, TurnsInOrder
  <2> QED BY <1>1, <2>1
<1>3. CASE \E how \in View!Outcomes \ {"timeout"} :
             View!Settle(q, how) /\ received'[q] = Len(owners)
  <2>1. PICK how \in View!Outcomes :
             View!Settle(q, how) /\ received'[q] = Len(owners)
    BY <1>3
  <2> QED BY <1>1, <1>2, <2>1, SettleInv
<1>4. CASE UNCHANGED outcome
  <2>1. LogTyped' /\ StatesInOrder'
    BY <1>0, <1>1, <1>2, <1>4 DEF LogTyped, StatesInOrder
  <2>2. ASSUME NEW p \in Viewers PROVE TurnsInOrder(p)' /\ LinesInTime(p)'
    <3>1. TurnsInOrder(p) /\ LinesInTime(p)
      BY DEF ViewInv
    <3> QED BY <1>1, <1>2, <1>4, <3>1 DEF TurnsInOrder, LinesInTime
  <2> QED BY <2>1, <2>2 DEF ViewInv
<1> QED BY <1>3, <1>4 DEF View!ServerHears, View!Turn

LEMMA ServerStepsInv ==
  ASSUME View!LogAssumption, ViewInv, View!ServerSteps
  PROVE  ViewInv'
<1>0. LogTyped /\ StatesInOrder
  BY DEF ViewInv
<1>1. PICK o \in [{} -> View!LivingPlayers(Len(owners)) \union {Unowned}] :
        owners' = Append(owners, o)
  BY DEF View!ServerSteps, View!Turn
<1>2. /\ \A p \in Viewers : Len(outcome[p]) = Len(owners)
      /\ Len(owners) <= MaxTurns
      /\ UNCHANGED <<outcome, heard, replied, received, reported, log>>
  BY DEF View!ServerSteps, View!Turn, View!Ready
<1>3. o \in [{} -> Viewers \union {Unowned}]
  OBVIOUS
<1>4. /\ owners \in Seq([{} -> Viewers \union {Unowned}]) /\ Len(owners) \in Nat
      /\ MaxTurns \in Nat
  BY <1>0 DEF LogTyped, View!LogAssumption
<1>5. /\ owners' \in Seq([{} -> Viewers \union {Unowned}])
      /\ Len(owners') = Len(owners) + 1 /\ Len(owners') \in 1 .. MaxTurns + 1
  BY <1>1, <1>2, <1>3, <1>4
<1>6. reported \in 0 .. Len(owners')
  BY <1>0, <1>4, <1>5 DEF LogTyped
<1>7. LogTyped' /\ StatesInOrder'
  BY <1>0, <1>2, <1>5, <1>6 DEF LogTyped, StatesInOrder
<1>8. ASSUME NEW p \in Viewers PROVE TurnsInOrder(p)' /\ LinesInTime(p)'
  <2>1. TurnsInOrder(p) /\ LinesInTime(p)
    BY DEF ViewInv
  <2>2. heard[p] \in Nat
    BY <1>0 DEF LogTyped
  <2> QED BY <1>2, <1>4, <1>5, <2>1, <2>2 DEF TurnsInOrder, LinesInTime
<1> QED BY <1>7, <1>8 DEF ViewInv

LEMMA ControlHearsInv ==
  ASSUME View!LogAssumption, ViewInv, View!ControlHears
  PROVE  ViewInv'
<1>0. LogTyped /\ StatesInOrder
  BY DEF ViewInv
<1> DEFINE n == reported + 1
           s == Append(log.states, n)
<1>1. /\ reported' = n /\ reported < Len(owners)
      /\ log' = View!AddState(log, n)
      /\ UNCHANGED <<owners, outcome, heard, replied, received>>
      /\ reported \in Nat /\ Len(owners) \in Nat /\ n \in 0 .. Len(owners)
      /\ log.states \in Seq(Nat) /\ Len(log.states) = reported
  BY <1>0 DEF LogTyped, StatesInOrder, View!ControlHears, View!Turn, View!gameVars
<1>2. log' = [states |-> s, turns |-> log.turns]
  <2>1. log = [states |-> log.states, turns |-> log.turns]
    BY <1>0 DEF LogTyped
  <2> QED BY <1>1, <2>1 DEF View!AddState
<1>3. /\ s \in Seq(Nat) /\ Len(s) = n
      /\ \A i \in 1 .. reported : s[i] = log.states[i]
      /\ s[n] = n
  BY <1>1
<1> HIDE DEF s
<1>4. LogTyped'
  BY <1>0, <1>1, <1>2, <1>3 DEF LogTyped
<1>5. StatesInOrder'
  BY SMTT(30), <1>0, <1>1, <1>2, <1>3 DEF StatesInOrder
<1>6. ASSUME NEW p \in Viewers PROVE TurnsInOrder(p)' /\ LinesInTime(p)'
  <2>1. TurnsInOrder(p) /\ LinesInTime(p)
    BY DEF ViewInv
  <2>2. log'.turns = log.turns /\ UNCHANGED <<owners, outcome, heard, replied, received>>
    BY <1>1, <1>2
  <2> QED BY <2>1, <2>2 DEF TurnsInOrder, LinesInTime
<1> QED BY <1>4, <1>5, <1>6 DEF ViewInv

LEMMA ViewNext ==
  ASSUME View!LogAssumption, ViewInv, View!Next \/ UNCHANGED logVars
  PROVE  ViewInv'
<1>1. ASSUME NEW q \in Viewers, View!ServerTimesOut(q) PROVE ViewInv'
  <2>1. /\ View!Settle(q, "timeout") /\ "timeout" \in View!Outcomes
        /\ UNCHANGED <<owners, heard, replied, received, reported, log>>
    BY <1>1 DEF View!ServerTimesOut, View!Outcomes
  <2>2. /\ received \in [Viewers -> Nat]
        /\ \A p \in Viewers : received[p] <= replied[p]
    BY DEF ViewInv, LogTyped, TurnsInOrder
  <2> QED BY <2>1, <2>2, SettleInv
<1>2. ASSUME UNCHANGED logVars PROVE ViewInv'
  BY <1>2 DEF logVars, ViewInv, LogTyped, StatesInOrder, TurnsInOrder, LinesInTime
<1>3. View!Done /\ UNCHANGED View!vars => UNCHANGED logVars
  BY DEF View!vars, View!gameVars, logVars
<1> QED
  BY <1>1, <1>2, <1>3, ServerStepsInv, ControlHearsInv, ServerHearsInv, PlayerHearsInv, BotRepliesInv
  DEF View!Next

\* A row shows the turns of its state, a parse error its own output.
LEMMA ViewShows ==
  ASSUME ViewInv
  PROVE  View!RowsShowTheirTurn /\ View!ErrorsShowTheirOutput
<1>0. LogTyped /\ StatesInOrder
  BY DEF ViewInv
<1>1. ASSUME NEW p \in Viewers
      PROVE  /\ TurnsInOrder(p) /\ LinesInTime(p) /\ log.turns[p] \in Seq(PlayerTurns)
             /\ DOMAIN log.turns[p] = 1 .. Len(log.turns[p])
             /\ heard[p] \in Nat /\ Len(owners) \in Nat
             /\ outcome[p] \in Seq(View!Outcomes) /\ Len(outcome[p]) \in Nat
  BY <1>0 DEF ViewInv, LogTyped
<1>2. ASSUME NEW i \in DOMAIN View!Rows(log), NEW p \in Viewers, p \in DOMAIN View!Rows(log)[i]
      PROVE  LET turn == View!Rows(log)[i][p] IN
             /\ turn.state = log.states[i]
             /\ turn.action # "none" => turn.action = outcome[p][i]
             /\ heard[p] >= 2 * i => turn.action # "none"
  <2>1. i \in 1 .. reported /\ log.states[i] = i
    BY <1>0, <1>2 DEF View!Rows, LogTyped, StatesInOrder
  <2>2. i \in DOMAIN log.turns[p] /\ View!Rows(log)[i][p] = log.turns[p][i]
    BY <1>2 DEF View!Rows, View!Row
  <2>3. /\ log.turns[p][i].state = i
        /\ log.turns[p][i].action = IF 2 * i <= heard[p] THEN outcome[p][i] ELSE "none"
    BY <1>1, <2>2 DEF TurnsInOrder
  <2>4. 2 * i <= heard[p] => outcome[p][i] # "none"
    <3>1. ASSUME 2 * i <= heard[p] PROVE i \in 1 .. Len(outcome[p])
      BY <1>1, <2>1, <3>1 DEF TurnsInOrder
    <3> QED BY <1>1, <3>1 DEF View!Outcomes
  <2> QED BY <1>1, <2>1, <2>2, <2>3, <2>4
<1>3. ASSUME NEW p \in Viewers, NEW i \in DOMAIN log.turns[p],
             log.turns[p][i].action = "parse_error"
      PROVE  View!Output(log.turns[p][i]) = <<"ERROR", i>>
  <2>1. i \in 1 .. Len(log.turns[p])
    BY <1>1
  <2>2. 2 * i <= heard[p] /\ outcome[p][i] = "parse_error"
    BY <1>1, <1>3, <2>1 DEF TurnsInOrder
  <2>3. i \in 1 .. Len(outcome[p])
    BY <1>1, <2>1, <2>2 DEF TurnsInOrder
  <2>4. log.turns[p][i].command = i
    BY <1>1, <2>2, <2>3 DEF LinesInTime
  <2> QED BY <1>3, <2>4 DEF View!Output
<1> QED BY <1>2, <1>3 DEF View!RowsShowTheirTurn, View!ErrorsShowTheirOutput
-----------------------------------------------------------------------------
(* The log of the statistics, and the logs of the clients that join *)

LEMMA StatStepsFacts ==
  ASSUME NEW h \in Nat
  PROVE  /\ Stats!Steps(h) \in Nat
         /\ \/ (h + 1) % 2 = 1 /\ Stats!Steps(h + 1) = Stats!Steps(h) + 1
            \/ (h + 1) % 2 = 0 /\ Stats!Steps(h + 1) = Stats!Steps(h)
         /\ \A n \in Nat : h = 2 * n - 1 => Stats!Steps(h) = n
<1>1. ASSUME NEW n \in Nat, h = 2 * n - 1
      PROVE  Stats!Steps(h) = n
  <2>1. h + 1 = 2 * n
    BY <1>1
  <2>2. (2 * n) \div 2 = n
    OBVIOUS
  <2> QED BY <2>1, <2>2 DEF Stats!Steps
<1>2. /\ Stats!Steps(h) \in Nat
      /\ \/ (h + 1) % 2 = 1 /\ Stats!Steps(h + 1) = Stats!Steps(h) + 1
         \/ (h + 1) % 2 = 0 /\ Stats!Steps(h + 1) = Stats!Steps(h)
  BY DEF Stats!Steps
<1> QED BY <1>1, <1>2
-----------------------------------------------------------------------------
(* The statistics *)

Owned == [CountedPlanets -> Counted \union {Unowned}]

StatsTyped ==
    /\ owners \in Seq(Owned) /\ Len(owners) >= 1
    /\ heard \in [Counted -> Nat]
    /\ reported \in Nat
    /\ log = [states |-> log.states, turns |-> log.turns]
    /\ log.states \in Seq(Nat) /\ DOMAIN log.turns = Counted
    /\ DOMAIN joined = Counted
    /\ \A p \in Counted :
         /\ joined[p] = [states |-> joined[p].states, turns |-> joined[p].turns]
         /\ joined[p].states \in Seq(Nat)
         /\ DOMAIN joined[p].turns = Counted

\* Who has lost all planets does not come back.
NobodyReturns ==
    \A i \in 1 .. Len(owners) : \A x \in CountedPlanets :
        owners[i][x] = Unowned \/ owners[i][x] \in Stats!LivingPlayers(1)

Numbered(states, n) == Len(states) = n /\ \A i \in 1 .. n : states[i] = i

\* Who joined has heard the states it was prompted with, and filed what it
\* heard as the log of the host does.
StatsInv ==
    /\ StatsTyped /\ NobodyReturns
    /\ Numbered(log.states, reported)
    /\ reported <= Len(owners)
    /\ \A p \in Counted :
         /\ Numbered(joined[p].states, Stats!Steps(heard[p]))
         /\ joined[p].turns[p] = log.turns[p]

LEMMA StatsInit ==
  ASSUME Stats!LogAssumption, Stats!Init
  PROVE  StatsInv
<1>1. PICK o \in Stats!FirstStates : owners = <<o>>
  BY DEF Stats!Init
<1>2. o \in Owned
  BY DEF Stats!FirstStates, Owned
<1>3. owners \in Seq(Owned) /\ Len(owners) = 1 /\ owners[1] = o
  BY <1>1, <1>2
<1>4. /\ heard = [p \in Counted |-> 0] /\ reported = 0
      /\ log = [states |-> <<>>, turns |-> [p \in Counted |-> <<>>]]
      /\ joined = [p \in Counted |-> [states |-> <<>>, turns |-> [q \in Counted |-> <<>>]]]
  BY DEF Stats!Init, Stats!EmptyLog
<1>5. Stats!Steps(0) = 0
  BY DEF Stats!Steps
<1>6. StatsTyped
  <2>1. heard \in [Counted -> Nat] /\ DOMAIN joined = Counted /\ <<>> \in Seq(Nat)
    BY <1>4
  <2>2. \A p \in Counted : joined[p] = [states |-> <<>>, turns |-> [q \in Counted |-> <<>>]]
    BY <1>4
  <2>3. /\ log = [states |-> log.states, turns |-> log.turns]
        /\ log.states \in Seq(Nat) /\ DOMAIN log.turns = Counted
    BY <1>4, <2>1
  <2>4. \A p \in Counted :
          /\ joined[p] = [states |-> joined[p].states, turns |-> joined[p].turns]
          /\ joined[p].states \in Seq(Nat)
          /\ DOMAIN joined[p].turns = Counted
    <3> TAKE p \in Counted
    <3>1. joined[p].states = <<>> /\ joined[p].turns = [q \in Counted |-> <<>>]
      BY <2>2
    <3>2. joined[p] = [states |-> joined[p].states, turns |-> joined[p].turns]
      BY <2>2
    <3>3. DOMAIN joined[p].turns = Counted
      BY <3>1
    <3> QED BY <2>1, <3>1, <3>2, <3>3
  <2> QED
    BY <1>3, <1>4, <2>1, <2>3, <2>4 DEF StatsTyped
<1>7. NobodyReturns
  <2> SUFFICES ASSUME NEW x \in CountedPlanets, owners[1][x] # Unowned
               PROVE  owners[1][x] \in Stats!LivingPlayers(1)
    BY <1>3 DEF NobodyReturns
  <2> QED BY DEF Stats!LivingPlayers, Stats!State
<1> QED
  BY <1>3, <1>4, <1>5, <1>6, <1>7 DEF StatsInv, Numbered

\* A record is filed alike in both logs; who joined also files the states.
LEMMA StatsFiled ==
  ASSUME StatsInv, NEW p \in Counted, NEW type, NEW v, Stats!Log(p, type, v),
         type = "step" => v \in Nat
  PROVE  /\ log' = [states |-> log.states, turns |-> log'.turns]
         /\ DOMAIN log'.turns = Counted
         /\ DOMAIN joined' = Counted
         /\ \A q \in Counted :
              /\ q # p => joined'[q] = joined[q] /\ log'.turns[q] = log.turns[q]
              /\ joined'[q] = [states |-> joined'[q].states, turns |-> joined'[q].turns]
              /\ DOMAIN joined'[q].turns = Counted
              /\ joined'[q].turns[q] = log'.turns[q]
         /\ joined'[p].states = IF type = "step" THEN Append(joined[p].states, v)
                                ELSE joined[p].states
<1> DEFINE r == [type |-> type, value |-> v]
           t == Stats!AddRecord(log.turns[p], r)
           j == joined[p]
           m == [states |-> j.states, turns |-> [j.turns EXCEPT ![p] = t]]
<1>1. /\ log' = Stats!PlayerEntry(log, p, r)
      /\ joined' = [joined EXCEPT ![p] =
                      IF r.type = "step" THEN Stats!AddState(Stats!PlayerEntry(joined[p], p, r), v)
                      ELSE Stats!PlayerEntry(joined[p], p, r)]
  BY DEF Stats!Log, Stats!AddHosted, Stats!AddJoined, Stats!IsState
<1>2. /\ log = [states |-> log.states, turns |-> log.turns] /\ DOMAIN log.turns = Counted
      /\ j = [states |-> j.states, turns |-> j.turns] /\ DOMAIN j.turns = Counted
      /\ j.turns[p] = log.turns[p] /\ DOMAIN joined = Counted
  BY DEF StatsInv, StatsTyped
<1>3. log' = [states |-> log.states, turns |-> [log.turns EXCEPT ![p] = t]]
  <2> HIDE DEF r
  <2> QED BY <1>1, <1>2 DEF Stats!PlayerEntry
<1>4. Stats!PlayerEntry(joined[p], p, r) = m
  <2>1. Stats!AddRecord(j.turns[p], r) = t
    BY <1>2
  <2> HIDE DEF r, t, j
  <2>2. Stats!PlayerEntry(j, p, r) = m
    BY <1>2, <2>1 DEF Stats!PlayerEntry
  <2> QED BY <2>2 DEF j
<1>5. Stats!AddState(m, v) = [states |-> Append(j.states, v), turns |-> m.turns]
  <2>1. m = [states |-> m.states, turns |-> m.turns] /\ m.states = j.states
    OBVIOUS
  <2> HIDE DEF j, m
  <2>2. Stats!AddState(m, v) = [m EXCEPT !.states = Append(m.states, v)]
    BY Zenon DEF Stats!AddState
  <2>3. [m EXCEPT !.states = Append(m.states, v)]
          = [states |-> Append(m.states, v), turns |-> m.turns]
    BY ONLY <2>1
  <2> QED BY <2>1, <2>2, <2>3
<1>6. joined' = [joined EXCEPT ![p] = [states |-> IF type = "step" THEN Append(j.states, v) ELSE j.states,
                                      turns |-> m.turns]]
  <2>1. r.type = type
    OBVIOUS
  <2>2. m = [states |-> j.states, turns |-> m.turns]
    OBVIOUS
  <2> HIDE DEF r, j, m
  <2> QED BY <1>1, <1>4, <1>5, <2>1, <2>2
<1>7. /\ m.turns = [j.turns EXCEPT ![p] = t] /\ m.turns[p] = t /\ DOMAIN m.turns = Counted
  BY <1>2
<1> HIDE DEF m, t, j
<1>8. ASSUME NEW q \in Counted
      PROVE  /\ q # p => joined'[q] = joined[q] /\ log'.turns[q] = log.turns[q]
             /\ joined'[q] = [states |-> joined'[q].states, turns |-> joined'[q].turns]
             /\ DOMAIN joined'[q].turns = Counted
             /\ joined'[q].turns[q] = log'.turns[q]
  <2>1. CASE q = p
    <3>1. joined'[p] = [states |-> IF type = "step" THEN Append(j.states, v) ELSE j.states,
                        turns |-> m.turns]
      BY <1>2, <1>6
    <3>2. log'.turns[p] = t
      BY <1>2, <1>3
    <3> QED BY <1>7, <2>1, <3>1, <3>2
  <2>2. CASE q # p
    <3>1. joined'[q] = joined[q] /\ log'.turns[q] = log.turns[q]
      BY <1>2, <1>3, <1>6, <2>2
    <3> QED BY <2>2, <3>1 DEF StatsInv, StatsTyped
  <2> QED BY <2>1, <2>2
<1>9. joined'[p].states = IF type = "step" THEN Append(joined[p].states, v) ELSE joined[p].states
  BY <1>2, <1>6 DEF j
<1>10. log' = [states |-> log.states, turns |-> log'.turns] /\ DOMAIN log'.turns = Counted
  BY <1>2, <1>3
<1> QED BY <1>2, <1>6, <1>8, <1>9, <1>10

LEMMA AppendNumbered ==
  ASSUME NEW s \in Seq(Nat), NEW n \in Nat, Numbered(s, n)
  PROVE  Append(s, n + 1) \in Seq(Nat) /\ Numbered(Append(s, n + 1), n + 1)
BY DEF Numbered

LEMMA StatsHears ==
  ASSUME Stats!LogAssumption, StatsInv, NEW p \in Counted, Stats!PlayerHears(p)
  PROVE  StatsInv'
<1> DEFINE h == heard[p]
<1>1. /\ heard' = [heard EXCEPT ![p] = h + 1] /\ h \in Nat /\ heard'[p] = h + 1
      /\ heard' \in [Counted -> Nat]
      /\ UNCHANGED <<owners, reported>>
  BY DEF StatsInv, StatsTyped, Stats!PlayerHears, Stats!gameVars
<1>2. /\ Stats!Steps(h) \in Nat
      /\ \/ (h + 1) % 2 = 1 /\ Stats!Steps(h + 1) = Stats!Steps(h) + 1
         \/ (h + 1) % 2 # 1 /\ Stats!Steps(h + 1) = Stats!Steps(h)
  <2>1. (h + 1) % 2 = 0 => (h + 1) % 2 # 1
    OBVIOUS
  <2> HIDE DEF h
  <2> QED BY <1>1, <2>1, StatStepsFacts
<1>3. PICK type, v :
        /\ Stats!Log(p, type, v)
        /\ (type = "step") <=> (Stats!Steps(h + 1) = Stats!Steps(h) + 1)
        /\ type # "step" => Stats!Steps(h + 1) = Stats!Steps(h)
        /\ type = "step" => v = Stats!Steps(h + 1)
  BY <1>1, <1>2 DEF Stats!PlayerHears
<1>4. type = "step" => v \in Nat
  BY <1>2, <1>3
<1>5. /\ log' = [states |-> log.states, turns |-> log'.turns] /\ DOMAIN log'.turns = Counted
      /\ DOMAIN joined' = Counted
      /\ \A q \in Counted :
           /\ q # p => joined'[q] = joined[q] /\ log'.turns[q] = log.turns[q]
           /\ joined'[q] = [states |-> joined'[q].states, turns |-> joined'[q].turns]
           /\ DOMAIN joined'[q].turns = Counted
           /\ joined'[q].turns[q] = log'.turns[q]
      /\ joined'[p].states = IF type = "step" THEN Append(joined[p].states, v)
                                ELSE joined[p].states
  <2> HIDE DEF h
  <2> QED BY <1>3, <1>4, StatsFiled
<1>6. log'.states = log.states
  BY <1>5
<1>7. ASSUME NEW q \in Counted
      PROVE  /\ joined'[q].states \in Seq(Nat)
             /\ Numbered(joined'[q].states, Stats!Steps(heard'[q]))
  <2>1. joined[q].states \in Seq(Nat) /\ Numbered(joined[q].states, Stats!Steps(heard[q]))
    BY DEF StatsInv, StatsTyped
  <2>2. CASE q # p
    <3>1. heard'[q] = heard[q] /\ joined'[q] = joined[q]
      BY <1>1, <1>5, <2>2 DEF StatsInv, StatsTyped
    <3> QED BY <2>1, <3>1
  <2>3. CASE q = p /\ type = "step"
    <3>1. joined'[q].states = Append(joined[q].states, Stats!Steps(h) + 1)
      BY <1>3, <1>5, <2>3
    <3>2. Stats!Steps(heard'[q]) = Stats!Steps(h) + 1
      BY <1>1, <1>3, <2>3
    <3> QED BY <1>2, <2>1, <2>3, <3>1, <3>2, AppendNumbered
  <2>4. CASE q = p /\ type # "step"
    BY <1>1, <1>3, <1>5, <2>1, <2>4
  <2> QED BY <2>2, <2>3, <2>4
<1>8. StatsTyped'
  <2>1. log'.states \in Seq(Nat)
    BY <1>6 DEF StatsInv, StatsTyped
  <2> QED BY <1>1, <1>5, <1>6, <1>7, <2>1 DEF StatsInv, StatsTyped
<1>9. NobodyReturns' /\ Numbered(log'.states, reported') /\ reported' <= Len(owners')
  BY <1>1, <1>6 DEF StatsInv, NobodyReturns, Stats!LivingPlayers, Stats!State
<1> QED
  BY <1>5, <1>7, <1>8, <1>9 DEF StatsInv

LEMMA StatsReplies ==
  ASSUME Stats!LogAssumption, StatsInv, NEW p \in Counted, Stats!BotReplies(p)
  PROVE  StatsInv'
<1>1. UNCHANGED <<owners, heard, reported>>
  BY DEF Stats!BotReplies, Stats!gameVars
<1>2. Stats!Log(p, "command", replied'[p])
  BY DEF Stats!BotReplies
<1>3. /\ log' = [states |-> log.states, turns |-> log'.turns] /\ DOMAIN log'.turns = Counted
      /\ DOMAIN joined' = Counted
      /\ \A q \in Counted :
           /\ q # p => joined'[q] = joined[q] /\ log'.turns[q] = log.turns[q]
           /\ joined'[q] = [states |-> joined'[q].states, turns |-> joined'[q].turns]
           /\ DOMAIN joined'[q].turns = Counted
           /\ joined'[q].turns[q] = log'.turns[q]
      /\ joined'[p].states = joined[p].states
  BY <1>2, StatsFiled
<1>4. log'.states = log.states
  BY <1>3
<1>5. \A q \in Counted : joined'[q].states = joined[q].states
  BY <1>3
<1> QED
  BY <1>1, <1>3, <1>4, <1>5
  DEF StatsInv, StatsTyped, NobodyReturns, Stats!LivingPlayers, Stats!State

LEMMA StatsControl ==
  ASSUME Stats!LogAssumption, StatsInv, Stats!ControlHears
  PROVE  StatsInv'
<1>1. /\ reported' = reported + 1 /\ reported < Len(owners)
      /\ log' = Stats!AddState(log, reported + 1)
      /\ UNCHANGED <<owners, heard, joined>>
  BY DEF Stats!ControlHears, Stats!Turn, Stats!gameVars
<1>2. /\ log = [states |-> log.states, turns |-> log.turns] /\ log.states \in Seq(Nat)
      /\ reported \in Nat /\ Numbered(log.states, reported)
      /\ Len(owners) \in Nat
  BY DEF StatsInv, StatsTyped
<1>3. log' = [states |-> Append(log.states, reported + 1), turns |-> log.turns]
  BY <1>1, <1>2 DEF Stats!AddState
<1>4. /\ log' = [states |-> log'.states, turns |-> log'.turns] /\ log'.turns = log.turns
      /\ log'.states \in Seq(Nat) /\ Numbered(log'.states, reported')
      /\ reported' \in Nat /\ reported' <= Len(owners)
  <2> DEFINE t == Append(log.states, reported + 1)
  <2>1. t \in Seq(Nat) /\ Numbered(t, reported + 1)
    BY <1>2, AppendNumbered
  <2> HIDE DEF t
  <2>2. log' = [states |-> t, turns |-> log.turns]
    BY <1>3 DEF t
  <2> QED BY <1>1, <1>2, <2>1, <2>2
<1> QED
  BY <1>1, <1>4 DEF StatsInv, StatsTyped, NobodyReturns, Stats!LivingPlayers, Stats!State

LEMMA StatsSteps ==
  ASSUME Stats!LogAssumption, StatsInv, Stats!ServerSteps
  PROVE  StatsInv'
<1> DEFINE n == Len(owners)
<1>1. PICK o \in [CountedPlanets -> Stats!LivingPlayers(n) \union {Unowned}] :
        owners' = Append(owners, o)
  BY DEF Stats!ServerSteps, Stats!Turn
<1>2. /\ owners \in Seq(Owned) /\ n \in Nat /\ n >= 1 /\ n \in 1 .. n
      /\ owners[n] \in Owned /\ owners[1] \in Owned
      /\ UNCHANGED <<heard, reported, log, joined>>
  BY DEF StatsInv, StatsTyped, Stats!ServerSteps
<1>3. ASSUME NEW y \in Stats!LivingPlayers(n)
      PROVE  y \in Counted /\ y \in Stats!LivingPlayers(1)
  <2>1. PICK z \in CountedPlanets : y = owners[n][z] /\ y # Unowned
    BY DEF Stats!LivingPlayers, Stats!State
  <2>2. y \in Stats!LivingPlayers(1)
    BY <1>2, <2>1 DEF StatsInv, NobodyReturns
  <2> QED BY <1>2, <2>1, <2>2 DEF Owned
<1>4. o \in Owned
  BY <1>1, <1>3 DEF Owned
<1>5. /\ owners' \in Seq(Owned) /\ Len(owners') = n + 1 /\ owners'[n + 1] = o
      /\ \A i \in 1 .. n : owners'[i] = owners[i]
  BY <1>1, <1>2, <1>4
<1>6. Stats!LivingPlayers(1)' = Stats!LivingPlayers(1)
  BY <1>2, <1>5 DEF Stats!LivingPlayers, Stats!State
<1>7. NobodyReturns'
  <2> SUFFICES ASSUME NEW i \in 1 .. n + 1, NEW x \in CountedPlanets
               PROVE  owners'[i][x] = Unowned \/ owners'[i][x] \in Stats!LivingPlayers(1)
    BY <1>5, <1>6 DEF NobodyReturns
  <2>1. CASE i = n + 1
    <3>1. o[x] \in Stats!LivingPlayers(n) \union {Unowned}
      BY <1>1
    <3> QED BY <1>3, <1>5, <2>1, <3>1
  <2>2. CASE i # n + 1
    <3>1. i \in 1 .. n /\ owners'[i] = owners[i]
      BY <1>2, <1>5, <2>2
    <3> QED BY <3>1 DEF StatsInv, NobodyReturns
  <2> QED BY <2>1, <2>2
<1>8. reported <= n + 1 /\ n + 1 >= 1
  BY <1>2 DEF StatsInv, StatsTyped
<1> QED
  BY <1>2, <1>5, <1>7, <1>8 DEF StatsInv, StatsTyped

LEMMA StatsNext ==
  ASSUME Stats!LogAssumption, StatsInv, Stats!Next \/ UNCHANGED logVars
  PROVE  StatsInv'
<1>1. ASSUME UNCHANGED <<owners, heard, reported, log, joined>> PROVE StatsInv'
  BY <1>1 DEF StatsInv, StatsTyped, NobodyReturns, Stats!LivingPlayers, Stats!State
<1>2. ASSUME NEW p \in Counted, Stats!ServerHears(p) \/ Stats!ServerTimesOut(p)
      PROVE  UNCHANGED <<owners, heard, reported, log, joined>>
  BY <1>2 DEF Stats!ServerHears, Stats!ServerTimesOut
<1>3. Stats!Done /\ UNCHANGED Stats!vars => UNCHANGED <<owners, heard, reported, log, joined>>
  BY DEF Stats!vars, Stats!gameVars
<1>4. UNCHANGED logVars => UNCHANGED <<owners, heard, reported, log, joined>>
  BY DEF logVars
<1> QED
  BY <1>1, <1>2, <1>3, <1>4, StatsHears, StatsReplies, StatsControl, StatsSteps DEF Stats!Next
-----------------------------------------------------------------------------
\* The sum over a function exists, by the least number of its arguments for
\* which it would not.
LEMMA SumUnfolds ==
  ASSUME NEW f, IsFiniteSet(DOMAIN f)
  PROVE  \E g : /\ Stats!FoldFunction(LAMBDA a, b : a + b, 0, f) = g[DOMAIN f]
                /\ g[{}] = 0
                /\ \A s \in SUBSET DOMAIN f : s # {} =>
                     \E k \in s : g[s] = f[k] + g[s \ {k}]
<1> DEFINE D == DOMAIN f
           Pick(s) == CHOOSE k \in s : TRUE
           Small(n) == {s \in SUBSET D : Cardinality(s) <= n}
           IsSum(g, S) == g = [s \in S |-> IF s = {} THEN 0 ELSE f[Pick(s)] + g[s \ {Pick(s)}]]
           Fails == {n \in Nat : ~\E g : IsSum(g, Small(n))}
<1>1. ASSUME NEW s \in SUBSET D, s # {}
      PROVE  /\ Pick(s) \in s /\ IsFiniteSet(s) /\ Cardinality(s) \in Nat
             /\ s \ {Pick(s)} \in SUBSET D
             /\ Cardinality(s \ {Pick(s)}) = Cardinality(s) - 1
             /\ Cardinality(s) # 0
  <2>1. Pick(s) \in s
    BY <1>1
  <2>2. IsFiniteSet(s) /\ Cardinality(s) \in Nat
    BY FS_Subset, FS_CardinalityType
  <2> HIDE DEF Pick
  <2>3. Cardinality(s \ {Pick(s)}) = Cardinality(s) - 1
    BY <2>1, <2>2, FS_RemoveElement
  <2>4. Cardinality(s) # 0
    BY <1>1, <2>2, FS_EmptySet
  <2> QED BY <2>1, <2>2, <2>3, <2>4
<1> HIDE DEF Pick
<1>2. Fails = {}
  <2> SUFFICES ASSUME Fails # {} PROVE FALSE
    OBVIOUS
  <2>1. PICK n \in Fails : \A k \in Fails : n <= k
    <3>1. Fails \in SUBSET Nat
      OBVIOUS
    <3> HIDE DEF Fails
    <3> QED BY <3>1, LeastNumber
  <2>2. n \in Nat /\ ~\E g : IsSum(g, Small(n))
    OBVIOUS
  <2>3. PICK g : n # 0 => IsSum(g, Small(n - 1))
    <3>1. CASE n = 0
      BY <3>1
    <3>2. CASE n # 0
      <4>1. n - 1 \in Nat /\ ~(n <= n - 1)
        BY <2>2, <3>2
      <4>2. n - 1 \notin Fails
        <5> HIDE DEF Fails
        <5> QED BY <2>1, <4>1
      <4> QED BY <4>1, <4>2
    <3> QED BY <3>1, <3>2
  <2> DEFINE h == [s \in Small(n) |-> IF s = {} THEN 0 ELSE f[Pick(s)] + g[s \ {Pick(s)}]]
  <2>4. ASSUME NEW s \in Small(n), s # {}
        PROVE  g[s \ {Pick(s)}] = h[s \ {Pick(s)}]
    <3> DEFINE r == s \ {Pick(s)}
    <3>1. n # 0 /\ r \in Small(n - 1) /\ r \in Small(n)
      BY <1>1, <2>2, <2>4
    <3>2. g[r] = IF r = {} THEN 0 ELSE f[Pick(r)] + g[r \ {Pick(r)}]
      <4> HIDE DEF r
      <4> QED BY <2>3, <3>1
    <3>3. h[r] = IF r = {} THEN 0 ELSE f[Pick(r)] + g[r \ {Pick(r)}]
      <4> HIDE DEF r
      <4> QED BY <3>1
    <3> QED BY <3>2, <3>3
  <2>5. h = [s \in Small(n) |-> IF s = {} THEN 0 ELSE f[Pick(s)] + h[s \ {Pick(s)}]]
    <3>1. \A s \in Small(n) : h[s] = IF s = {} THEN 0 ELSE f[Pick(s)] + h[s \ {Pick(s)}]
      BY <2>4
    <3>2. h = [s \in Small(n) |-> h[s]]
      OBVIOUS
    <3> HIDE DEF h
    <3> QED BY <3>1, <3>2
  <2> HIDE DEF h
  <2> QED BY <2>2, <2>5
<1>3. Cardinality(D) \in Nat /\ Small(Cardinality(D)) = SUBSET D
  <2>1. Cardinality(D) \in Nat
    BY FS_CardinalityType
  <2>2. \A s \in SUBSET D : Cardinality(s) <= Cardinality(D)
    BY FS_Subset
  <2> QED BY <2>1, <2>2
<1>4. \E g : IsSum(g, SUBSET D)
  <2> DEFINE n == Cardinality(D)
  <2>1. n \in Nat /\ n \notin Fails
    BY <1>2, <1>3
  <2>2. \E g : IsSum(g, Small(n))
    BY <2>1
  <2> HIDE DEF Small
  <2> QED BY <1>3, <2>2
<1> DEFINE sum == CHOOSE g : g = [s \in SUBSET D |->
                     IF s = {} THEN 0 ELSE LET x == CHOOSE x \in s : TRUE IN f[x] + g[s \ {x}]]
<1>5. Stats!FoldFunction(LAMBDA a, b : a + b, 0, f) = sum[D]
  BY Zenon DEF Stats!FoldFunction, Stats!FoldFunctionOnSet, Stats!MapThenFoldSet
<1>6. IsSum(sum, SUBSET D)
  BY <1>4 DEF Pick
<1> HIDE DEF sum
<1>7. \A s \in SUBSET D : sum[s] = IF s = {} THEN 0 ELSE f[Pick(s)] + sum[s \ {Pick(s)}]
  BY <1>6
<1>8. sum[{}] = 0
  BY <1>7
<1>9. \A s \in SUBSET D : s # {} => \E k \in s : sum[s] = f[k] + sum[s \ {k}]
  BY <1>1, <1>7
<1> QED BY <1>5, <1>8, <1>9

LEMMA SameSets ==
  /\ \A S : Stats!IsFiniteSet(S) <=> IsFiniteSet(S)
  /\ \A S : Stats!Cardinality(S) = Cardinality(S)
BY Zenon DEF Stats!IsFiniteSet, IsFiniteSet, Stats!Cardinality, Cardinality

\* Each planet of each state is scored once, by the least number of players for
\* which the sum would be another.
LEMMA ScoresFollow ==
  ASSUME Stats!LogAssumption, StatsInv
  PROVE  Stats!ScoresAddUp
<1> SUFFICES ASSUME log.states # <<>>
             PROVE  Stats!FoldFunction(LAMBDA a, b : a + b, 0, Stats!Scores(log))
                      = Cardinality({at \in (DOMAIN log.states) \X CountedPlanets :
                            Stats!State(log.states[at[1]])[at[2]] # Unowned})
  BY SameSets, Zenon DEF Stats!ScoresAddUp
<1>0. IsFiniteSet(CountedPlanets)
  BY SameSets DEF Stats!LogAssumption
<1> DEFINE P == Stats!LivingPlayers(1)
           All == (DOMAIN log.states) \X CountedPlanets
           Who(at) == Stats!State(log.states[at[1]])[at[2]]
           Of(s) == {at \in All : Who(at) \in s}
           f == Stats!Scores(log)
<1>1. /\ log.states \in Seq(Nat) /\ Len(log.states) = reported
      /\ \A i \in 1 .. reported : log.states[i] = i
      /\ reported \in Nat /\ reported <= Len(owners) /\ Len(owners) \in Nat
      /\ DOMAIN log.states = 1 .. reported
  BY DEF StatsInv, StatsTyped, Numbered
<1>2. reported # 0 /\ log.states[1] = 1
  <2>1. reported # 0
    BY <1>1, EmptySeq
  <2> QED BY <1>1, <2>1
<1>3. IsFiniteSet(All)
  <2>1. IsFiniteSet(1 .. reported)
    BY <1>1, FS_Interval
  <2> QED BY <1>0, <1>1, <2>1, FS_Product
<1>4. f = [p \in P |-> Cardinality({at \in All : Who(at) = p})]
  <2>1. f = [p \in P |-> Stats!Cardinality({at \in All : Who(at) = p})]
    BY <1>2 DEF Stats!Scores, Stats!ScoredStates
  <2> HIDE DEF P, All, Who, f
  <2> QED BY <2>1, SameSets
<1>5. IsFiniteSet(P)
  <2> DEFINE R == {Stats!State(1)[x] : x \in CountedPlanets}
             o == [x \in CountedPlanets |-> Stats!State(1)[x]]
  <2>1. o \in Surjection(CountedPlanets, R)
    BY DEF Surjection
  <2>2. P \subseteq R
    BY DEF Stats!LivingPlayers
  <2> HIDE DEF R, o, P
  <2>3. IsFiniteSet(R)
    BY <1>0, <2>1, FS_Surjection
  <2> QED BY <2>2, <2>3, FS_Subset
<1>6. \A at \in All : Who(at) # Unowned <=> Who(at) \in P
  <2> TAKE at \in All
  <2>1. at[1] \in 1 .. reported /\ at[2] \in CountedPlanets
    BY <1>1
  <2>2. at[1] \in 1 .. Len(owners) /\ Who(at) = owners[at[1]][at[2]]
    BY <1>1, <2>1 DEF Stats!State
  <2>3. Who(at) = Unowned \/ Who(at) \in P
    BY <2>1, <2>2 DEF StatsInv, NobodyReturns
  <2>4. Unowned \notin P
    BY DEF Stats!LivingPlayers
  <2> QED BY <2>3, <2>4
<1> DEFINE total == Stats!FoldFunction(LAMBDA a, b : a + b, 0, f)
<1> HIDE DEF f, P, Who, All
<1>7. PICK g : /\ total = g[DOMAIN f]
               /\ g[{}] = 0
               /\ \A s \in SUBSET DOMAIN f : s # {} =>
                     \E k \in s : g[s] = f[k] + g[s \ {k}]
  <2>1. IsFiniteSet(DOMAIN f)
    BY <1>4, <1>5
  <2> QED BY <2>1, SumUnfolds
<1> HIDE DEF total
<1>8. \A s \in SUBSET P : IsFiniteSet(Of(s)) /\ Cardinality(Of(s)) \in Nat
  BY <1>3, FS_Subset, FS_CardinalityType
<1>9. ASSUME NEW s \in SUBSET P, NEW k \in s
      PROVE  Cardinality(Of(s)) = f[k] + Cardinality(Of(s \ {k}))
  <2> DEFINE A == {at \in All : Who(at) = k}
             B == Of(s \ {k})
             C == Of(s)
  <2>1. f[k] = Cardinality(A)
    BY <1>4
  <2>2. A \union B = C /\ A \intersect B = {}
    OBVIOUS
  <2>3. IsFiniteSet(A) /\ IsFiniteSet(B)
    BY <1>3, FS_Subset
  <2> HIDE DEF A, B, C
  <2>4. Cardinality(A \union B) = Cardinality(A) + Cardinality(B) - Cardinality(A \intersect B)
    BY <2>3, FS_Union
  <2>5. Cardinality({}) = 0 /\ Cardinality(A) \in Nat /\ Cardinality(B) \in Nat
    BY <2>3, FS_EmptySet, FS_CardinalityType
  <2>6. Cardinality(C) = f[k] + Cardinality(B)
    <3> DEFINE a == Cardinality(A)
               b == Cardinality(B)
    <3>1. Cardinality(C) = a + b - 0
      BY <2>2, <2>4, <2>5, Zenon
    <3>2. a \in Nat /\ b \in Nat /\ f[k] = a
      BY <2>1, <2>5
    <3> HIDE DEF a, b
    <3>3. Cardinality(C) = f[k] + b
      BY <3>1, <3>2
    <3> QED BY <3>3 DEF b
  <2> QED BY <2>6 DEF B, C
<1>10. \A s \in SUBSET P : g[s] = Cardinality(Of(s))
  <2> DEFINE Wrong == {s \in SUBSET P : g[s] # Cardinality(Of(s))}
             Sizes == {Cardinality(s) : s \in Wrong}
  <2> SUFFICES ASSUME Wrong # {} PROVE FALSE
    OBVIOUS
  <2>1. Sizes \in SUBSET Nat /\ Sizes # {}
    <3>1. \A s \in SUBSET P : Cardinality(s) \in Nat
      BY <1>5, FS_Subset, FS_CardinalityType
    <3> QED BY <3>1
  <2>2. PICK n \in Sizes : \A m \in Sizes : n <= m
    <3> HIDE DEF Sizes
    <3> QED BY <2>1, LeastNumber
  <2>3. PICK s \in Wrong : Cardinality(s) = n
    OBVIOUS
  <2>4. s \in SUBSET P /\ g[s] # Cardinality(Of(s)) /\ IsFiniteSet(s)
    BY <1>5, FS_Subset
  <2>5. s # {}
    <3>1. Of({}) = {}
      OBVIOUS
    <3>2. Cardinality(Of({})) = 0
      BY <3>1, FS_EmptySet
    <3> QED BY <1>7, <2>4, <3>2
  <2>6. DOMAIN f = P
    BY <1>4
  <2>7. PICK k \in s : g[s] = f[k] + g[s \ {k}]
    BY <1>7, <2>4, <2>5, <2>6
  <2>8. s \ {k} \notin Wrong
    <3>1. Cardinality(s \ {k}) = n - 1 /\ n \in Nat
      BY <2>3, <2>4, FS_RemoveElement, FS_CardinalityType
    <3>2. ~(n <= n - 1)
      BY <3>1
    <3> HIDE DEF Wrong
    <3> QED BY <2>2, <3>1, <3>2
  <2>9. g[s \ {k}] = Cardinality(Of(s \ {k}))
    BY <2>4, <2>8
  <2> HIDE DEF Wrong, Of
  <2> QED BY <1>9, <2>4, <2>7, <2>9
<1>11. total = Cardinality(Of(P))
  BY <1>4, <1>7, <1>10
<1>12. Of(P) = {at \in All : Who(at) # Unowned}
  BY <1>6
<1>13. {at \in All : Who(at) # Unowned}
         = {at \in (DOMAIN log.states) \X CountedPlanets :
                            Stats!State(log.states[at[1]])[at[2]] # Unowned}
  BY DEF All, Who
<1> QED
  BY <1>11, <1>12, <1>13, Zenon DEF total, f

LEMMA JoinedAgree ==
  ASSUME Stats!LogAssumption, StatsInv
  PROVE  Stats!JoinedLogAgrees
<1> SUFFICES ASSUME Stats!Done, NEW p \in Counted
             PROVE  joined[p].states = log.states
  BY DEF Stats!JoinedLogAgrees, StatsInv, Stats!Winners
<1>1. reported = Len(owners) /\ heard[p] = 2 * Len(owners) - 1 /\ Len(owners) \in Nat
  BY DEF Stats!Done, Stats!Turn, StatsInv, StatsTyped
<1>2. heard[p] \in Nat
  BY DEF StatsInv, StatsTyped
<1>3. Stats!Steps(heard[p]) = Len(owners)
  BY <1>1, <1>2, StatStepsFacts
<1>4. /\ joined[p].states \in Seq(Nat) /\ log.states \in Seq(Nat)
      /\ Len(joined[p].states) = Len(owners) /\ Len(log.states) = Len(owners)
      /\ \A i \in 1 .. Len(owners) : joined[p].states[i] = i /\ log.states[i] = i
  BY <1>1, <1>3 DEF StatsInv, StatsTyped, Numbered
<1> QED BY <1>4, SeqEqual
-----------------------------------------------------------------------------
(* Hosting *)

\* Each part keeps the invariant of its log; the other parts leave the log alone.
HostedLogs ==
    /\ part = "view"  => ViewInv
    /\ part = "stats" => StatsInv

LEMMA HostedLogsInit == HostingInit => HostedLogs
<1> SUFFICES ASSUME HostingInit PROVE HostedLogs
  OBVIOUS
<1>1. CASE part = "stats"
  <2>1. Stats!Init
    BY <1>1 DEF HostingInit
  <2> QED BY <1>1, <2>1, StatsInit, HostingAssumption DEF HostedLogs
<1>2. CASE part = "view"
  <2>1. View!Init
    BY <1>2 DEF HostingInit
  <2> QED BY <1>2, <2>1, ViewInit, HostingAssumption DEF HostedLogs
<1> QED BY <1>1, <1>2 DEF HostedLogs

LEMMA HostedLogsNext == HostedLogs /\ [HostingNext]_hostingVars => HostedLogs'
<1> SUFFICES ASSUME HostedLogs, [HostingNext]_hostingVars PROVE HostedLogs'
  OBVIOUS
<1>1. /\ part' = part
      /\ part = "view"  => View!Next  \/ UNCHANGED logVars
      /\ part = "stats" => Stats!Next \/ UNCHANGED logVars
  BY DEF HostingNext, hostingVars
<1>2. part = "view" => ViewInv'
  BY <1>1, ViewNext, HostingAssumption DEF HostedLogs
<1>3. part = "stats" => StatsInv'
  BY <1>1, StatsNext, HostingAssumption DEF HostedLogs
<1> QED BY <1>1, <1>2, <1>3 DEF HostedLogs

\* Wherever the clients of the players, their bots and the control client are in
\* the game, the view puts side by side what belongs to one turn, a joined log
\* read to its end agrees with the hosted one and the scores add up to the
\* planets owned (MatchLog.ts:113-135, LogView.tsx:23-38).
THEOREM LogsOfTheHostShowTheirTurns == HostingSpec => []LogsShowTheirTurns
<1>1. HostingInit => HostedLogs
  BY HostedLogsInit
<1>2. HostedLogs /\ [HostingNext]_hostingVars => HostedLogs'
  BY HostedLogsNext
<1>3. HostedLogs => LogsShowTheirTurns
  <2>1. ViewInv => View!RowsShowTheirTurn /\ View!ErrorsShowTheirOutput
    BY ViewShows
  <2>2. Stats!LogAssumption
    BY HostingAssumption DEF HostingAssumption
  <2>3. StatsInv => Stats!JoinedLogAgrees /\ Stats!ScoresAddUp
    BY <2>2, JoinedAgree, ScoresFollow
  <2> QED BY <2>1, <2>3, Zenon DEF HostedLogs, LogsShowTheirTurns
<1> QED BY <1>1, <1>2, <1>3, PTL DEF HostingSpec
=============================================================================
