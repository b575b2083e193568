------------------------ MODULE MCHostingSlotsProofs ------------------------
(***************************************************************************)
(* For a user who waits for answers, and one port: the slots of the lobby  *)
(* are the players of its server one to one, up to the match that is saved *)
(* and the logs that are filed for it.  On top of the invariants of        *)
(* MCHostingProofs, SlotsInv follows each request from the click to the    *)
(* answer that fills or frees a slot.                                      *)
(***************************************************************************)
EXTENDS MCHostingProofs
-----------------------------------------------------------------------------
\* The server the lobby has.
Serving(s) == server = s /\ proc[s] = "up"

\* What is under way to a server, and from it.
Asked(s)  == {to_server[s][i] : i \in DOMAIN to_server[s]}
Coming(s) == {Unheard(s)[i] : i \in DOMAIN Unheard(s)}

Listed == {list[manager][i] : i \in DOMAIN list[manager]}

IsNews(x) == x.type \in {"connected", "disconnected"}
IsAdd(x, id) == x.type = "add" /\ x.id = id
IsRemoval(x, id) == x.type = "remove" /\ x.id = id
AddComes(s, id) == \E x \in Coming(s) : IsAdd(x, id)
StartsIn(q) == \E x \in q : x.type = "start"

\* A buttonless page has no server.
Pages == server # None => page \in {"running", "unmounted"}

\* Requests of the lobby go to its server, or nowhere.
Runners ==
    /\ server # None => runner[manager] = server
    /\ \A s \in Servers : runner[manager] = s /\ proc[s] = "up" => server = s
    /\ \A m \in Managers : m > manager => runner[m] = None

\* Numbers are given out once.
Numbers ==
    /\ DOMAIN online = Servers
    /\ \A s \in Servers :
        /\ counter[s] # 0
        /\ \A id \in DOMAIN players[s] : id # 0 /\ players[s][id] \in 1 .. next_token - 1
        /\ \A id \in online[s] : id \in Nat /\ id < counter[s]
        /\ \A x \in Asked(s) : x.type = "add" => x.token \in 1 .. next_token - 1

\* A player that is to go was there, and does not come back.
RemovesOld(s) ==
    /\ \A x \in Asked(s)  : x.type = "remove" => x.id < counter[s]
    /\ \A x \in Coming(s) : x.type = "remove" =>
            x.id < counter[s] /\ x.id \notin DOMAIN players[s]

\* News of a player comes after the answer that tells its number and before
\* the one that takes it back.
InOrder(u, next, known) ==
    \A k \in DOMAIN u : IsNews(u[k]) =>
        /\ u[k].id < next
        /\ \/ u[k].id \in known
           \/ \E j \in DOMAIN u : j < k /\ IsAdd(u[j], u[k].id)
        /\ \A j \in DOMAIN u : j < k => ~IsRemoval(u[j], u[k].id)
        /\ \A j \in DOMAIN u : j > k => ~IsAdd(u[j], u[k].id)

NewsInOrder(s) ==
    subs[s] # NoSubs => InOrder(Unheard(s), counter[s], DOMAIN clients[manager])

Orderly == \A s \in Servers : Alive(s) => RemovesOld(s) /\ NewsInOrder(s)

\* A token is asked for once, and none that is to go is listed.
AskedOnce(s) ==
    /\ \A i, j \in DOMAIN to_server[s] :
        to_server[s][i].type = "add" /\ to_server[s][j].type = "add"
        /\ to_server[s][i].token = to_server[s][j].token => i = j
    /\ \A x \in Asked(s) : x.type = "add" =>
        /\ x.token \in Listed
        /\ \A id \in DOMAIN players[s] : players[s][id] # x.token
        /\ \A y \in Coming(s) : y.type = "add" => y.token # x.token
    /\ \A x \in Asked(s) : x.type = "remove" /\ x.id \in DOMAIN players[s] =>
        players[s][x.id] \notin Listed
    /\ \A y \in Coming(s) : y.type = "add" =>
        \A id \in DOMAIN players[s] : players[s][id] = y.token => id = y.id

\* Every slot has its player or has asked for it, every player its slot or is
\* asked to go, and the slot knows the player or will.
Matches(s) ==
    /\ \A t \in Listed :
        \/ \E id \in DOMAIN players[s] : players[s][id] = t
        \/ \E x \in Asked(s) : x.type = "add" /\ x.token = t
    /\ \A id \in DOMAIN players[s] :
        \/ players[s][id] \in Listed
        \/ \E x \in Asked(s) : IsRemoval(x, id)
    /\ \A id \in DOMAIN players[s] :
        slot[players[s][id]].clientId = id \/ AddComes(s, id)

\* A player with a client is shown as connected or will be.
Listens(s) ==
    /\ subs[s] = NoSubs => phase[s] = "playing" \/ StartsIn(Asked(s))
    /\ subs[s] # NoSubs => \A id \in online[s] : id \in DOMAIN players[s] =>
        \/ slot[players[s][id]].connected
        \/ \E x \in Coming(s) : x.type = "connected" /\ x.id = id

\* The start of the game is the last request, and answered.
Starts(s) ==
    /\ StartsIn(Asked(s)) => Len(to_server[s]) = 1
    /\ phase[s] = "playing" =>
        to_server[s] = <<>> /\ (page = "unmounted" \/ StartsIn(Coming(s)))

Served == \A s \in Servers : Serving(s) =>
    AskedOnce(s) /\ Matches(s) /\ Listens(s) /\ Starts(s)

\* A match is played with the slots it is saved with.
SavedStay ==
    \A match \in saved : proc[match.server] = "up" =>
        /\ phase[match.server] = "playing"
        /\ {match.players[i] : i \in DOMAIN match.players}
             = {players[match.server][id] : id \in DOMAIN players[match.server]}

\* The logs of local clients go by the place of the slot.
Filed ==
    /\ \A d \in dialed :
        /\ d.token \in Nat /\ d.token < next_token
        /\ \A i \in DOMAIN list[manager] : list[manager][i] = d.token => i = d.number
    /\ \A match \in saved : \A i \in DOMAIN match.players :
        /\ match.players[i] \in Nat /\ match.players[i] < next_token
        /\ \A j \in DOMAIN list[manager] : list[manager][j] # match.players[i]
    /\ \A match \in saved : \A d \in dialed : \A i \in DOMAIN match.players :
        match.players[i] = d.token =>
            d.number \in DOMAIN match.players /\ match.players[d.number] = d.token

Undisturbed == chunk = None /\ \A s \in Servers : ~stalled[s]

-----------------------------------------------------------------------------
(* News in order: the lists *)

LEMMA InOrderTail ==
    ASSUME NEW S, NEW u \in Seq(S), u # <<>>, NEW c, NEW known, NEW after,
           InOrder(u, c, known),
           Head(u).type = "add" => Head(u).id \in after,
           \A id \in known : IsRemoval(Head(u), id) \/ id \in after
    PROVE  InOrder(Tail(u), c, after)
<1> DEFINE v == Tail(u)
<1>1. /\ Head(u) = u[1] /\ 1 \in DOMAIN u /\ v \in Seq(S) /\ Len(v) = Len(u) - 1
      /\ \A i \in DOMAIN v : i + 1 \in DOMAIN u /\ v[i] = u[i + 1]
  BY TailIs
<1> HIDE DEF v
<1>2. DOMAIN u = 1 .. Len(u) /\ Len(u) \in Nat /\ DOMAIN v = 1 .. Len(u) - 1
  BY <1>1, LenProperties
<1> SUFFICES ASSUME NEW k \in DOMAIN v, IsNews(v[k])
             PROVE  /\ v[k].id < c
                    /\ \/ v[k].id \in after
                       \/ \E j \in DOMAIN v : j < k /\ IsAdd(v[j], v[k].id)
                    /\ \A j \in DOMAIN v : j < k => ~IsRemoval(v[j], v[k].id)
                    /\ \A j \in DOMAIN v : j > k => ~IsAdd(v[j], v[k].id)
  BY DEF InOrder, v
<1> DEFINE id == v[k].id
           l == k + 1
<1>3. l \in DOMAIN u /\ u[l] = v[k] /\ IsNews(u[l]) /\ k \in Nat /\ l \in Nat
  BY <1>1, <1>2
<1>4. /\ id < c
      /\ id \in known \/ \E j \in DOMAIN u : j < l /\ IsAdd(u[j], id)
      /\ \A j \in DOMAIN u : j < l => ~IsRemoval(u[j], id)
      /\ \A j \in DOMAIN u : j > l => ~IsAdd(u[j], id)
  BY <1>3 DEF InOrder
<1> HIDE DEF id
<1>5. \A j \in DOMAIN v : j < k => ~IsRemoval(v[j], id)
  BY <1>1, <1>2, <1>3, <1>4
<1>6. \A j \in DOMAIN v : j > k => ~IsAdd(v[j], id)
  BY <1>1, <1>2, <1>3, <1>4
<1>7. ~IsRemoval(Head(u), id)
  <2>1. 1 < l
    BY <1>2, <1>3
  <2> QED BY <2>1, <1>1, <1>4
<1>8. CASE id \in known
  BY <1>4, <1>5, <1>6, <1>7, <1>8 DEF id
<1>9. CASE \E j \in DOMAIN u : j < l /\ IsAdd(u[j], id)
  <2>1. PICK j \in DOMAIN u : j < l /\ IsAdd(u[j], id)
    BY <1>9
  <2>2. CASE j = 1
    BY <2>1, <2>2, <1>1, <1>4, <1>5, <1>6 DEF id, IsAdd
  <2>3. CASE j # 1
    <3>1. j - 1 \in DOMAIN v /\ j - 1 < k /\ v[j - 1] = u[(j - 1) + 1] /\ (j - 1) + 1 = j
      BY <2>1, <2>3, <1>1, <1>2, <1>3
    <3>2. IsAdd(v[j - 1], id)
      BY <3>1, <2>1
    <3> QED BY <3>1, <3>2, <1>4, <1>5, <1>6 DEF id
  <2> QED BY <2>2, <2>3
<1> QED BY <1>4, <1>8, <1>9

LEMMA InOrderAppend ==
    ASSUME NEW S, NEW u \in Seq(S), NEW e \in S, NEW known,
           NEW c \in Nat, NEW d \in Nat, c <= d, InOrder(u, c, known),
           \A k \in DOMAIN u : IsNews(u[k]) => u[k].id \in Nat,
           e.type = "add" => e.id = c,
           IsNews(e) => /\ e.id \in Nat /\ e.id < d
                        /\ \/ e.id \in known
                           \/ \E j \in DOMAIN u : IsAdd(u[j], e.id)
                        /\ \A j \in DOMAIN u : ~IsRemoval(u[j], e.id)
    PROVE  InOrder(Append(u, e), d, known)
<1> DEFINE v == Append(u, e)
           n == Len(u) + 1
<1>1. /\ \A i \in DOMAIN u : i \in DOMAIN v /\ v[i] = u[i]
      /\ v[n] = e /\ n \in DOMAIN v
      /\ \A i \in DOMAIN v : i \in DOMAIN u \/ i = n
      /\ \A i \in DOMAIN u : i \in Nat /\ i < n
      /\ n \in Nat
  BY AppendIs, LenProperties
<1> HIDE DEF v, n
<1> SUFFICES ASSUME NEW k \in DOMAIN v, IsNews(v[k])
             PROVE  /\ v[k].id < d
                    /\ \/ v[k].id \in known
                       \/ \E j \in DOMAIN v : j < k /\ IsAdd(v[j], v[k].id)
                    /\ \A j \in DOMAIN v : j < k => ~IsRemoval(v[j], v[k].id)
                    /\ \A j \in DOMAIN v : j > k => ~IsAdd(v[j], v[k].id)
  BY DEF InOrder, v
<1>2. CASE k = n
  <2>1. v[k] = e
    BY <1>1, <1>2
  <2>2. \A j \in DOMAIN v : j < k => j \in DOMAIN u /\ v[j] = u[j]
    BY <1>1, <1>2
  <2>3. \A j \in DOMAIN v : ~(j > k)
    BY <1>1, <1>2
  <2>4. \A j \in DOMAIN u : j \in DOMAIN v /\ j < k /\ v[j] = u[j]
    BY <1>1, <1>2
  <2> QED BY <2>1, <2>2, <2>3, <2>4
<1>3. CASE k \in DOMAIN u
  <2> DEFINE id == v[k].id
  <2>1. v[k] = u[k] /\ IsNews(u[k]) /\ id \in Nat
    BY <1>1, <1>3
  <2>2. /\ id < c
        /\ id \in known \/ \E j \in DOMAIN u : j < k /\ IsAdd(u[j], id)
        /\ \A j \in DOMAIN u : j < k => ~IsRemoval(u[j], id)
        /\ \A j \in DOMAIN u : j > k => ~IsAdd(u[j], id)
    BY <2>1, <1>3 DEF InOrder
  <2> HIDE DEF id
  <2>3. \A j \in DOMAIN v : j < k => j \in DOMAIN u /\ v[j] = u[j]
    BY <1>1, <1>3
  <2>4. \A j \in DOMAIN v : j > k => ~IsAdd(v[j], id)
    <3> SUFFICES ASSUME NEW j \in DOMAIN v, j > k PROVE ~IsAdd(v[j], id)
      OBVIOUS
    <3>1. CASE j \in DOMAIN u
      BY <3>1, <1>1, <2>2
    <3>2. CASE j = n
      <4>1. v[j] = e /\ id < c
        BY <3>2, <1>1, <2>2
      <4>2. e.type = "add" => e.id # id
        BY <4>1, <2>1
      <4> QED BY <4>1, <4>2 DEF IsAdd
    <3> QED BY <3>1, <3>2, <1>1
  <2>5. id < d
    BY <2>1, <2>2
  <2>6. id \in known \/ \E j \in DOMAIN v : j < k /\ IsAdd(v[j], id)
    BY <2>2, <1>1
  <2>7. \A j \in DOMAIN v : j < k => ~IsRemoval(v[j], id)
    BY <2>2, <2>3
  <2> QED BY <2>4, <2>5, <2>6, <2>7 DEF id
<1> QED BY <1>1, <1>2, <1>3

LEMMA InOrderFront ==
    ASSUME NEW S, NEW r \in Seq(S), NEW e \in S, e.type \in {"created", "failed"},
           NEW c, NEW known, InOrder(<<>> \o r, c, known)
    PROVE  InOrder(<<e>> \o r, c, known)
<1> DEFINE v == <<e>> \o r
<1>1. v \in Seq(S) /\ v # <<>> /\ Tail(v) = r /\ Head(v) = e /\ <<>> \o r = r
  <2>1. <<e>> \in Seq(S) /\ <<e>> # <<>> /\ Tail(<<e>>) = <<>> /\ Head(<<e>>) = e
        /\ <<>> \in Seq(S)
    OBVIOUS
  <2>2. /\ Tail(<<e>>) \o r = Tail(<<e>> \o r) /\ <<e>> \o r # <<>>
        /\ Head(<<e>> \o r) = Head(<<e>>)
    BY <2>1, TailOfConcat
  <2>3. <<>> \o r = r /\ <<e>> \o r \in Seq(S)
    BY <2>1, ConcatEmptySeq, ConcatProperties
  <2> QED BY <2>1, <2>2, <2>3
<1> HIDE DEF v
<1>2. /\ Head(v) = v[1] /\ 1 \in DOMAIN v /\ Tail(v) \in Seq(S) /\ Len(Tail(v)) = Len(v) - 1
      /\ \A i \in DOMAIN Tail(v) : i + 1 \in DOMAIN v /\ Tail(v)[i] = v[i + 1]
  BY <1>1, TailIs
<1>3. DOMAIN v = 1 .. Len(v) /\ Len(v) \in Nat /\ DOMAIN r = 1 .. Len(v) - 1
  BY <1>1, <1>2, LenProperties
<1>4. v[1] = e /\ \A i \in DOMAIN r : i + 1 \in DOMAIN v /\ r[i] = v[i + 1]
  BY <1>1, <1>2
<1>5. InOrder(r, c, known)
  BY <1>1
<1>6. ~IsNews(e) /\ \A id : ~IsAdd(e, id) /\ ~IsRemoval(e, id)
  BY DEF IsNews, IsAdd, IsRemoval
<1>7. \A k \in DOMAIN v : k # 1 => k - 1 \in DOMAIN r /\ v[k] = r[k - 1] /\ k \in Nat
  <2> TAKE k \in DOMAIN v
  <2>1. k # 1 => k - 1 \in DOMAIN r /\ (k - 1) + 1 = k
    BY <1>3
  <2> QED BY <2>1, <1>3, <1>4
<1> SUFFICES ASSUME NEW k \in DOMAIN v, IsNews(v[k])
             PROVE  /\ v[k].id < c
                    /\ \/ v[k].id \in known
                       \/ \E j \in DOMAIN v : j < k /\ IsAdd(v[j], v[k].id)
                    /\ \A j \in DOMAIN v : j < k => ~IsRemoval(v[j], v[k].id)
                    /\ \A j \in DOMAIN v : j > k => ~IsAdd(v[j], v[k].id)
  BY DEF InOrder, v
<1> DEFINE id == v[k].id
           l == k - 1
<1>8. k # 1 /\ l \in DOMAIN r /\ v[k] = r[l] /\ k \in Nat /\ l \in Nat /\ IsNews(r[l])
  <2>1. k # 1
    BY <1>4, <1>6
  <2> QED BY <2>1, <1>3, <1>7
<1>9. /\ id < c
      /\ id \in known \/ \E j \in DOMAIN r : j < l /\ IsAdd(r[j], id)
      /\ \A j \in DOMAIN r : j < l => ~IsRemoval(r[j], id)
      /\ \A j \in DOMAIN r : j > l => ~IsAdd(r[j], id)
  BY <1>5, <1>8 DEF InOrder
<1> HIDE DEF id
<1>10. ASSUME NEW j \in DOMAIN v
       PROVE  /\ j < k => ~IsRemoval(v[j], id)
              /\ j > k => ~IsAdd(v[j], id)
  <2>1. CASE j = 1
    BY <2>1, <1>4, <1>6
  <2>2. CASE j # 1
    <3>1. j - 1 \in DOMAIN r /\ v[j] = r[j - 1] /\ j \in Nat
      BY <2>2, <1>7
    <3>2. (j < k => j - 1 < l) /\ (j > k => j - 1 > l)
      BY <3>1, <1>8
    <3> QED BY <3>1, <3>2, <1>9
  <2> QED BY <2>1, <2>2
<1>11. ASSUME NEW j \in DOMAIN r, j < l, IsAdd(r[j], id)
       PROVE  \E i \in DOMAIN v : i < k /\ IsAdd(v[i], id)
  <2>1. j + 1 \in DOMAIN v /\ v[j + 1] = r[j] /\ j \in Nat
    BY <1>3, <1>4
  <2>2. j + 1 < k
    BY <2>1, <1>8, <1>11
  <2> QED BY <2>1, <2>2, <1>11
<1> QED BY <1>9, <1>10, <1>11 DEF id

-----------------------------------------------------------------------------
(* A user who waits *)

\* unregisterSlot asks for the player of each slot that has one.
LEMMA RemovalsAll ==
    ASSUME LobbyAssumption, Typed, NEW m \in Managers, runner[m] # None,
           NEW ts \in Seq(Tokens)
    PROVE  /\ \A k \in DOMAIN Removals(m, ts) :
                Removals(m, ts)[k].id = slot[Removals(m, ts)[k].token].clientId
           /\ \A i \in DOMAIN ts : slot[ts[i]].clientId # None =>
                \E k \in DOMAIN Removals(m, ts) : Removals(m, ts)[k].token = ts[i]
<1> DEFINE at == {i \in DOMAIN ts : slot[ts[i]].clientId # None}
           f == Ascending(at)
           n == Cardinality(at)
           Ask(k) == RemovePlayer(m, ts[f[k]], slot[ts[f[k]]].clientId)
<1>1. DOMAIN ts = 1 .. Len(ts) /\ Len(ts) \in Nat
  BY LenProperties
<1>2. at \subseteq 1 .. Len(ts) /\ IsFiniteSet(at)
  <2>1. IsFiniteSet(1 .. Len(ts))
    BY <1>1, FS_Interval
  <2> QED BY <1>1, <2>1, FS_Subset
<1>3. n \in Nat /\ IsAscending(f, at)
  <2> HIDE DEF at
  <2> QED BY <1>1, <1>2, AscendingExists
<1> HIDE DEF at, f
<1>4. /\ f \in [1 .. n -> at]
      /\ \A i, j \in 1 .. n : i < j => f[i] < f[j]
  BY <1>3 DEF IsAscending
<1>5. f \in Injection(1 .. n, at)
  <2>1. ASSUME NEW i \in 1 .. n, NEW j \in 1 .. n, f[i] = f[j] PROVE i = j
    <3>0. f[i] \in at /\ f[j] \in at
      BY <1>4
    <3>01. f[i] \in 1 .. Len(ts) /\ f[j] \in 1 .. Len(ts)
      BY <1>2, <3>0, Zenon
    <3> DEFINE a == f[i]
               b == f[j]
    <3>02. a \in 1 .. Len(ts) /\ b \in 1 .. Len(ts)
      BY <3>01
    <3> HIDE DEF a, b
    <3>03. a \in Nat /\ b \in Nat
      BY <1>1, <3>02
    <3>1. f[i] \in Nat /\ f[j] \in Nat
      BY <3>03 DEF a, b
    <3>2. ~(i < j) /\ ~(j < i)
      BY <1>4, <2>1, <3>1
    <3> QED BY <3>2, <1>3
  <2> QED BY <1>4, <2>1 DEF Injection, IsInjective
<1>6. f \in Surjection(1 .. n, at)
  <2>1. IsFiniteSet(1 .. n) /\ Cardinality(1 .. n) = n
    BY <1>3, FS_Interval
  <2> QED BY <2>1, <1>2, <1>5, FS_Injection
<1>7. Removals(m, ts) = [k \in DOMAIN f |-> Ask(k)]
  BY DEF Removals, f, at
<1>8. /\ DOMAIN Removals(m, ts) = 1 .. n
      /\ \A k \in 1 .. n : Removals(m, ts)[k] = Ask(k)
  BY <1>4, <1>7
<1>9. \A k \in 1 .. n : Ask(k).token = ts[f[k]] /\ Ask(k).id = slot[ts[f[k]]].clientId
  BY DEF RemovePlayer
<1>10. \A i \in at : \E k \in 1 .. n : f[k] = i
  BY <1>6 DEF Surjection
<1>11. \A k \in DOMAIN Removals(m, ts) :
            Removals(m, ts)[k].id = slot[Removals(m, ts)[k].token].clientId
  BY <1>8, <1>9
<1>12. ASSUME NEW i \in DOMAIN ts, slot[ts[i]].clientId # None
       PROVE  \E k \in DOMAIN Removals(m, ts) : Removals(m, ts)[k].token = ts[i]
  <2>1. i \in at
    BY <1>12 DEF at
  <2> QED BY <2>1, <1>8, <1>9, <1>10
<1> QED BY <1>11, <1>12

LEMMA RegistrationsAll ==
    ASSUME NEW m \in Managers, runner[m] # None, NEW ts \in Seq(Nat)
    PROVE  /\ DOMAIN Registrations(m, ts) = DOMAIN ts
           /\ \A i \in DOMAIN ts :
                Registrations(m, ts)[i].type = "add" /\ Registrations(m, ts)[i].token = ts[i]
BY DEF Registrations, AddPlayer

\* Nothing is under way when such a user clicks.
LEMMA ClickIs ==
    ASSUME UserWaits, Click, NEW s \in Servers
    PROVE  /\ tasks = <<>> /\ to_server[s] = <<>> /\ to_client[s] = <<>>
           /\ page # "unmounted" /\ promise[s] # "pending" /\ chunk = None
           /\ Unheard(s) = <<>> /\ Asked(s) = {} /\ Coming(s) = {}
<1>1. /\ tasks = <<>> /\ to_server[s] = <<>> /\ to_client[s] = <<>>
      /\ page # "unmounted" /\ promise[s] # "pending" /\ chunk = None
  BY DEF Click, Settled, Idle
<1>2. <<>> \o <<>> = <<>>
  OBVIOUS
<1>3. Unheard(s) = <<>>
  BY <1>1, <1>2 DEF Unheard
<1>4. Asked(s) = {} /\ Coming(s) = {}
  BY <1>1, <1>3 DEF Asked, Coming
<1> QED BY <1>1, <1>3, <1>4

\* The slots of the lobby are the players of server s.
Paired(s) ==
    /\ \A t \in Listed : \E id \in DOMAIN players[s] :
            players[s][id] = t /\ slot[t].clientId = id
    /\ \A id \in DOMAIN players[s] :
            players[s][id] \in Listed /\ slot[players[s][id]].clientId = id

LEMMA SettledIsPaired ==
    ASSUME NEW s \in Servers, Asked(s) = {}, Coming(s) = {}, page # "unmounted",
           phase[s] \in {"lobby", "playing"},
           Matches(s), Listens(s), Starts(s)
    PROVE  Paired(s) /\ phase[s] = "lobby" /\ subs[s] # NoSubs
<1>1. Paired(s)
  BY DEF Matches, AddComes, Paired
<1>2. phase[s] = "lobby"
  BY DEF Starts, StartsIn
<1>3. subs[s] # NoSubs
  BY <1>2 DEF Listens, StartsIn
<1> QED BY <1>1, <1>2, <1>3

\* A click on slots while the lobby has server s: the old slots stay or are
\* asked to go, the new ones are asked for.
Reslotted(s) ==
    /\ UNCHANGED <<page, server, manager, clients, runner, slot, tasks, to_client,
                   runnerVars, noteVars, procVars, lobbyVars>>
    /\ \A x \in Asked(s)' :
        \/ x.type = "add" /\ x.token \in Listed' \ Listed
        \/ x.type = "remove" /\ x.token \in Listed \ Listed' /\ x.id = slot[x.token].clientId
    /\ \A i, j \in DOMAIN to_server'[s] :
        to_server'[s][i].type = "add" /\ to_server'[s][j].type = "add"
        /\ to_server'[s][i].token = to_server'[s][j].token => i = j
    /\ \A t \in Listed' \ Listed :
        /\ t \in Nat /\ t >= next_token
        /\ \E x \in Asked(s)' : x.type = "add" /\ x.token = t
    /\ \A t \in Listed \ Listed' : slot[t].clientId # None =>
        \E x \in Asked(s)' : x.type = "remove" /\ x.token = t

LEMMA ReslottedServes ==
    ASSUME Typed, NEW s \in Servers, Reslotted(s), Paired(s), Numbers,
           TokensDiffer, Coming(s) = {}, phase[s] = "lobby", subs[s] # NoSubs,
           Listens(s)
    PROVE  AskedOnce(s)' /\ Matches(s)' /\ Listens(s)' /\ Starts(s)'
<1>1. /\ UNCHANGED <<page, slot, tasks, to_client, subs, phase, players, counter, online>>
      /\ Coming(s)' = Coming(s)
  BY DEF Reslotted, runnerVars, lobbyVars, Coming, Unheard
<1>2. \A id \in DOMAIN players[s] : players[s][id] < next_token /\ id # None
  BY DEF Numbers, None, Typed
<1>3. \A x \in Asked(s)' : x.type # "start"
  BY DEF Reslotted
<1>4. AskedOnce(s)'
  <2>1. \A x \in Asked(s)' : x.type = "add" =>
            x.token \in Listed' /\ \A id \in DOMAIN players[s] : players[s][id] # x.token
    <3> SUFFICES ASSUME NEW x \in Asked(s)', x.type = "add"
                 PROVE  /\ x.token \in Listed'
                        /\ \A id \in DOMAIN players[s] : players[s][id] # x.token
      OBVIOUS
    <3>1. x.token \in Listed' \ Listed
      BY DEF Reslotted
    <3> QED BY <3>1 DEF Paired
  <2>2. ASSUME NEW x \in Asked(s)', x.type = "remove", x.id \in DOMAIN players[s]
        PROVE  players[s][x.id] \notin Listed'
    <3>1. x.token \in Listed \ Listed' /\ x.id = slot[x.token].clientId
      BY <2>2 DEF Reslotted
    <3>2. PICK id \in DOMAIN players[s] : players[s][id] = x.token /\ slot[x.token].clientId = id
      BY <3>1 DEF Paired
    <3> QED BY <3>1, <3>2
  <2>3. \A i, j \in DOMAIN to_server'[s] :
            to_server'[s][i].type = "add" /\ to_server'[s][j].type = "add"
            /\ to_server'[s][i].token = to_server'[s][j].token => i = j
    BY DEF Reslotted
  <2> QED BY <1>1, <2>1, <2>2, <2>3 DEF AskedOnce
<1>5. Matches(s)'
  <2>1. ASSUME NEW t \in Listed'
        PROVE  \/ \E id \in DOMAIN players[s] : players[s][id] = t
               \/ \E x \in Asked(s)' : x.type = "add" /\ x.token = t
    BY DEF Paired, Reslotted
  <2>2. ASSUME NEW id \in DOMAIN players[s], players[s][id] \notin Listed'
        PROVE  \E x \in Asked(s)' : IsRemoval(x, id)
    <3>1. players[s][id] \in Listed \ Listed' /\ slot[players[s][id]].clientId = id
      BY <2>2 DEF Paired
    <3>2. PICK x \in Asked(s)' : x.type = "remove" /\ x.token = players[s][id]
      BY <1>2, <3>1 DEF Reslotted
    <3>3. x.id = id
      BY <3>1, <3>2 DEF Reslotted
    <3> QED BY <3>2, <3>3 DEF IsRemoval
  <2>3. \A id \in DOMAIN players[s] : slot[players[s][id]].clientId = id
    BY DEF Paired
  <2> QED BY <1>1, <2>1, <2>2, <2>3 DEF Matches
<1>6. Listens(s)'
  BY <1>1 DEF Listens
<1>7. Starts(s)'
  BY <1>1, <1>3 DEF Starts, StartsIn
<1> QED BY <1>4, <1>5, <1>6, <1>7

-----------------------------------------------------------------------------
(* Slots and players: the clicks *)

LEMMA SentAlone ==
    ASSUME Typed, NEW s \in Servers, NEW requests \in Seq(Requests), Send(s, requests),
           proc[s] = "up", to_server[s] = <<>>
    PROVE  to_server'[s] = requests /\ Asked(s)' = {requests[i] : i \in DOMAIN requests}
<1>1. to_server'[s] = to_server[s] \o requests
  BY DEF Send
<1>2. <<>> \o requests = requests
  BY ConcatEmptySeq
<1> QED BY <1>1, <1>2 DEF Asked

LEMMA SelectMapReslots ==
    ASSUME LobbyAssumption, Books, UserWaits, Runners, NEW n \in SlotCounts, SelectMap(n),
           NEW s \in Servers, Serving(s)
    PROVE  Reslotted(s)
<1> DEFINE l == list[manager]
           z == Resized(manager, n)
           G == Grown(manager, n)
           D == Dropped(manager, n)
           R1 == Registrations(manager, G)
           R2 == Removals(manager, D)
<1>0. /\ Typed /\ TokensDiffer /\ manager \in Managers /\ n \in Nat
      /\ l \in Seq(Nat) /\ list \in [Managers -> Seq(Nat)]
      /\ next_token \in Nat /\ s # None /\ proc[s] = "up" /\ server = s
      /\ to_server[s] = <<>>
      /\ next_token + Len(G) <= MaxTokens + 1
      /\ list' = [list EXCEPT ![manager] = z]
      /\ Send(runner[manager], R1 \o R2)
      /\ UNCHANGED <<page, server, manager, clients, runner, slot, tasks, to_client,
                     runnerVars, noteVars, procVars, lobbyVars>>
  <2>1. Click /\ UpdateSlots(n)
    BY DEF SelectMap
  <2>2. to_server[s] = <<>>
    BY <2>1, ClickIs
  <2>3. /\ Typed /\ TokensDiffer /\ manager \in Managers /\ n \in Nat
        /\ l \in Seq(Nat) /\ list \in [Managers -> Seq(Nat)]
        /\ next_token \in Nat
    <3>1. Typed /\ TokensDiffer
      BY DEF Books
    <3>2. n \in Nat
      BY DEF LobbyAssumption
    <3>3. /\ manager \in Managers /\ list \in [Managers -> Seq(Nat)]
          /\ next_token \in Nat
      BY <3>1 DEF Typed
    <3> QED BY <3>1, <3>2, <3>3
  <2>4. s # None /\ proc[s] = "up" /\ server = s
    BY DEF Serving, Servers, None
  <2>5. /\ next_token + Len(G) <= MaxTokens + 1
        /\ list' = [list EXCEPT ![manager] = z]
        /\ Send(runner[manager], R1 \o R2)
    BY <2>1 DEF UpdateSlots
  <2>6. UNCHANGED <<page, server, manager, clients, runner, slot, tasks, to_client,
                    runnerVars, noteVars, procVars, lobbyVars>>
    BY <2>1 DEF UpdateSlots, loopVars
  <2> QED BY <2>2, <2>3, <2>4, <2>5, <2>6
<1>1. runner[manager] = s
  BY <1>0 DEF Runners
<1> HIDE DEF R1, R2
<1>2. /\ z \in Seq(Nat) /\ G \in Seq(Nat) /\ D \in Seq(Tokens)
      /\ \A i \in DOMAIN z :
            \/ i \in DOMAIN l /\ z[i] = l[i]
            \/ i > Len(l) /\ z[i] \in ToSet(G)
      /\ \A i \in DOMAIN D : \E j \in DOMAIN l :
            D[i] = l[j] /\ j > n /\ \A k \in DOMAIN z : k <= n
      /\ \A j \in DOMAIN l :
            \/ j \in DOMAIN z /\ z[j] = l[j]
            \/ \E i \in DOMAIN D : D[i] = l[j]
      /\ \A i \in DOMAIN G :
            /\ G[i] = next_token + i - 1 /\ i \in Nat \ {0}
            /\ \E k \in DOMAIN z : z[k] = G[i]
  <2>1. /\ Typed /\ TokensDiffer /\ manager \in Managers /\ n \in Nat
        /\ next_token + Len(Grown(manager, n)) <= MaxTokens + 1
    BY <1>0
  <2>2. /\ z \in Seq(Nat) /\ G \in Seq(Nat) /\ D \in Seq(Tokens)
    BY <2>1, ResizedIs
  <2>3. \A i \in DOMAIN z :
            \/ i \in DOMAIN l /\ z[i] = l[i]
            \/ i > Len(l) /\ z[i] \in ToSet(G)
    BY <2>1, ResizedIs
  <2>4. \A i \in DOMAIN D : \E j \in DOMAIN l :
            /\ D[i] = l[j]
            /\ j > n /\ \A k \in DOMAIN z : k <= n
    BY <2>1, ResizedIs, Zenon
  <2>5. \A j \in DOMAIN l :
            \/ j \in DOMAIN z /\ z[j] = l[j]
            \/ \E i \in DOMAIN D : D[i] = l[j]
    BY <2>1, ResizedIs
  <2>6. \A i \in DOMAIN G :
            /\ G[i] = next_token + i - 1 /\ i \in Nat \ {0}
            /\ \E k \in DOMAIN z : z[k] = G[i]
    BY <2>1, ResizedIs
  <2> QED BY <2>2, <2>3, <2>4, <2>5, <2>6
<1> HIDE DEF l, z, G, D
<1>3. /\ R1 \in Seq(Requests) /\ DOMAIN R1 = DOMAIN G
      /\ \A i \in DOMAIN R1 : R1[i].type = "add" /\ R1[i].token = G[i]
  <2>1. manager \in Managers /\ runner[manager] # None /\ G \in Seq(Nat)
    BY <1>0, <1>1, <1>2
  <2>2. R1 \in Seq(Requests)
    BY <2>1, RegistrationsAre DEF R1
  <2> QED BY <2>1, <2>2, RegistrationsAll DEF R1
<1>4. /\ R2 \in Seq(Requests)
      /\ \A k \in DOMAIN R2 : \E i \in DOMAIN D :
            R2[k].type = "remove" /\ R2[k].token = D[i]
      /\ \A k \in DOMAIN R2 : R2[k].id = slot[R2[k].token].clientId
      /\ \A i \in DOMAIN D : slot[D[i]].clientId # None =>
            \E k \in DOMAIN R2 : R2[k].token = D[i]
  <2>0. Typed /\ manager \in Managers /\ runner[manager] # None /\ D \in Seq(Tokens)
    BY <1>0, <1>1, <1>2
  <2>1. /\ R2 \in Seq(Requests)
        /\ \A k \in DOMAIN R2 : \E i \in DOMAIN D :
            R2[k].type = "remove" /\ R2[k].token = D[i]
    BY <2>0, RemovalsAre DEF R2
  <2>2. /\ \A k \in DOMAIN R2 : R2[k].id = slot[R2[k].token].clientId
        /\ \A i \in DOMAIN D : slot[D[i]].clientId # None =>
              \E k \in DOMAIN R2 : R2[k].token = D[i]
    BY <2>0, RemovalsAll DEF R2
  <2> QED BY <2>1, <2>2
<1> DEFINE q == R1 \o R2
<1>5. /\ q \in Seq(Requests)
      /\ \A i \in DOMAIN q :
            \/ i \in DOMAIN R1 /\ q[i] = R1[i]
            \/ \E k \in DOMAIN R2 : q[i] = R2[k]
      /\ \A i \in DOMAIN R1 : i \in DOMAIN q /\ q[i] = R1[i]
      /\ \A k \in DOMAIN R2 : \E i \in DOMAIN q : q[i] = R2[k]
  <2>1. R1 \in Seq(Requests) /\ R2 \in Seq(Requests)
    BY <1>3, <1>4
  <2> HIDE DEF q
  <2>2. /\ q \in Seq(Requests)
        /\ \A i \in DOMAIN q :
            \/ i \in DOMAIN R1 /\ q[i] = R1[i]
            \/ i - Len(R1) \in DOMAIN R2 /\ q[i] = R2[i - Len(R1)]
        /\ \A i \in DOMAIN R1 : i \in DOMAIN q /\ q[i] = R1[i]
        /\ \A k \in DOMAIN R2 : Len(R1) + k \in DOMAIN q /\ q[Len(R1) + k] = R2[k]
    BY <2>1, ConcatIs DEF q
  <2> QED BY <2>2
<1>6. Asked(s)' = {q[i] : i \in DOMAIN q} /\ to_server'[s] = q
  BY <1>0, <1>1, <1>5, SentAlone
<1> HIDE DEF q
<1>7. Listed = {l[i] : i \in DOMAIN l} /\ Listed' = {z[i] : i \in DOMAIN z}
  <2>1. list'[manager'] = z /\ list[manager] = l
    BY <1>0 DEF l
  <2> QED BY <2>1 DEF Listed
<1>8. /\ \A j \in DOMAIN l : l[j] \in 1 .. next_token - 1
      /\ \A i, j \in DOMAIN l : l[i] = l[j] => i = j
      /\ DOMAIN l = 1 .. Len(l) /\ Len(l) \in Nat
      /\ DOMAIN z = 1 .. Len(z) /\ Len(z) \in Nat
  <2>1. DOMAIN l = 1 .. Len(l) /\ Len(l) \in Nat /\ DOMAIN z = 1 .. Len(z) /\ Len(z) \in Nat
    BY <1>0, <1>2, LenProperties
  <2> QED BY <1>0, <2>1 DEF TokensDiffer, l
<1>9. ASSUME NEW i \in DOMAIN G PROVE G[i] \in Listed' \ Listed /\ G[i] \in Nat /\ G[i] >= next_token
  <2>1. G[i] = next_token + i - 1 /\ i \in Nat \ {0}
    BY <1>2
  <2>2. G[i] \in Nat /\ G[i] >= next_token
    BY <2>1, <1>0
  <2>3. \A j \in DOMAIN l : l[j] # G[i]
    BY <2>2, <1>0, <1>8
  <2>4. G[i] \in Listed' /\ G[i] \notin Listed
    BY <2>3, <1>2, <1>7
  <2> QED BY <2>2, <2>4
<1>10. ASSUME NEW i \in DOMAIN D PROVE D[i] \in Listed \ Listed'
  <2>1. PICK j \in DOMAIN l : D[i] = l[j] /\ j > n /\ \A k \in DOMAIN z : k <= n
    BY <1>2
  <2>2. ASSUME NEW k \in DOMAIN z PROVE z[k] # l[j]
    <3>1. k # j /\ ~(k > Len(l))
      BY <2>1, <1>0, <1>8
    <3>2. k \in DOMAIN l /\ z[k] = l[k]
      BY <3>1, <1>2
    <3> QED BY <3>1, <3>2, <1>8
  <2> QED BY <2>1, <2>2, <1>7
<1>11. \A x \in Asked(s)' :
        \/ x.type = "add" /\ x.token \in Listed' \ Listed
        \/ x.type = "remove" /\ x.token \in Listed \ Listed' /\ x.id = slot[x.token].clientId
  <2> SUFFICES ASSUME NEW i \in DOMAIN q
               PROVE  \/ q[i].type = "add" /\ q[i].token \in Listed' \ Listed
                      \/ /\ q[i].type = "remove" /\ q[i].token \in Listed \ Listed'
                         /\ q[i].id = slot[q[i].token].clientId
    BY <1>6
  <2>1. CASE i \in DOMAIN R1 /\ q[i] = R1[i]
    BY <2>1, <1>3, <1>9
  <2>2. CASE \E k \in DOMAIN R2 : q[i] = R2[k]
    BY <2>2, <1>4, <1>10
  <2> QED BY <2>1, <2>2, <1>5
<1>12. ASSUME NEW i \in DOMAIN q, NEW j \in DOMAIN q, q[i].type = "add", q[j].type = "add",
              q[i].token = q[j].token
       PROVE  i = j
  <2>1. \A k \in DOMAIN R2 : R2[k].type # "add"
    BY <1>4
  <2>2. i \in DOMAIN R1 /\ j \in DOMAIN R1 /\ q[i] = R1[i] /\ q[j] = R1[j]
    BY <2>1, <1>5, <1>12
  <2>3. G[i] = G[j] /\ i \in DOMAIN G /\ j \in DOMAIN G
    BY <2>2, <1>3, <1>12
  <2>4. G[i] = next_token + i - 1 /\ G[j] = next_token + j - 1 /\ i \in Nat /\ j \in Nat
    BY <2>3, <1>2
  <2>5. next_token + i - 1 = next_token + j - 1 /\ next_token \in Nat
    BY <2>3, <2>4, <1>0
  <2> QED BY <2>4, <2>5
<1>13. ASSUME NEW t \in Listed' \ Listed
       PROVE  /\ t \in Nat /\ t >= next_token
              /\ \E x \in Asked(s)' : x.type = "add" /\ x.token = t
  <2>1. PICK k \in DOMAIN z : z[k] = t
    BY <1>7
  <2>2. t \in ToSet(G)
    BY <2>1, <1>2, <1>7
  <2>3. PICK i \in DOMAIN G : G[i] = t
    BY <2>2 DEF ToSet
  <2>4. i \in DOMAIN q /\ q[i] = R1[i] /\ R1[i].type = "add" /\ R1[i].token = t
    BY <2>3, <1>3, <1>5
  <2>5. q[i] \in Asked(s)'
    BY <2>4, <1>6
  <2>6. q[i].type = "add" /\ q[i].token = t
    BY <2>4
  <2> QED BY <2>3, <2>5, <2>6, <1>9
<1>14. ASSUME NEW t \in Listed \ Listed', slot[t].clientId # None
       PROVE  \E x \in Asked(s)' : x.type = "remove" /\ x.token = t
  <2>1. PICK j \in DOMAIN l : l[j] = t
    BY <1>7
  <2>2. PICK i \in DOMAIN D : D[i] = t
    BY <2>1, <1>2, <1>7
  <2>3. PICK k \in DOMAIN R2 : R2[k].token = t
    BY <2>2, <1>14, <1>4
  <2>4. R2[k].type = "remove"
    BY <1>4
  <2>5. PICK h \in DOMAIN q : q[h] = R2[k]
    BY <1>5
  <2>6. q[h] \in Asked(s)' /\ q[h].type = "remove" /\ q[h].token = t
    BY <2>3, <2>4, <2>5, <1>6
  <2> QED BY <2>6
<1>15. \A i, j \in DOMAIN to_server'[s] :
        to_server'[s][i].type = "add" /\ to_server'[s][j].type = "add"
        /\ to_server'[s][i].token = to_server'[s][j].token => i = j
  BY <1>6, <1>12
<1>16. UNCHANGED <<page, server, manager, clients, runner, slot, tasks, to_client,
                   runnerVars, noteVars, procVars, lobbyVars>>
  BY <1>0
<1> QED BY <1>11, <1>13, <1>14, <1>15, <1>16 DEF Reslotted

LEMMA KickPlayerReslots ==
    ASSUME LobbyAssumption, Books, UserWaits, Runners, NEW n \in 1 .. MaxTokens,
           KickPlayer(n), NEW s \in Servers, Serving(s)
    PROVE  Reslotted(s)
<1> DEFINE l == list[manager]
           z == [l EXCEPT ![n] = next_token]
           D == <<l[n]>>
           G == <<next_token>>
           R1 == Removals(manager, D)
           R2 == Registrations(manager, G)
<1>0. /\ Typed /\ manager \in Managers /\ n \in DOMAIN l /\ n \in Nat
      /\ list \in [Managers -> Seq(Nat)] /\ l \in Seq(Nat)
      /\ next_token \in Nat /\ s # None /\ proc[s] = "up" /\ server = s
      /\ to_server[s] = <<>>
      /\ list'[manager'] = z
      /\ Send(runner[manager], R1 \o R2)
      /\ UNCHANGED <<page, server, manager, clients, runner, slot, tasks, to_client,
                     runnerVars, noteVars, procVars, lobbyVars>>
  <2>1. Click /\ n \in DOMAIN list[manager]
    BY DEF KickPlayer
  <2>2. to_server[s] = <<>>
    BY <2>1, ClickIs
  <2>3. /\ Typed /\ manager \in Managers
        /\ list \in [Managers -> Seq(Nat)] /\ l \in Seq(Nat)
        /\ next_token \in Nat
    <3>1. Typed
      BY DEF Books
    <3>2. manager \in Managers /\ list \in [Managers -> Seq(Nat)] /\ next_token \in Nat
      BY <3>1 DEF Typed
    <3> QED BY <3>1, <3>2
  <2>4. s # None /\ proc[s] = "up" /\ server = s
    BY DEF Serving, Servers, None
  <2>5. /\ list' = [list EXCEPT ![manager][n] = next_token]
        /\ Send(runner[manager], R1 \o R2)
    BY DEF KickPlayer
  <2>6. UNCHANGED <<page, server, manager, clients, runner, slot, tasks, to_client,
                    runnerVars, noteVars, procVars, lobbyVars>>
    BY DEF KickPlayer, loopVars
  <2>7. list'[manager'] = z
    BY <2>3, <2>5, <2>6
  <2> QED BY <2>1, <2>2, <2>3, <2>4, <2>5, <2>6, <2>7
<1>1. runner[manager] = s /\ runner[manager] # None
  BY <1>0 DEF Runners
<1>2. /\ DOMAIN l = 1 .. Len(l)
      /\ \A j \in DOMAIN l : l[j] \in 1 .. next_token - 1
      /\ \A i, j \in DOMAIN l : l[i] = l[j] => i = j
      /\ l[n] \in Tokens
  <2>1. /\ \A j \in DOMAIN l : l[j] \in 1 .. next_token - 1
        /\ \A i, j \in DOMAIN l : l[i] = l[j] => i = j
    BY <1>0 DEF Books, TokensDiffer
  <2>2. next_token \in 1 .. MaxTokens + 1 /\ MaxTokens \in Nat
    BY DEF Books, Typed, LobbyAssumption
  <2>3. l[n] \in Tokens
    BY <1>0, <2>1, <2>2 DEF Tokens
  <2> QED BY <1>0, <2>1, <2>3, LenProperties
<1>3. DOMAIN z = DOMAIN l /\ \A j \in DOMAIN l : z[j] = IF j = n THEN next_token ELSE l[j]
  BY <1>0
<1>4. /\ D \in Seq(Tokens) /\ DOMAIN D = {1} /\ D[1] = l[n]
      /\ G \in Seq(Nat) /\ DOMAIN G = {1} /\ G[1] = next_token
  BY <1>0, <1>2
<1> HIDE DEF l, z, D, G, R1, R2
<1>5. /\ R1 \in Seq(Requests)
      /\ \A k \in DOMAIN R1 : R1[k].type = "remove" /\ R1[k].token = l[n]
      /\ \A k \in DOMAIN R1 : R1[k].id = slot[R1[k].token].clientId
      /\ slot[l[n]].clientId # None => \E k \in DOMAIN R1 : R1[k].token = l[n]
  <2>1. /\ R1 \in Seq(Requests)
        /\ \A k \in DOMAIN R1 : \E i \in DOMAIN D :
            R1[k].type = "remove" /\ R1[k].token = D[i]
    BY <1>0, <1>4, RemovalsAre DEF R1
  <2>2. /\ \A k \in DOMAIN R1 : R1[k].id = slot[R1[k].token].clientId
        /\ \A i \in DOMAIN D : slot[D[i]].clientId # None =>
              \E k \in DOMAIN R1 : R1[k].token = D[i]
    BY <1>0, <1>1, <1>4, RemovalsAll DEF R1
  <2> QED BY <2>1, <2>2, <1>4
<1>6. R2 \in Seq(Requests) /\ DOMAIN R2 = {1} /\ R2[1].type = "add" /\ R2[1].token = next_token
  <2>1. manager \in Managers /\ runner[manager] # None /\ G \in Seq(Nat)
    BY <1>0, <1>1, <1>4
  <2>2. R2 \in Seq(Requests)
    BY <2>1, RegistrationsAre DEF R2
  <2>3. /\ DOMAIN R2 = DOMAIN G
        /\ \A i \in DOMAIN G : R2[i].type = "add" /\ R2[i].token = G[i]
    BY <2>1, RegistrationsAll DEF R2
  <2> QED BY <2>2, <2>3, <1>4
<1> DEFINE q == R1 \o R2
           e == Len(R1) + 1
<1>7. /\ q \in Seq(Requests)
      /\ \A i \in DOMAIN q :
            \/ i \in DOMAIN R1 /\ q[i] = R1[i]
            \/ i = e /\ q[i] = R2[1]
      /\ \A i \in DOMAIN R1 : i \in DOMAIN q /\ q[i] = R1[i]
      /\ e \in DOMAIN q /\ q[e] = R2[1]
  <2> HIDE DEF q
  <2>1. /\ q \in Seq(Requests)
        /\ \A i \in DOMAIN q :
            \/ i \in DOMAIN R1 /\ q[i] = R1[i]
            \/ i - Len(R1) \in DOMAIN R2 /\ q[i] = R2[i - Len(R1)]
        /\ \A i \in DOMAIN R1 : i \in DOMAIN q /\ q[i] = R1[i]
        /\ \A k \in DOMAIN R2 : Len(R1) + k \in DOMAIN q /\ q[Len(R1) + k] = R2[k]
    BY <1>5, <1>6, ConcatIs DEF q
  <2>2. Len(R1) \in Nat /\ DOMAIN q = 1 .. Len(q) /\ Len(q) \in Nat
    BY <1>5, <2>1, LenProperties
  <2>3. \A i \in DOMAIN q : i - Len(R1) \in DOMAIN R2 => i = e /\ i - Len(R1) = 1
    BY <1>6, <2>2
  <2> QED BY <2>1, <2>3, <1>6
<1>8. Asked(s)' = {q[i] : i \in DOMAIN q} /\ to_server'[s] = q
  BY <1>0, <1>1, <1>7, SentAlone
<1> HIDE DEF q, e
<1>9. Listed = {l[i] : i \in DOMAIN l} /\ Listed' = {z[i] : i \in DOMAIN z}
  <2>1. list'[manager'] = z /\ list[manager] = l
    BY <1>0 DEF l
  <2> QED BY <2>1 DEF Listed
<1>10. next_token \notin Listed /\ next_token \in Listed' /\ l[n] \in Listed
  <2>1. \A j \in DOMAIN l : l[j] # next_token
    BY <1>0, <1>2
  <2> QED BY <2>1, <1>0, <1>3, <1>9
<1>11. l[n] \notin Listed'
  <2>1. ASSUME NEW j \in DOMAIN l
        PROVE  z[j] # l[n]
    <3>1. CASE j = n
      <4>1. z[j] = next_token
        BY <3>1, <1>3
      <4>2. l[n] # next_token
        BY <1>10
      <4> QED BY <4>1, <4>2
    <3>2. CASE j # n
      BY ONLY <3>2, <1>0, <1>2, <1>3
    <3> QED BY <3>1, <3>2
  <2> QED BY <2>1, <1>3, <1>9
<1>12. \A t \in Listed' \ Listed : t = next_token
  BY <1>3, <1>9
<1>13. \A t \in Listed \ Listed' : t = l[n]
  <2> SUFFICES ASSUME NEW j \in DOMAIN l, l[j] \notin Listed' PROVE l[j] = l[n]
    BY <1>9
  <2>1. z[j] # l[j]
    BY <1>3, <1>9
  <2> QED BY <2>1, <1>3
<1>14. \A x \in Asked(s)' :
        \/ x.type = "add" /\ x.token \in Listed' \ Listed
        \/ x.type = "remove" /\ x.token \in Listed \ Listed' /\ x.id = slot[x.token].clientId
  <2> SUFFICES ASSUME NEW i \in DOMAIN q
               PROVE  \/ q[i].type = "add" /\ q[i].token \in Listed' \ Listed
                      \/ /\ q[i].type = "remove" /\ q[i].token \in Listed \ Listed'
                         /\ q[i].id = slot[q[i].token].clientId
    BY <1>8
  <2>1. CASE i \in DOMAIN R1 /\ q[i] = R1[i]
    BY <2>1, <1>5, <1>10, <1>11
  <2>2. CASE q[i] = R2[1]
    BY <2>2, <1>6, <1>10
  <2> QED BY <2>1, <2>2, <1>7
<1>15. ASSUME NEW i \in DOMAIN q, NEW j \in DOMAIN q, q[i].type = "add", q[j].type = "add"
       PROVE  i = j
  <2>1. i = e /\ j = e
    BY <1>5, <1>7, <1>15
  <2> QED BY <2>1
<1>16. ASSUME NEW t \in Listed' \ Listed
       PROVE  /\ t \in Nat /\ t >= next_token
              /\ \E x \in Asked(s)' : x.type = "add" /\ x.token = t
  <2>1. t = next_token /\ q[e] \in Asked(s)' /\ q[e] = R2[1]
    BY <1>7, <1>8, <1>12
  <2> QED BY <2>1, <1>0, <1>6
<1>17. ASSUME NEW t \in Listed \ Listed', slot[t].clientId # None
       PROVE  \E x \in Asked(s)' : x.type = "remove" /\ x.token = t
  <2>1. t = l[n]
    BY <1>13
  <2>2. PICK k \in DOMAIN R1 : R1[k].token = t
    BY <2>1, <1>17, <1>5
  <2>3. R1[k] \in Asked(s)' /\ R1[k].type = "remove"
    BY <1>5, <1>7, <1>8
  <2> QED BY <2>2, <2>3
<1>18. \A i, j \in DOMAIN to_server'[s] :
        to_server'[s][i].type = "add" /\ to_server'[s][j].type = "add"
        /\ to_server'[s][i].token = to_server'[s][j].token => i = j
  BY <1>8, <1>15
<1>19. UNCHANGED <<page, server, manager, clients, runner, slot, tasks, to_client,
                   runnerVars, noteVars, procVars, lobbyVars>>
  BY <1>0
<1> QED BY <1>14, <1>16, <1>17, <1>18, <1>19 DEF Reslotted

\* The last click of a match: nothing is asked but to start.
LEMMA LaunchServes ==
    ASSUME LobbyAssumption, Books, UserWaits, LaunchGame,
           NEW s \in Servers, Serving(s), Matches(s), Listens(s), Starts(s)
    PROVE  AskedOnce(s)' /\ Matches(s)' /\ Listens(s)' /\ Starts(s)'
<1>1. /\ Typed /\ to_server[s] = <<>> /\ Asked(s) = {} /\ Coming(s) = {}
      /\ page # "unmounted" /\ phase[s] \in {"lobby", "playing"}
      /\ proc[s] = "up" /\ server = s
      /\ subs \in [Servers -> [own : Managers \union {None}, captured : Managers \union {None}]]
  <2>1. Click
    BY DEF LaunchGame
  <2> QED BY <2>1, ClickIs DEF Books, Typed, Serving
<1>2. Paired(s) /\ phase[s] = "lobby"
  BY <1>1, SettledIsPaired
<1>3. /\ UNCHANGED <<page, manager, list, slot, tasks, to_client, phase, players, counter, online>>
      /\ subs' = [subs EXCEPT ![server] = NoSubs]
      /\ Send(server, <<StartGame>>)
  BY DEF LaunchGame, uiVars, slotVars, loopVars, lobbyVars
<1>4. <<StartGame>> \in Seq(Requests) /\ StartGame.type = "start"
  <2>1. StartGame \in Requests
    BY DEF StartGame, Requests, None
  <2> QED BY <2>1 DEF StartGame
<1> DEFINE one == <<StartGame>>
<1>5. /\ to_server'[s] = one
      /\ Asked(s)' = {one[i] : i \in DOMAIN one}
  <2> HIDE DEF one
  <2>1. Send(s, one) /\ one \in Seq(Requests)
    BY <1>1, <1>3, <1>4 DEF one
  <2> QED BY <2>1, <1>1, SentAlone
<1>6. Asked(s)' = {StartGame} /\ Len(to_server'[s]) = 1 /\ to_server'[s][1] = StartGame
      /\ DOMAIN to_server'[s] = {1}
  BY <1>5
<1>7. /\ Listed' = Listed /\ Coming(s)' = {} /\ subs'[s] = NoSubs
  BY <1>1, <1>3 DEF Listed, Coming, Unheard
<1>8. AskedOnce(s)'
  BY <1>4, <1>6, <1>7 DEF AskedOnce
<1>9. Matches(s)'
  <2>1. /\ \A t \in Listed : \E id \in DOMAIN players[s] : players[s][id] = t
        /\ \A id \in DOMAIN players[s] :
            players[s][id] \in Listed /\ slot[players[s][id]].clientId = id
    BY <1>2 DEF Paired
  <2> QED BY <2>1, <1>3, <1>7 DEF Matches
<1>10. Listens(s)'
  BY <1>4, <1>6, <1>7 DEF Listens, StartsIn
<1>11. Starts(s)'
  BY <1>2, <1>3, <1>6 DEF Starts
<1> QED BY <1>8, <1>9, <1>10, <1>11

\* A server that was handed over is asked for a player per slot.
LEMMA CreatedServes ==
    ASSUME LobbyAssumption, Books, RunTask, NEW s \in Servers,
           Head(tasks) = CreatedTask(s), Created(s), proc[s] = "up"
    PROVE  AskedOnce(s)' /\ Matches(s)' /\ Listens(s)' /\ Starts(s)'
<1>1. /\ Typed /\ tasks # <<>> /\ tasks' = Tail(tasks)
      /\ UNCHANGED <<lobbyVars, to_client, manager, list, slot>>
      /\ subs' = [subs EXCEPT ![s] = [own |-> manager, captured |-> captured[s]]]
      /\ Send(s, NewPlayers(s))
      /\ manager \in Managers /\ list \in [Managers -> Seq(Nat)]
      /\ subs \in [Servers -> [own : Managers \union {None}, captured : Managers \union {None}]]
  <2>1. Typed
    BY DEF Books
  <2>2. tasks # <<>> /\ tasks' = Tail(tasks) /\ UNCHANGED lobbyVars
    BY <2>1, RunTaskIs
  <2> QED BY <2>1, <2>2 DEF Created, Typed
<1>2. /\ Head(tasks) = tasks[1] /\ 1 \in DOMAIN tasks
  BY <1>1, TaskIs
<1>3. ~Handed(s) /\ tasks' = <<>>
  <2>1. ~Handed(s)
    BY <1>2 DEF Handed, CreatedTask
  <2>2. Len(tasks) = 1
    BY <1>2 DEF Books, SettledAlone, CreatedTask
  <2>3. tasks' = <<>>
    <3> DEFINE S == Requests \union Settlements
    <3>1. tasks \in Seq(S) /\ tasks # <<>>
      BY <1>1 DEF Typed
    <3> HIDE DEF S
    <3>2. Tail(tasks) \in Seq(S) /\ Len(Tail(tasks)) = Len(tasks) - 1
      BY <3>1, TailIs
    <3>3. Len(Tail(tasks)) = 0
      BY <2>2, <3>2
    <3> QED BY <3>2, <3>3, <1>1, EmptySeq
  <2> QED BY <2>1, <2>3
<1>4. /\ phase[s] = "lobby" /\ DOMAIN players[s] = {}
      /\ to_server[s] = <<>> /\ to_client[s] = <<>>
  BY <1>3 DEF Books, QuietBefore
<1> DEFINE l == list[manager]
           q == NewPlayers(s)
<1>5. /\ q \in Seq(Requests) /\ DOMAIN q = DOMAIN l
      /\ \A i \in DOMAIN l : q[i].type = "add" /\ q[i].token = l[i]
  <2>1. q \in Seq(Requests)
    BY <1>1, NewPlayersAre
  <2> QED BY <2>1 DEF NewPlayers, AddPlayer
<1>6. /\ to_server'[s] = q /\ Asked(s)' = {q[i] : i \in DOMAIN q}
  <2> HIDE DEF q
  <2>1. Send(s, q)
    BY <1>1 DEF q
  <2> QED BY <2>1, <1>1, <1>4, <1>5, SentAlone
<1>7. Listed' = {l[i] : i \in DOMAIN l} /\ \A i, j \in DOMAIN l : l[i] = l[j] => i = j
  BY <1>1 DEF Listed, Books, TokensDiffer
<1>8. Coming(s)' = {} /\ subs'[s] # NoSubs /\ DOMAIN players'[s] = {} /\ phase'[s] = "lobby"
  <2>1. subs'[s] # NoSubs
    <3>1. subs'[s].own = manager /\ manager # None
      BY <1>1 DEF Managers, None
    <3> QED BY <3>1 DEF NoSubs
  <2>2. Coming(s)' = {}
    BY <1>1, <1>3, <1>4 DEF Coming, Unheard
  <2> QED BY <2>1, <2>2, <1>1, <1>4 DEF lobbyVars
<1> HIDE DEF q, l
<1>9. AskedOnce(s)'
  <2>1. \A x \in Asked(s)' : x.type = "add" /\ x.token \in Listed'
    BY <1>5, <1>6, <1>7
  <2>2. \A i, j \in DOMAIN q : q[i].token = q[j].token => i = j
    BY <1>5, <1>7
  <2> QED BY <2>1, <2>2, <1>6, <1>8 DEF AskedOnce
<1>10. Matches(s)'
  <2>1. \A t \in Listed' : \E x \in Asked(s)' : x.type = "add" /\ x.token = t
    BY <1>5, <1>6, <1>7
  <2> QED BY <2>1, <1>8 DEF Matches
<1>11. Listens(s)'
  BY <1>8 DEF Listens
<1>12. Starts(s)'
  <2>1. \A x \in Asked(s)' : x.type # "start"
    BY <1>5, <1>6
  <2> QED BY <2>1, <1>8 DEF Starts, StartsIn
<1> QED BY <1>9, <1>10, <1>11, <1>12

-----------------------------------------------------------------------------
(* Slots and players: the other steps *)

LEMMA SeqHasHead ==
    ASSUME NEW S, NEW u \in Seq(S), u # <<>>
    PROVE  /\ \A i \in DOMAIN Tail(u) : \E j \in DOMAIN u : Tail(u)[i] = u[j]
           /\ \A j \in DOMAIN u : u[j] = Head(u) \/ \E i \in DOMAIN Tail(u) : Tail(u)[i] = u[j]
           /\ \E j \in DOMAIN u : u[j] = Head(u)
<1> DEFINE v == Tail(u)
<1>1. /\ Head(u) = u[1] /\ 1 \in DOMAIN u
      /\ \A i \in DOMAIN v : i + 1 \in DOMAIN u /\ v[i] = u[i + 1]
      /\ \A i \in DOMAIN u : i # 1 => i - 1 \in DOMAIN v
  BY TailIs
<1> HIDE DEF v
<1>2. DOMAIN u = 1 .. Len(u) /\ Len(u) \in Nat
  BY LenProperties
<1>3. ASSUME NEW j \in DOMAIN u, j # 1 PROVE \E i \in DOMAIN v : v[i] = u[j]
  <2>1. j - 1 \in DOMAIN v /\ (j - 1) + 1 = j
    BY <1>1, <1>2, <1>3
  <2>2. v[j - 1] = u[(j - 1) + 1]
    BY <1>1, <2>1
  <2> QED BY <2>1, <2>2
<1> QED BY <1>1, <1>3 DEF v

\* Running a callback takes its answer out of what is to be heard.
LEMMA RunTaskComing ==
    ASSUME Typed, RunTask, NEW s \in Servers
    PROVE  /\ Coming(s)' \subseteq Coming(s)
           /\ Head(tasks) \in Coming(s)
           /\ \A x \in Coming(s) : x = Head(tasks) \/ x \in Coming(s)'
<1> DEFINE u == Unheard(s)
           v == Tail(u)
<1>1. u \in Seq(Anything) /\ u # <<>> /\ Head(u) = Head(tasks) /\ Unheard(s)' = v
  BY RunTaskHears, UnheardTyped DEF Unheard
<1>2. /\ \A i \in DOMAIN v : \E j \in DOMAIN u : v[i] = u[j]
      /\ \A j \in DOMAIN u : u[j] = Head(u) \/ \E i \in DOMAIN v : v[i] = u[j]
      /\ \E j \in DOMAIN u : u[j] = Head(u)
  BY <1>1, SeqHasHead
<1>3. Coming(s) = {u[i] : i \in DOMAIN u} /\ Coming(s)' = {v[i] : i \in DOMAIN v}
  BY <1>1 DEF Coming
<1> HIDE DEF u, v
<1> QED BY <1>1, <1>2, <1>3

\* Reading news takes it out of what is to be heard.
LEMMA NewsComing ==
    ASSUME Typed, NEW s \in Servers, PlayerNews(s), chunk = None
    PROVE  /\ Unheard(s) \in Seq(Anything) /\ Unheard(s) # <<>>
           /\ Head(Unheard(s)) = Head(to_client[s]) /\ Unheard(s)' = Tail(Unheard(s))
           /\ Coming(s)' \subseteq Coming(s)
           /\ Head(to_client[s]) \in Coming(s)
           /\ \A x \in Coming(s) : x = Head(to_client[s]) \/ x \in Coming(s)'
<1> DEFINE u == Unheard(s)
           v == Tail(u)
<1>1. tasks = <<>> /\ tasks' = <<>> /\ to_client[s] # <<>>
  BY DEF PlayerNews, NextFrame
<1>2. to_client'[s] = Tail(to_client[s])
  BY FrameIs DEF PlayerNews
<1>3. \A q \in Seq(Anything) : <<>> \o q = q
  BY ConcatEmptySeq
<1>4. to_client[s] \in Seq(Anything) /\ u \in Seq(Anything)
  BY UnheardTyped
<1>5. u = to_client[s]
  BY <1>1, <1>3, <1>4 DEF Unheard
<1>6. Tail(to_client[s]) \in Seq(Anything)
  BY <1>1, <1>4, TailIs
<1>7. Unheard(s)' = v
  BY <1>1, <1>2, <1>3, <1>5, <1>6 DEF Unheard
<1>8. /\ \A i \in DOMAIN v : \E j \in DOMAIN u : v[i] = u[j]
      /\ \A j \in DOMAIN u : u[j] = Head(u) \/ \E i \in DOMAIN v : v[i] = u[j]
      /\ \E j \in DOMAIN u : u[j] = Head(u)
  BY <1>1, <1>4, <1>5, SeqHasHead
<1>9. Coming(s) = {u[i] : i \in DOMAIN u} /\ Coming(s)' = {v[i] : i \in DOMAIN v}
  BY <1>7 DEF Coming
<1>10. Head(u) = Head(to_client[s]) /\ u # <<>>
  BY <1>1, <1>5
<1> HIDE DEF u, v
<1>11. /\ Coming(s)' \subseteq Coming(s)
       /\ Head(to_client[s]) \in Coming(s)
       /\ \A x \in Coming(s) : x = Head(to_client[s]) \/ x \in Coming(s)'
  BY <1>8, <1>9, <1>10
<1> QED BY <1>4, <1>7, <1>10, <1>11 DEF u, v

\* A step that leaves what the lobby and server s have agreed on.
Quietly(s) ==
    /\ Listed' = Listed
    /\ to_server'[s] = to_server[s] /\ players'[s] = players[s]
    /\ phase'[s] = phase[s] /\ subs'[s] = subs[s]
    /\ page = "unmounted" => page' = "unmounted"
    /\ \A t \in Tokens : /\ slot'[t].clientId = slot[t].clientId
                         /\ slot[t].connected => slot'[t].connected
    /\ \A id \in online'[s] :
        id \in online[s] \/ \E x \in Coming(s)' : x.type = "connected" /\ x.id = id
    /\ \A x \in Coming(s)' : x.type = "add" => x \in Coming(s)
    /\ \A x \in Coming(s) :
        \/ x \in Coming(s)'
        \/ x.type \notin {"add", "start", "connected"}
        \/ x.type = "start" /\ page = "unmounted"
        \/ /\ x.type = "connected"
           /\ \/ subs[s] = NoSubs
              \/ x.id \in DOMAIN players[s] => slot'[players[s][x.id]].connected

\* The tokens of players are tokens.
LEMMA PlayersTokens ==
    ASSUME LobbyAssumption, Typed, Numbers, NEW s \in Servers
    PROVE  \A id \in DOMAIN players[s] : players[s][id] \in Tokens
<1>1. next_token \in 1 .. MaxTokens + 1 /\ MaxTokens \in Nat
  BY DEF Typed, LobbyAssumption
<1>2. \A id \in DOMAIN players[s] : players[s][id] \in 1 .. next_token - 1
  BY DEF Numbers
<1>3. \A k \in 1 .. next_token - 1 : k \in 1 .. MaxTokens
  BY <1>1
<1> QED BY <1>2, <1>3 DEF Tokens

LEMMA QuietlyServes ==
    ASSUME LobbyAssumption, Typed, Numbers, NEW s \in Servers, Quietly(s),
           AskedOnce(s), Matches(s), Listens(s), Starts(s)
    PROVE  AskedOnce(s)' /\ Matches(s)' /\ Listens(s)' /\ Starts(s)'
<1>1. /\ Listed' = Listed
      /\ to_server'[s] = to_server[s] /\ players'[s] = players[s]
      /\ phase'[s] = phase[s] /\ subs'[s] = subs[s] /\ Asked(s)' = Asked(s)
  BY DEF Quietly, Asked
<1>2. \A id \in DOMAIN players[s] :
        /\ slot'[players[s][id]].clientId = slot[players[s][id]].clientId
        /\ slot[players[s][id]].connected => slot'[players[s][id]].connected
  BY PlayersTokens DEF Quietly
<1>3. AskedOnce(s)'
  <2>1. \A y \in Coming(s)' : y.type = "add" => y \in Coming(s)
    BY DEF Quietly
  <2> QED BY <1>1, <2>1 DEF AskedOnce
<1>4. Matches(s)'
  <2>1. \A id : AddComes(s, id) => AddComes(s, id)'
    BY DEF Quietly, AddComes, IsAdd
  <2> QED BY <1>1, <1>2, <2>1 DEF Matches
<1>5. Listens(s)'
  <2>1. ASSUME subs[s] # NoSubs, NEW id \in online'[s], id \in DOMAIN players[s]
        PROVE  \/ slot'[players[s][id]].connected
               \/ \E x \in Coming(s)' : x.type = "connected" /\ x.id = id
    <3>1. CASE id \in online[s] /\ slot[players[s][id]].connected
      BY <3>1, <2>1, <1>2
    <3>2. CASE id \in online[s] /\ \E x \in Coming(s) : x.type = "connected" /\ x.id = id
      <4>1. PICK x \in Coming(s) : x.type = "connected" /\ x.id = id
        BY <3>2
      <4>2. x \in Coming(s)' \/ slot'[players[s][id]].connected
        BY <4>1, <2>1 DEF Quietly
      <4> QED BY <4>1, <4>2
    <3>3. CASE \E x \in Coming(s)' : x.type = "connected" /\ x.id = id
      BY <3>3
    <3>4. id \in online[s] \/ \E x \in Coming(s)' : x.type = "connected" /\ x.id = id
      BY <2>1 DEF Quietly
    <3> QED BY <3>1, <3>2, <3>3, <3>4, <2>1 DEF Listens
  <2>2. subs[s] = NoSubs => phase[s] = "playing" \/ StartsIn(Asked(s))
    BY DEF Listens
  <2> QED BY <1>1, <2>1, <2>2 DEF Listens
<1>6. Starts(s)'
  <2>1. ASSUME page # "unmounted", StartsIn(Coming(s)) PROVE StartsIn(Coming(s)')
    <3>1. PICK x \in Coming(s) : x.type = "start"
      BY <2>1 DEF StartsIn
    <3>2. x \in Coming(s)'
      BY <3>1, <2>1 DEF Quietly
    <3> QED BY <3>1, <3>2 DEF StartsIn
  <2>2. page = "unmounted" => page' = "unmounted"
    BY DEF Quietly
  <2> QED BY <1>1, <2>1, <2>2 DEF Starts
<1> QED BY <1>3, <1>4, <1>5, <1>6

\* The answer to addPlayer gives the slot its number.
LEMMA PlayerAddedServes ==
    ASSUME LobbyAssumption, Typed, Numbers, NEW s \in Servers, RunTask,
           Head(tasks) \in Requests, Head(tasks).type = "add",
           PlayerAdded(Head(tasks)), NumbersAgree(s),
           AskedOnce(s), Matches(s), Listens(s), Starts(s)
    PROVE  AskedOnce(s)' /\ Matches(s)' /\ Listens(s)' /\ Starts(s)'
<1> DEFINE task == Head(tasks)
<1>1. /\ UNCHANGED <<page, manager, list, to_server, players, phase, online, subs>>
      /\ slot' = [slot EXCEPT ![task.token].clientId = task.id]
      /\ slot \in [Tokens -> Objects]
  BY RunTaskIs DEF PlayerAdded, netVars, runnerVars, lobbyVars, Typed
<1>2. /\ Coming(s)' \subseteq Coming(s) /\ task \in Coming(s)
      /\ \A x \in Coming(s) : x = task \/ x \in Coming(s)'
  BY RunTaskComing
<1>3. Asked(s)' = Asked(s) /\ Listed' = Listed
  BY <1>1 DEF Asked, Listed
<1>4. task.id \in DOMAIN players[s] => players[s][task.id] = task.token
  <2>1. PICK i \in DOMAIN Unheard(s) : Unheard(s)[i] = task
    BY <1>2 DEF Coming
  <2> QED BY <2>1 DEF NumbersAgree
<1>5. \A id \in DOMAIN players[s] : players[s][id] = task.token => id = task.id
  BY <1>2 DEF AskedOnce
<1> HIDE DEF task
<1>6. \A t \in Tokens :
        /\ slot'[t].clientId = IF t = task.token THEN task.id ELSE slot[t].clientId
        /\ slot'[t].connected = slot[t].connected
  BY <1>1 DEF Objects
<1>7. \A id \in DOMAIN players[s] : players[s][id] \in Tokens
  BY PlayersTokens
<1>8. AskedOnce(s)'
  BY <1>1, <1>2, <1>3 DEF AskedOnce
<1>9. Matches(s)'
  <2>1. ASSUME NEW id \in DOMAIN players[s]
        PROVE  slot'[players[s][id]].clientId = id \/ AddComes(s, id)'
    <3>1. CASE slot[players[s][id]].clientId = id
      BY <3>1, <1>5, <1>6, <1>7
    <3>2. CASE AddComes(s, id)
      <4>1. PICK x \in Coming(s) : x.type = "add" /\ x.id = id
        BY <3>2 DEF AddComes, IsAdd
      <4>2. CASE x \in Coming(s)'
        BY <4>1, <4>2 DEF AddComes, IsAdd
      <4>3. CASE x = task
        BY <4>1, <4>3, <1>4, <1>6, <1>7
      <4> QED BY <4>2, <4>3, <1>2
    <3> QED BY <3>1, <3>2 DEF Matches
  <2> QED BY <1>1, <1>3, <2>1 DEF Matches
<1>10. Listens(s)'
  <2>1. ASSUME subs[s] # NoSubs, NEW id \in online[s], id \in DOMAIN players[s]
        PROVE  \/ slot'[players[s][id]].connected
               \/ \E x \in Coming(s)' : x.type = "connected" /\ x.id = id
    <3>1. CASE slot[players[s][id]].connected
      BY <3>1, <2>1, <1>6, <1>7
    <3>2. CASE \E x \in Coming(s) : x.type = "connected" /\ x.id = id
      <4>1. PICK x \in Coming(s) : x.type = "connected" /\ x.id = id
        BY <3>2
      <4>2. x # task
        BY <4>1 DEF task
      <4> QED BY <4>1, <4>2, <1>2
    <3> QED BY <3>1, <3>2, <2>1 DEF Listens
  <2>2. subs[s] = NoSubs => phase[s] = "playing" \/ StartsIn(Asked(s))
    BY DEF Listens
  <2> QED BY <1>1, <1>3, <2>1, <2>2 DEF Listens
<1>11. Starts(s)'
  <2>1. StartsIn(Coming(s)) => StartsIn(Coming(s)')
    <3> SUFFICES ASSUME NEW x \in Coming(s), x.type = "start" PROVE StartsIn(Coming(s)')
      BY DEF StartsIn
    <3>1. x # task
      BY DEF task
    <3> QED BY <3>1, <1>2 DEF StartsIn
  <2> QED BY <1>1, <1>3, <2>1 DEF Starts
<1> QED BY <1>8, <1>9, <1>10, <1>11

\* What is told comes after what is under way.
LEMMA AppendComing ==
    ASSUME Typed, NEW s \in Servers, NEW e \in Anything,
           Unheard(s)' = Append(Unheard(s), e)
    PROVE  Coming(s)' = Coming(s) \union {e}
<1> DEFINE u == Unheard(s)
           v == Append(u, e)
<1>1. u \in Seq(Anything)
  BY UnheardTyped
<1>2. /\ \A i \in DOMAIN u : i \in DOMAIN v /\ v[i] = u[i]
      /\ Len(u) + 1 \in DOMAIN v /\ v[Len(u) + 1] = e
      /\ \A i \in DOMAIN v : i \in DOMAIN u \/ i = Len(u) + 1
  BY <1>1, AppendIs
<1>3. Coming(s) = {u[i] : i \in DOMAIN u} /\ Coming(s)' = {v[i] : i \in DOMAIN v}
  BY DEF Coming
<1> HIDE DEF u, v
<1> QED BY <1>2, <1>3

\* A request that is served is no longer asked.
LEMMA ServeAsked ==
    ASSUME Typed, NEW s \in Servers, Serve(s)
    PROVE  /\ Asked(s)' \subseteq Asked(s) /\ Head(to_server[s]) \in Asked(s)
           /\ \A x \in Asked(s) : x = Head(to_server[s]) \/ x \in Asked(s)'
           /\ to_server[s] \in Seq(Requests) /\ to_server[s] # <<>>
           /\ to_server'[s] = Tail(to_server[s])
<1> DEFINE u == to_server[s]
           v == Tail(u)
<1>1. u \in Seq(Requests) /\ u # <<>> /\ to_server'[s] = v
  <2>1. to_server \in [Servers -> Seq(Requests)]
    BY DEF Typed
  <2> QED BY <2>1 DEF Serve
<1>2. /\ \A i \in DOMAIN v : \E j \in DOMAIN u : v[i] = u[j]
      /\ \A j \in DOMAIN u : u[j] = Head(u) \/ \E i \in DOMAIN v : v[i] = u[j]
      /\ \E j \in DOMAIN u : u[j] = Head(u)
  BY <1>1, SeqHasHead
<1>3. Asked(s) = {u[i] : i \in DOMAIN u} /\ Asked(s)' = {v[i] : i \in DOMAIN v}
  BY <1>1 DEF Asked
<1> HIDE DEF u, v
<1>4. /\ Asked(s)' \subseteq Asked(s) /\ Head(u) \in Asked(s)
      /\ \A x \in Asked(s) : x = Head(u) \/ x \in Asked(s)'
  BY <1>2, <1>3
<1> QED BY <1>1, <1>4 DEF u, v

\* Serving a request: what of the lobby and of the other requests stays.
ServesOne(s) ==
    /\ UNCHANGED <<page, slot, subs, online>> /\ Listed' = Listed
    /\ Asked(s)' \subseteq Asked(s) /\ Head(to_server[s]) \in Asked(s)
    /\ \A x \in Asked(s) : x = Head(to_server[s]) \/ x \in Asked(s)'
    /\ \A i, j \in DOMAIN to_server'[s] :
        to_server'[s][i].type = "add" /\ to_server'[s][j].type = "add"
        /\ to_server'[s][i].token = to_server'[s][j].token => i = j
    /\ ~StartsIn(Asked(s)')
    /\ Head(to_server[s]).type # "start" => ~StartsIn(Asked(s))
    /\ Head(to_server[s]).type = "start" => to_server'[s] = <<>> /\ Asked(s)' = {}
    /\ Head(to_server[s]).type = "add" =>
        \A x \in Asked(s)' : x.type = "add" => x.token # Head(to_server[s]).token

LEMMA ServeServesOne ==
    ASSUME Typed, NEW s \in Servers, Serve(s), AskedOnce(s), Starts(s)
    PROVE  ServesOne(s)
<1> DEFINE u == to_server[s]
           v == Tail(u)
<1>1. /\ UNCHANGED <<page, slot, subs, online>> /\ Listed' = Listed
  <2>1. UNCHANGED <<uiVars, slotVars, runnerVars>>
    BY DEF Serve
  <2>2. UNCHANGED online
    BY ServeIs DEF lobbyVars
  <2> QED BY <2>1, <2>2 DEF uiVars, slotVars, runnerVars, Listed
<1>2. /\ Asked(s)' \subseteq Asked(s) /\ Head(u) \in Asked(s)
      /\ \A x \in Asked(s) : x = Head(u) \/ x \in Asked(s)'
      /\ u \in Seq(Requests) /\ u # <<>> /\ to_server'[s] = v
  BY ServeAsked
<1>3. /\ Head(u) = u[1] /\ 1 \in DOMAIN u /\ v \in Seq(Requests) /\ Len(v) = Len(u) - 1
      /\ \A i \in DOMAIN v : i + 1 \in DOMAIN u /\ v[i] = u[i + 1]
      /\ DOMAIN u = 1 .. Len(u) /\ Len(u) \in Nat
      /\ DOMAIN v = 1 .. Len(v)
  BY <1>2, TailIs, LenProperties
<1>4. /\ \A i, j \in DOMAIN u :
            u[i].type = "add" /\ u[j].type = "add" /\ u[i].token = u[j].token => i = j
      /\ StartsIn(Asked(s)) => Len(u) = 1
  BY DEF AskedOnce, Starts
<1>5. Asked(s)' = {v[i] : i \in DOMAIN v}
  BY <1>2 DEF Asked
<1> HIDE DEF u, v
<1>6. ASSUME NEW i \in DOMAIN v, NEW j \in DOMAIN v, v[i].type = "add", v[j].type = "add",
             v[i].token = v[j].token
      PROVE  i = j
  <2>1. i + 1 = j + 1
    BY <1>3, <1>4, <1>6
  <2>2. i \in Nat /\ j \in Nat
    BY <1>3
  <2> QED BY <2>1, <2>2
<1>7. StartsIn(Asked(s)) => v = <<>> /\ Asked(s)' = {}
  <2>0. Len(v) = Len(u) - 1 /\ (StartsIn(Asked(s)) => Len(u) = 1)
    BY <1>3, <1>4
  <2>1. StartsIn(Asked(s)) => Len(v) = 0
    BY <2>0
  <2>2. StartsIn(Asked(s)) => v = <<>>
    BY <2>1, <1>3, EmptySeq
  <2> QED BY <2>2, <1>5
<1>8. StartsIn(Asked(s)') => StartsIn(Asked(s))
  BY <1>2 DEF StartsIn
<1>9. Head(u).type = "start" => StartsIn(Asked(s))
  BY <1>2 DEF StartsIn
<1>10. ~StartsIn(Asked(s)')
  BY <1>7, <1>8 DEF StartsIn
<1>11. Head(u).type # "start" => ~StartsIn(Asked(s))
  <2>1. StartsIn(Asked(s)) /\ Head(u).type # "start" => StartsIn(Asked(s)')
    BY <1>2 DEF StartsIn
  <2> QED BY <2>1, <1>10
<1>12. ASSUME Head(u).type = "add", NEW x \in Asked(s)', x.type = "add" PROVE x.token # Head(u).token
  <2>1. PICK i \in DOMAIN v : x = v[i]
    BY <1>5
  <2>2. i + 1 \in DOMAIN u /\ u[i + 1] = x /\ i + 1 # 1
    BY <2>1, <1>3
  <2> QED BY <2>2, <1>3, <1>4, <1>12
<1>13. \A i, j \in DOMAIN to_server'[s] :
        to_server'[s][i].type = "add" /\ to_server'[s][j].type = "add"
        /\ to_server'[s][i].token = to_server'[s][j].token => i = j
  BY <1>2, <1>6
<1> QED BY <1>1, <1>2, <1>7, <1>9, <1>10, <1>11, <1>12, <1>13 DEF ServesOne, u

LEMMA AddServed ==
    ASSUME Books, Numbers, NEW s \in Servers, ServesOne(s), RemovesOld(s),
           AskedOnce(s), Matches(s), Listens(s), Starts(s),
           phase[s] # "playing", phase'[s] = phase[s],
           NEW old, old = Head(to_server[s]), old.type = "add",
           NEW new, new.type = "add", new.id = counter[s], new.token = old.token,
           players'[s] = With(players[s], counter[s], old.token),
           Coming(s)' = Coming(s) \union {new}
    PROVE  AskedOnce(s)' /\ Matches(s)' /\ Listens(s)' /\ Starts(s)'
<1> DEFINE c == counter[s]
           p == players[s]
           q == players'[s]
<1>1. /\ DOMAIN q = DOMAIN p \union {c} /\ q[c] = old.token /\ \A i \in DOMAIN p : i # c => q[i] = p[i]
  <2> DEFINE w == With(p, c, old.token)
  <2>1. /\ DOMAIN w = DOMAIN p \union {c} /\ w[c] = old.token
        /\ \A i \in DOMAIN p : i # c => w[i] = p[i]
    BY DEF With
  <2>2. q = w
    OBVIOUS
  <2> HIDE DEF w, q, p, c
  <2> QED BY <2>1, <2>2
<1>2. \A i \in DOMAIN p : i # c
  BY DEF Books, PlayersNumbered, Typed
<1>3. \A i \in DOMAIN q : i = c \/ (i \in DOMAIN p /\ i # c /\ q[i] = p[i])
  BY <1>1, <1>2
<1>4. /\ \A x \in Asked(s) : x.type = "remove" => x.id # c
      /\ \A i \in online[s] : i # c
  <2>1. c \in Nat
    BY DEF Books, Typed
  <2> QED BY <2>1 DEF RemovesOld, Numbers
<1>5. /\ old \in Asked(s) /\ Asked(s)' \subseteq Asked(s)
      /\ \A x \in Asked(s) : x = old \/ x \in Asked(s)'
      /\ ~StartsIn(Asked(s)) /\ ~StartsIn(Asked(s)')
      /\ \A x \in Asked(s)' : x.type = "add" => x.token # old.token
      /\ UNCHANGED <<page, slot, subs, online>> /\ Listed' = Listed
  BY DEF ServesOne
<1> HIDE DEF c, p, q
<1>6. /\ \A x \in Asked(s) : x.type = "add" =>
            /\ x.token \in Listed
            /\ \A id \in DOMAIN p : p[id] # x.token
            /\ \A y \in Coming(s) : y.type = "add" => y.token # x.token
      /\ \A x \in Asked(s) : x.type = "remove" /\ x.id \in DOMAIN p => p[x.id] \notin Listed
      /\ \A y \in Coming(s) : y.type = "add" =>
            \A id \in DOMAIN p : p[id] = y.token => id = y.id
  BY DEF AskedOnce, p
<1>7. AskedOnce(s)'
  <2>1. ASSUME NEW x \in Asked(s)', x.type = "add"
        PROVE  /\ x.token \in Listed'
               /\ \A id \in DOMAIN q : q[id] # x.token
               /\ \A y \in Coming(s)' : y.type = "add" => y.token # x.token
    BY <2>1, <1>1, <1>3, <1>5, <1>6
  <2>2. \A x \in Asked(s)' : x.type = "remove" /\ x.id \in DOMAIN q => q[x.id] \notin Listed'
    BY <1>3, <1>4, <1>5, <1>6
  <2>3. ASSUME NEW y \in Coming(s)', y.type = "add", NEW id \in DOMAIN q, q[id] = y.token
        PROVE  id = y.id
    <3>1. CASE y = new /\ id = c
      BY <3>1 DEF c
    <3>2. CASE y = new /\ id # c
      BY <3>2, <2>3, <1>3, <1>5, <1>6
    <3>3. CASE y \in Coming(s) /\ id = c
      BY <3>3, <2>3, <1>1, <1>5, <1>6
    <3>4. CASE y \in Coming(s) /\ id # c
      BY <3>4, <2>3, <1>3, <1>6
    <3> QED BY <3>1, <3>2, <3>3, <3>4
  <2>4. \A i, j \in DOMAIN to_server'[s] :
        to_server'[s][i].type = "add" /\ to_server'[s][j].type = "add"
        /\ to_server'[s][i].token = to_server'[s][j].token => i = j
    BY DEF ServesOne
  <2> QED BY <2>1, <2>2, <2>3, <2>4 DEF AskedOnce, q
<1>8. Matches(s)'
  <2>1. ASSUME NEW t \in Listed
        PROVE  \/ \E id \in DOMAIN q : q[id] = t
               \/ \E x \in Asked(s)' : x.type = "add" /\ x.token = t
    <3>1. CASE \E id \in DOMAIN p : p[id] = t
      BY <3>1, <1>1, <1>2
    <3>2. CASE \E x \in Asked(s) : x.type = "add" /\ x.token = t
      BY <3>2, <1>1, <1>5
    <3> QED BY <3>1, <3>2 DEF Matches, p
  <2>2. ASSUME NEW id \in DOMAIN q
        PROVE  q[id] \in Listed \/ \E x \in Asked(s)' : IsRemoval(x, id)
    <3>1. CASE id = c
      BY <3>1, <1>1, <1>5, <1>6
    <3>2. CASE id # c /\ p[id] \in Listed
      BY <3>2, <1>3
    <3>3. CASE id # c /\ \E x \in Asked(s) : IsRemoval(x, id)
      <4>1. PICK x \in Asked(s) : IsRemoval(x, id)
        BY <3>3
      <4>2. x # old
        BY <4>1 DEF IsRemoval
      <4> QED BY <4>1, <4>2, <1>5
    <3> QED BY <3>1, <3>2, <3>3, <1>3 DEF Matches, p
  <2>3. ASSUME NEW id \in DOMAIN q
        PROVE  slot[q[id]].clientId = id \/ AddComes(s, id)'
    <3>1. CASE id = c
      BY <3>1 DEF AddComes, IsAdd, c
    <3>2. CASE id # c
      <4>1. id \in DOMAIN p /\ q[id] = p[id]
        BY <3>2, <1>3
      <4>2. slot[p[id]].clientId = id \/ AddComes(s, id)
        BY <4>1 DEF Matches, p
      <4>3. AddComes(s, id) => AddComes(s, id)'
        BY DEF AddComes
      <4> QED BY <4>1, <4>2, <4>3
    <3> QED BY <3>1, <3>2
  <2> QED BY <2>1, <2>2, <2>3, <1>5 DEF Matches, q
<1>9. Listens(s)'
  <2>1. subs[s] # NoSubs
    BY <1>5 DEF Listens
  <2>2. ASSUME NEW id \in online[s], id \in DOMAIN q
        PROVE  \/ slot[q[id]].connected
               \/ \E x \in Coming(s)' : x.type = "connected" /\ x.id = id
    <3>1. id \in DOMAIN p /\ q[id] = p[id]
      BY <2>2, <1>3, <1>4
    <3>2. \/ slot[p[id]].connected
          \/ \E x \in Coming(s) : x.type = "connected" /\ x.id = id
      BY <2>1, <3>1 DEF Listens, p
    <3> QED BY <3>1, <3>2
  <2> QED BY <2>1, <2>2, <1>5 DEF Listens, q
<1>10. Starts(s)'
  BY <1>5 DEF Starts
<1> QED BY <1>7, <1>8, <1>9, <1>10

LEMMA RemovalServed ==
    ASSUME NEW s \in Servers, ServesOne(s),
           AskedOnce(s), Matches(s), Listens(s), Starts(s),
           phase[s] # "playing", phase'[s] = phase[s],
           NEW old, old = Head(to_server[s]), old.type = "remove",
           players'[s] = [i \in DOMAIN players[s] \ {old.id} |-> players[s][i]],
           Coming(s)' = Coming(s) \union {old}
    PROVE  AskedOnce(s)' /\ Matches(s)' /\ Listens(s)' /\ Starts(s)'
<1> DEFINE p == players[s]
           q == players'[s]
<1>1. DOMAIN q = DOMAIN p \ {old.id} /\ \A i \in DOMAIN q : i \in DOMAIN p /\ q[i] = p[i] /\ i # old.id
  OBVIOUS
<1>2. /\ old \in Asked(s) /\ Asked(s)' \subseteq Asked(s)
      /\ \A x \in Asked(s) : x = old \/ x \in Asked(s)'
      /\ ~StartsIn(Asked(s)) /\ ~StartsIn(Asked(s)')
      /\ UNCHANGED <<page, slot, subs, online>> /\ Listed' = Listed
  BY DEF ServesOne
<1>3. \A y \in Coming(s)' : y.type = "add" => y \in Coming(s)
  OBVIOUS
<1> HIDE DEF p, q
<1>4. AskedOnce(s)'
  <2>1. /\ \A x \in Asked(s)' : x.type = "add" =>
            /\ x.token \in Listed
            /\ \A id \in DOMAIN q : q[id] # x.token
            /\ \A y \in Coming(s)' : y.type = "add" => y.token # x.token
        /\ \A x \in Asked(s)' : x.type = "remove" /\ x.id \in DOMAIN q => q[x.id] \notin Listed
        /\ \A y \in Coming(s)' : y.type = "add" =>
            \A id \in DOMAIN q : q[id] = y.token => id = y.id
    BY <1>1, <1>2, <1>3 DEF AskedOnce, p
  <2>2. \A i, j \in DOMAIN to_server'[s] :
        to_server'[s][i].type = "add" /\ to_server'[s][j].type = "add"
        /\ to_server'[s][i].token = to_server'[s][j].token => i = j
    BY DEF ServesOne
  <2> QED BY <2>1, <2>2, <1>2 DEF AskedOnce, q
<1>5. Matches(s)'
  <2>1. ASSUME NEW t \in Listed
        PROVE  \/ \E id \in DOMAIN q : q[id] = t
               \/ \E x \in Asked(s)' : x.type = "add" /\ x.token = t
    <3>1. CASE \E id \in DOMAIN p : p[id] = t
      <4>1. PICK id \in DOMAIN p : p[id] = t
        BY <3>1
      <4>2. id # old.id
        BY <4>1, <1>2 DEF AskedOnce, p
      <4> QED BY <4>1, <4>2, <1>1
    <3>2. CASE \E x \in Asked(s) : x.type = "add" /\ x.token = t
      BY <3>2, <1>2
    <3> QED BY <3>1, <3>2 DEF Matches, p
  <2>2. ASSUME NEW id \in DOMAIN q
        PROVE  q[id] \in Listed \/ \E x \in Asked(s)' : IsRemoval(x, id)
    <3>1. CASE p[id] \in Listed
      BY <3>1, <1>1
    <3>2. CASE \E x \in Asked(s) : IsRemoval(x, id)
      <4>1. PICK x \in Asked(s) : IsRemoval(x, id)
        BY <3>2
      <4>2. x # old
        BY <4>1, <1>1 DEF IsRemoval
      <4> QED BY <4>1, <4>2, <1>2
    <3> QED BY <3>1, <3>2, <1>1 DEF Matches, p
  <2>3. ASSUME NEW id \in DOMAIN q
        PROVE  slot[q[id]].clientId = id \/ AddComes(s, id)'
    <3>1. slot[p[id]].clientId = id \/ AddComes(s, id)
      BY <1>1 DEF Matches, p
    <3>2. AddComes(s, id) => AddComes(s, id)'
      BY DEF AddComes
    <3> QED BY <3>1, <3>2, <1>1
  <2> QED BY <2>1, <2>2, <2>3, <1>2 DEF Matches, q
<1>6. Listens(s)'
  <2>1. subs[s] # NoSubs
    BY <1>2 DEF Listens
  <2>2. ASSUME NEW id \in online[s], id \in DOMAIN q
        PROVE  \/ slot[q[id]].connected
               \/ \E x \in Coming(s)' : x.type = "connected" /\ x.id = id
    <3>1. \/ slot[p[id]].connected
          \/ \E x \in Coming(s) : x.type = "connected" /\ x.id = id
      BY <2>1, <2>2, <1>1 DEF Listens, p
    <3> QED BY <3>1, <2>2, <1>1
  <2> QED BY <2>1, <2>2, <1>2 DEF Listens, q
<1>7. Starts(s)'
  BY <1>2 DEF Starts
<1> QED BY <1>4, <1>5, <1>6, <1>7

LEMMA StartServed ==
    ASSUME NEW s \in Servers, ServesOne(s),
           AskedOnce(s), Matches(s), Listens(s), Starts(s),
           phase[s] # "playing", phase'[s] = "playing",
           NEW old, old = Head(to_server[s]), old.type = "start",
           players'[s] = players[s], Len(to_server[s]) = 1 => Asked(s) = {old},
           Coming(s)' = Coming(s) \union {old}
    PROVE  AskedOnce(s)' /\ Matches(s)' /\ Listens(s)' /\ Starts(s)'
<1>1. old \in Asked(s) /\ Asked(s)' = {} /\ to_server'[s] = <<>>
      /\ UNCHANGED <<page, slot, subs, online>> /\ Listed' = Listed
  BY DEF ServesOne
<1>2. Asked(s) = {old}
  BY <1>1 DEF Starts, StartsIn
<1>3. \A y \in Coming(s)' : y.type = "add" => y \in Coming(s)
  OBVIOUS
<1>4. AskedOnce(s)'
  BY <1>1, <1>3 DEF AskedOnce
<1>5. Matches(s)'
  <2>1. /\ \A t \in Listed : \E id \in DOMAIN players[s] : players[s][id] = t
        /\ \A id \in DOMAIN players[s] : players[s][id] \in Listed
        /\ \A id \in DOMAIN players[s] : slot[players[s][id]].clientId = id \/ AddComes(s, id)
    BY <1>2 DEF Matches, IsRemoval
  <2>2. \A id : AddComes(s, id) => AddComes(s, id)'
    BY DEF AddComes
  <2> QED BY <2>1, <2>2, <1>1 DEF Matches
<1>6. Listens(s)'
  <2>1. ASSUME subs[s] # NoSubs, NEW id \in online[s], id \in DOMAIN players[s]
        PROVE  \/ slot[players[s][id]].connected
               \/ \E x \in Coming(s)' : x.type = "connected" /\ x.id = id
    <3>1. \/ slot[players[s][id]].connected
          \/ \E x \in Coming(s) : x.type = "connected" /\ x.id = id
      BY <2>1 DEF Listens
    <3> QED BY <3>1
  <2> QED BY <2>1, <1>1 DEF Listens
<1>7. Starts(s)'
  <2>1. StartsIn(Coming(s)')
    BY DEF StartsIn
  <2> QED BY <2>1, <1>1 DEF Starts, StartsIn
<1> QED BY <1>4, <1>5, <1>6, <1>7

LEMMA ServeServes ==
    ASSUME Books, Numbers, NEW s \in Servers, Serve(s), RemovesOld(s),
           AskedOnce(s), Matches(s), Listens(s), Starts(s)
    PROVE  AskedOnce(s)' /\ Matches(s)' /\ Listens(s)' /\ Starts(s)'
<1> DEFINE old == Head(to_server[s])
           new == [old EXCEPT !.id = counter[s]]
           v == tasks' \o to_client'[s]
<1>1. /\ ServesOne(s) /\ Typed /\ old \in Requests
      /\ to_server[s] \in Seq(Requests) /\ to_server[s] # <<>>
  BY ServeServesOne, ServeIs, ServeAsked DEF Books
<1>2. /\ phase[s] # "playing" /\ phase[s] \in {"lobby", "playing"}
      /\ DOMAIN players = Servers /\ counter[s] \in Nat
  BY <1>1 DEF Starts, Typed
<1>3. \/ /\ old.type = "add" /\ UNCHANGED phase
         /\ players'[s] = With(players[s], counter[s], old.token)
         /\ v = Append(Unheard(s), new) /\ new \in Requests
      \/ /\ old.type = "remove" /\ UNCHANGED phase
         /\ players'[s] = [i \in DOMAIN players[s] \ {old.id} |-> players[s][i]]
         /\ v = Append(Unheard(s), old)
      \/ /\ old.type = "start" /\ phase'[s] = "playing" /\ UNCHANGED players
         /\ v = Append(Unheard(s), old)
  BY <1>1, <1>2, ServedIsLast
<1>4. Unheard(s)' = v /\ Requests \subseteq Anything
  BY DEF Unheard, Anything
<1>5. new.type = old.type /\ new.token = old.token /\ new.id = counter[s]
  BY <1>1 DEF Requests
<1>6. Len(to_server[s]) = 1 => Asked(s) = {old}
  <2>1. DOMAIN to_server[s] = 1 .. Len(to_server[s]) /\ old = to_server[s][1]
    BY <1>1, LenProperties, TailIs
  <2> QED BY <2>1 DEF Asked
<1> HIDE DEF old, new, v
<1>7. CASE old.type = "add"
  <2>1. Coming(s)' = Coming(s) \union {new}
    BY <1>1, <1>3, <1>4, <1>7, AppendComing
  <2> QED BY <2>1, <1>1, <1>2, <1>3, <1>5, <1>7, AddServed DEF old
<1>8. CASE old.type = "remove"
  <2>1. Coming(s)' = Coming(s) \union {old}
    BY <1>1, <1>3, <1>4, <1>8, AppendComing
  <2> QED BY <2>1, <1>1, <1>2, <1>3, <1>8, RemovalServed DEF old
<1>9. CASE old.type = "start"
  <2>1. Coming(s)' = Coming(s) \union {old}
    BY <1>1, <1>3, <1>4, <1>9, AppendComing
  <2> QED BY <2>1, <1>1, <1>2, <1>3, <1>6, <1>9, StartServed DEF old
<1> QED BY <1>3, <1>7, <1>8, <1>9

\* A settled promise of create comes before what is under way.
LEMMA FrontComing ==
    ASSUME Typed, NEW s \in Servers, NEW e \in Anything,
           tasks = <<>>, tasks' = <<e>>, to_client'[s] = to_client[s]
    PROVE  Coming(s)' = Coming(s) \union {e}
<1> DEFINE c == to_client[s]
           f == <<e>>
           v == f \o c
<1>1. c \in Seq(Anything)
  BY UnheardTyped
<1>2. f \in Seq(Anything) /\ DOMAIN f = {1} /\ f[1] = e /\ <<>> \o c = c
  BY <1>1, ConcatEmptySeq
<1>3. Unheard(s) = c /\ Unheard(s)' = v
  BY <1>2 DEF Unheard
<1> HIDE DEF c, f, v
<1>4. /\ \A i \in DOMAIN v :
            \/ i \in DOMAIN f /\ v[i] = f[i]
            \/ i - Len(f) \in DOMAIN c /\ v[i] = c[i - Len(f)]
      /\ \A i \in DOMAIN f : i \in DOMAIN v /\ v[i] = f[i]
      /\ \A i \in DOMAIN c : Len(f) + i \in DOMAIN v /\ v[Len(f) + i] = c[i]
  BY <1>1, <1>2, ConcatIs DEF v
<1>5. Coming(s) = {c[i] : i \in DOMAIN c} /\ Coming(s)' = {v[i] : i \in DOMAIN v}
  BY <1>3 DEF Coming
<1> QED BY <1>2, <1>4, <1>5

\* Nobody but the lobby and its server has to do with server s.
LEMMA StillQuiet ==
    ASSUME Typed, NEW s \in Servers, UNCHANGED <<manager, list>>,
           to_server'[s] = to_server[s], players'[s] = players[s],
           phase'[s] = phase[s], subs'[s] = subs[s], online'[s] = online[s],
           page = "unmounted" => page' = "unmounted",
           \A t \in Tokens : /\ slot'[t].clientId = slot[t].clientId
                             /\ slot[t].connected => slot'[t].connected,
           \A x \in Coming(s)' : x.type = "add" => x \in Coming(s),
           \A x \in Coming(s) :
               \/ x \in Coming(s)'
               \/ x.type \notin {"add", "start", "connected"}
               \/ x.type = "start" /\ page = "unmounted"
               \/ /\ x.type = "connected"
                  /\ \/ subs[s] = NoSubs
                     \/ x.id \in DOMAIN players[s] => slot'[players[s][x.id]].connected
    PROVE  Quietly(s)
<1>1. Listed' = Listed
  BY DEF Listed
<1> QED BY <1>1 DEF Quietly

LEMMA StillsQuiet ==
    ASSUME Typed, NEW s \in Servers, UNCHANGED <<manager, list, page, slot>>,
           to_server'[s] = to_server[s], players'[s] = players[s],
           phase'[s] = phase[s], subs'[s] = subs[s], online'[s] = online[s],
           NEW e, e.type \notin {"add", "start", "connected"},
           Coming(s)' \in {Coming(s), Coming(s) \union {e}}
    PROVE  Quietly(s)
BY StillQuiet

\* News finds its slot in the current manager, which marks it.
LEMMA NewsIs ==
    ASSUME LobbyAssumption, Books, Current, ~Coalesced, Undisturbed, Orderly,
           NEW s \in Servers, PlayerNews(s)
    PROVE  /\ Alive(s) /\ UNCHANGED <<chunk, stalled, clients, manager>>
           /\ Head(to_client[s]) = Head(Unheard(s))
           /\ \/ subs[s] = NoSubs /\ UNCHANGED slot
              \/ /\ subs[s] # NoSubs
                 /\ Head(to_client[s]).id \in DOMAIN clients[manager]
                 /\ \A j \in DOMAIN Unheard(s) :
                        ~IsAdd(Unheard(s)[j], Head(to_client[s]).id)
                 /\ slot' = [slot EXCEPT
                        ![clients[manager][Head(to_client[s]).id]].connected = TRUE]
<1> DEFINE f == Head(to_client[s])
           u == Unheard(s)
<1>1. /\ Typed /\ to_client[s] # <<>> /\ chunk = None /\ ~stalled[s] /\ Alive(s)
      /\ f.type \in {"connected", "disconnected"}
  <2>1. to_client[s] # <<>> /\ f.type \in {"connected", "disconnected"}
    BY DEF PlayerNews, NextFrame
  <2>2. Alive(s)
    BY <2>1 DEF Books, QuietBefore
  <2> QED BY <2>1, <2>2 DEF Books, Undisturbed
<1>2. u \in Seq(Anything) /\ u # <<>> /\ Head(u) = f
  BY <1>1, NewsComing
<1>3. 1 \in DOMAIN u /\ u[1] = f /\ DOMAIN u = 1 .. Len(u) /\ Len(u) \in Nat
  BY <1>2, TailIs, LenProperties
<1>4. EndOfChunk(s) => chunk' = None
  BY DEF EndOfChunk
<1>5. UNCHANGED <<clients, manager>>
  BY DEF PlayerNews
<1>6. CASE subs[s] = NoSubs
  <2>1. EndOfChunk(s) /\ UNCHANGED <<slot, stalled>>
    BY <1>6 DEF PlayerNews
  <2> QED BY <2>1, <1>1, <1>2, <1>4, <1>5, <1>6
<1>7. CASE subs[s] # NoSubs
  <2>1. subs[s].own = manager /\ subs[s].captured = manager
    BY <1>1, <1>7, ListenersAreCurrent
  <2>2. InOrder(u, counter[s], DOMAIN clients[manager])
    BY <1>1, <1>7 DEF Orderly, NewsInOrder
  <2> HIDE DEF f, u
  <2>3. IsNews(u[1])
    BY <1>1, <1>3 DEF IsNews
  <2>4. /\ \/ u[1].id \in DOMAIN clients[manager]
           \/ \E j \in DOMAIN u : j < 1 /\ IsAdd(u[j], u[1].id)
        /\ \A j \in DOMAIN u : j > 1 => ~IsAdd(u[j], u[1].id)
    BY <1>3, <2>2, <2>3 DEF InOrder
  <2>5. f.id \in DOMAIN clients[manager]
    BY <1>3, <2>4
  <2>6. ~IsAdd(f, f.id)
    BY <1>1 DEF IsAdd
  <2>7. \A j \in DOMAIN u : ~IsAdd(u[j], f.id)
    BY <1>3, <2>4, <2>6
  <2>8. /\ slot' = Marked(slot, manager, f.id, Connected(f))
        /\ EndOfChunk(s) /\ UNCHANGED stalled
    BY <1>7, <2>1, <2>5 DEF PlayerNews, f
  <2>9. slot' = [slot EXCEPT ![clients[manager][f.id]].connected = TRUE]
    BY <2>8 DEF Marked, Connected
  <2> QED BY <1>1, <1>2, <1>4, <1>5, <1>7, <2>5, <2>7, <2>8, <2>9 DEF f, u
<1> QED BY <1>6, <1>7

LEMMA UndisturbedStep ==
    ASSUME LobbyAssumption, Books, Current, ~Coalesced, Undisturbed, Orderly, [Next]_vars
    PROVE  Undisturbed'
<1>0. chunk = None /\ \A s \in Servers : ~stalled[s]
  BY DEF Undisturbed
<1>1. ASSUME UNCHANGED <<chunk, stalled>> PROVE Undisturbed'
  BY <1>0, <1>1 DEF Undisturbed
<1>2. ASSUME NEW s \in Servers, Response(s) PROVE Undisturbed'
  <2>1. chunk' = None /\ UNCHANGED stalled
    BY <1>2 DEF Response, EndOfChunk
  <2> QED BY <1>0, <2>1 DEF Undisturbed
<1>3. ASSUME NEW s \in Servers, PlayerNews(s) PROVE Undisturbed'
  BY <1>1, <1>3, NewsIs
<1>4. ASSUME RunTask PROVE Undisturbed'
  BY <1>1, <1>4 DEF RunTask
<1>5. ASSUME NEW n \in SlotCounts, SelectMap(n) PROVE Undisturbed'
  BY <1>1, <1>5 DEF SelectMap, UpdateSlots, loopVars
<1>6. ASSUME NEW b \in Bots, AddLocalBot(b) PROVE Undisturbed'
  BY <1>1, <1>6 DEF AddLocalBot, loopVars
<1>7. ASSUME NEW i \in 1 .. MaxTokens, KickPlayer(i) \/ ConnectLocalBot(i) PROVE Undisturbed'
  BY <1>1, <1>7 DEF KickPlayer, ConnectLocalBot, loopVars
<1>8. ASSUME NEW p \in Ports, StartServer(p) PROVE Undisturbed'
  BY <1>1, <1>8 DEF StartServer, loopVars
<1>9. ASSUME ClickStop \/ LaunchGame \/ Unmount PROVE Undisturbed'
  BY <1>1, <1>9 DEF ClickStop, LaunchGame, Unmount, loopVars
<1>10. ASSUME NEW r \in Servers, ConnectFails(r) \/ ServerConnected(r) \/ ServerExits(r)
       PROVE  Undisturbed'
  BY <1>1, <1>10 DEF ConnectFails, ServerConnected, ServerExits, loopVars
<1>11. ASSUME NEW r \in Servers, Serve(r) PROVE Undisturbed'
  BY <1>1, <1>11 DEF Serve, loopVars
<1>12. ASSUME NEW r \in Servers, NEW id \in DOMAIN players[r],
              NEW type \in {"connected", "disconnected"}, ClientMoves(r, id, type)
       PROVE  Undisturbed'
  BY <1>1, <1>12 DEF ClientMoves, loopVars
<1>13. CASE UNCHANGED vars
  BY <1>1, <1>13 DEF vars, loopVars
<1> QED
  BY <1>2, <1>3, <1>4, <1>5, <1>6, <1>7, <1>8, <1>9, <1>10, <1>11, <1>12, <1>13
     DEF Next, Slots, Controls, Loop, Server

\* News of a player marks its slot.
LEMMA NewsQuiet ==
    ASSUME LobbyAssumption, Books, Current, ~Coalesced, Undisturbed, Orderly, Numbers,
           NEW s \in Servers, PlayerNews(s), proc[s] = "up"
    PROVE  Quietly(s)
<1> DEFINE f == Head(to_client[s])
           t0 == clients[manager][f.id]
<1>1. /\ UNCHANGED <<page, manager, list, to_server, players, phase, online, subs>>
      /\ Typed /\ chunk = None /\ slot \in [Tokens -> Objects]
      /\ f.type \in {"connected", "disconnected"} /\ ~stalled[s]
  BY DEF PlayerNews, runnerVars, lobbyVars, Books, Typed, Undisturbed
<1>2. /\ Coming(s)' \subseteq Coming(s)
      /\ \A x \in Coming(s) : x = f \/ x \in Coming(s)'
  BY <1>1, NewsComing
<1>3. CASE subs[s] = NoSubs
  <2>1. UNCHANGED slot
    BY <1>3, NewsIs
  <2> HIDE DEF f
  <2> QED BY <1>1, <1>2, <1>3, <2>1, StillQuiet
<1>4. CASE subs[s] # NoSubs
  <2>1. /\ f.id \in DOMAIN clients[manager]
        /\ \A j \in DOMAIN Unheard(s) : ~IsAdd(Unheard(s)[j], f.id)
        /\ slot' = [slot EXCEPT ![t0].connected = TRUE]
    BY <1>4, NewsIs
  <2>2. ASSUME f.id \in DOMAIN players[s] PROVE players[s][f.id] = t0
    <3>1. \/ AddUnderWay(s, f.id)
          \/ clients[subs[s].own][f.id] = players[s][f.id]
      BY <1>1, <1>4, <2>2 DEF Current, ManagerKnowsPlayers
    <3>2. subs[s].own = manager
      <4>1. to_client[s] # <<>>
        BY DEF PlayerNews, NextFrame
      <4> QED BY <4>1, <1>4, ListenersAreCurrent
    <3>3. ~AddUnderWay(s, f.id)
      <4>1. SUFFICES ASSUME AddUnderWay(s, f.id) PROVE FALSE
        OBVIOUS
      <4>2. \/ \E i \in DOMAIN tasks : IsAdd(tasks[i], f.id)
            \/ \E i \in DOMAIN to_client[s] : IsAdd(to_client[s][i], f.id)
        BY <4>1 DEF AddUnderWay, IsAdd
      <4>3. \E j \in DOMAIN Unheard(s) : IsAdd(Unheard(s)[j], f.id)
        BY <4>2, <1>1, UnheardTyped
      <4> QED BY <4>3, <2>1
    <3> QED BY <3>1, <3>2, <3>3
  <2> HIDE DEF f, t0
  <2>3. \A t \in Tokens :
            /\ slot'[t].clientId = slot[t].clientId
            /\ slot[t].connected => slot'[t].connected
            /\ t = t0 => slot'[t].connected
    BY <1>1, <2>1 DEF Objects
  <2>4. \A id \in DOMAIN players[s] : players[s][id] \in Tokens
    BY <1>1, PlayersTokens
  <2>5. f.id \in DOMAIN players[s] => slot'[players[s][f.id]].connected
    BY <2>2, <2>3, <2>4
  <2> QED BY <1>1, <1>2, <2>3, <2>5, StillQuiet
<1> QED BY <1>3, <1>4

\* The lobby has server s, or gets it now.
LEMMA ServingSteps ==
    ASSUME Books, [Next]_vars, NEW s \in Servers, Serving(s)'
    PROVE  \/ Serving(s)
           \/ RunTask /\ Head(tasks) = CreatedTask(s) /\ Created(s) /\ proc[s] = "up"
<1> DEFINE Goal == \/ Serving(s)
                   \/ RunTask /\ Head(tasks) = CreatedTask(s) /\ Created(s) /\ proc[s] = "up"
<1>0. server' = s /\ proc'[s] = "up" /\ s # None /\ Typed
  BY DEF Serving, Servers, None, Books
<1>1. ASSUME UNCHANGED <<server, proc>> PROVE Goal
  BY <1>0, <1>1 DEF Serving
<1>2. ASSUME KillServer PROVE FALSE
  BY <1>0, <1>2 DEF KillServer
<1>3. ASSUME NEW p \in Ports, StartServer(p) PROVE FALSE
  BY <1>0, <1>3 DEF StartServer, serverRunning, uiVars
<1>4. ASSUME NEW r \in Servers, ServerExits(r) PROVE Goal
  <2>1. proc' = [proc EXCEPT ![r] = "dead"] /\ UNCHANGED server
        /\ proc \in [Servers -> {"idle", "up", "killed", "failing", "dead"}]
    BY <1>0, <1>4 DEF ServerExits, uiVars, Typed
  <2>2. proc[s] = "up"
    BY <2>1, <1>0
  <2> QED BY <2>1, <2>2, <1>0 DEF Serving
<1>5. ASSUME RunTask PROVE Goal
  <2>1. ASSUME NEW r \in Servers, Head(tasks) = [type |-> "created", server |-> r], Created(r)
        PROVE  Goal
    <3>1. server' = r /\ UNCHANGED proc
      BY <2>1 DEF Created, procVars
    <3> QED BY <3>1, <2>1, <1>0, <1>5 DEF CreatedTask
  <2>2. ASSUME StopServer PROVE FALSE
    BY <2>2, <1>2 DEF StopServer
  <2>3. ASSUME PlayerAdded(Head(tasks)) \/ PlayerRemoved(Head(tasks)) PROVE Goal
    BY <2>3, <1>1 DEF PlayerAdded, PlayerRemoved, procVars
  <2>4. ASSUME GameStarted PROVE Goal
    <3>1. CASE validifyRunning
      BY <3>1, <2>4, <1>0 DEF GameStarted, ServerLeft
    <3>2. CASE ~validifyRunning
      BY <3>2, <2>4, <1>1 DEF GameStarted, uiVars, procVars
    <3> QED BY <3>1, <3>2
  <2> HIDE DEF Goal
  <2> QED BY <2>1, <2>2, <2>3, <2>4, <1>0, <1>5, RunTaskIs
<1> HIDE DEF Goal
<1>6. ASSUME NEW n \in SlotCounts, SelectMap(n) PROVE Goal
  BY <1>1, <1>6 DEF SelectMap, UpdateSlots, procVars
<1>7. ASSUME NEW b \in Bots, AddLocalBot(b) PROVE Goal
  BY <1>1, <1>7 DEF AddLocalBot, procVars
<1>8. ASSUME NEW i \in 1 .. MaxTokens, KickPlayer(i) \/ ConnectLocalBot(i) PROVE Goal
  BY <1>1, <1>8 DEF KickPlayer, ConnectLocalBot, procVars, uiVars
<1>9. ASSUME ClickStop \/ Unmount PROVE FALSE
  BY <1>2, <1>9 DEF ClickStop, StopServer, Unmount
<1>10. ASSUME LaunchGame PROVE Goal
  BY <1>1, <1>10 DEF LaunchGame, uiVars, procVars
<1>11. ASSUME NEW r \in Servers, ConnectFails(r) \/ ServerConnected(r) \/ Response(r)
                                 \/ PlayerNews(r) \/ Serve(r)
       PROVE  Goal
  BY <1>1, <1>11 DEF ConnectFails, ServerConnected, Response, PlayerNews, Serve, uiVars, procVars
<1>12. ASSUME NEW r \in Servers, NEW id \in DOMAIN players[r],
              NEW type \in {"connected", "disconnected"}, ClientMoves(r, id, type)
       PROVE  Goal
  BY <1>1, <1>12 DEF ClientMoves, uiVars, procVars
<1>13. ASSUME UNCHANGED vars PROVE Goal
  BY <1>1, <1>13 DEF vars, uiVars, procVars
<1> QED
  <2>0. Next \/ UNCHANGED vars
    OBVIOUS
  <2>1. Goal
    BY <2>0, <1>3, <1>4, <1>5, <1>6, <1>7, <1>8, <1>9, <1>10, <1>11, <1>12, <1>13
       DEF Next, Slots, Controls, Loop, Server
  <2> QED BY <2>1 DEF Goal

\* The hypotheses of the steps that follow.
Waiting ==
    /\ LobbyAssumption /\ UserWaits /\ ~Coalesced
    /\ Books /\ OneServerAtATime /\ Current
    /\ Undisturbed /\ Pages /\ Runners /\ Numbers /\ Orderly

LEMMA AddLocalBotQuiet ==
    ASSUME Typed, NEW b \in Bots, AddLocalBot(b), NEW s \in Servers
    PROVE  Quietly(s)
<1>1. /\ UNCHANGED <<page, manager, list, to_server, players, phase, online, subs, tasks, to_client>>
      /\ slot \in [Tokens -> Objects]
  BY DEF AddLocalBot, runnerVars, lobbyVars, netVars, loopVars, Typed
<1>2. PICK i \in DOMAIN list[manager] : slot' = [slot EXCEPT ![list[manager][i]].bot = b]
  BY DEF AddLocalBot
<1> DEFINE k == list[manager][i]
<1> HIDE DEF k
<1>3. slot' = [slot EXCEPT ![k].bot = b]
  BY <1>2 DEF k
<1>4. \A t \in Tokens : slot'[t].clientId = slot[t].clientId /\ slot'[t].connected = slot[t].connected
  BY <1>1, <1>3 DEF Objects
<1>5. Coming(s)' = Coming(s)
  BY <1>1 DEF Coming, Unheard
<1> QED BY <1>1, <1>4, <1>5, StillQuiet

LEMMA ServerStepsQuiet ==
    ASSUME Waiting, NEW s \in Servers, Serving(s),
           NEW r \in Servers, ServerConnected(r) \/ ConnectFails(r) \/ ServerExits(r),
           proc'[s] = "up"
    PROVE  Quietly(s)
<1>0. Typed /\ proc \in [Servers -> {"idle", "up", "killed", "failing", "dead"}]
  BY DEF Waiting, Books, Typed
<1> DEFINE e == [type |-> "created", server |-> r]
           f == [type |-> "failed", server |-> r]
<1>1. e \in Anything /\ f \in Anything /\ e.type = "created" /\ f.type = "failed"
  BY DEF Anything, Settlements
<1> HIDE DEF e, f
<1>2. CASE ServerConnected(r)
  <2>1. /\ UNCHANGED <<page, manager, list, slot, to_server, players, phase, online, subs, to_client>>
        /\ tasks = <<>> /\ tasks' = <<e>>
    BY <1>2 DEF ServerConnected, Idle, uiVars, slotVars, netVars, lobbyVars, e
  <2>2. Coming(s)' = Coming(s) \union {e}
    BY <2>1, <1>0, <1>1, FrontComing
  <2> QED BY <2>1, <2>2, <1>0, <1>1, StillsQuiet
<1>3. CASE ConnectFails(r)
  <2>1. UNCHANGED <<page, manager, list, slot, to_server, players, phase, online, subs, to_client, tasks>>
    BY <1>3 DEF ConnectFails, uiVars, slotVars, netVars, lobbyVars, loopVars
  <2>2. Coming(s)' = Coming(s)
    BY <2>1 DEF Coming, Unheard
  <2> QED BY <2>1, <2>2, <1>0, <1>1, StillsQuiet
<1>4. CASE ServerExits(r)
  <2>1. /\ UNCHANGED <<page, manager, list, slot, phase, subs>>
        /\ tasks = <<>> /\ tasks' \in {<<f>>, tasks}
        /\ proc' = [proc EXCEPT ![r] = "dead"]
        /\ to_client' = [to_client EXCEPT ![r] = <<>>]
        /\ to_server' = [to_server EXCEPT ![r] = <<>>]
        /\ players' = [players EXCEPT ![r] = [i \in {} |-> None]]
        /\ online' = [online EXCEPT ![r] = {}]
    BY <1>4 DEF ServerExits, Idle, uiVars, slotVars, f
  <2>2. r # s
    BY <2>1, <1>0
  <2>3. /\ to_client'[s] = to_client[s] /\ to_server'[s] = to_server[s]
        /\ players'[s] = players[s] /\ online'[s] = online[s]
    <3>1. /\ DOMAIN to_client = Servers /\ DOMAIN to_server = Servers
          /\ DOMAIN players = Servers /\ DOMAIN online = Servers
      BY <1>0 DEF Typed, Waiting, Numbers
    <3> QED BY <2>1, <2>2, <3>1
  <2>4. CASE tasks' = <<f>>
    <3>1. Coming(s)' = Coming(s) \union {f}
      BY <2>1, <2>3, <2>4, <1>0, <1>1, FrontComing
    <3> QED BY <2>1, <2>3, <3>1, <1>0, <1>1, StillsQuiet
  <2>5. CASE tasks' = tasks
    <3>1. Coming(s)' = Coming(s)
      BY <2>3, <2>5 DEF Coming, Unheard
    <3> QED BY <2>1, <2>3, <3>1, <1>0, <1>1, StillsQuiet
  <2> QED BY <2>1, <2>4, <2>5
<1> QED BY <1>2, <1>3, <1>4

LEMMA ClientMovesQuiet ==
    ASSUME Waiting, NEW s \in Servers, Serving(s),
           NEW r \in Servers, NEW id \in DOMAIN players[r],
           NEW type \in {"connected", "disconnected"}, ClientMoves(r, id, type)
    PROVE  Quietly(s)
<1> DEFINE e == [type |-> type, id |-> id]
<1>0. Books /\ OneServerAtATime /\ Typed /\ Alive(s)
  BY DEF Waiting, Books, Serving, Alive
<1>1. e \in News /\ e \in Anything /\ e.type = type /\ e.id = id
  BY <1>0 DEF Anything, News, Books, PlayersNumbered
<1>2. /\ Tell(r, e) /\ proc[r] = "up"
      /\ UNCHANGED <<page, manager, list, slot, tasks, to_server, players, phase, subs>>
      /\ online' = [online EXCEPT ![r] =
                      IF type = "connected" THEN @ \union {id} ELSE @ \ {id}]
  BY DEF ClientMoves, uiVars, slotVars, runnerVars, loopVars
<1> HIDE DEF e
<1>3. r = s
  BY <1>0, <1>2, OnlyTheAlive
<1>4. to_client'[s] = Append(to_client[s], e)
  BY <1>0, <1>1, <1>2, <1>3, TellIs
<1>5. Unheard(s)' = Append(Unheard(s), e)
  <2>1. tasks \o Append(to_client[s], e) = Append(tasks \o to_client[s], e)
    BY SMTT(30), <1>0, <1>1, UnheardTyped, AppendOfConcat
  <2> QED BY <2>1, <1>2, <1>4 DEF Unheard
<1>6. Coming(s)' = Coming(s) \union {e}
  BY <1>0, <1>1, <1>5, AppendComing
<1>7. DOMAIN online = Servers
  BY DEF Waiting, Numbers
<1>8. \A i \in online'[s] : i \in online[s] \/ (type = "connected" /\ i = id)
  BY <1>2, <1>3, <1>7
<1>9. \A i \in online'[s] :
        i \in online[s] \/ \E x \in Coming(s)' : x.type = "connected" /\ x.id = i
  BY <1>1, <1>6, <1>8
<1>10. /\ \A x \in Coming(s)' : x.type = "add" => x \in Coming(s)
       /\ \A x \in Coming(s) : x \in Coming(s)'
  BY <1>1, <1>6
<1>11. Listed' = Listed
  BY <1>2 DEF Listed
<1> QED BY <1>2, <1>9, <1>10, <1>11 DEF Quietly

LEMMA ResponseQuiet ==
    ASSUME Waiting, NEW s \in Servers, Serving(s), NEW r \in Servers, Response(r)
    PROVE  Quietly(s) /\ r = s /\ Unheard(s)' = Unheard(s)
<1>0. Books /\ OneServerAtATime /\ Typed /\ Alive(s)
  BY DEF Waiting, Books, Serving, Alive
<1>1. /\ NextFrame(r) /\ tasks' = Append(tasks, Head(to_client[r]))
      /\ UNCHANGED <<page, manager, list, slot, to_server, players, phase, subs, online>>
  BY DEF Response, uiVars, slotVars, runnerVars, lobbyVars
<1>2. to_client[r] # <<>> /\ to_client'[r] = Tail(to_client[r])
  BY <1>0, <1>1, FrameIs
<1>3. r = s
  BY <1>0, <1>2, OnlyTheAlive
<1>4. Append(tasks, Head(to_client[s])) \o Tail(to_client[s]) = tasks \o to_client[s]
  <2>1. tasks \in Seq(Anything) /\ to_client[s] \in Seq(Anything) /\ to_client[s] # <<>>
    BY <1>0, <1>2, <1>3, UnheardTyped
  <2> QED BY <2>1, MovedAcross
<1>5. Unheard(s)' = Unheard(s)
  BY <1>1, <1>2, <1>3, <1>4 DEF Unheard
<1>6. Coming(s)' = Coming(s)
  BY <1>5 DEF Coming
<1> DEFINE e == [type |-> "created"]
<1>7. e.type \notin {"add", "start", "connected"}
  OBVIOUS
<1> HIDE DEF e
<1>8. Quietly(s)
  BY <1>0, <1>1, <1>6, <1>7, StillsQuiet
<1> QED BY <1>3, <1>5, <1>8

\* The callbacks that neither hand a server over nor give a slot its number.
LEMMA OtherTasksQuiet ==
    ASSUME Waiting, RunTask, NEW s \in Servers, Serving(s), Serving(s)',
           \/ Head(tasks).type = "remove" /\ PlayerRemoved(Head(tasks))
           \/ Head(tasks).type = "start" /\ GameStarted
    PROVE  Quietly(s)
<1>0. /\ Typed /\ server = s /\ s # None /\ server' = s
      /\ UNCHANGED <<phase, players, online>>
  <2>1. Typed /\ s # None
    BY DEF Waiting, Books, Servers, None
  <2> QED BY <2>1, RunTaskIs DEF Serving, lobbyVars
<1>1. /\ Coming(s)' \subseteq Coming(s)
      /\ \A x \in Coming(s) : x = Head(tasks) \/ x \in Coming(s)'
  BY <1>0, RunTaskComing
<1>2. CASE Head(tasks).type = "remove" /\ PlayerRemoved(Head(tasks))
  <2>1. UNCHANGED <<page, manager, list, slot, to_server, subs>>
    BY <1>2 DEF PlayerRemoved, netVars, runnerVars
  <2> QED BY <2>1, <1>0, <1>1, <1>2, StillQuiet
<1>3. CASE Head(tasks).type = "start" /\ GameStarted
  <2>1. ~validifyRunning
    BY <1>0, <1>3 DEF GameStarted, ServerLeft
  <2>2. page = "unmounted"
    BY <2>1, <1>0 DEF validifyRunning, Waiting, Pages
  <2>3. UNCHANGED <<page, manager, list, slot, to_server, subs>>
    BY <2>1, <1>3 DEF GameStarted, uiVars, slotVars, netVars, runnerVars
  <2> QED BY <2>2, <2>3, <1>0, <1>1, <1>3, StillQuiet
<1> QED BY <1>2, <1>3

\* What the lobby and its server have agreed on stays.
LEMMA ServedOnStep ==
    ASSUME Waiting, [Next]_vars, NEW s \in Servers, Serving(s), Serving(s)',
           AskedOnce(s), Matches(s), Listens(s), Starts(s)
    PROVE  AskedOnce(s)' /\ Matches(s)' /\ Listens(s)' /\ Starts(s)'
<1> DEFINE Goal == AskedOnce(s)' /\ Matches(s)' /\ Listens(s)' /\ Starts(s)'
<1>0. /\ LobbyAssumption /\ Books /\ OneServerAtATime /\ Current /\ ~Coalesced /\ Typed
      /\ Undisturbed /\ Pages /\ Runners /\ Numbers /\ Orderly /\ UserWaits
      /\ TokensDiffer /\ phase[s] \in {"lobby", "playing"}
      /\ Alive(s) /\ proc[s] = "up" /\ proc'[s] = "up" /\ server = s /\ server' = s /\ s # None
  <2>1. /\ LobbyAssumption /\ Books /\ OneServerAtATime /\ Current /\ ~Coalesced
        /\ Undisturbed /\ Pages /\ Runners /\ Numbers /\ Orderly /\ UserWaits
    BY DEF Waiting
  <2>2. Typed /\ TokensDiffer
    BY <2>1 DEF Books
  <2>3. phase[s] \in {"lobby", "playing"}
    BY <2>2 DEF Typed
  <2>4. Alive(s) /\ proc[s] = "up" /\ proc'[s] = "up" /\ server = s /\ server' = s /\ s # None
    BY DEF Serving, Alive, Servers, None
  <2> QED BY <2>1, <2>2, <2>3, <2>4
<1>1. ASSUME Quietly(s) PROVE Goal
  BY <1>0, <1>1, QuietlyServes
<1>2. ASSUME Click PROVE Paired(s) /\ phase[s] = "lobby" /\ subs[s] # NoSubs /\ Coming(s) = {}
  <2>1. Asked(s) = {} /\ Coming(s) = {} /\ page # "unmounted"
    BY <1>0, <1>2, ClickIs
  <2> QED BY <2>1, <1>0, SettledIsPaired
<1>3. ASSUME Reslotted(s), Click PROVE Goal
  BY <1>0, <1>2, <1>3, ReslottedServes
<1> HIDE DEF Goal
<1>4. ASSUME NEW n \in SlotCounts, SelectMap(n) PROVE Goal
  <2>1. Reslotted(s)
    BY <1>0, <1>4, SelectMapReslots
  <2>2. Click
    BY <1>4 DEF SelectMap
  <2> QED BY <2>1, <2>2, <1>3
<1>5. ASSUME NEW n \in 1 .. MaxTokens, KickPlayer(n) PROVE Goal
  <2>1. Reslotted(s)
    BY <1>0, <1>5, KickPlayerReslots
  <2>2. Click
    BY <1>5 DEF KickPlayer
  <2> QED BY <2>1, <2>2, <1>3
<1>6. ASSUME NEW n \in 1 .. MaxTokens, ConnectLocalBot(n) PROVE Goal
  <2>1. UNCHANGED <<page, manager, list, slot, to_server, players, phase, online, subs, to_client, tasks>>
    BY <1>6 DEF ConnectLocalBot, uiVars, slotVars, netVars, lobbyVars, loopVars, runnerVars
  <2>2. Coming(s)' = Coming(s)
    BY <2>1 DEF Coming, Unheard
  <2>3. Quietly(s)
    BY <2>1, <2>2, <1>0, StillQuiet
  <2> QED BY <2>3, <1>1
<1>7. ASSUME NEW b \in Bots, AddLocalBot(b) PROVE Goal
  BY <1>0, <1>1, <1>7, AddLocalBotQuiet
<1>8. ASSUME NEW p \in Ports, StartServer(p) PROVE FALSE
  BY <1>0, <1>8 DEF StartServer, serverRunning
<1>9. ASSUME ClickStop \/ Unmount PROVE FALSE
  BY <1>0, <1>9 DEF ClickStop, StopServer, Unmount, KillServer
<1>10. ASSUME LaunchGame PROVE Goal
  BY <1>0, <1>10, LaunchServes DEF Goal
<1>11. ASSUME NEW r \in Servers, ServerConnected(r) \/ ConnectFails(r) \/ ServerExits(r)
       PROVE  Goal
  BY <1>0, <1>1, <1>11, ServerStepsQuiet
<1>12. ASSUME NEW r \in Servers, Response(r) PROVE Goal
  BY <1>1, <1>12, ResponseQuiet
<1>13. ASSUME NEW r \in Servers, PlayerNews(r) PROVE Goal
  <2>1. to_client[r] # <<>>
    BY <1>13 DEF PlayerNews, NextFrame
  <2>2. r = s
    BY <2>1, <1>0, OnlyTheAlive
  <2> QED BY <2>2, <1>0, <1>1, <1>13, NewsQuiet
<1>14. ASSUME NEW r \in Servers, Serve(r) PROVE Goal
  <2>1. proc[r] \in {"up", "killed"}
    BY <1>14 DEF Serve
  <2>2. r = s
    BY <2>1, <1>0, OnlyTheAlive
  <2>3. RemovesOld(s)
    BY <1>0 DEF Orderly
  <2> QED BY <2>2, <2>3, <1>0, <1>14, ServeServes DEF Goal
<1>15. ASSUME NEW r \in Servers, NEW id \in DOMAIN players[r],
              NEW type \in {"connected", "disconnected"}, ClientMoves(r, id, type)
       PROVE  Goal
  BY <1>1, <1>15, ClientMovesQuiet
<1>16. ASSUME RunTask PROVE Goal
  <2>1. ASSUME NEW r \in Servers, Head(tasks) = [type |-> "created", server |-> r], Created(r)
        PROVE  Goal
    <3>1. r = s
      BY <2>1, <1>0 DEF Created
    <3> QED BY <3>1, <2>1, <1>0, <1>16, CreatedServes DEF CreatedTask, Goal
  <2>2. ASSUME StopServer PROVE FALSE
    BY <2>2, <1>0 DEF StopServer, KillServer
  <2>3. ASSUME Head(tasks) \in Requests, Head(tasks).type = "add", PlayerAdded(Head(tasks))
        PROVE  Goal
    <3>1. NumbersAgree(s)
      BY <1>0 DEF Current
    <3> QED BY <3>1, <2>3, <1>0, <1>16, PlayerAddedServes DEF Goal
  <2>4. ASSUME \/ Head(tasks).type = "remove" /\ PlayerRemoved(Head(tasks))
               \/ Head(tasks).type = "start" /\ GameStarted
        PROVE  Goal
    BY <2>4, <1>1, <1>16, OtherTasksQuiet
  <2> QED BY <2>1, <2>2, <2>3, <2>4, <1>0, <1>16, RunTaskIs
<1>17. ASSUME UNCHANGED vars PROVE Goal
  <2>1. UNCHANGED <<page, manager, list, slot, to_server, players, phase, online, subs, to_client, tasks>>
    BY <1>17 DEF vars, uiVars, slotVars, netVars, lobbyVars, loopVars, runnerVars
  <2>2. Coming(s)' = Coming(s)
    BY <2>1 DEF Coming, Unheard
  <2>3. Quietly(s)
    BY <2>1, <2>2, <1>0, StillQuiet
  <2> QED BY <2>3, <1>1
<1> QED
  <2>0. Next \/ UNCHANGED vars
    OBVIOUS
  <2>1. Goal
    BY <2>0, <1>4, <1>5, <1>6, <1>7, <1>8, <1>9, <1>10, <1>11, <1>12, <1>13, <1>14,
       <1>15, <1>16, <1>17
       DEF Next, Slots, Controls, Loop, Server
  <2> QED BY <2>1 DEF Goal

LEMMA ServedStep ==
    ASSUME Waiting, Served, [Next]_vars
    PROVE  Served'
<1> SUFFICES ASSUME NEW s \in Servers, Serving(s)'
             PROVE  AskedOnce(s)' /\ Matches(s)' /\ Listens(s)' /\ Starts(s)'
  BY DEF Served
<1>1. CASE Serving(s)
  BY <1>1, ServedOnStep DEF Served
<1>2. CASE RunTask /\ Head(tasks) = CreatedTask(s) /\ Created(s) /\ proc[s] = "up"
  BY <1>2, CreatedServes DEF Waiting
<1>3. Books
  BY DEF Waiting
<1> QED BY <1>1, <1>2, <1>3, ServingSteps

-----------------------------------------------------------------------------
(* News in order: the steps *)

\* The lobby asks for players for the slots it lists, and only players to go
\* that are there.
LEMMA NewRequests ==
    ASSUME Waiting, Served, [Next]_vars, NEW s \in Servers,
           NEW x \in Asked(s)'
    PROVE  \/ x \in Asked(s)
           \/ x.type = "add" /\ x.token \in Listed'
           \/ x.type = "remove" /\ x.id \in DOMAIN players[s]
           \/ x.type = "start"
<1> DEFINE Old == x \in Asked(s)
           Goal == \/ Old
                   \/ x.type = "add" /\ x.token \in Listed'
                   \/ x.type = "remove" /\ x.id \in DOMAIN players[s]
                   \/ x.type = "start"
<1>0. /\ LobbyAssumption /\ Books /\ Typed /\ TokensDiffer /\ UserWaits /\ Runners
      /\ manager \in Managers
  BY DEF Waiting, Books, Typed
<1>00. PICK i \in DOMAIN to_server'[s] : x = to_server'[s][i]
  BY DEF Asked
<1>1. ASSUME to_server'[s] = to_server[s] PROVE Old
  BY <1>1 DEF Asked
<1>2. ASSUME Serving(s), Reslotted(s), Click PROVE Goal
  <2>1. phase[s] \in {"lobby", "playing"}
    BY <1>0 DEF Typed
  <2>2. Asked(s) = {} /\ Coming(s) = {} /\ page # "unmounted"
    BY <1>0, <1>2, ClickIs
  <2>3. Paired(s)
    BY <1>2, <2>1, <2>2, SettledIsPaired DEF Served
  <2>4. \/ x.type = "add" /\ x.token \in Listed' \ Listed
        \/ x.type = "remove" /\ x.token \in Listed \ Listed' /\ x.id = slot[x.token].clientId
    BY <1>2 DEF Reslotted
  <2> QED BY <2>3, <2>4 DEF Paired
<1>3. ASSUME NEW dropped, Written(runner[manager], dropped), to_server'[s] # to_server[s]
      PROVE  Serving(s)
  <2>1. runner[manager] = s /\ proc[s] = "up"
    BY <1>3 DEF Written
  <2> QED BY <2>1, <1>0 DEF Runners, Serving
<1> HIDE DEF Old, Goal
<1>4. ASSUME NEW n \in SlotCounts, SelectMap(n) PROVE Old \/ Goal
  <2>1. to_server'[s] # to_server[s] => Serving(s)
    BY <1>0, <1>3, <1>4, SelectMapIs
  <2>2. Serving(s) => Reslotted(s)
    BY <1>0, <1>4, SelectMapReslots
  <2> QED BY <2>1, <2>2, <1>1, <1>2, <1>4 DEF SelectMap
<1>5. ASSUME NEW n \in 1 .. MaxTokens, KickPlayer(n) PROVE Old \/ Goal
  <2>1. to_server'[s] # to_server[s] => Serving(s)
    BY <1>0, <1>3, <1>5, KickPlayerIs
  <2>2. Serving(s) => Reslotted(s)
    BY <1>0, <1>5, KickPlayerReslots
  <2> QED BY <2>1, <2>2, <1>1, <1>2, <1>5 DEF KickPlayer
<1>6. ASSUME NEW r, NEW ask \in Seq(Requests), Send(r, ask),
             \A k \in DOMAIN ask : \/ ask[k].type = "add" /\ ask[k].token \in Listed'
                                   \/ ask[k].type = "start"
      PROVE  Goal
  <2>1. \/ i \in DOMAIN to_server[s] /\ to_server'[s][i] = to_server[s][i]
        \/ \E k \in DOMAIN ask : to_server'[s][i] = ask[k]
    BY <1>0, <1>6, SendIs
  <2> QED BY <2>1, <1>00, <1>6 DEF Old, Goal, Asked
<1>7. ASSUME NEW r \in Servers, Created(r) PROVE Goal
  <2> DEFINE ask == NewPlayers(r)
  <2>1. Send(r, ask) /\ ask \in Seq(Requests) /\ \A k \in DOMAIN ask : ask[k].type = "add"
    BY <1>0, <1>7, NewPlayersAre DEF Created
  <2> HIDE DEF ask
  <2>2. \A k \in DOMAIN ask : ask[k].type = "add" /\ ask[k].token \in Listed'
    <3>1. Listed' = {list[manager][k] : k \in DOMAIN list[manager]}
      BY <1>7 DEF Created, Listed
    <3> QED BY <2>1, <3>1 DEF ask, NewPlayers, AddPlayer
  <2> QED BY <2>1, <2>2, <1>6
<1>8. ASSUME LaunchGame PROVE Goal
  <2> DEFINE ask == <<StartGame>>
  <2>1. Send(server, ask) /\ ask \in Seq(Requests)
        /\ \A k \in DOMAIN ask : ask[k].type = "start"
    <3>1. StartGame \in Requests /\ StartGame.type = "start"
      BY <1>0 DEF StartGame, Requests, None
    <3> QED BY <1>8, <3>1 DEF LaunchGame
  <2> HIDE DEF ask
  <2> QED BY <2>1, <1>6
<1>9. ASSUME NEW r \in Servers, Serve(r) PROVE Old
  <2>1. CASE r = s
    BY <2>1, <1>0, <1>9, ServeAsked DEF Old
  <2>2. CASE r # s
    <3>1. to_server'[s] = to_server[s]
      BY <1>0, <1>9, <2>2, ServeIs
    <3> QED BY <3>1, <1>1
  <2> QED BY <2>1, <2>2
<1>10. ASSUME NEW r \in Servers, ServerExits(r) PROVE Old
  <2>1. to_server' = [to_server EXCEPT ![r] = <<>>] /\ DOMAIN to_server = Servers
    BY <1>0, <1>10 DEF ServerExits, Typed
  <2>2. r # s
    BY <2>1, <1>00
  <2> QED BY <2>1, <2>2, <1>1
<1>11. ASSUME RunTask PROVE Old \/ Goal
  <2>1. ASSUME PlayerAdded(Head(tasks)) \/ PlayerRemoved(Head(tasks)) \/ StopServer
               \/ GameStarted
        PROVE  to_server'[s] = to_server[s]
    BY <2>1 DEF PlayerAdded, PlayerRemoved, StopServer, GameStarted, netVars
  <2> QED BY <1>0, <1>1, <1>7, <1>11, <2>1, RunTaskIs
<1>12. ASSUME NEW b \in Bots, AddLocalBot(b) PROVE Old
  BY <1>1, <1>12 DEF AddLocalBot, netVars
<1>13. ASSUME NEW j \in 1 .. MaxTokens, ConnectLocalBot(j) PROVE Old
  BY <1>1, <1>13 DEF ConnectLocalBot, netVars
<1>14. ASSUME NEW p \in Ports, StartServer(p) PROVE Old
  BY <1>1, <1>14 DEF StartServer, netVars
<1>15. ASSUME ClickStop \/ Unmount PROVE Old
  BY <1>1, <1>15 DEF ClickStop, StopServer, Unmount, netVars
<1>16. ASSUME NEW r \in Servers, Response(r) \/ PlayerNews(r) PROVE Old
  BY <1>1, <1>16 DEF Response, PlayerNews
<1>17. ASSUME NEW r \in Servers, ServerConnected(r) \/ ConnectFails(r) PROVE Old
  BY <1>1, <1>17 DEF ServerConnected, ConnectFails, netVars
<1>18. ASSUME NEW r \in Servers, NEW id, NEW type, ClientMoves(r, id, type) PROVE Old
  BY <1>1, <1>18 DEF ClientMoves
<1>19. UNCHANGED vars => Old
  BY <1>1 DEF vars, netVars
<1>20. Old \/ Goal
  <2>1. Next \/ UNCHANGED vars
    OBVIOUS
  <2> QED BY <2>1, <1>4, <1>5, <1>7, <1>8, <1>9, <1>10, <1>11, <1>12, <1>13, <1>14,
             <1>15, <1>16, <1>17, <1>18, <1>19 DEF Next, Slots, Controls, Loop, Server
<1> QED BY <1>20 DEF Goal, Old

\* Nothing is under way to or from a server that just came up.
LEMMA NewlyAliveIsQuiet ==
    ASSUME Books, [Next]_vars, NEW s \in Servers, ~Alive(s), proc'[s] \in {"up", "killed"}
    PROVE  Asked(s)' = {} /\ Coming(s)' = {} /\ subs'[s] = NoSubs
<1>1. PICK p \in Ports : StartServer(p)
  BY NewlyAlive
<1>2. subs'[s] = NoSubs
  BY NewlyAlive
<1>3. /\ tasks = <<>> /\ UNCHANGED <<tasks, to_server, to_client>>
      /\ to_server[s] = <<>> /\ to_client[s] = <<>>
  BY <1>1 DEF StartServer, Click, Idle, loopVars, netVars, Books, QuietBefore
<1>4. <<>> \o <<>> = <<>>
  OBVIOUS
<1> QED BY <1>2, <1>3, <1>4 DEF Asked, Coming, Unheard

LEMMA RemovesOldStep ==
    ASSUME Waiting, Served, [Next]_vars, NEW s \in Servers,
           proc'[s] \in {"up", "killed"}
    PROVE  RemovesOld(s)'
<1>0. /\ LobbyAssumption /\ Books /\ Typed /\ OneServerAtATime /\ Orderly
      /\ counter[s] \in Nat
      /\ \A id \in DOMAIN players[s] : id \in Nat /\ id < counter[s]
  <2>1. LobbyAssumption /\ Books /\ OneServerAtATime /\ Orderly
    BY DEF Waiting
  <2>2. Typed /\ PlayersNumbered
    BY <2>1 DEF Books
  <2>3. counter[s] \in Nat
    BY <2>2 DEF Typed
  <2> QED BY <2>1, <2>2, <2>3 DEF PlayersNumbered
<1>1. CASE ~Alive(s)
  BY <1>0, <1>1, NewlyAliveIsQuiet DEF RemovesOld
<1>2. CASE Alive(s)
  <2>1. /\ \A x \in Asked(s)  : x.type = "remove" => x.id < counter[s]
        /\ \A x \in Coming(s) : x.type = "remove" =>
                x.id < counter[s] /\ x.id \notin DOMAIN players[s]
    BY <1>0, <1>2 DEF Orderly, RemovesOld
  <2>2. \A x \in Asked(s)' : x.type = "remove" => x.id < counter[s]
    BY <1>0, <2>1, NewRequests
  <2>3. CASE Serve(s)
    <3> DEFINE old == Head(to_server[s])
               new == [old EXCEPT !.id = counter[s]]
               v == tasks' \o to_client'[s]
    <3>1. \/ v = Unheard(s) /\ UNCHANGED lobbyVars
          \/ /\ old.type = "add"
             /\ players'[s] = With(players[s], counter[s], old.token)
             /\ counter'[s] = counter[s] + 1
             /\ v = Append(Unheard(s), new) /\ new \in Requests
          \/ /\ old.type = "remove" /\ UNCHANGED counter
             /\ players'[s] = [i \in DOMAIN players[s] \ {old.id} |-> players[s][i]]
             /\ v = Append(Unheard(s), old)
          \/ /\ old.type = "start" /\ UNCHANGED <<players, counter>>
             /\ v = Append(Unheard(s), old)
      BY <1>0, <2>3, ServedIsLast
    <3>2. /\ v = Unheard(s)' /\ Requests \subseteq Anything
          /\ old \in Requests /\ new.type = old.type
      <4>1. old \in Requests
        BY <1>0, <2>3, ServeIs
      <4> QED BY <4>1 DEF Unheard, Anything, Requests
    <3>3. old \in Asked(s)
      BY <1>0, <2>3, ServeAsked
    <3> HIDE DEF old, new, v
    <3>4. CASE v = Unheard(s) /\ UNCHANGED lobbyVars
      <4>1. Coming(s)' = Coming(s)
        BY <3>2, <3>4 DEF Coming
      <4> QED BY <4>1, <3>4, <2>1, <2>2 DEF RemovesOld, lobbyVars
    <3>5. CASE /\ old.type = "add"
               /\ players'[s] = With(players[s], counter[s], old.token)
               /\ counter'[s] = counter[s] + 1
               /\ v = Append(Unheard(s), new) /\ new \in Requests
      <4>1. Coming(s)' = Coming(s) \union {new} /\ new.type = "add"
        BY <1>0, <3>2, <3>5, AppendComing
      <4>2. DOMAIN players'[s] = DOMAIN players[s] \union {counter[s]}
        BY <3>5 DEF With
      <4> DEFINE c == counter[s]
                 d == counter'[s]
      <4>3. c \in Nat /\ d = c + 1
        BY <1>0, <3>5
      <4> HIDE DEF c, d
      <4>4. \A x \in Coming(s) \union Asked(s)' : x.type = "remove" => x.id < c
        BY <2>1, <2>2 DEF c
      <4>5. \A x \in Coming(s) \union Asked(s)' : x.type = "remove" => x.id \in Nat
        <5>1. \A x \in Coming(s) : x.type = "remove" => x \in Requests
          BY <1>0, UnheardTyped DEF Coming, Answers
        <5>2. \A x \in Asked(s)' : x \in Requests
          <6>1. to_server' \in [Servers -> Seq(Requests)]
            BY <1>0, <2>3, ServeIs
          <6>2. to_server'[s] \in Seq(Requests)
            BY <6>1
          <6>3. \A i \in DOMAIN to_server'[s] : to_server'[s][i] \in Requests
            BY <6>2, LenProperties, ElementOfSeq
          <6> QED BY <6>3 DEF Asked
        <5>3. \A x \in Requests : x.id \in Nat
          BY DEF Requests
        <5> QED BY <5>1, <5>2, <5>3
      <4>6. \A x \in Coming(s) \union Asked(s)' : x.type = "remove" => x.id < d /\ x.id # c
        BY <4>3, <4>4, <4>5
      <4>7. \A x \in Coming(s)' : x.type = "remove" => x \in Coming(s)
        BY <4>1
      <4> QED BY <4>2, <4>6, <4>7, <2>1 DEF RemovesOld, c, d
    <3>6. CASE /\ old.type = "remove" /\ UNCHANGED counter
               /\ players'[s] = [i \in DOMAIN players[s] \ {old.id} |-> players[s][i]]
               /\ v = Append(Unheard(s), old)
      <4>1. Coming(s)' = Coming(s) \union {old}
        BY <1>0, <3>2, <3>6, AppendComing
      <4>2. DOMAIN players'[s] = DOMAIN players[s] \ {old.id}
        BY <3>6
      <4>3. old.id < counter[s]
        BY <2>1, <3>3, <3>6
      <4> QED BY <4>1, <4>2, <4>3, <3>6, <2>1, <2>2 DEF RemovesOld
    <3>7. CASE /\ old.type = "start" /\ UNCHANGED <<players, counter>>
               /\ v = Append(Unheard(s), old)
      <4>1. Coming(s)' = Coming(s) \union {old}
        BY <1>0, <3>2, <3>7, AppendComing
      <4> QED BY <4>1, <3>7, <2>1, <2>2 DEF RemovesOld
    <3> QED BY <3>1, <3>4, <3>5, <3>6, <3>7
  <2>4. CASE ~Serve(s)
    <3> DEFINE v == tasks' \o to_client'[s]
    <3>1. /\ Carried(Unheard(s), v) /\ players'[s] = players[s] /\ counter'[s] = counter[s]
      BY <1>0, <1>2, <2>4, UnheardSteps
    <3>2. Coming(s)' = {v[i] : i \in DOMAIN v}
      BY DEF Coming, Unheard
    <3> HIDE DEF v
    <3>3. ASSUME NEW i \in DOMAIN v, v[i].type = "remove" PROVE v[i] \in Coming(s)
      <4>1. PICK k \in DOMAIN Unheard(s) : v[i] = Unheard(s)[k]
        BY <3>1, <3>3 DEF Carried, Answers
      <4> QED BY <4>1 DEF Coming
    <3>4. \A x \in Coming(s)' : x.type = "remove" => x \in Coming(s)
      BY <3>2, <3>3
    <3> QED BY <3>1, <3>4, <2>1, <2>2 DEF RemovesOld
  <2> QED BY <2>3, <2>4
<1> QED BY <1>1, <1>2

\* What the page has to hear of server s, and the page's book of its players,
\* are as they were, apart from the answer to create.
Unheeded(s) ==
    /\ UNCHANGED clients /\ counter'[s] = counter[s]
    /\ \/ Unheard(s)' = Unheard(s)
       \/ /\ tasks = <<>> /\ to_client'[s] = to_client[s]
          /\ \E e \in Settlements : tasks' = <<e>>

LEMMA HearingSteps ==
    ASSUME Waiting, [Next]_vars, NEW s \in Servers, Alive(s), proc'[s] \in {"up", "killed"}
    PROVE  \/ Unheeded(s) \/ RunTask \/ Serve(s) \/ PlayerNews(s)
           \/ \E id \in DOMAIN players[s], type \in {"connected", "disconnected"} :
                ClientMoves(s, id, type)
<1> DEFINE Rest == \/ RunTask \/ Serve(s) \/ PlayerNews(s)
                   \/ \E id \in DOMAIN players[s], type \in {"connected", "disconnected"} :
                        ClientMoves(s, id, type)
<1>0. /\ Books /\ Typed /\ OneServerAtATime
      /\ proc \in [Servers -> {"idle", "up", "killed", "failing", "dead"}]
      /\ counter \in [Servers -> Nat] /\ DOMAIN to_client = Servers
  BY DEF Waiting, Books, Typed
<1>1. ASSUME UNCHANGED <<tasks, to_client, counter, clients>> PROVE Unheeded(s)
  BY <1>1 DEF Unheeded, Unheard
<1>2. ASSUME NEW r \in Servers, ServerConnected(r) PROVE Unheeded(s)
  <2>1. [type |-> "created", server |-> r] \in Settlements
    BY DEF Settlements
  <2>2. /\ tasks = <<>> /\ tasks' = <<[type |-> "created", server |-> r]>>
        /\ UNCHANGED <<to_client, counter, clients>>
    BY <1>2 DEF ServerConnected, Idle, slotVars, lobbyVars, netVars
  <2> QED BY <2>1, <2>2 DEF Unheeded
<1>3. ASSUME NEW r \in Servers, ServerExits(r) PROVE Unheeded(s)
  <2>1. [type |-> "failed", server |-> r] \in Settlements
    BY DEF Settlements
  <2>2. /\ tasks = <<>> /\ tasks' \in {<<[type |-> "failed", server |-> r]>>, tasks}
        /\ proc' = [proc EXCEPT ![r] = "dead"]
        /\ to_client' = [to_client EXCEPT ![r] = <<>>]
        /\ counter' = [counter EXCEPT ![r] = 1]
        /\ UNCHANGED clients
    BY <1>3 DEF ServerExits, Idle, slotVars
  <2>3. r # s
    BY <2>2, <1>0
  <2>4. to_client'[s] = to_client[s] /\ counter'[s] = counter[s]
    BY <2>2, <2>3, <1>0
  <2> QED BY <2>1, <2>2, <2>4 DEF Unheeded, Unheard
<1>4. ASSUME NEW r \in Servers, Response(r) PROVE Unheeded(s)
  <2>1. /\ NextFrame(r) /\ tasks' = Append(tasks, Head(to_client[r]))
        /\ UNCHANGED <<counter, clients>>
    BY <1>4 DEF Response, lobbyVars, slotVars
  <2>2. to_client[r] # <<>> /\ to_client'[r] = Tail(to_client[r])
    BY <2>1, <1>0, FrameIs
  <2>3. r = s
    BY <2>2, <1>0, OnlyTheAlive
  <2>4. tasks \in Seq(Anything) /\ to_client[s] \in Seq(Anything) /\ to_client[s] # <<>>
    BY <1>0, <2>2, <2>3, UnheardTyped
  <2>5. Append(tasks, Head(to_client[s])) \o Tail(to_client[s]) = tasks \o to_client[s]
    BY <2>4, MovedAcross
  <2> QED BY <2>1, <2>2, <2>3, <2>5 DEF Unheeded, Unheard
<1>5. ASSUME NEW r \in Servers, PlayerNews(r) PROVE Rest
  <2>1. to_client[r] # <<>>
    BY <1>5 DEF PlayerNews, NextFrame
  <2>2. r = s
    BY <2>1, <1>0, OnlyTheAlive
  <2> QED BY <2>2, <1>5
<1>6. ASSUME NEW r \in Servers, NEW id \in DOMAIN players[r],
             NEW type \in {"connected", "disconnected"}, ClientMoves(r, id, type)
      PROVE  Rest
  <2>1. proc[r] = "up"
    BY <1>6 DEF ClientMoves
  <2>2. r = s
    BY <2>1, <1>0, OnlyTheAlive
  <2> QED BY <2>2, <1>6
<1>7. ASSUME NEW r \in Servers, Serve(r) PROVE Rest
  <2>1. proc[r] \in {"up", "killed"}
    BY <1>7 DEF Serve
  <2>2. r = s
    BY <2>1, <1>0, OnlyTheAlive
  <2> QED BY <2>2, <1>7
<1>8. RunTask => Rest
  OBVIOUS
<1> HIDE DEF Rest
<1>10. ASSUME NEW n \in SlotCounts, SelectMap(n) PROVE Unheeded(s)
  BY <1>1, <1>10 DEF SelectMap, UpdateSlots, loopVars, lobbyVars
<1>11. ASSUME NEW b \in Bots, AddLocalBot(b) PROVE Unheeded(s)
  BY <1>1, <1>11 DEF AddLocalBot, loopVars, lobbyVars, netVars
<1>12. ASSUME NEW i \in 1 .. MaxTokens, KickPlayer(i) \/ ConnectLocalBot(i) PROVE Unheeded(s)
  BY <1>1, <1>12 DEF KickPlayer, ConnectLocalBot, loopVars, lobbyVars, netVars, slotVars
<1>13. ASSUME NEW p \in Ports, StartServer(p) PROVE Unheeded(s)
  BY <1>1, <1>13 DEF StartServer, loopVars, lobbyVars, netVars, slotVars
<1>14. ASSUME ClickStop \/ LaunchGame \/ Unmount PROVE Unheeded(s)
  BY <1>1, <1>14 DEF ClickStop, StopServer, LaunchGame, Unmount, loopVars, lobbyVars, netVars,
                     slotVars
<1>15. ASSUME NEW r \in Servers, ConnectFails(r) PROVE Unheeded(s)
  BY <1>1, <1>15 DEF ConnectFails, loopVars, lobbyVars, netVars, slotVars
<1>16. ASSUME UNCHANGED vars PROVE Unheeded(s)
  BY <1>1, <1>16 DEF vars, loopVars, lobbyVars, netVars, slotVars
<1> QED
  <2>1. Next \/ UNCHANGED vars
    OBVIOUS
  <2>2. Unheeded(s) \/ Rest
    BY <2>1, <1>2, <1>3, <1>4, <1>5, <1>6, <1>7, <1>8, <1>10, <1>11, <1>12, <1>13, <1>14,
       <1>15, <1>16
       DEF Next, Slots, Controls, Loop, Server
  <2> QED BY <2>2 DEF Rest

\* An answer behind the news.
LEMMA ServeInOrder ==
    ASSUME Books, NEW s \in Servers, Serve(s), NEW known,
           InOrder(Unheard(s), counter[s], known)
    PROVE  InOrder(Unheard(s)', counter'[s], known)
<1> DEFINE u == Unheard(s)
           c == counter[s]
           d == counter'[s]
           old == Head(to_server[s])
           new == [old EXCEPT !.id = counter[s]]
<1>0. Typed /\ counter \in [Servers -> Nat]
  BY DEF Books, Typed
<1>1. /\ u \in Seq(Anything) /\ c \in Nat /\ old \in Requests
      /\ \A k \in DOMAIN u : IsNews(u[k]) => u[k].id \in Nat
  <2>1. /\ u \in Seq(Anything) /\ \A k \in DOMAIN u : u[k] \in Anything
    BY <1>0, UnheardTyped
  <2>2. \A x \in Anything : IsNews(x) => x.id \in Nat
    BY DEF Anything, Requests, News, Settlements, IsNews
  <2>3. old \in Requests
    BY <1>0, ServeIs
  <2> QED BY <2>1, <2>2, <2>3, <1>0
<1>2. /\ \/ Unheard(s)' = u /\ d = c
         \/ /\ old.type = "add" /\ d = c + 1
            /\ Unheard(s)' = Append(u, new) /\ new \in Requests
         \/ old.type = "remove" /\ d = c /\ Unheard(s)' = Append(u, old)
         \/ old.type = "start" /\ d = c /\ Unheard(s)' = Append(u, old)
      /\ new.type = old.type /\ new.id = c
  <2>1. new.type = old.type /\ new.id = c
    BY <1>1 DEF Requests
  <2>2. UNCHANGED lobbyVars => d = c
    BY DEF lobbyVars
  <2> QED BY <1>0, <2>1, <2>2, ServedIsLast DEF Unheard
<1>3. Requests \subseteq Anything
  BY DEF Anything
<1>4. InOrder(u, c, known)
  OBVIOUS
<1> HIDE DEF u, c, d, old, new
<1>5. CASE Unheard(s)' = u /\ d = c
  BY <1>4, <1>5 DEF d
<1>6. CASE /\ old.type = "add" /\ d = c + 1
           /\ Unheard(s)' = Append(u, new) /\ new \in Requests
  <2>1. /\ new \in Anything /\ ~IsNews(new) /\ new.type = "add" /\ new.id = c
        /\ d \in Nat /\ c <= d
    BY <1>1, <1>2, <1>3, <1>6 DEF IsNews
  <2>2. InOrder(Append(u, new), d, known)
    BY <1>1, <1>4, <2>1, InOrderAppend
  <2> QED BY <2>2, <1>6 DEF d
<1>7. CASE old.type \in {"remove", "start"} /\ d = c /\ Unheard(s)' = Append(u, old)
  <2>1. old \in Anything /\ ~IsNews(old) /\ old.type # "add" /\ c <= c
    BY <1>1, <1>3, <1>7 DEF IsNews
  <2>2. InOrder(Append(u, old), c, known)
    BY <1>1, <1>4, <2>1, InOrderAppend
  <2> QED BY <2>2, <1>7 DEF d
<1> QED BY <1>2, <1>5, <1>6, <1>7

\* A client that moves has a player the page knows or is told of.
LEMMA ClientMovesInOrder ==
    ASSUME Waiting, NEW s \in Servers, subs[s] # NoSubs,
           NEW id \in DOMAIN players[s], NEW type \in {"connected", "disconnected"},
           ClientMoves(s, id, type),
           InOrder(Unheard(s), counter[s], DOMAIN clients[manager])
    PROVE  InOrder(Unheard(s)', counter[s], DOMAIN clients[manager])
<1> DEFINE u == Unheard(s)
           e == [type |-> type, id |-> id]
           known == DOMAIN clients[manager]
           c == counter[s]
<1>0. /\ Books /\ Typed /\ Current /\ ~stalled[s] /\ proc[s] = "up"
      /\ RemovesOld(s) /\ id \in Nat /\ id < c /\ c \in Nat
  <2>1. Books /\ Current /\ Orderly /\ ~stalled[s]
    BY DEF Waiting, Undisturbed
  <2>2. proc[s] = "up"
    BY DEF ClientMoves
  <2>3. RemovesOld(s)
    BY <2>1, <2>2 DEF Orderly, Alive
  <2>4. Typed /\ PlayersNumbered
    BY <2>1 DEF Books
  <2> QED BY <2>1, <2>2, <2>3, <2>4 DEF PlayersNumbered, Typed
<1>1. /\ u \in Seq(Anything)
      /\ \A k \in DOMAIN u : IsNews(u[k]) => u[k].id \in Nat
  <2>1. /\ u \in Seq(Anything) /\ \A k \in DOMAIN u : u[k] \in Anything
    BY <1>0, UnheardTyped
  <2>2. \A x \in Anything : IsNews(x) => x.id \in Nat
    BY DEF Anything, Requests, News, Settlements, IsNews
  <2> QED BY <2>1, <2>2
<1>2. e \in News /\ e \in Anything /\ e.type = type /\ e.id = id
  BY <1>0 DEF Anything, News
<1>3. Unheard(s)' = Append(u, e)
  <2>1. Tell(s, e) /\ UNCHANGED tasks
    BY DEF ClientMoves, loopVars
  <2> HIDE DEF e
  <2>2. to_client'[s] = Append(to_client[s], e)
    BY <1>0, <1>2, <2>1, TellIs
  <2>3. tasks \in Seq(Anything) /\ to_client[s] \in Seq(Anything)
    BY <1>0, UnheardTyped
  <2>4. tasks \o Append(to_client[s], e) = Append(tasks \o to_client[s], e)
    BY <1>2, <2>3, AppendOfConcat
  <2> QED BY <2>1, <2>2, <2>4 DEF Unheard
<1>4. id \in known \/ \E j \in DOMAIN u : IsAdd(u[j], id)
  <2>1. AddUnderWay(s, id) \/ id \in DOMAIN clients[subs[s].own]
    BY <1>0 DEF Current, ManagerKnowsPlayers
  <2>2. subs[s].own = manager
    <3>1. Alive(s)
      BY <1>0 DEF Alive
    <3>2. subs[s] = [own |-> manager, captured |-> manager]
      BY <1>0, <3>1 DEF Current, CurrentListeners
    <3> QED BY <3>2
  <2>3. AddUnderWay(s, id) => \/ \E i \in DOMAIN tasks : IsAdd(tasks[i], id)
                              \/ \E i \in DOMAIN to_client[s] : IsAdd(to_client[s][i], id)
    BY DEF AddUnderWay, IsAdd
  <2>4. AddUnderWay(s, id) => \E j \in DOMAIN u : IsAdd(u[j], id)
    BY <2>3, <1>0, UnheardTyped
  <2> QED BY <2>1, <2>2, <2>4
<1>5. \A j \in DOMAIN u : ~IsRemoval(u[j], id)
  <2> SUFFICES ASSUME NEW j \in DOMAIN u, u[j].type = "remove", u[j].id = id PROVE FALSE
    BY DEF IsRemoval
  <2>1. u[j] \in Coming(s)
    BY DEF Coming
  <2> QED BY <2>1, <1>0 DEF RemovesOld
<1>6. InOrder(u, c, known)
  OBVIOUS
<1> HIDE DEF u, e, known, c
<1>7. e.type # "add" /\ c <= c
  BY <1>0, <1>2
<1>8. InOrder(Append(u, e), c, known)
  BY <1>0, <1>1, <1>2, <1>4, <1>5, <1>6, <1>7, InOrderAppend
<1> QED BY <1>3, <1>8 DEF c, known

\* A callback behind which the news is in order.
LEMMA RunTaskInOrder ==
    ASSUME Books, Current, RunTask, NEW s \in Servers, UNCHANGED manager,
           InOrder(Unheard(s), counter[s], DOMAIN clients[manager])
    PROVE  InOrder(Unheard(s)', counter'[s], DOMAIN clients'[manager])
<1> DEFINE u == Unheard(s)
           known == DOMAIN clients[manager]
           after == DOMAIN clients'[manager]
           task == Head(tasks)
<1>0. /\ Typed /\ manager \in Managers /\ DOMAIN clients = Managers /\ tasks # <<>>
      /\ counter' = counter
  <2>1. Typed
    BY DEF Books
  <2> QED BY <2>1, RunTaskIs DEF Typed, lobbyVars
<1>1. u \in Seq(Anything) /\ u # <<>> /\ Head(u) = task /\ Unheard(s)' = Tail(u)
  BY <1>0, RunTaskHears, UnheardTyped DEF Unheard
<1>2. /\ task.type = "add" => task.id \in after
      /\ \A id \in known : IsRemoval(task, id) \/ id \in after
  <2>1. ASSUME UNCHANGED clients, task.type # "add" PROVE <1>2!1 /\ <1>2!2
    BY <2>1
  <2>2. ASSUME NEW r \in Servers, task = [type |-> "created", server |-> r], Created(r)
        PROVE  UNCHANGED clients /\ task.type # "add"
    BY <2>2 DEF Created
  <2>3. ASSUME StopServer PROVE UNCHANGED clients
    BY <2>3 DEF StopServer, slotVars
  <2>4. ASSUME GameStarted PROVE UNCHANGED clients
    BY <2>4 DEF GameStarted, slotVars
  <2>5. ASSUME PlayerAdded(task), task.type = "add" PROVE <1>2!1 /\ <1>2!2
    <3>1. task.manager = manager
      BY <1>0, <2>5, AnswerIsCurrent
    <3>2. clients' = [clients EXCEPT ![manager] = With(clients[manager], task.id, task.token)]
      BY <2>5, <3>1 DEF PlayerAdded, ClientsWith
    <3>3. after = known \union {task.id}
      BY <3>2, <1>0 DEF With
    <3> QED BY <3>3
  <2>6. ASSUME PlayerRemoved(task), task.type = "remove" PROVE <1>2!1 /\ <1>2!2
    <3>1. task.manager = manager
      BY <1>0, <2>6, AnswerIsCurrent
    <3>2. clients' = [clients EXCEPT ![manager] = [i \in DOMAIN @ \ {task.id} |-> @[i]]]
      BY <2>6, <3>1 DEF PlayerRemoved
    <3>3. after = known \ {task.id}
      BY <3>2, <1>0
    <3> QED BY <3>3, <2>6 DEF IsRemoval
  <2> HIDE DEF task, known, after
  <2>7. \/ \E r \in Servers : task = [type |-> "created", server |-> r] /\ Created(r)
        \/ task.type = "failed" /\ StopServer
        \/ task.type = "add" /\ PlayerAdded(task)
        \/ task.type = "remove" /\ PlayerRemoved(task)
        \/ task.type = "start" /\ GameStarted
    BY <1>0, RunTaskIs DEF task
  <2> QED BY <2>1, <2>2, <2>3, <2>4, <2>5, <2>6, <2>7
<1>3. InOrder(u, counter[s], known)
  OBVIOUS
<1> HIDE DEF u, known, after, task
<1>4. InOrder(Tail(u), counter[s], after)
  BY <1>1, <1>2, <1>3, InOrderTail
<1> QED BY <1>0, <1>1, <1>4 DEF after

LEMMA NewsInOrderStep ==
    ASSUME Waiting, [Next]_vars, NEW s \in Servers, proc'[s] \in {"up", "killed"}
    PROVE  NewsInOrder(s)'
<1> DEFINE u == Unheard(s)
           known == DOMAIN clients[manager]
<1>0. /\ LobbyAssumption /\ Books /\ Typed /\ OneServerAtATime /\ Current /\ Orderly
      /\ ~Coalesced /\ Undisturbed
  BY DEF Waiting, Books
<1>1. CASE ~Alive(s)
  BY <1>0, <1>1, NewlyAliveIsQuiet DEF NewsInOrder
<1>2. CASE Alive(s) /\ RunTask /\ Head(tasks) = CreatedTask(s) /\ Created(s)
  <2>1. to_client' = to_client
    BY <1>0, <1>2, RunTaskHears
  <2>2. ~Handed(s) /\ tasks # <<>> /\ Head(tasks) = tasks[1] /\ 1 \in DOMAIN tasks
        /\ tasks' = Tail(tasks)
    BY <1>0, <1>2, CreatedIsFirst, RunTaskIs, TaskIs
  <2>3. to_client[s] = <<>>
    BY <1>0, <2>2 DEF Books, QuietBefore
  <2>4. tasks' = <<>>
    <3> DEFINE S == Requests \union Settlements
    <3>1. tasks \in Seq(S)
      BY <1>0 DEF Typed
    <3>2. Len(tasks) = 1
      BY <1>0, <1>2, <2>2 DEF Books, SettledAlone, CreatedTask
    <3> HIDE DEF S
    <3>3. Tail(tasks) \in Seq(S) /\ Len(Tail(tasks)) = Len(tasks) - 1
      BY <2>2, <3>1, TailIs
    <3>4. Len(Tail(tasks)) = 0
      BY <3>2, <3>3
    <3> QED BY <2>2, <3>3, <3>4, EmptySeq
  <2>5. <<>> \o <<>> = <<>>
    OBVIOUS
  <2>6. Unheard(s)' = <<>>
    BY <2>1, <2>3, <2>4, <2>5 DEF Unheard
  <2> QED BY <2>6 DEF NewsInOrder, InOrder
<1>3. CASE Alive(s) /\ subs'[s] \in {subs[s], NoSubs}
  <2> SUFFICES ASSUME subs'[s] # NoSubs
               PROVE  InOrder(Unheard(s)', counter'[s], DOMAIN clients'[manager'])
    BY DEF NewsInOrder
  <2>1. subs[s] # NoSubs /\ InOrder(u, counter[s], known)
    BY <1>0, <1>3 DEF Orderly, NewsInOrder
  <2>2. UNCHANGED manager
    <3>1. ASSUME RunTask, Head(tasks).type = "start" PROVE FALSE
      <4>1. 1 \in DOMAIN Unheard(s) /\ Unheard(s)[1] = Head(tasks)
        BY <1>0, <3>1, RunTaskHears
      <4>2. phase[s] = "playing"
        BY <4>1, <3>1, <1>0, <1>3 DEF Current, CurrentAnswers
      <4> QED BY <4>2, <2>1, <1>0, <1>3 DEF Current, CurrentListeners
    <3> QED BY <3>1, <1>0, ManagerSteps
  <2>3. CASE RunTask
    BY <1>0, <2>1, <2>2, <2>3, RunTaskInOrder
  <2>4. CASE Serve(s)
    <3>1. clients' = clients
      BY <2>4 DEF Serve, slotVars
    <3>2. InOrder(Unheard(s)', counter'[s], known)
      BY <1>0, <2>1, <2>4, ServeInOrder
    <3> QED BY <3>1, <3>2, <2>2
  <2>5. CASE PlayerNews(s)
    <3>1. /\ u \in Seq(Anything) /\ u # <<>> /\ Head(u) = Head(to_client[s])
          /\ Unheard(s)' = Tail(u)
      BY <1>0, <2>5, NewsComing DEF Undisturbed
    <3>2. Head(u).type # "add"
      BY <2>5, <3>1 DEF PlayerNews
    <3>3. clients' = clients /\ counter' = counter
      BY <2>5 DEF PlayerNews, lobbyVars
    <3> HIDE DEF u, known
    <3>4. InOrder(Tail(u), counter[s], known)
      BY <2>1, <3>1, <3>2, InOrderTail
    <3> QED BY <3>1, <3>3, <3>4, <2>2 DEF known
  <2>6. CASE \E id \in DOMAIN players[s], type \in {"connected", "disconnected"} :
                ClientMoves(s, id, type)
    <3>1. PICK id \in DOMAIN players[s], type \in {"connected", "disconnected"} :
                ClientMoves(s, id, type)
      BY <2>6
    <3>2. InOrder(Unheard(s)', counter[s], known)
      BY <2>1, <3>1, ClientMovesInOrder
    <3>3. clients' = clients /\ counter' = counter
      BY <3>1 DEF ClientMoves, slotVars
    <3> QED BY <3>2, <3>3, <2>2
  <2>7. CASE Unheeded(s)
    <3>1. clients' = clients /\ counter'[s] = counter[s]
      BY <2>7 DEF Unheeded
    <3>2. CASE Unheard(s)' = u
      BY <2>1, <2>2, <3>1, <3>2
    <3>3. CASE /\ tasks = <<>> /\ to_client'[s] = to_client[s]
               /\ \E e \in Settlements : tasks' = <<e>>
      <4>1. PICK e \in Settlements : tasks' = <<e>>
        BY <3>3
      <4>2. e \in Anything /\ e.type \in {"created", "failed"}
        BY DEF Anything, Settlements
      <4> DEFINE c == to_client[s]
      <4>3. c \in Seq(Anything)
        BY <1>0, UnheardTyped
      <4>4. u = <<>> \o c /\ Unheard(s)' = <<e>> \o c
        BY <3>3, <4>1 DEF Unheard
      <4>5. InOrder(<<>> \o c, counter[s], known)
        BY <4>4, <2>1
      <4> HIDE DEF u, known, c
      <4>6. InOrder(<<e>> \o c, counter[s], known)
        BY <4>2, <4>3, <4>5, InOrderFront
      <4> QED BY <4>4, <4>6, <3>1, <2>2 DEF known
    <3> QED BY <2>7, <3>2, <3>3 DEF Unheeded
  <2> QED BY <1>0, <1>3, <2>3, <2>4, <2>5, <2>6, <2>7, HearingSteps
<1> QED BY <1>0, <1>1, <1>2, <1>3, SubsSteps

LEMMA OrderlyStep ==
    ASSUME Waiting, Served, [Next]_vars
    PROVE  Orderly'
BY RemovesOldStep, NewsInOrderStep DEF Orderly, Alive

-----------------------------------------------------------------------------
(* Pages, runners and numbers *)

\* The steps that give a server to the lobby, or take one away.
LEMMA HostSteps ==
    ASSUME Typed, [Next]_vars
    PROVE  \/ UNCHANGED <<page, server, manager, runner, proc>>
           \/ \E s \in Servers : Head(tasks) = CreatedTask(s) /\ Created(s) /\ RunTask
           \/ StopServer
           \/ Unmount
           \/ RunTask /\ Head(tasks).type = "start" /\ validifyRunning /\ GameStarted
           \/ \E p \in Ports : StartServer(p)
           \/ \E s \in Servers : ServerExits(s)
<1> DEFINE Same == UNCHANGED <<page, server, manager, runner, proc>>
           Goal == \/ Same
                   \/ \E s \in Servers : Head(tasks) = CreatedTask(s) /\ Created(s) /\ RunTask
                   \/ StopServer
                   \/ Unmount
                   \/ RunTask /\ Head(tasks).type = "start" /\ validifyRunning /\ GameStarted
                   \/ \E p \in Ports : StartServer(p)
                   \/ \E s \in Servers : ServerExits(s)
<1>1. ASSUME RunTask PROVE Goal
  <2>1. ASSUME NEW s \in Servers, Head(tasks) = [type |-> "created", server |-> s], Created(s)
        PROVE  \E r \in Servers : Head(tasks) = CreatedTask(r) /\ Created(r) /\ RunTask
    BY <1>1, <2>1 DEF CreatedTask
  <2>2. ASSUME PlayerAdded(Head(tasks)) \/ PlayerRemoved(Head(tasks)) PROVE Same
    BY <2>2 DEF PlayerAdded, PlayerRemoved, procVars
  <2>3. ASSUME GameStarted, ~validifyRunning PROVE Same
    BY <2>3 DEF GameStarted, uiVars, slotVars, procVars
  <2> HIDE DEF Same
  <2> QED BY <1>1, <2>1, <2>2, <2>3, RunTaskIs
<1>2. ASSUME NEW n \in SlotCounts, SelectMap(n) PROVE Same
  BY <1>2 DEF SelectMap, UpdateSlots, procVars
<1>3. ASSUME NEW b \in Bots, AddLocalBot(b) PROVE Same
  BY <1>3 DEF AddLocalBot, procVars
<1>4. ASSUME NEW i \in 1 .. MaxTokens, KickPlayer(i) \/ ConnectLocalBot(i) PROVE Same
  BY <1>4 DEF KickPlayer, ConnectLocalBot, procVars, uiVars, slotVars
<1>5. ASSUME LaunchGame PROVE Same
  BY <1>5 DEF LaunchGame, uiVars, slotVars, procVars
<1>6. ASSUME NEW r \in Servers, ServerConnected(r) \/ ConnectFails(r) \/ Response(r)
                                \/ PlayerNews(r) \/ Serve(r)
      PROVE  Same
  BY <1>6 DEF ServerConnected, ConnectFails, Response, PlayerNews, Serve, uiVars, slotVars,
              procVars
<1>7. ASSUME NEW r \in Servers, NEW id \in DOMAIN players[r],
             NEW type \in {"connected", "disconnected"}, ClientMoves(r, id, type)
      PROVE  Same
  BY <1>7 DEF ClientMoves, uiVars, slotVars, procVars
<1>8. ASSUME UNCHANGED vars PROVE Same
  BY <1>8 DEF vars, uiVars, slotVars, procVars
<1>9. ASSUME ClickStop PROVE StopServer
  BY <1>9 DEF ClickStop
<1> HIDE DEF Same
<1> QED
  <2>1. Next \/ UNCHANGED vars
    OBVIOUS
  <2>2. Goal
    BY <2>1, <1>1, <1>2, <1>3, <1>4, <1>5, <1>6, <1>7, <1>8, <1>9
       DEF Next, Slots, Controls, Loop, Server
  <2> QED BY <2>2 DEF Same

LEMMA PagesStep ==
    ASSUME Typed, Pages, [Next]_vars
    PROVE  Pages'
<1>1. CASE UNCHANGED <<page, server, manager, runner, proc>>
  BY <1>1 DEF Pages
<1>2. ASSUME NEW s \in Servers, Created(s) PROVE Pages'
  BY <1>2 DEF Created, Pages
<1>3. CASE StopServer \/ Unmount
  BY <1>3 DEF StopServer, Unmount, KillServer, Pages
<1>4. CASE validifyRunning /\ GameStarted
  BY <1>4 DEF GameStarted, ServerLeft, Pages
<1>5. ASSUME NEW p \in Ports, StartServer(p) PROVE Pages'
  BY <1>5 DEF StartServer, uiVars, Pages
<1>6. ASSUME NEW s \in Servers, ServerExits(s) PROVE Pages'
  BY <1>6 DEF ServerExits, uiVars, Pages
<1> QED BY <1>1, <1>2, <1>3, <1>4, <1>5, <1>6, HostSteps

LEMMA RunnersStep ==
    ASSUME LobbyAssumption, Books, Runners, [Next]_vars
    PROVE  Runners'
<1>0. /\ Typed /\ QuietBefore /\ manager \in Managers /\ MaxServers \in Nat
      /\ runner \in [Managers -> Servers \union {None}]
      /\ proc \in [Servers -> {"idle", "up", "killed", "failing", "dead"}]
  BY DEF Books, Typed, LobbyAssumption
<1>00. \A m \in Managers : m \in Nat
  BY <1>0 DEF Managers
<1>1. CASE UNCHANGED <<page, server, manager, runner, proc>>
  BY <1>1 DEF Runners
<1>2. ASSUME NEW s \in Servers, Created(s) PROVE Runners'
  <2>1. /\ server' = s /\ runner' = [runner EXCEPT ![manager] = s]
        /\ UNCHANGED <<manager, proc>>
    BY <1>2 DEF Created, procVars
  <2>2. runner'[manager] = s /\ \A m \in Managers : m > manager => runner'[m] = runner[m]
    BY <2>1, <1>0, <1>00
  <2> QED BY <2>1, <2>2 DEF Runners
<1>3. CASE KillServer /\ UNCHANGED <<manager, runner>>
  <2>1. server' = None
    BY <1>3 DEF KillServer
  <2>2. ASSUME NEW s \in Servers, runner[manager] = s, proc'[s] = "up" PROVE FALSE
    <3>1. proc[s] = "up"
      BY <1>0, <1>3, <2>2 DEF KillServer
    <3>2. server = s /\ s # None
      BY <3>1, <2>2 DEF Runners, Servers, None
    <3>3. proc'[s] = "killed"
      BY <3>1, <3>2, <1>0, <1>3 DEF KillServer
    <3> QED BY <3>3, <2>2
  <2> QED BY <1>3, <2>1, <2>2 DEF Runners
<1>4. CASE validifyRunning /\ GameStarted /\ manager' \in Managers
  <2>1. server' = None /\ manager' = manager + 1 /\ UNCHANGED <<runner, proc>>
    BY <1>4 DEF GameStarted, ServerLeft, NextManager, procVars
  <2>2. manager + 1 > manager /\ manager \in Nat
    BY <1>0, <1>00
  <2>3. runner[manager + 1] = None
    BY <1>4, <2>1, <2>2 DEF Runners
  <2>4. \A m \in Managers : m > manager + 1 => runner[m] = None
    <3>1. \A m \in Managers : m > manager + 1 => m > manager
      BY <2>2, <1>00
    <3> QED BY <3>1 DEF Runners
  <2>5. \A s \in Servers : s # None
    BY DEF Servers, None
  <2> QED BY <2>1, <2>3, <2>4, <2>5 DEF Runners
<1>5. ASSUME NEW p \in Ports, StartServer(p) PROVE Runners'
  <2>1. UNCHANGED <<server, manager, runner>>
    BY <1>5 DEF StartServer, uiVars, slotVars
  <2>2. PICK s \in Servers : /\ proc[s] = "idle"
                             /\ \A r \in Servers : r # s => proc'[r] = proc[r]
    BY <1>0, <1>5 DEF StartServer
  <2>3. ~Handed(s)
    BY <2>2, <1>0 DEF QuietBefore, Handed
  <2>4. runner[manager] # s
    BY <2>3, <1>0 DEF QuietBefore
  <2> QED BY <2>1, <2>2, <2>4 DEF Runners
<1>6. ASSUME NEW s \in Servers, ServerExits(s) PROVE Runners'
  <2>1. UNCHANGED <<server, manager, runner>> /\ proc' = [proc EXCEPT ![s] = "dead"]
    BY <1>6 DEF ServerExits, uiVars, slotVars
  <2>2. \A r \in Servers : proc'[r] = "up" => proc[r] = "up"
    BY <2>1, <1>0
  <2> QED BY <2>1, <2>2 DEF Runners
<1>7. StopServer \/ Unmount => KillServer /\ UNCHANGED <<manager, runner>>
  BY DEF StopServer, Unmount, slotVars
<1>8. manager' \in Managers
  BY <1>0, BooksStep DEF Books, Typed
<1> QED BY <1>0, <1>1, <1>2, <1>3, <1>4, <1>5, <1>6, <1>7, <1>8, HostSteps

\* The steps of the servers' lobbies.
LEMMA LobbySteps ==
    ASSUME Typed, [Next]_vars
    PROVE  \/ UNCHANGED lobbyVars
           \/ \E s \in Servers : Serve(s) \/ ServerExits(s)
           \/ \E s \in Servers : \E id \in DOMAIN players[s],
                    type \in {"connected", "disconnected"} : ClientMoves(s, id, type)
<1> DEFINE Same == UNCHANGED lobbyVars
<1>1. RunTask => Same
  BY DEF RunTask
<1>2. ASSUME NEW n \in SlotCounts, SelectMap(n) PROVE Same
  BY <1>2 DEF SelectMap, UpdateSlots
<1>3. ASSUME NEW b \in Bots, AddLocalBot(b) PROVE Same
  BY <1>3 DEF AddLocalBot
<1>4. ASSUME NEW i \in 1 .. MaxTokens, KickPlayer(i) \/ ConnectLocalBot(i) PROVE Same
  BY <1>4 DEF KickPlayer, ConnectLocalBot
<1>5. LaunchGame \/ ClickStop \/ Unmount => Same
  BY DEF LaunchGame, ClickStop, Unmount
<1>6. ASSUME NEW p \in Ports, StartServer(p) PROVE Same
  BY <1>6 DEF StartServer
<1>7. ASSUME NEW r \in Servers, ServerConnected(r) \/ ConnectFails(r) \/ Response(r)
                                \/ PlayerNews(r)
      PROVE  Same
  BY <1>7 DEF ServerConnected, ConnectFails, Response, PlayerNews
<1>8. UNCHANGED vars => Same
  BY DEF vars
<1> HIDE DEF Same
<1> QED
  <2>1. Next \/ UNCHANGED vars
    OBVIOUS
  <2>2. \/ Same
        \/ \E s \in Servers : Serve(s) \/ ServerExits(s)
        \/ \E s \in Servers : \E id \in DOMAIN players[s],
                    type \in {"connected", "disconnected"} : ClientMoves(s, id, type)
    BY <2>1, <1>1, <1>2, <1>3, <1>4, <1>5, <1>6, <1>7, <1>8
       DEF Next, Slots, Controls, Loop, Server
  <2> QED BY <2>2 DEF Same

LEMMA NumbersStep ==
    ASSUME Waiting, Served, [Next]_vars
    PROVE  Numbers'
<1>0. /\ LobbyAssumption /\ Books /\ Typed /\ Numbers
      /\ counter \in [Servers -> Nat] /\ DOMAIN players = Servers /\ DOMAIN online = Servers
      /\ next_token \in Nat /\ manager' \in Managers /\ next_token' \in Nat
  <2>1. LobbyAssumption /\ Books /\ Numbers
    BY DEF Waiting
  <2>2. Typed /\ DOMAIN online = Servers
    BY <2>1 DEF Books, Numbers
  <2>3. Typed'
    BY <2>1, TypedStep
  <2>4. manager' \in Managers /\ next_token' \in 1 .. MaxTokens + 1
    BY <2>3 DEF Typed
  <2>5. counter \in [Servers -> Nat] /\ DOMAIN players = Servers /\ next_token \in 1 .. MaxTokens + 1
    BY <2>2 DEF Typed
  <2>6. MaxTokens \in Nat
    BY <2>1 DEF LobbyAssumption
  <2>7. next_token \in Nat /\ next_token' \in Nat
    BY <2>4, <2>5, <2>6
  <2> QED BY <2>1, <2>2, <2>4, <2>5, <2>7
<1>1. TokensDiffer' /\ next_token <= next_token'
  BY <1>0, TokensStep
<1>2. \A t \in 1 .. next_token - 1 : t \in 1 .. next_token' - 1
  <2>1. \A a, b \in Nat : a <= b => \A t \in 1 .. a - 1 : t \in 1 .. b - 1
    OBVIOUS
  <2> QED BY <2>1, <1>0, <1>1
<1>3. \A t \in Listed' : t \in 1 .. next_token' - 1
  BY <1>0, <1>1 DEF TokensDiffer, Listed
<1>4. ASSUME NEW s \in Servers, NEW x \in Asked(s)', x.type = "add"
      PROVE  x.token \in 1 .. next_token' - 1
  <2>1. x \in Asked(s) \/ x.token \in Listed'
    BY <1>4, NewRequests
  <2>2. x \in Asked(s) => x.token \in 1 .. next_token - 1
    BY <1>0, <1>4 DEF Numbers
  <2> QED BY <2>1, <2>2, <1>2, <1>3
<1> DEFINE Known(s) == /\ counter[s] # 0
                       /\ \A id \in DOMAIN players[s] :
                            id # 0 /\ players[s][id] \in 1 .. next_token - 1
                       /\ \A id \in online[s] : id \in Nat /\ id < counter[s]
<1>5. \A s \in Servers : Known(s)
  BY <1>0 DEF Numbers
<1>6. ASSUME NEW s \in Servers, players'[s] = players[s], counter'[s] = counter[s],
             online'[s] = online[s]
      PROVE  Known(s)'
  BY <1>2, <1>5, <1>6
<1>7. ASSUME NEW r \in Servers, Serve(r), NEW s \in Servers PROVE Known(s)'
  <2> DEFINE old == Head(to_server[r])
  <2>1. /\ old \in Asked(r) /\ UNCHANGED online
        /\ \/ UNCHANGED <<players, counter>>
           \/ /\ old.type = "add"
              /\ players' = [players EXCEPT ![r] = With(players[r], counter[r], old.token)]
              /\ counter' = [counter EXCEPT ![r] = @ + 1]
           \/ /\ old.type = "remove"
              /\ players' = [players EXCEPT ![r] = [i \in DOMAIN @ \ {old.id} |-> @[i]]]
              /\ UNCHANGED counter
    <3>1. old \in Asked(r)
      BY <1>0, <1>7, ServeAsked
    <3> HIDE DEF Known
    <3> QED BY <1>0, <1>7, <3>1, ServeIs DEF lobbyVars
  <2>2. CASE s # r
    BY <2>1, <2>2, <1>0, <1>6
  <2>3. CASE UNCHANGED <<players, counter>>
    BY <2>1, <2>3, <1>6
  <2>4. CASE /\ s = r /\ old.type = "add"
             /\ players' = [players EXCEPT ![r] = With(players[r], counter[r], old.token)]
             /\ counter' = [counter EXCEPT ![r] = @ + 1]
    <3>1. /\ counter'[s] = counter[s] + 1 /\ counter[s] \in Nat
          /\ players'[s] = With(players[s], counter[s], old.token)
      BY <2>4, <1>0
    <3>2. old.token \in 1 .. next_token - 1
      BY <2>1, <2>4, <1>0 DEF Numbers
    <3> DEFINE c == counter[s]
               p == players[s]
               q == With(p, c, old.token)
    <3>3. /\ DOMAIN q = DOMAIN p \union {c} /\ q[c] = old.token
          /\ \A i \in DOMAIN p : i # c => q[i] = p[i]
      BY DEF With
    <3>4. /\ c # 0 /\ c + 1 # 0
          /\ \A id \in online[s] : id \in Nat /\ id < c + 1
      <4>1. c \in Nat /\ c # 0 /\ \A id \in online[s] : id \in Nat /\ id < c
        BY <3>1, <1>5
      <4> HIDE DEF c
      <4>2. \A id \in online[s] : id < c + 1
        BY <4>1
      <4> QED BY <4>1, <4>2
    <3>5. \A i \in DOMAIN p : i # 0 /\ p[i] \in 1 .. next_token - 1
      BY <1>5
    <3> HIDE DEF c, p, q, old
    <3>6. \A i \in DOMAIN q : i # 0 /\ q[i] \in 1 .. next_token - 1
      BY <3>2, <3>3, <3>4, <3>5
    <3>7. players'[s] = q /\ counter'[s] = c + 1 /\ online' = online
      BY <2>1, <3>1 DEF c, p, q
    <3> QED BY <3>4, <3>6, <3>7, <1>2
  <2>5. CASE /\ s = r /\ players' = [players EXCEPT ![r] = [i \in DOMAIN @ \ {old.id} |-> @[i]]]
             /\ UNCHANGED counter
    <3>1. players'[s] = [i \in DOMAIN players[s] \ {old.id} |-> players[s][i]]
      BY <2>5, <1>0
    <3> QED BY <3>1, <2>1, <2>5, <1>2, <1>5
  <2> QED BY <2>1, <2>2, <2>3, <2>4, <2>5
<1>8. ASSUME NEW r \in Servers, ServerExits(r), NEW s \in Servers PROVE Known(s)'
  <2>1. /\ players' = [players EXCEPT ![r] = [i \in {} |-> None]]
        /\ online' = [online EXCEPT ![r] = {}]
        /\ counter' = [counter EXCEPT ![r] = 1]
    BY <1>8 DEF ServerExits
  <2>2. CASE s = r
    <3>1. DOMAIN players'[s] = {} /\ online'[s] = {} /\ counter'[s] = 1
      BY <2>1, <2>2, <1>0
    <3> QED BY <3>1
  <2>3. CASE s # r
    BY <2>1, <2>3, <1>0, <1>6
  <2> QED BY <2>2, <2>3
<1>9. ASSUME NEW r \in Servers, NEW id \in DOMAIN players[r],
             NEW type \in {"connected", "disconnected"}, ClientMoves(r, id, type),
             NEW s \in Servers
      PROVE  Known(s)'
  <2>1. /\ online' = [online EXCEPT ![r] =
                        IF type = "connected" THEN @ \union {id} ELSE @ \ {id}]
        /\ UNCHANGED <<players, counter>>
    BY <1>9 DEF ClientMoves
  <2>2. id \in Nat /\ id < counter[r]
    BY <1>0 DEF Books, PlayersNumbered
  <2>3. \A i \in online'[s] : i \in online[s] \/ (i = id /\ s = r)
    BY <2>1, <1>0
  <2>4. \A i \in online'[s] : i \in Nat /\ i < counter[s]
    BY <2>2, <2>3, <1>5
  <2> QED BY <2>1, <2>4, <1>2, <1>5
<1>10. ASSUME UNCHANGED lobbyVars, NEW s \in Servers PROVE Known(s)'
  BY <1>6, <1>10 DEF lobbyVars
<1>11. DOMAIN online' = Servers
  <2>1. ASSUME NEW r \in Servers, Serve(r) PROVE online' = online
    BY <2>1, <1>0, ServeIs DEF lobbyVars
  <2>2. ASSUME NEW r \in Servers, ServerExits(r) PROVE DOMAIN online' = Servers
    BY <2>2, <1>0 DEF ServerExits
  <2>3. ASSUME NEW r \in Servers, NEW id, NEW type, ClientMoves(r, id, type)
        PROVE DOMAIN online' = Servers
    BY <2>3, <1>0 DEF ClientMoves
  <2>4. UNCHANGED lobbyVars => online' = online
    BY DEF lobbyVars
  <2> QED BY <1>0, <2>1, <2>2, <2>3, <2>4, LobbySteps
<1>12. ASSUME NEW s \in Servers PROVE Known(s)'
  <2> HIDE DEF Known
  <2> QED BY <1>0, <1>7, <1>8, <1>9, <1>10, LobbySteps
<1> QED BY <1>4, <1>11, <1>12 DEF Numbers

-----------------------------------------------------------------------------
(* The matches that are saved *)

\* The answer that saves a match comes from a server with the players of the list.
LEMMA LaunchedWithPlayers ==
    ASSUME Waiting, Served, RunTask, Head(tasks).type = "start", server \in Servers,
           proc[server] = "up"
    PROVE  /\ phase[server] = "playing" /\ players' = players /\ phase' = phase
           /\ Listed = {players[server][id] : id \in DOMAIN players[server]}
<1> DEFINE s == server
<1>0. /\ Typed /\ Serving(s) /\ s \in Servers /\ CurrentAnswers(s)
      /\ Matches(s) /\ Starts(s) /\ AskedOnce(s)
  <2>1. Serving(s) /\ Typed
    BY DEF Serving, Waiting, Books
  <2>2. Alive(s)
    BY DEF Alive
  <2> QED BY <2>1, <2>2 DEF Waiting, Current, Served
<1>1. phase[s] = "playing"
  <2>1. 1 \in DOMAIN Unheard(s) /\ Unheard(s)[1] = Head(tasks)
    BY <1>0, RunTaskHears
  <2> QED BY <1>0, <2>1 DEF CurrentAnswers
<1>2. Asked(s) = {}
  <2>1. to_server[s] = <<>>
    BY <1>0, <1>1 DEF Starts
  <2> QED BY <2>1 DEF Asked
<1>3. \A t \in Listed : \E id \in DOMAIN players[s] : players[s][id] = t
  BY <1>0, <1>2 DEF Matches
<1>4. \A id \in DOMAIN players[s] : players[s][id] \in Listed
  BY <1>0, <1>2 DEF Matches
<1>5. UNCHANGED lobbyVars
  BY DEF RunTask
<1> QED BY <1>1, <1>3, <1>4, <1>5 DEF lobbyVars

\* The players of a game that has begun stay.
LEMMA PlayersStay ==
    ASSUME LobbyAssumption, Books, [Next]_vars, NEW s \in Servers, phase[s] = "playing",
           proc'[s] = "up"
    PROVE  phase'[s] = "playing" /\ players'[s] = players[s]
<1>0. Typed /\ proc \in [Servers -> {"idle", "up", "killed", "failing", "dead"}]
      /\ phase \in [Servers -> {"lobby", "playing"}] /\ DOMAIN players = Servers
  BY DEF Books, Typed
<1>1. CASE UNCHANGED lobbyVars
  BY <1>1 DEF lobbyVars
<1>2. ASSUME NEW r \in Servers, Serve(r) PROVE phase'[s] = "playing" /\ players'[s] = players[s]
  <2>1. CASE r = s
    <3>1. UNCHANGED lobbyVars
      BY <1>0, <1>2, <2>1, ServeIs
    <3> QED BY <3>1 DEF lobbyVars
  <2>2. CASE r # s
    <3>1. \/ UNCHANGED lobbyVars
          \/ /\ UNCHANGED phase
             /\ players' = [players EXCEPT ![r] =
                                    With(players[r], counter[r], Head(to_server[r]).token)]
          \/ /\ UNCHANGED phase
             /\ players' = [players EXCEPT ![r] =
                                    [i \in DOMAIN @ \ {Head(to_server[r]).id} |-> @[i]]]
          \/ UNCHANGED players /\ phase' = [phase EXCEPT ![r] = "playing"]
      BY <1>0, <1>2, ServeIs
    <3>2. UNCHANGED lobbyVars => UNCHANGED <<phase, players>>
      BY DEF lobbyVars
    <3> QED BY <3>1, <3>2, <2>2, <1>0
  <2> QED BY <2>1, <2>2
<1>3. ASSUME NEW r \in Servers, ServerExits(r)
      PROVE  phase'[s] = "playing" /\ players'[s] = players[s]
  <2>1. /\ proc' = [proc EXCEPT ![r] = "dead"] /\ UNCHANGED phase
        /\ players' = [players EXCEPT ![r] = [i \in {} |-> None]]
    BY <1>3 DEF ServerExits
  <2>2. r # s
    BY <2>1, <1>0
  <2> QED BY <2>1, <2>2, <1>0
<1>4. ASSUME NEW r \in Servers, NEW id, NEW type, ClientMoves(r, id, type)
      PROVE  phase'[s] = "playing" /\ players'[s] = players[s]
  BY <1>4 DEF ClientMoves
<1> QED BY <1>0, <1>1, <1>2, <1>3, <1>4, LobbySteps

\* A server that was handed over and is up was up before.
LEMMA WasUp ==
    ASSUME Books, [Next]_vars, NEW s \in Servers, Handed(s), proc'[s] = "up"
    PROVE  proc[s] = "up"
<1>0. Typed /\ proc \in [Servers -> {"idle", "up", "killed", "failing", "dead"}]
  BY DEF Books, Typed
<1>1. proc[s] # "idle"
  BY DEF Books, QuietBefore, Handed
<1>2. ASSUME NEW p \in Ports, StartServer(p) PROVE proc'[s] = proc[s]
  <2>1. PICK r \in Servers : proc[r] = "idle" /\ \A q \in Servers : q # r => proc'[q] = proc[q]
    BY <1>0, <1>2 DEF StartServer
  <2> QED BY <2>1, <1>1
<1>3. ASSUME NEW r \in Servers, ServerExits(r) PROVE proc'[s] = "dead" \/ proc'[s] = proc[s]
  <2>1. proc' = [proc EXCEPT ![r] = "dead"]
    BY <1>3 DEF ServerExits
  <2> QED BY <2>1, <1>0
<1> QED BY <1>0, <1>2, <1>3, ProcSteps

\* Only an answer to startGame saves a match.
LEMMA SavesAre ==
    ASSUME Typed, [Next]_vars
    PROVE  \/ UNCHANGED saved
           \/ RunTask /\ Head(tasks).type = "start" /\ Launched
<1>1. ASSUME NEW n \in SlotCounts, SelectMap(n) PROVE UNCHANGED saved
  BY <1>1 DEF SelectMap, UpdateSlots, noteVars
<1>2. ASSUME NEW i \in 1 .. MaxTokens, KickPlayer(i) PROVE UNCHANGED saved
  BY <1>2 DEF KickPlayer, noteVars
<1>3. ASSUME PlayerRemoved(Head(tasks)) PROVE UNCHANGED saved
  BY <1>3 DEF PlayerRemoved, noteVars
<1>4. ASSUME Launched PROVE manager' # manager
  <2>1. manager \in Nat /\ manager' = manager + 1
    BY <1>4 DEF Launched, Typed, Managers
  <2> QED BY <2>1
<1>5. ASSUME Launched PROVE RunTask /\ Head(tasks).type = "start"
  BY <1>4, <1>5, ManagerSteps
<1> QED BY <1>1, <1>2, <1>3, <1>5, ListSteps

LEMMA SavedStayStep ==
    ASSUME Waiting, Served, SavedStay, [Next]_vars
    PROVE  SavedStay'
<1> SUFFICES ASSUME NEW match \in saved', proc'[match.server] = "up"
             PROVE  /\ phase'[match.server] = "playing"
                    /\ {match.players[i] : i \in DOMAIN match.players}
                         = {players'[match.server][id] : id \in DOMAIN players'[match.server]}
  BY DEF SavedStay
<1> DEFINE s == match.server
<1>0. LobbyAssumption /\ Books /\ Typed
  BY DEF Waiting, Books
<1>1. CASE match \in saved
  <2>1. s \in Servers /\ Handed(s)
    BY <1>0, <1>1 DEF Typed, Books, ServersHanded, SavedServers
  <2>2. proc[s] = "up"
    BY <1>0, <2>1, WasUp
  <2>3. /\ phase[s] = "playing"
        /\ {match.players[i] : i \in DOMAIN match.players}
             = {players[s][id] : id \in DOMAIN players[s]}
    BY <2>2, <1>1 DEF SavedStay
  <2>4. phase'[s] = "playing" /\ players'[s] = players[s]
    BY <1>0, <2>1, <2>3, PlayersStay
  <2> QED BY <2>3, <2>4
<1>2. CASE match \notin saved
  <2>1. RunTask /\ Head(tasks).type = "start" /\ Launched
    BY <1>0, <1>2, SavesAre
  <2>2. /\ match = [server |-> server, players |-> shown] /\ server # None /\ proc' = proc
    BY <2>1, <1>2 DEF Launched, validifyRunning, procVars
  <2>3. s = server /\ match.players = shown /\ server \in Servers /\ proc[server] = "up"
    BY <2>2, <1>0 DEF Typed
  <2>4. shown = list[manager]
    BY DEF Waiting, Current, ShowsCurrentSlots
  <2>5. /\ phase[server] = "playing" /\ players' = players /\ phase' = phase
        /\ Listed = {players[server][id] : id \in DOMAIN players[server]}
    BY <2>1, <2>3, LaunchedWithPlayers
  <2> QED BY <2>3, <2>4, <2>5 DEF Listed
<1> QED BY <1>1, <1>2

-----------------------------------------------------------------------------
(* The logs of the local clients *)

LEMMA DialsAre ==
    ASSUME Typed, [Next]_vars
    PROVE  \/ UNCHANGED dialed
           \/ \E i \in 1 .. MaxTokens : ConnectLocalBot(i)
<1> DEFINE Same == UNCHANGED dialed
<1>1. ASSUME RunTask PROVE Same
  <2>1. ASSUME NEW s \in Servers, Created(s) PROVE Same
    BY <2>1 DEF Created, noteVars
  <2>2. ASSUME StopServer PROVE Same
    BY <2>2 DEF StopServer, noteVars
  <2>3. ASSUME PlayerAdded(Head(tasks)) \/ PlayerRemoved(Head(tasks)) PROVE Same
    BY <2>3 DEF PlayerAdded, PlayerRemoved, noteVars
  <2>4. ASSUME GameStarted PROVE Same
    BY <2>4 DEF GameStarted, noteVars
  <2> HIDE DEF Same
  <2> QED BY <1>1, <2>1, <2>2, <2>3, <2>4, RunTaskIs
<1>2. ASSUME NEW n \in SlotCounts, SelectMap(n) PROVE Same
  BY <1>2 DEF SelectMap, UpdateSlots, noteVars
<1>3. ASSUME NEW b \in Bots, AddLocalBot(b) PROVE Same
  BY <1>3 DEF AddLocalBot, noteVars
<1>4. ASSUME NEW i \in 1 .. MaxTokens, KickPlayer(i) PROVE Same
  BY <1>4 DEF KickPlayer, noteVars
<1>5. ASSUME NEW p \in Ports, StartServer(p) PROVE Same
  BY <1>5 DEF StartServer, noteVars
<1>6. ASSUME ClickStop \/ Unmount \/ LaunchGame PROVE Same
  BY <1>6 DEF ClickStop, StopServer, Unmount, LaunchGame, noteVars
<1>7. ASSUME NEW r \in Servers, ServerConnected(r) \/ ConnectFails(r) \/ ServerExits(r)
                                \/ Response(r) \/ PlayerNews(r) \/ Serve(r)
      PROVE  Same
  BY <1>7 DEF ServerConnected, ConnectFails, ServerExits, Response, PlayerNews, Serve, noteVars
<1>8. ASSUME NEW r \in Servers, NEW id \in DOMAIN players[r],
             NEW type \in {"connected", "disconnected"}, ClientMoves(r, id, type)
      PROVE  Same
  BY <1>8 DEF ClientMoves, noteVars
<1>9. UNCHANGED vars => Same
  BY DEF vars, noteVars
<1> HIDE DEF Same
<1> QED
  <2>1. Next \/ UNCHANGED vars
    OBVIOUS
  <2>2. Same \/ \E i \in 1 .. MaxTokens : ConnectLocalBot(i)
    BY <2>1, <1>1, <1>2, <1>3, <1>4, <1>5, <1>6, <1>7, <1>8, <1>9
       DEF Next, Slots, Controls, Loop, Server
  <2> QED BY <2>2 DEF Same

\* A token of the list keeps its place, or is new.
LEMMA PlacesAreKept ==
    ASSUME LobbyAssumption, Books, [Next]_vars
    PROVE  \A i \in DOMAIN list'[manager'] :
              \/ ~Launched /\ i \in DOMAIN list[manager]
                 /\ list'[manager'][i] = list[manager][i]
              \/ list'[manager'][i] >= next_token
<1> DEFINE Goal == \A i \in DOMAIN list'[manager'] :
              \/ ~Launched /\ i \in DOMAIN list[manager]
                 /\ list'[manager'][i] = list[manager][i]
              \/ list'[manager'][i] >= next_token
<1>0. /\ Typed /\ TokensDiffer /\ manager \in Managers /\ manager \in Nat
      /\ list \in [Managers -> Seq(Nat)]
      /\ next_token \in Nat /\ wanted \in Nat
  <2>1. Typed /\ TokensDiffer
    BY DEF Books
  <2>2. manager \in Managers /\ list \in [Managers -> Seq(Nat)] /\ wanted \in Nat
        /\ next_token \in 1 .. MaxTokens + 1
    BY <2>1 DEF Typed
  <2> QED BY <2>1, <2>2 DEF Managers, LobbyAssumption
<1>1. manager' = manager => ~Launched
  BY <1>0 DEF Launched
<1>2. CASE UNCHANGED <<list, manager>>
  BY <1>1, <1>2
<1>3. ASSUME NEW n \in SlotCounts, SelectMap(n) PROVE Goal
  <2> DEFINE l == Resized(manager, n)
             g == Grown(manager, n)
  <2>1. /\ list' = [list EXCEPT ![manager] = l] /\ UNCHANGED manager
        /\ next_token + Len(g) <= MaxTokens + 1
    BY <1>3 DEF SelectMap, UpdateSlots
  <2>2. n \in Nat
    BY DEF LobbyAssumption
  <2>3. /\ l \in Seq(Nat)
        /\ \A i \in DOMAIN l :
            \/ i \in DOMAIN list[manager] /\ l[i] = list[manager][i]
            \/ i > Len(list[manager]) /\ l[i] = next_token + (i - Len(list[manager])) - 1
    BY <1>0, <2>1, <2>2, ResizedIs
  <2> HIDE DEF l, g
  <2>4. list'[manager'] = l
    BY <2>1, <1>0
  <2>5. ASSUME NEW i \in DOMAIN l, i > Len(list[manager]),
               l[i] = next_token + (i - Len(list[manager])) - 1
        PROVE  l[i] >= next_token
    <3>1. i \in Nat /\ Len(list[manager]) \in Nat
      <4>1. list[manager] \in Seq(Nat)
        BY <1>0
      <4> QED BY <4>1, <2>3, LenProperties
    <3>2. \A a, b, c \in Nat : a > b => c + (a - b) - 1 >= c
      OBVIOUS
    <3> QED BY <3>1, <3>2, <2>5, <1>0
  <2> QED BY <1>1, <2>1, <2>3, <2>4, <2>5
<1>4. ASSUME NEW k \in 1 .. MaxTokens, KickPlayer(k) PROVE Goal
  <2>1. /\ list' = [list EXCEPT ![manager] = [list[manager] EXCEPT ![k] = next_token]]
        /\ UNCHANGED manager
    BY <1>4, <1>0 DEF KickPlayer
  <2>2. list'[manager'] = [list[manager] EXCEPT ![k] = next_token]
    BY <2>1, <1>0
  <2>3. \A i \in DOMAIN list'[manager'] :
            /\ i \in DOMAIN list[manager]
            /\ list'[manager'][i] = list[manager][i] \/ list'[manager'][i] = next_token
    BY <2>2
  <2> QED BY <1>0, <1>1, <2>1, <2>3
<1>5. ASSUME Launched PROVE Goal
  <2>1. /\ list' = [list EXCEPT ![manager + 1] = Fresh(wanted)] /\ manager' = manager + 1
        /\ next_token + wanted <= MaxTokens + 1
    BY <1>5 DEF Launched
  <2>2. /\ DOMAIN Fresh(wanted) = 1 .. wanted
        /\ \A i \in 1 .. wanted : Fresh(wanted)[i] = next_token + i - 1
    BY <1>0, <2>1, FreshIs
  <2>3. manager + 1 \in Managers
    BY <1>5, NextManagerExists DEF Launched
  <2>4. list'[manager'] = Fresh(wanted)
    BY <2>1, <2>3, <1>0
  <2>5. \A i \in 1 .. wanted : next_token + i - 1 >= next_token
    BY <1>0
  <2> QED BY <2>2, <2>4, <2>5
<1>6. ASSUME PlayerRemoved(Head(tasks)) PROVE UNCHANGED <<list, manager>>
  BY <1>6 DEF PlayerRemoved
<1>7. UNCHANGED <<list, slots, next_token, manager, saved>> => UNCHANGED <<list, manager>>
  OBVIOUS
<1> HIDE DEF Goal
<1>8. UNCHANGED <<list, manager>> => Goal
  BY <1>2 DEF Goal
<1>9. Goal
  BY <1>0, <1>3, <1>4, <1>5, <1>6, <1>7, <1>8, ListSteps
<1> QED BY <1>9 DEF Goal

LEMMA FiledStep ==
    ASSUME Waiting, Filed, [Next]_vars
    PROVE  Filed'
<1> DEFINE l == list[manager]
           m == list'[manager']
           n == next_token
<1>0. /\ LobbyAssumption /\ Books /\ Typed /\ n \in Nat /\ next_token' \in Nat
      /\ n <= next_token' /\ shown = l
      /\ \A i \in DOMAIN l : l[i] \in 1 .. n - 1
      /\ \A i, j \in DOMAIN l : l[i] = l[j] => i = j
  <2>1. LobbyAssumption /\ Books /\ Typed /\ TokensDiffer /\ ShowsCurrentSlots
    BY DEF Waiting, Books, Current
  <2>2. manager \in Managers /\ n \in 1 .. MaxTokens + 1
    BY <2>1 DEF Typed
  <2>3. Typed'
    BY <2>1, TypedStep
  <2>4. next_token' \in 1 .. MaxTokens + 1
    BY <2>3 DEF Typed
  <2>5. n \in Nat /\ next_token' \in Nat
    BY <2>1, <2>2, <2>4 DEF LobbyAssumption
  <2>6. n <= next_token'
    BY <2>1, TokensStep
  <2> QED BY <2>1, <2>2, <2>5, <2>6 DEF TokensDiffer, ShowsCurrentSlots
<1>1. \A i \in DOMAIN m : (~Launched /\ i \in DOMAIN l /\ m[i] = l[i]) \/ m[i] >= n
  BY <1>0, PlacesAreKept
<1>2. \A x \in Nat : x < n => x < next_token' /\ ~(x >= n)
  <2>1. \A a, b, x \in Nat : a <= b /\ x < a => x < b /\ ~(x >= a)
    OBVIOUS
  <2> QED BY <2>1, <1>0
<1>3. \A d \in dialed :
        /\ d.token \in Nat /\ d.token < n
        /\ \A i \in DOMAIN l : l[i] = d.token => i = d.number
  BY DEF Filed
<1>4. \A match \in saved : \A i \in DOMAIN match.players :
        /\ match.players[i] \in Nat /\ match.players[i] < n
        /\ \A j \in DOMAIN l : l[j] # match.players[i]
  BY DEF Filed
<1>5. \A match \in saved : \A d \in dialed : \A i \in DOMAIN match.players :
        match.players[i] = d.token =>
            d.number \in DOMAIN match.players /\ match.players[d.number] = d.token
  BY DEF Filed
<1>6. ASSUME NEW d \in dialed'
      PROVE  \/ d \in dialed
             \/ /\ d.number \in DOMAIN l /\ d.token = l[d.number]
                /\ UNCHANGED saved
  <2>1. CASE UNCHANGED dialed
    BY <2>1
  <2>2. ASSUME NEW k \in 1 .. MaxTokens, ConnectLocalBot(k), d \notin dialed
        PROVE  d.number \in DOMAIN l /\ d.token = l[d.number] /\ UNCHANGED saved
    <3>1. /\ k \in DOMAIN shown /\ UNCHANGED saved
          /\ dialed' = dialed \union {[token |-> shown[k], number |-> k]}
      BY <2>2 DEF ConnectLocalBot, Number
    <3>2. d = [token |-> shown[k], number |-> k]
      BY <3>1, <2>2
    <3> QED BY <3>1, <3>2, <1>0
  <2> QED BY <1>0, <2>1, <2>2, DialsAre
<1>7. ASSUME NEW match \in saved'
      PROVE  match \in saved \/ (match.players = l /\ Launched)
  <2>1. CASE UNCHANGED saved
    BY <2>1
  <2>2. CASE Launched
    BY <2>2, <1>0 DEF Launched
  <2> QED BY <1>0, <2>1, <2>2, SavesAre
<1>8. \A d \in dialed' :
        /\ d.token \in Nat /\ d.token < n
        /\ \A i \in DOMAIN l : l[i] = d.token => i = d.number
  BY <1>0, <1>3, <1>6
<1> HIDE DEF l, m, n
<1>9. ASSUME NEW d \in dialed'
       PROVE  /\ d.token \in Nat /\ d.token < next_token'
              /\ \A i \in DOMAIN m : m[i] = d.token => i = d.number
  BY <1>1, <1>2, <1>8
<1>10. ASSUME NEW match \in saved', NEW i \in DOMAIN match.players
       PROVE  /\ match.players[i] \in Nat /\ match.players[i] < next_token'
              /\ \A j \in DOMAIN m : m[j] # match.players[i]
  <2>1. CASE match \in saved
    BY <2>1, <1>1, <1>2, <1>4
  <2>2. CASE match.players = l /\ Launched
    <3>1. match.players[i] \in 1 .. n - 1
      BY <2>2, <1>0
    <3>2. match.players[i] \in Nat /\ match.players[i] < n
      BY <3>1, <1>0
    <3> QED BY <3>2, <2>2, <1>1, <1>2
  <2> QED BY <2>1, <2>2, <1>7
<1>11. ASSUME NEW match \in saved', NEW d \in dialed', NEW i \in DOMAIN match.players,
              match.players[i] = d.token
       PROVE  d.number \in DOMAIN match.players /\ match.players[d.number] = d.token
  <2>1. CASE match \in saved /\ d \in dialed
    BY <2>1, <1>5, <1>11
  <2>2. CASE match \in saved /\ d \notin dialed
    <3>1. d.number \in DOMAIN l /\ d.token = l[d.number]
      BY <2>2, <1>6 DEF l
    <3> QED BY <3>1, <2>2, <1>4, <1>11
  <2>3. CASE match.players = l
    BY <2>3, <1>8, <1>11
  <2> QED BY <2>1, <2>2, <2>3, <1>7
<1> QED BY <1>9, <1>10, <1>11 DEF Filed, m

-----------------------------------------------------------------------------
(* The slots and the players *)

\* What a user who waits for answers finds: with the books of one server, the
\* inductive invariant of the third part.
SlotsInv ==
    /\ Undisturbed /\ Pages /\ Runners /\ Numbers /\ Orderly /\ Served
    /\ SavedStay /\ Filed

LEMMA SlotsInit ==
    ASSUME LobbyAssumption, Init
    PROVE  SlotsInv
<1>1. /\ 1 \in Managers /\ \A m \in Managers : m \in Nat
      /\ \A s \in Servers : s # None
  BY DEF Managers, Servers, None, LobbyAssumption
<1>2. /\ manager = 1 /\ server = None /\ page = "configuring" /\ next_token = 1
      /\ dialed = {} /\ saved = {} /\ chunk = None
      /\ \A m \in Managers : runner[m] = None
      /\ DOMAIN online = Servers
  BY DEF Init
<1>3. ASSUME NEW s \in Servers
      PROVE  /\ ~stalled[s] /\ counter[s] = 1 /\ DOMAIN players[s] = {} /\ online[s] = {}
             /\ to_server[s] = <<>> /\ ~Alive(s)
  BY DEF Init, Alive
<1>4. \A s \in Servers : Asked(s) = {}
  BY <1>3 DEF Asked
<1>5. Undisturbed
  BY <1>2, <1>3 DEF Undisturbed
<1>6. Pages /\ Runners
  BY <1>1, <1>2 DEF Pages, Runners
<1>7. Numbers
  BY <1>2, <1>3, <1>4 DEF Numbers
<1>8. Orderly
  BY <1>3 DEF Orderly
<1>9. Served
  BY <1>1, <1>2 DEF Served, Serving
<1>10. SavedStay /\ Filed
  BY <1>2 DEF SavedStay, Filed
<1> QED BY <1>5, <1>6, <1>7, <1>8, <1>9, <1>10 DEF SlotsInv

LEMMA SlotsStep ==
    ASSUME LobbyAssumption, UserWaits, ~Coalesced, Books, Current, OneServerAtATime,
           SlotsInv, [Next]_vars
    PROVE  SlotsInv'
<1>1. Waiting /\ Served /\ SavedStay /\ Filed
  BY DEF Waiting, SlotsInv
<1>2. Typed
  BY DEF Books
<1>3. Undisturbed'
  BY <1>1, UndisturbedStep DEF Waiting
<1>4. Pages' /\ Runners'
  BY <1>1, <1>2, PagesStep, RunnersStep DEF Waiting
<1>5. Numbers' /\ Orderly' /\ Served'
  BY <1>1, NumbersStep, OrderlyStep, ServedStep
<1>6. SavedStay' /\ Filed'
  BY <1>1, SavedStayStep, FiledStep
<1> QED BY <1>3, <1>4, <1>5, <1>6 DEF SlotsInv

\* The properties of a user who waits.
SlotsAndPlayers ==
    /\ SlotsAreThePlayers /\ NewsFindsItsSlot /\ ConnectedClientsShown
    /\ SavedWithItsPlayers /\ LogsAreFiledBySlot

LEMMA SlotsShow ==
    ASSUME LobbyAssumption, Books, SlotsInv
    PROVE  SlotsAndPlayers
<1>0. Typed /\ server \in Servers \union {None} /\ Served /\ Pages
  BY DEF Books, Typed, SlotsInv
<1>1. ASSUME Settled, server # None, proc[server] = "up", phase[server] = "lobby"
      PROVE  /\ server \in Servers /\ Asked(server) = {} /\ Coming(server) = {}
             /\ Matches(server) /\ Listens(server)
  <2>1. server \in Servers /\ Serving(server)
    BY <1>0, <1>1 DEF Serving
  <2>2. tasks = <<>> /\ to_server[server] = <<>> /\ to_client[server] = <<>>
    BY <1>1, <2>1 DEF Settled, Idle
  <2>3. Unheard(server) = <<>> \o <<>>
    BY <2>2 DEF Unheard
  <2> QED BY <1>0, <2>1, <2>2, <2>3 DEF Served, Asked, Coming
<1>2. SlotsAreThePlayers
  <2> SUFFICES ASSUME Settled, server # None, proc[server] = "up", phase[server] = "lobby"
               PROVE  /\ \A id \in DOMAIN players[server] :
                            slot[players[server][id]].clientId = id
                      /\ {players[server][id] : id \in DOMAIN players[server]}
                            = ToSet(list[manager])
    BY DEF SlotsAreThePlayers
  <2>1. /\ server \in Servers /\ Asked(server) = {} /\ Coming(server) = {}
        /\ Matches(server)
    BY <1>1
  <2>2. \A id \in DOMAIN players[server] : slot[players[server][id]].clientId = id
    BY <2>1 DEF Matches, AddComes
  <2>3. /\ \A t \in Listed : \E id \in DOMAIN players[server] : players[server][id] = t
        /\ \A id \in DOMAIN players[server] : players[server][id] \in Listed
    BY <2>1 DEF Matches
  <2>4. {players[server][id] : id \in DOMAIN players[server]} = Listed
    BY <2>3
  <2> QED BY <2>2, <2>4 DEF Listed, ToSet
<1>3. NewsFindsItsSlot
  BY DEF SlotsInv, Undisturbed, NewsFindsItsSlot
<1>4. ConnectedClientsShown
  <2> SUFFICES ASSUME Settled, server # None, proc[server] = "up", phase[server] = "lobby",
                      NEW id \in online[server] \intersect DOMAIN players[server]
               PROVE  slot[players[server][id]].connected
    BY DEF ConnectedClientsShown
  <2>1. /\ server \in Servers /\ Asked(server) = {} /\ Coming(server) = {}
        /\ Listens(server)
    BY <1>1
  <2>2. subs[server] # NoSubs
    BY <2>1 DEF Listens, StartsIn
  <2> QED BY <2>1, <2>2 DEF Listens
<1>5. SavedWithItsPlayers
  BY DEF SlotsInv, SavedStay, SavedWithItsPlayers, ToSet
<1>6. LogsAreFiledBySlot
  BY DEF SlotsInv, Filed, LogsAreFiledBySlot, ToSet
<1> QED BY <1>2, <1>3, <1>4, <1>5, <1>6 DEF SlotsAndPlayers

\* One port, the books and the slots, in one invariant.
LobbyInv == Books /\ OneOnThePort /\ Current /\ SlotsInv

LEMMA LobbyInvInit ==
    ASSUME LobbyAssumption, Init
    PROVE  LobbyInv
<1>1. OneOnThePort
  BY DEF Init, OneOnThePort, OneServerAtATime, Alive
<1> QED BY <1>1, BooksInit, CurrentInit, SlotsInit DEF LobbyInv

LEMMA LobbyInvStep ==
    ASSUME LobbyAssumption, PortIsKept, UserWaits, ~Coalesced, LobbyInv, [Next]_vars
    PROVE  LobbyInv'
<1>1. Books /\ OneOnThePort /\ Current /\ SlotsInv /\ OneServerAtATime
  BY DEF LobbyInv, OneOnThePort
<1>2. Books'
  BY <1>1, BooksStep
<1>3. OneOnThePort'
  BY <1>1, <1>2, PortStep
<1>4. Current'
  BY <1>1, CurrentStep
<1>5. SlotsInv'
  BY <1>1, SlotsStep
<1> QED BY <1>2, <1>3, <1>4, <1>5 DEF LobbyInv

\* With a user who waits for the answer to each click, a page that reads the
\* answer before the next frame, and one port: whatever is kicked, resized,
\* stopped, started and crashes, the slots of the lobby are the players of its
\* server one to one when nothing is under way, no listener throws, a client is
\* shown as connected, the match that is saved has the players its server plays
\* it with, and the log of a local client is filed by the place of its slot
\* (SlotManager.ts:39-133, Lobby.tsx:119-357).
THEOREM SlotsAreAlwaysThePlayers ==
    LobbyAssumption /\ PortIsKept /\ UserWaits /\ ~Coalesced /\ Spec => []SlotsAndPlayers
<1> SUFFICES ASSUME LobbyAssumption, PortIsKept, UserWaits, ~Coalesced
             PROVE  Spec => []SlotsAndPlayers
  OBVIOUS
<1>1. Init => LobbyInv
  BY LobbyInvInit
<1>2. LobbyInv /\ [Next]_vars => LobbyInv'
  BY LobbyInvStep
<1>3. LobbyInv => SlotsAndPlayers
  BY SlotsShow DEF LobbyInv
<1> QED BY <1>1, <1>2, <1>3, PTL DEF Spec

\* The lobby's part keeps the invariant of the lobby; the other parts do not
\* concern it.
HostedLobby == part = "lobby" => LobbyInv

\* Beside the other parts, the lobby of a user who waits has slots and players
\* that agree, up to the match that is saved and the logs that are filed for it.
THEOREM HostedSlotsStayThePlayers ==
    PortIsKept /\ UserWaits /\ ~Coalesced => (HostingSpec => []SlotsStayThePlayers)
<1> SUFFICES ASSUME PortIsKept, UserWaits, ~Coalesced
             PROVE  HostingSpec => []SlotsStayThePlayers
  OBVIOUS
<1>0. LobbyAssumption
  BY HostingAssumption DEF HostingAssumption
<1>1. HostingInit => HostedLobby
  <2> SUFFICES ASSUME HostingInit, part = "lobby" PROVE LobbyInv
    BY DEF HostedLobby
  <2>1. Init
    BY DEF HostingInit
  <2> QED BY <1>0, <2>1, LobbyInvInit
<1>2. HostedLobby /\ [HostingNext]_hostingVars => HostedLobby'
  <2> SUFFICES ASSUME HostedLobby, [HostingNext]_hostingVars, part' = "lobby" PROVE LobbyInv'
    BY DEF HostedLobby
  <2>1. part = "lobby" /\ [Next]_vars
    BY DEF HostingNext, hostingVars
  <2> QED BY <1>0, <2>1, LobbyInvStep DEF HostedLobby
<1>3. HostedLobby => SlotsStayThePlayers
  <2> SUFFICES ASSUME HostedLobby, part = "lobby" PROVE SlotsAndPlayers
    BY DEF SlotsStayThePlayers, SlotsAndPlayers
  <2>1. Books /\ SlotsInv
    BY DEF HostedLobby, LobbyInv
  <2> QED BY <1>0, <2>1, SlotsShow
<1> QED BY <1>1, <1>2, <1>3, PTL DEF HostingSpec
=============================================================================
