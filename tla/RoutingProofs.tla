---------------------------- MODULE RoutingProofs ----------------------------
(***************************************************************************)
(* Proofs about Routing, for any set of tokens and any bounds: its types,  *)
(* that only a replaced route closes, that a stream reaches the connection *)
(* of its token, that messages stay in order across reconnects, and that   *)
(* each failure of a stream loses at most one message.                     *)
(***************************************************************************)
EXTENDS Routing, FiniteSetTheorems, TLAPS

USE RoutingAssumption

-----------------------------------------------------------------------------
(* Sequences and maps *)

LEMMA AppendFacts ==
  ASSUME NEW S, NEW q \in Seq(S), NEW e \in S
  PROVE  /\ Append(q, e) \in Seq(S)
         /\ Len(q) \in Nat
         /\ Len(Append(q, e)) = Len(q) + 1
         /\ DOMAIN q = 1 .. Len(q)
         /\ DOMAIN Append(q, e) = 1 .. Len(q) + 1
         /\ \A i \in 1 .. Len(q) : Append(q, e)[i] = q[i]
         /\ Append(q, e)[Len(q) + 1] = e
OBVIOUS

LEMMA TailFacts ==
  ASSUME NEW S, NEW q \in Seq(S), q # <<>>
  PROVE  /\ Tail(q) \in Seq(S)
         /\ Len(q) \in Nat \ {0}
         /\ DOMAIN q = 1 .. Len(q)
         /\ DOMAIN Tail(q) = 1 .. Len(q) - 1
         /\ \A i \in 1 .. Len(q) - 1 : Tail(q)[i] = q[i + 1]
         /\ Head(q) = q[1]
         /\ Head(q) \in S
OBVIOUS

LEMMA NumberTypes ==
  /\ Connections \subseteq Nat \ {0}
  /\ Streams \subseteq Nat \ {0}
  /\ None \notin Connections /\ None \notin Streams
BY DEF Connections, Streams, None
-----------------------------------------------------------------------------
(* Types *)

LEMMA InitTypes == Init => TypeOK
<1> SUFFICES ASSUME Init PROVE TypeOK
  OBVIOUS
<1>1. token \in Seq(Tokens) /\ Len(token) <= MaxConnections
  BY DEF Init
<1>2. /\ routing_chan \in [Connections -> Seq(Streams)]
      /\ buffer \in [Connections -> Seq(1 .. MaxMessages)]
      /\ adopted \in [Connections -> Seq(Streams)]
      /\ written \in [Streams -> Seq(1 .. MaxMessages)]
  BY DEF Init
<1>3. /\ DOMAIN claim = {s \in Streams : handler[s] # "none"}
      /\ \A s \in DOMAIN claim : claim[s] \in Tokens
  BY DEF Init
<1>4. /\ stream \in [Connections -> Streams \union {None}]
      /\ handle \in [Streams -> Connections \union {None}]
      /\ queued \in [Connections -> 0 .. MaxMessages]
      /\ disconnects \in [Connections -> Nat]
  BY DEF Init
<1>5. /\ status \in [Connections ->
            {"none", "running", "router channel closed", "no match"}]
      /\ handler \in [Streams -> {"none", "waiting", "accepting", "refusing",
                                  "done", "panicked"}]
      /\ told \in [Connections -> {"connected", "disconnected"}]
      /\ \A s \in Streams : handler[s] = "accepting" <=> handle[s] # None
  BY DEF Init
<1>6. /\ DOMAIN routing_channels \subseteq Tokens
      /\ \A t \in DOMAIN routing_channels : routing_channels[t] \in 1 .. Len(token)
      /\ broken \subseteq Streams
      /\ match_over \in BOOLEAN
  BY DEF Init
<1> QED
  BY <1>1, <1>2, <1>3, <1>4, <1>5, <1>6 DEF TypeOK

LEMMA RegisterTypes ==
  ASSUME TypeOK, NEW t \in Tokens, Register(t)
  PROVE  TypeOK'
<1> DEFINE c == Len(token) + 1
<1>0. /\ token \in Seq(Tokens)
      /\ DOMAIN routing_channels \subseteq Tokens
      /\ \A u \in DOMAIN routing_channels : routing_channels[u] \in 1 .. Len(token)
      /\ token' = Append(token, t)
      /\ Len(token) < MaxConnections
      /\ routing_channels' = Insert(routing_channels, t, c)
  BY DEF TypeOK, Register
<1>1. /\ token' \in Seq(Tokens) /\ Len(token') = c /\ c \in Connections
      /\ c <= MaxConnections
  BY <1>0, AppendFacts DEF Connections
<1>2. /\ DOMAIN routing_channels' \subseteq Tokens
      /\ \A u \in DOMAIN routing_channels' : routing_channels'[u] \in 1 .. Len(token')
  BY <1>0, <1>1 DEF Insert
<1>3. status' \in [Connections ->
          {"none", "running", "router channel closed", "no match"}]
  BY <1>1 DEF TypeOK, Register
<1> QED
  BY <1>1, <1>2, <1>3 DEF TypeOK, Register, socketVars, historyVars

LEMMA SendTypes ==
  ASSUME TypeOK, NEW c \in Connections, Send(c)
  PROVE  TypeOK'
<1>0. /\ queued \in [Connections -> 0 .. MaxMessages]
      /\ queued[c] < MaxMessages
      /\ queued' = [queued EXCEPT ![c] = @ + 1]
  BY DEF TypeOK, Send
<1>1. queued[c] + 1 \in 1 .. MaxMessages
  BY <1>0
<1>2. queued' \in [Connections -> 0 .. MaxMessages]
  BY <1>0, <1>1
<1>3. buffer' \in [Connections -> Seq(1 .. MaxMessages)]
  BY ZenonT(40), <1>1, AppendFacts DEF TypeOK, Send
<1> QED
  BY <1>2, <1>3 DEF TypeOK, Send, tableVars, socketVars, historyVars

LEMMA ClientTypes ==
  ASSUME TypeOK, NEW s \in Streams,
         \/ MatchEnds
         \/ \E t \in Tokens : Incoming(s, t)
         \/ Break(s)
  PROVE  TypeOK'
<1>1. CASE MatchEnds
  BY <1>1 DEF TypeOK, MatchEnds, tableVars, socketVars, historyVars
<1>2. ASSUME NEW t \in Tokens, Incoming(s, t) PROVE TypeOK'
  <2>1. handler' \in [Streams -> {"none", "waiting", "accepting", "refusing",
                                  "done", "panicked"}]
    BY <1>2 DEF TypeOK, Incoming
  <2>2. /\ DOMAIN claim' = {r \in Streams : handler'[r] # "none"}
        /\ \A r \in DOMAIN claim' : claim'[r] \in Tokens
    <3>1. /\ claim' = Insert(claim, s, t)
          /\ handler' = [handler EXCEPT ![s] = "waiting"]
          /\ handler \in [Streams -> {"none", "waiting", "accepting", "refusing",
                                      "done", "panicked"}]
          /\ DOMAIN claim = {r \in Streams : handler[r] # "none"}
          /\ \A r \in DOMAIN claim : claim[r] \in Tokens
      BY <1>2 DEF TypeOK, Incoming
    <3> QED
      BY <3>1 DEF Insert
  <2>3. \A r \in Streams : handler'[r] = "accepting" <=> handle'[r] # None
    BY <1>2 DEF TypeOK, Incoming
  <2> QED
    BY <1>2, <2>1, <2>2, <2>3 DEF TypeOK, Incoming, tableVars, historyVars
<1>3. CASE Break(s)
  BY <1>3 DEF TypeOK, Break, tableVars, socketVars, historyVars
<1> QED
  BY <1>1, <1>2, <1>3

LEMMA HandshakeTypes ==
  ASSUME TypeOK, NEW s \in Streams, Handshake(s)
  PROVE  TypeOK'
<1>1. CASE Lookup(s)
  <2>1. CASE claim[s] \in DOMAIN routing_channels
    <3>0. routing_channels[claim[s]] \in Connections
      <4>1. /\ routing_channels[claim[s]] \in 1 .. Len(token)
            /\ token \in Seq(Tokens) /\ Len(token) <= MaxConnections
        BY <2>1 DEF TypeOK
      <4> QED
        BY <4>1 DEF Connections
    <3>1. /\ handler' = [handler EXCEPT ![s] = "accepting"]
          /\ handle' = [handle EXCEPT ![s] = routing_channels[claim[s]]]
          /\ claim' = claim
          /\ handler[s] = "waiting"
          /\ handler \in [Streams -> {"none", "waiting", "accepting", "refusing",
                                      "done", "panicked"}]
          /\ handle \in [Streams -> Connections \union {None}]
          /\ DOMAIN claim = {r \in Streams : handler[r] # "none"}
          /\ \A r \in Streams : handler[r] = "accepting" <=> handle[r] # None
      BY <1>1, <2>1 DEF TypeOK, Lookup, get
    <3>2. /\ handler' \in [Streams -> {"none", "waiting", "accepting",
                                       "refusing", "done", "panicked"}]
          /\ handle' \in [Streams -> Connections \union {None}]
          /\ DOMAIN claim' = {r \in Streams : handler'[r] # "none"}
      BY <3>0, <3>1
    <3>3. \A r \in Streams : handler'[r] = "accepting" <=> handle'[r] # None
      BY <3>0, <3>1, NumberTypes
    <3> QED
      BY <1>1, <2>1, <3>2, <3>3
      DEF TypeOK, Lookup, routes_left, historyVars
  <2>2. CASE claim[s] \notin DOMAIN routing_channels
    <3>1. /\ handler' = [handler EXCEPT ![s] = "refusing"]
          /\ UNCHANGED <<handle, claim>>
          /\ handler[s] = "waiting"
          /\ handler \in [Streams -> {"none", "waiting", "accepting", "refusing",
                                      "done", "panicked"}]
          /\ DOMAIN claim = {r \in Streams : handler[r] # "none"}
          /\ \A r \in Streams : handler[r] = "accepting" <=> handle[r] # None
      BY <1>1, <2>2 DEF TypeOK, Lookup
    <3>2. /\ handler' \in [Streams -> {"none", "waiting", "accepting",
                                       "refusing", "done", "panicked"}]
          /\ DOMAIN claim' = {r \in Streams : handler'[r] # "none"}
          /\ \A r \in Streams : handler'[r] = "accepting" <=> handle'[r] # None
      BY <3>1
    <3> QED
      BY <1>1, <2>2, <3>2 DEF TypeOK, Lookup, historyVars
  <2> QED
    BY <2>1, <2>2
<1>2. CASE Accept(s)
  <2>0. /\ \E state \in {"done", "panicked"} :
              handler' = [handler EXCEPT ![s] = state]
        /\ handle' = [handle EXCEPT ![s] = None]
        /\ claim' = claim
        /\ handler[s] = "accepting"
        /\ handler \in [Streams -> {"none", "waiting", "accepting", "refusing",
                                    "done", "panicked"}]
        /\ handle \in [Streams -> Connections \union {None}]
        /\ DOMAIN claim = {r \in Streams : handler[r] # "none"}
        /\ \A r \in Streams : handler[r] = "accepting" <=> handle[r] # None
    BY <1>2 DEF TypeOK, Accept
  <2>1. /\ handler' \in [Streams -> {"none", "waiting", "accepting", "refusing",
                                     "done", "panicked"}]
        /\ handle' \in [Streams -> Connections \union {None}]
        /\ DOMAIN claim' = {r \in Streams : handler'[r] # "none"}
        /\ \A r \in Streams : handler'[r] = "accepting" <=> handle'[r] # None
    BY <2>0
  <2>2. routing_chan' \in [Connections -> Seq(Streams)]
    <3>1. handle[s] \in Connections
      BY <2>0
    <3>2. /\ routing_chan \in [Connections -> Seq(Streams)]
          /\ \/ routing_chan' = [routing_chan EXCEPT ![handle[s]] =
                                     Append(routing_chan[handle[s]], s)]
             \/ routing_chan' = routing_chan
      BY <1>2, <3>1 DEF TypeOK, Accept
    <3>3. Append(routing_chan[handle[s]], s) \in Seq(Streams)
      <4>1. routing_chan[handle[s]] \in Seq(Streams)
        BY <3>1, <3>2
      <4> QED
        BY <4>1, AppendFacts
    <3> QED
      BY <3>1, <3>2, <3>3
  <2> QED
    BY <1>2, <2>1, <2>2 DEF TypeOK, Accept, tableVars, historyVars
<1>3. CASE Refuse(s)
  BY <1>3 DEF TypeOK, Refuse, tableVars, historyVars
<1>4. CASE HandshakeFails(s)
  BY <1>4 DEF TypeOK, HandshakeFails, tableVars, historyVars
<1> QED
  BY <1>1, <1>2, <1>3, <1>4 DEF Handshake

LEMMA TellTypes ==
  ASSUME TypeOK, NEW c \in Connections,
         NEW content \in {"connected", "disconnected"}, Tell(c, content)
  PROVE  /\ status' \in [Connections ->
                {"none", "running", "router channel closed", "no match"}]
         /\ told' \in [Connections -> {"connected", "disconnected"}]
BY DEF TypeOK, Tell

LEMMA PollTypes ==
  ASSUME TypeOK, NEW c \in Connections, Poll(c)
  PROVE  TypeOK'
<1>1. CASE Adopt(c)
  <2>1. Head(routing_chan[c]) \in Streams /\ Tail(routing_chan[c]) \in Seq(Streams)
    BY <1>1, TailFacts DEF TypeOK, Adopt
  <2>2. routing_chan' \in [Connections -> Seq(Streams)]
    BY <1>1, <2>1 DEF TypeOK, Adopt
  <2>3. adopted' \in [Connections -> Seq(Streams)]
    BY <1>1, <2>1, AppendFacts DEF TypeOK, Adopt
  <2>4. stream' \in [Connections -> Streams \union {None}]
    BY <1>1, <2>1 DEF TypeOK, Adopt
  <2>5. /\ status' \in [Connections ->
              {"none", "running", "router channel closed", "no match"}]
        /\ told' \in [Connections -> {"connected", "disconnected"}]
    BY <1>1, TellTypes DEF Adopt
  <2> QED
    BY <1>1, <2>2, <2>3, <2>4, <2>5 DEF TypeOK, Adopt, tableVars, socketVars
<1>2. CASE RouterChannelClosed(c)
  BY <1>2 DEF TypeOK, RouterChannelClosed, tableVars, socketVars, historyVars
<1>3. CASE Flush(c)
  <2>1. stream[c] \in Streams
    BY <1>3 DEF TypeOK, Flush
  <2>2. /\ Head(buffer[c]) \in 1 .. MaxMessages
        /\ Tail(buffer[c]) \in Seq(1 .. MaxMessages)
    BY <1>3, TailFacts DEF TypeOK, Flush
  <2>3. buffer' \in [Connections -> Seq(1 .. MaxMessages)]
    BY <1>3, <2>2 DEF TypeOK, Flush, buffer_left
  <2>4. written' \in [Streams -> Seq(1 .. MaxMessages)]
    BY <1>3, <2>1, <2>2, AppendFacts DEF TypeOK, Flush
  <2> QED
    BY <1>3, <2>3, <2>4 DEF TypeOK, Flush, tableVars, socketVars
<1>4. CASE StreamFails(c)
  <2>1. PICK rest \in buffer_rest(c) : buffer' = [buffer EXCEPT ![c] = rest]
    BY <1>4 DEF StreamFails
  <2>2. rest \in Seq(1 .. MaxMessages)
    <3>1. /\ buffer[c] \in Seq(1 .. MaxMessages)
          /\ \/ rest = buffer[c]
             \/ buffer[c] # <<>> /\ rest = Tail(buffer[c])
      BY <2>1 DEF TypeOK, buffer_rest
    <3> QED
      BY <3>1, TailFacts
  <2>3. buffer' \in [Connections -> Seq(1 .. MaxMessages)]
    BY <2>1, <2>2 DEF TypeOK
  <2>4. /\ stream' \in [Connections -> Streams \union {None}]
        /\ disconnects' \in [Connections -> Nat]
    <3>1. /\ stream' = [stream EXCEPT ![c] = None]
          /\ disconnects' = [disconnects EXCEPT ![c] = disconnects[c] + 1]
          /\ stream \in [Connections -> Streams \union {None}]
          /\ disconnects \in [Connections -> Nat]
      BY <1>4 DEF TypeOK, StreamFails, Disconnect
    <3> QED
      BY <3>1
  <2>5. /\ status' \in [Connections ->
              {"none", "running", "router channel closed", "no match"}]
        /\ told' \in [Connections -> {"connected", "disconnected"}]
    BY <1>4, TellTypes DEF StreamFails, Disconnect
  <2> QED
    BY <1>4, <2>3, <2>4, <2>5 DEF TypeOK, StreamFails, tableVars, socketVars
<1> QED
  BY <1>1, <1>2, <1>3, <1>4 DEF Poll

LEMMA StutterTypes ==
  ASSUME TypeOK, UNCHANGED vars
  PROVE  TypeOK'
BY DEF TypeOK, vars, tableVars, socketVars, historyVars

LEMMA NextTypes == TypeOK /\ [Next]_vars => TypeOK'
<1> SUFFICES ASSUME TypeOK, [Next]_vars PROVE TypeOK'
  OBVIOUS
<1>1. ASSUME NEW t \in Tokens, Register(t) PROVE TypeOK'
  BY <1>1, RegisterTypes
<1>2. ASSUME NEW t \in Tokens, NEW s \in Streams, Incoming(s, t) PROVE TypeOK'
  BY <1>2, ClientTypes
<1>3. ASSUME NEW s \in Streams, Break(s) \/ Handshake(s) PROVE TypeOK'
  BY <1>3, ClientTypes, HandshakeTypes
<1>4. ASSUME NEW c \in Connections, Send(c) \/ Poll(c) PROVE TypeOK'
  BY <1>4, SendTypes, PollTypes
<1>5. CASE MatchEnds
  BY <1>5 DEF TypeOK, MatchEnds, tableVars, socketVars, historyVars
<1> QED
  BY <1>1, <1>2, <1>3, <1>4, <1>5, StutterTypes DEF Next

\* The types of the table, the handshakes and the connections hold for any
\* tokens and bounds.
THEOREM TypeCorrect == Spec => []TypeOK
BY InitTypes, NextTypes, PTL DEF Spec
-----------------------------------------------------------------------------
(* The table *)

\* Connections are created in order; the table has, for the token of each, the
\* connection registered last for it.
TableInv ==
    /\ \A c \in Connections : status[c] = "none" <=> c > Len(token)
    /\ \A t \in DOMAIN routing_channels : token[routing_channels[t]] = t
    /\ \A c \in 1 .. Len(token) :
        /\ token[c] \in DOMAIN routing_channels
        /\ routing_channels[token[c]] >= c
    /\ OnlyReplacedRoutesClose

\* A new connection takes the next number; the tokens of the others stay.
LEMMA RegisterFacts ==
  ASSUME TypeOK, NEW t \in Tokens, Register(t)
  PROVE  /\ Len(token) \in Nat
         /\ Len(token) + 1 \in Connections
         /\ Len(token') = Len(token) + 1
         /\ DOMAIN token = 1 .. Len(token)
         /\ DOMAIN token' = 1 .. Len(token) + 1
         /\ \A c \in 1 .. Len(token) : token'[c] = token[c]
         /\ token'[Len(token) + 1] = t
         /\ status' = [status EXCEPT ![Len(token) + 1] = "running"]
         /\ routing_channels' = Insert(routing_channels, t, Len(token) + 1)
<1>1. /\ token \in Seq(Tokens) /\ Len(token) < MaxConnections
      /\ token' = Append(token, t)
      /\ status' = [status EXCEPT ![Len(token) + 1] = "running"]
      /\ routing_channels' = Insert(routing_channels, t, Len(token) + 1)
  BY DEF TypeOK, Register
<1> QED
  BY <1>1, AppendFacts DEF Connections

LEMMA TableRegister ==
  ASSUME TypeOK, TableInv, NEW t \in Tokens, Register(t)
  PROVE  TableInv'
<1> DEFINE n == Len(token) + 1
<1>1. /\ Len(token) \in Nat /\ n \in Connections /\ Len(token') = n
      /\ DOMAIN token = 1 .. Len(token) /\ DOMAIN token' = 1 .. n
      /\ \A c \in 1 .. Len(token) : token'[c] = token[c]
      /\ token'[n] = t
      /\ status' = [status EXCEPT ![n] = "running"]
      /\ routing_channels' = Insert(routing_channels, t, n)
  BY RegisterFacts
<1>2. /\ DOMAIN status = Connections
      /\ \A u \in DOMAIN routing_channels : routing_channels[u] \in 1 .. Len(token)
  BY DEF TypeOK
<1>3. /\ \A c \in Connections : status[c] = "none" <=> c > Len(token)
      /\ \A u \in DOMAIN routing_channels : token[routing_channels[u]] = u
      /\ \A c \in 1 .. Len(token) :
          /\ token[c] \in DOMAIN routing_channels
          /\ routing_channels[token[c]] >= c
      /\ OnlyReplacedRoutesClose
  BY DEF TableInv
<1>4. Connections \subseteq Nat
  BY NumberTypes
<1> HIDE DEF n
<1>5. n = Len(token) + 1
  BY DEF n
<1>6. \A c \in Connections : status'[c] = "none" <=> c > Len(token')
  BY <1>1, <1>2, <1>3, <1>4, <1>5
<1>7. /\ DOMAIN routing_channels' = DOMAIN routing_channels \union {t}
      /\ routing_channels'[t] = n
      /\ \A u \in DOMAIN routing_channels \ {t} :
            routing_channels'[u] = routing_channels[u]
  BY <1>1 DEF Insert
<1>8. \A u \in DOMAIN routing_channels' : token'[routing_channels'[u]] = u
  BY <1>1, <1>2, <1>3, <1>7
<1>9. ASSUME NEW c \in 1 .. Len(token')
      PROVE  /\ token'[c] \in DOMAIN routing_channels'
             /\ routing_channels'[token'[c]] >= c
  <2>1. CASE c = n
    BY <1>1, <1>5, <1>7, <2>1
  <2>2. CASE c # n
    <3>1. c \in 1 .. Len(token)
      BY <1>1, <1>5, <2>2
    <3>2. /\ token'[c] = token[c]
          /\ token[c] \in DOMAIN routing_channels
          /\ routing_channels[token[c]] >= c
      BY <1>1, <1>3, <3>1
    <3>3. CASE token[c] = t
      BY <1>1, <1>5, <1>7, <3>1, <3>2, <3>3
    <3>4. CASE token[c] # t
      BY <1>7, <3>2, <3>4
    <3> QED
      BY <3>3, <3>4
  <2> QED
    BY <2>1, <2>2
<1>10. ASSUME NEW c \in Connections, status'[c] = "router channel closed"
       PROVE  \E d \in DOMAIN token' : d > c /\ token'[d] = token'[c]
  <2>1. status[c] = "router channel closed"
    BY <1>1, <1>2, <1>10
  <2>2. c \in 1 .. Len(token)
    <3>1. ~ (c > Len(token)) /\ c \in Nat \ {0}
      BY <1>3, <2>1, NumberTypes
    <3> QED
      BY <1>1, <3>1
  <2>3. PICK d \in DOMAIN token : d > c /\ token[d] = token[c]
    BY <1>3, <2>1 DEF OnlyReplacedRoutesClose
  <2> QED
    BY <1>1, <1>5, <2>2, <2>3
<1> QED
  BY <1>6, <1>8, <1>9, <1>10 DEF TableInv, OnlyReplacedRoutesClose

LEMMA TableClosed ==
  ASSUME TypeOK, TableInv, NEW c \in Connections, RouterChannelClosed(c)
  PROVE  TableInv'
<1>0. /\ UNCHANGED <<token, routing_channels>>
      /\ status' = [status EXCEPT ![c] = "router channel closed"]
      /\ DOMAIN status = Connections
      /\ status[c] = "running"
  BY DEF TypeOK, RouterChannelClosed, tableVars
<1>1. Len(token) \in Nat /\ DOMAIN token = 1 .. Len(token)
  <2>1. token \in Seq(Tokens)
    BY DEF TypeOK
  <2> QED
    BY <2>1
<1>2. c \in 1 .. Len(token)
  <2>1. ~ (c > Len(token)) /\ c \in Nat \ {0}
    BY <1>0, NumberTypes DEF TableInv
  <2> QED
    BY <1>1, <2>1
<1>3. \E d \in DOMAIN token : d > c /\ token[d] = token[c]
  <2> DEFINE d == routing_channels[token[c]]
  <2>1. /\ token[c] \in DOMAIN routing_channels
        /\ d >= c /\ token[d] = token[c]
    BY <1>2 DEF TableInv
  <2>2. d \in 1 .. Len(token) /\ d # c
    BY <2>1 DEF TypeOK, RouterChannelClosed, Closed
  <2> QED
    BY <1>1, <1>2, <2>1, <2>2
<1> QED
  BY <1>0, <1>3 DEF TableInv, OnlyReplacedRoutesClose

\* All other steps leave the table alone, and close no channel.
LEMMA TableQuiet ==
  ASSUME TypeOK, TableInv, UNCHANGED tableVars,
         \/ UNCHANGED status
         \/ \E c \in Connections : status[c] = "running" /\
                status' = [status EXCEPT ![c] = "no match"]
  PROVE  TableInv'
<1>0. DOMAIN status = Connections
  BY DEF TypeOK
<1>1. \A c \in Connections :
        /\ status'[c] = "none" <=> status[c] = "none"
        /\ status'[c] = "router channel closed" =>
              status[c] = "router channel closed"
  BY <1>0
<1> QED
  BY <1>1 DEF TableInv, OnlyReplacedRoutesClose, tableVars

LEMMA TableNext == TypeOK /\ TableInv /\ [Next]_vars => TableInv'
<1> SUFFICES ASSUME TypeOK, TableInv, [Next]_vars PROVE TableInv'
  OBVIOUS
<1>1. ASSUME NEW t \in Tokens, Register(t) PROVE TableInv'
  BY <1>1, TableRegister
<1>2. ASSUME NEW t \in Tokens, NEW s \in Streams, Incoming(s, t) PROVE TableInv'
  BY <1>2, TableQuiet DEF Incoming
<1>3. ASSUME NEW s \in Streams, Break(s) \/ Handshake(s) PROVE TableInv'
  BY <1>3, TableQuiet DEF Break, Handshake, Lookup, routes_left, Accept, Refuse,
     HandshakeFails, tableVars
<1>4. ASSUME NEW c \in Connections, Send(c) \/ Poll(c) PROVE TableInv'
  BY <1>4, TableQuiet, TableClosed DEF Send, Poll, Adopt, Flush, StreamFails,
     Disconnect, Tell
<1>5. CASE MatchEnds
  BY <1>5, TableQuiet DEF MatchEnds
<1>6. CASE UNCHANGED vars
  BY <1>6, TableQuiet DEF vars
<1> QED
  BY <1>1, <1>2, <1>3, <1>4, <1>5, <1>6 DEF Next

LEMMA TableAlways == Spec => []TableInv
<1>1. Init => TableInv
  BY DEF Init, TableInv, OnlyReplacedRoutesClose, Connections
<1> QED
  BY <1>1, TypeCorrect, TableNext, PTL DEF Spec

\* No handshake, however it ends, closes the channel of a connection: only a
\* later registration of its token does.
THEOREM LiveRoutesStayOpen == Spec => []OnlyReplacedRoutesClose
<1>1. TableInv => OnlyReplacedRoutesClose
  BY DEF TableInv
<1> QED
  BY <1>1, TableAlways, PTL
-----------------------------------------------------------------------------
(* What the match knows *)

\* A connection that was not created yet has no stream and no event.
EventInv ==
    \A c \in Connections : status[c] \in {"none", "running"} =>
        (stream[c] # None <=> told[c] = "connected")

LEMMA EventNext == TypeOK /\ TableInv /\ EventInv /\ [Next]_vars => EventInv'
<1> SUFFICES ASSUME TypeOK, TableInv, EventInv, [Next]_vars PROVE EventInv'
  OBVIOUS
<1>0. /\ stream \in [Connections -> Streams \union {None}]
      /\ told \in [Connections -> {"connected", "disconnected"}]
      /\ status \in [Connections ->
            {"none", "running", "router channel closed", "no match"}]
  BY DEF TypeOK
<1>1. ASSUME NEW t \in Tokens, Register(t) PROVE EventInv'
  <2>1. UNCHANGED <<stream, told>>
    BY <1>1 DEF Register, historyVars
  <2>2. status[Len(token) + 1] = "none"
    BY <1>1, RegisterFacts DEF TableInv
  <2> QED
    BY <1>0, <1>1, <2>1, <2>2, RegisterFacts DEF EventInv
<1>2. CASE UNCHANGED <<stream, told, status>>
  BY <1>2 DEF EventInv
<1>3. ASSUME NEW c \in Connections, Poll(c) PROVE EventInv'
  <2>1. CASE Adopt(c)
    <3>1. Head(routing_chan[c]) \in Streams
      BY <2>1, TailFacts DEF TypeOK, Adopt
    <3> QED
      BY <1>0, <2>1, <3>1, NumberTypes DEF EventInv, Adopt, Tell
  <2>2. CASE RouterChannelClosed(c)
    BY <1>0, <2>2 DEF EventInv, RouterChannelClosed, historyVars
  <2>3. CASE Flush(c)
    BY <1>2, <2>3 DEF Flush
  <2>4. CASE StreamFails(c)
    BY <1>0, <2>4 DEF EventInv, StreamFails, Disconnect, Tell
  <2> QED
    BY <1>3, <2>1, <2>2, <2>3, <2>4 DEF Poll
<1>4. ASSUME NEW s \in Streams, NEW t \in Tokens, Incoming(s, t) PROVE EventInv'
  BY <1>2, <1>4 DEF Incoming, historyVars
<1>5. CASE \/ MatchEnds \/ \E c \in Connections : Send(c)
           \/ \E s \in Streams : Break(s) \/ Handshake(s)
  BY <1>2, <1>5 DEF Break, Handshake, Lookup, Accept, Refuse, HandshakeFails,
     MatchEnds, Send, historyVars
<1>6. CASE UNCHANGED vars
  BY <1>2, <1>6 DEF vars, historyVars
<1> QED
  BY <1>1, <1>3, <1>4, <1>5, <1>6 DEF Next

\* The match is never mistaken about whether a running connection has a stream.
THEOREM EventsAreRight == Spec => []MatchKnowsConnection
<1>1. Init => EventInv
  BY DEF Init, EventInv
<1>2. EventInv => MatchKnowsConnection
  BY DEF EventInv, MatchKnowsConnection
<1> QED
  BY <1>1, <1>2, TypeCorrect, TableAlways, EventNext, PTL DEF Spec
-----------------------------------------------------------------------------
(* The streams *)

LEMMA ConcatFacts ==
  ASSUME NEW S, NEW a \in Seq(S), NEW r \in Seq(S), NEW q, q = a \o r
  PROVE  /\ q \in Seq(S)
         /\ Len(q) \in Nat
         /\ DOMAIN a = 1 .. Len(a)
         /\ \A i \in 1 .. Len(a) : i \in 1 .. Len(q) /\ q[i] = a[i]
OBVIOUS

LEMMA MoveHead ==
  ASSUME NEW S, NEW a \in Seq(S), NEW r \in Seq(S), r # <<>>
  PROVE  Append(a, Head(r)) \o Tail(r) = a \o r
OBVIOUS

LEMMA ConcatAppend ==
  ASSUME NEW S, NEW a \in Seq(S), NEW r \in Seq(S), NEW e \in S
  PROVE  a \o Append(r, e) = Append(a \o r, e)
OBVIOUS

\* The streams passed to a connection: those it had and those it will adopt.
Received == [c \in Connections |-> adopted[c] \o routing_chan[c]]

ReceivedOK ==
    \A c \in Connections : \A i \in 1 .. Len(Received[c]) :
        /\ c \in 1 .. Len(token)
        /\ handler[Received[c][i]] = "done"
        /\ claim[Received[c][i]] = token[c]

ReceivedOnce ==
    \A c, d \in Connections :
        \A i \in 1 .. Len(Received[c]), j \in 1 .. Len(Received[d]) :
            Received[c][i] = Received[d][j] => c = d /\ i = j

\* A task that accepts has the sender of a connection registered for its token.
AcceptingOK ==
    \A s \in Streams : handler[s] = "accepting" =>
        /\ handle[s] \in 1 .. Len(token)
        /\ token[handle[s]] = claim[s]

StreamInv == ReceivedOK /\ ReceivedOnce /\ AcceptingOK

LEMMA ReceivedTypes == TypeOK => Received \in [Connections -> Seq(Streams)]
BY ConcatFacts DEF TypeOK, Received

\* The handler of a stream that is not done may change, and so may its claim
\* as long as it is not accepting.
LEMMA StreamQuiet ==
  ASSUME TypeOK, StreamInv, Received' = Received, token' = token,
         NEW s \in Streams, handler[s] # "done",
         \A r \in Streams \ {s} : /\ handler'[r] = handler[r]
                                  /\ handle'[r] = handle[r]
                                  /\ handler[r] # "none" => claim'[r] = claim[r],
         handler'[s] # "accepting"
  PROVE  StreamInv'
<1>1. Received \in [Connections -> Seq(Streams)]
  BY ReceivedTypes
<1>2. ReceivedOnce'
  BY DEF StreamInv, ReceivedOnce
<1>3. ASSUME NEW c \in Connections, NEW i \in 1 .. Len(Received[c])
      PROVE  /\ c \in 1 .. Len(token')
             /\ handler'[Received[c][i]] = "done"
             /\ claim'[Received[c][i]] = token'[c]
  <2>1. Received[c][i] \in Streams
    BY <1>1
  <2>2. /\ c \in 1 .. Len(token)
        /\ handler[Received[c][i]] = "done"
        /\ claim[Received[c][i]] = token[c]
    BY DEF StreamInv, ReceivedOK
  <2> QED
    BY <2>1, <2>2
<1>4. AcceptingOK'
  BY DEF StreamInv, AcceptingOK
<1> QED
  BY <1>2, <1>3, <1>4 DEF StreamInv, ReceivedOK

LEMMA StreamUnchanged ==
  ASSUME StreamInv, Received' = Received, UNCHANGED <<token, socketVars>>
  PROVE  StreamInv'
BY DEF StreamInv, ReceivedOK, ReceivedOnce, AcceptingOK, socketVars

LEMMA StreamRegister ==
  ASSUME TypeOK, StreamInv, NEW t \in Tokens, Register(t)
  PROVE  StreamInv'
<1>1. /\ Len(token) \in Nat /\ Len(token') = Len(token) + 1
      /\ \A c \in 1 .. Len(token) : token'[c] = token[c]
  BY RegisterFacts
<1>2. Received' = Received /\ UNCHANGED <<handler, claim, handle>>
  BY DEF Register, Received, socketVars, historyVars
<1>3. ReceivedOnce'
  BY <1>2 DEF StreamInv, ReceivedOnce
<1>4. ReceivedOK'
  BY <1>1, <1>2 DEF StreamInv, ReceivedOK
<1>5. AcceptingOK'
  BY <1>1, <1>2 DEF StreamInv, AcceptingOK
<1> QED
  BY <1>3, <1>4, <1>5 DEF StreamInv

LEMMA StreamLookup ==
  ASSUME TypeOK, TableInv, StreamInv, NEW s \in Streams, Lookup(s)
  PROVE  StreamInv'
<1>1. /\ Received' = Received /\ token' = token /\ claim' = claim
      /\ handler[s] = "waiting"
  BY DEF Lookup, Received, historyVars
<1>2. CASE claim[s] \notin DOMAIN routing_channels
  BY <1>1, <1>2, StreamQuiet DEF Lookup, TypeOK
<1>3. CASE claim[s] \in DOMAIN routing_channels
  <2>1. /\ handler' = [handler EXCEPT ![s] = "accepting"]
        /\ handle' = [handle EXCEPT ![s] = routing_channels[claim[s]]]
        /\ DOMAIN handler = Streams /\ DOMAIN handle = Streams
    BY <1>3 DEF Lookup, get, TypeOK
  <2>2. /\ routing_channels[claim[s]] \in 1 .. Len(token)
        /\ token[routing_channels[claim[s]]] = claim[s]
    BY <1>3 DEF TypeOK, TableInv
  <2>3. AcceptingOK'
    BY <1>1, <2>1, <2>2 DEF StreamInv, AcceptingOK
  <2>4. ReceivedOnce'
    BY <1>1 DEF StreamInv, ReceivedOnce
  <2>5. ReceivedOK'
    BY <1>1, <2>1, ReceivedTypes DEF StreamInv, ReceivedOK
  <2> QED
    BY <2>3, <2>4, <2>5 DEF StreamInv
<1> QED
  BY <1>2, <1>3

LEMMA StreamAccept ==
  ASSUME TypeOK, StreamInv, NEW s \in Streams, Accept(s)
  PROVE  StreamInv'
<1> DEFINE h == handle[s]
<1>1. /\ handler[s] = "accepting" /\ h \in Connections
      /\ h \in 1 .. Len(token) /\ token[h] = claim[s]
  <2>1. handler[s] = "accepting"
    BY DEF Accept
  <2>2. h \in Connections
    BY <2>1 DEF TypeOK
  <2> QED
    BY <2>1, <2>2 DEF StreamInv, AcceptingOK
<1>2. /\ token' = token /\ claim' = claim
      /\ handle' = [handle EXCEPT ![s] = None]
      /\ DOMAIN handle = Streams /\ DOMAIN handler = Streams
  BY DEF Accept, TypeOK, tableVars
<1>3. CASE status[h] # "running"
  <2>1. Received' = Received /\ handler' = [handler EXCEPT ![s] = "panicked"]
    BY <1>3 DEF Accept, Received, historyVars
  <2> QED
    BY <1>1, <1>2, <2>1, StreamQuiet
<1>4. CASE status[h] = "running"
  <2>1. /\ handler' = [handler EXCEPT ![s] = "done"]
        /\ routing_chan' = [routing_chan EXCEPT ![h] = Append(routing_chan[h], s)]
        /\ adopted' = adopted
        /\ adopted \in [Connections -> Seq(Streams)]
        /\ routing_chan \in [Connections -> Seq(Streams)]
    BY <1>1, <1>4 DEF Accept, TypeOK, historyVars
  <2>2. Received' = [Received EXCEPT ![h] = Append(Received[h], s)]
    <3>1. adopted[h] \o Append(routing_chan[h], s) = Append(Received[h], s)
      <4>1. adopted[h] \in Seq(Streams) /\ routing_chan[h] \in Seq(Streams)
        BY <1>1, <2>1
      <4>2. adopted[h] \o Append(routing_chan[h], s)
               = Append(adopted[h] \o routing_chan[h], s)
        <5> DEFINE a == adopted[h]
                   r == routing_chan[h]
        <5>1. a \in Seq(Streams) /\ r \in Seq(Streams)
          BY <4>1
        <5> HIDE DEF a, r
        <5>2. a \o Append(r, s) = Append(a \o r, s)
          BY <5>1, ConcatAppend
        <5> QED
          BY <5>2 DEF a, r
      <4>3. Received[h] = adopted[h] \o routing_chan[h]
        BY <1>1 DEF Received
      <4> QED
        BY <4>2, <4>3
    <3> QED
      BY <1>1, <2>1, <3>1 DEF Received
  <2>3. Received \in [Connections -> Seq(Streams)]
    BY ReceivedTypes
  <2>4. \A c \in Connections \ {h} : Received'[c] = Received[c]
    BY <2>2, <2>3
  <2>5. /\ Len(Received[h]) \in Nat
        /\ Len(Received'[h]) = Len(Received[h]) + 1
        /\ \A i \in 1 .. Len(Received[h]) : Received'[h][i] = Received[h][i]
        /\ Received'[h][Len(Received[h]) + 1] = s
    <3>1. Received[h] \in Seq(Streams) /\ Received'[h] = Append(Received[h], s)
      BY <1>1, <2>2, <2>3
    <3> QED
      BY <3>1, AppendFacts
  <2> HIDE DEF h
  <2>6. ASSUME NEW c \in Connections, NEW i \in 1 .. Len(Received'[c])
        PROVE  \/ i \in 1 .. Len(Received[c]) /\ Received'[c][i] = Received[c][i]
               \/ c = h /\ i = Len(Received[h]) + 1 /\ Received'[c][i] = s
    BY <2>4, <2>5
  <2>7. \A c \in Connections : \A i \in 1 .. Len(Received[c]) :
            Received[c][i] # s /\ Received[c][i] \in Streams
    BY <1>1, <2>3 DEF StreamInv, ReceivedOK
  <2>8. ReceivedOK'
    <3> SUFFICES ASSUME NEW c \in Connections, NEW i \in 1 .. Len(Received'[c])
                 PROVE  /\ c \in 1 .. Len(token)
                        /\ handler'[Received'[c][i]] = "done"
                        /\ claim[Received'[c][i]] = token[c]
      BY <1>2 DEF ReceivedOK
    <3>1. CASE i \in 1 .. Len(Received[c]) /\ Received'[c][i] = Received[c][i]
      BY <1>2, <2>1, <2>7, <3>1 DEF StreamInv, ReceivedOK
    <3>2. CASE c = h /\ Received'[c][i] = s
      BY <1>1, <1>2, <2>1, <3>2 DEF h
    <3> QED
      BY <2>6, <3>1, <3>2
  <2>9. ReceivedOnce'
    BY SMTT(30), <2>6, <2>7 DEF StreamInv, ReceivedOnce
  <2>10. AcceptingOK'
    BY <1>2, <2>1 DEF StreamInv, AcceptingOK
  <2> QED
    BY <2>8, <2>9, <2>10 DEF StreamInv
<1> QED
  BY <1>3, <1>4

\* Adopting a stream moves it from the channel to the connection.
LEMMA AdoptReceived ==
  ASSUME TypeOK, NEW c \in Connections, Adopt(c)
  PROVE  Received' = Received
<1>1. /\ adopted \in [Connections -> Seq(Streams)]
      /\ routing_chan \in [Connections -> Seq(Streams)]
      /\ routing_chan[c] # <<>>
      /\ adopted' = [adopted EXCEPT ![c] =
                        Append(adopted[c], Head(routing_chan[c]))]
      /\ routing_chan' = [routing_chan EXCEPT ![c] = Tail(routing_chan[c])]
  BY DEF TypeOK, Adopt
<1>2. Append(adopted[c], Head(routing_chan[c])) \o Tail(routing_chan[c])
         = adopted[c] \o routing_chan[c]
  <2>1. adopted[c] \in Seq(Streams) /\ routing_chan[c] \in Seq(Streams)
    BY <1>1
  <2> QED
    BY <1>1, <2>1, MoveHead
<1>3. ASSUME NEW d \in Connections
      PROVE  adopted'[d] \o routing_chan'[d] = adopted[d] \o routing_chan[d]
  BY <1>1, <1>2
<1> QED
  BY <1>3 DEF Received

LEMMA StreamNext == TypeOK /\ TableInv /\ StreamInv /\ [Next]_vars => StreamInv'
<1> SUFFICES ASSUME TypeOK, TableInv, StreamInv, [Next]_vars PROVE StreamInv'
  OBVIOUS
<1>1. ASSUME NEW t \in Tokens, Register(t) PROVE StreamInv'
  BY <1>1, StreamRegister
<1>2. ASSUME NEW t \in Tokens, NEW s \in Streams, Incoming(s, t) PROVE StreamInv'
  <2>1. /\ Received' = Received /\ token' = token /\ handle' = handle
        /\ handler[s] = "none" /\ handler' = [handler EXCEPT ![s] = "waiting"]
        /\ claim' = Insert(claim, s, t)
    BY <1>2 DEF Incoming, Received, tableVars, historyVars
  <2>2. DOMAIN handler = Streams /\ DOMAIN claim = {r \in Streams : handler[r] # "none"}
    BY DEF TypeOK
  <2> QED
    BY <2>1, <2>2, StreamQuiet DEF Insert
<1>3. ASSUME NEW s \in Streams, Handshake(s) PROVE StreamInv'
  <2>1. CASE Refuse(s) \/ HandshakeFails(s)
    <3>1. /\ Received' = Received /\ token' = token /\ claim' = claim
          /\ handler[s] # "done"
          /\ \E state \in {"done", "panicked"} :
                handler' = [handler EXCEPT ![s] = state]
          /\ \A r \in Streams \ {s} : handle'[r] = handle[r]
      BY <2>1 DEF Refuse, HandshakeFails, Received, tableVars, historyVars, TypeOK
    <3>2. DOMAIN handler = Streams
      BY DEF TypeOK
    <3> QED
      BY <3>1, <3>2, StreamQuiet
  <2> QED
    BY <1>3, <2>1, StreamLookup, StreamAccept DEF Handshake
<1>4. ASSUME NEW c \in Connections, Adopt(c) PROVE StreamInv'
  BY <1>4, AdoptReceived, StreamUnchanged DEF Adopt, tableVars
<1>5. CASE UNCHANGED <<token, socketVars, adopted, routing_chan>>
  BY <1>5, StreamUnchanged DEF Received
<1>6. ASSUME NEW c \in Connections,
             Send(c) \/ RouterChannelClosed(c) \/ Flush(c) \/ StreamFails(c)
      PROVE  StreamInv'
  BY <1>5, <1>6 DEF Send, RouterChannelClosed, Flush, StreamFails, tableVars,
     historyVars
<1>7. CASE MatchEnds \/ UNCHANGED vars \/ \E s \in Streams : Break(s)
  BY <1>5, <1>7 DEF MatchEnds, vars, Break, tableVars, historyVars
<1> QED
  BY <1>1, <1>2, <1>3, <1>4, <1>6, <1>7 DEF Next, Poll

\* The streams a connection had are the first it was passed.
LEMMA ReceivedAdopted ==
  ASSUME TypeOK
  PROVE  \A e \in Connections : \A k \in DOMAIN adopted[e] :
            k \in 1 .. Len(Received[e]) /\ Received[e][k] = adopted[e][k]
<1> SUFFICES ASSUME NEW e \in Connections, NEW k \in DOMAIN adopted[e]
             PROVE  /\ k \in 1 .. Len(Received[e])
                    /\ Received[e][k] = adopted[e][k]
  OBVIOUS
<1>1. /\ adopted[e] \in Seq(Streams) /\ routing_chan[e] \in Seq(Streams)
      /\ Received[e] = adopted[e] \o routing_chan[e]
  BY DEF TypeOK, Received
<1>2. /\ DOMAIN adopted[e] = 1 .. Len(adopted[e])
      /\ \A m \in 1 .. Len(adopted[e]) :
            m \in 1 .. Len(Received[e]) /\ Received[e][m] = adopted[e][m]
  <2> DEFINE a == adopted[e]
             r == routing_chan[e]
             q == Received[e]
  <2>1. a \in Seq(Streams) /\ r \in Seq(Streams) /\ q = a \o r
    BY <1>1
  <2> HIDE DEF a, r, q
  <2>2. /\ DOMAIN a = 1 .. Len(a)
        /\ \A m \in 1 .. Len(a) : m \in 1 .. Len(q) /\ q[m] = a[m]
    BY <2>1, ConcatFacts
  <2> QED
    BY <2>2 DEF a, q
<1> QED
  BY <1>2

LEMMA StreamAlways == Spec => []StreamInv
<1>1. Init => StreamInv
  <2>1. Init => Received = [c \in Connections |-> <<>>]
    BY DEF Init, Received
  <2> QED
    BY <2>1 DEF Init, StreamInv, ReceivedOK, ReceivedOnce, AcceptingOK
<1> QED
  BY <1>1, TypeCorrect, TableAlways, StreamNext, PTL DEF Spec

\* Whatever connects, breaks and is registered in between, a stream reaches one
\* connection at most, and that one has its token.
THEOREM StreamsAreRouted == Spec => []StreamReachesItsConnection
<1>1. TypeOK /\ StreamInv => StreamReachesItsConnection
  <2> SUFFICES ASSUME TypeOK, StreamInv,
                      NEW c \in Connections, NEW d \in Connections,
                      NEW i \in DOMAIN adopted[c], NEW j \in DOMAIN adopted[d]
               PROVE  /\ claim[adopted[c][i]] = token[c]
                      /\ adopted[c][i] = adopted[d][j] => c = d /\ i = j
    BY DEF StreamReachesItsConnection
  <2> QED
    BY ReceivedAdopted DEF StreamInv, ReceivedOK, ReceivedOnce
<1> QED
  BY <1>1, TypeCorrect, StreamAlways, PTL
-----------------------------------------------------------------------------
(* The order of messages *)

LEMMA AppendOrder ==
  ASSUME NEW q \in Seq(Nat), NEW e \in Nat,
         Increasing(q), \A i \in DOMAIN q : q[i] < e
  PROVE  Increasing(Append(q, e))
<1>1. \A i \in DOMAIN q : q[i] \in Nat
  OBVIOUS
<1> QED
  BY <1>1, AppendFacts DEF Increasing

LEMMA TailOrder ==
  ASSUME NEW q \in Seq(Nat), q # <<>>, Increasing(q)
  PROVE  /\ Increasing(Tail(q))
         /\ \A i \in DOMAIN Tail(q) : Head(q) < Tail(q)[i]
<1>1. /\ Len(q) \in Nat \ {0} /\ DOMAIN q = 1 .. Len(q)
      /\ DOMAIN Tail(q) = 1 .. Len(q) - 1
      /\ \A i \in 1 .. Len(q) - 1 : Tail(q)[i] = q[i + 1]
      /\ Head(q) = q[1]
  BY TailFacts
<1>2. Increasing(Tail(q))
  BY <1>1 DEF Increasing
<1>3. \A i \in DOMAIN Tail(q) : Head(q) < Tail(q)[i]
  BY <1>1 DEF Increasing
<1> QED
  BY <1>2, <1>3

LEMMA BeforeTail ==
  ASSUME NEW p \in Seq(Nat), NEW q \in Seq(Nat), q # <<>>, Before(p, q)
  PROVE  /\ Before(p, Tail(q))
         /\ \A i \in DOMAIN p : p[i] < Head(q)
BY SMTT(30), TailFacts DEF Before

LEMMA BeforeAppend ==
  ASSUME NEW p \in Seq(Nat), NEW q \in Seq(Nat), NEW e \in Nat, Before(p, q),
         \A i \in DOMAIN p : p[i] < e
  PROVE  Before(p, Append(q, e))
BY SMTT(30), AppendFacts DEF Before

LEMMA AppendBefore ==
  ASSUME NEW p \in Seq(Nat), NEW q \in Seq(Nat), NEW e \in Nat, Before(p, q),
         \A i \in DOMAIN q : e < q[i]
  PROVE  Before(Append(p, e), q)
BY SMTT(30), AppendFacts DEF Before

\* What is in the buffer was queued.
BufferQueued ==
    \A c \in Connections : \A k \in DOMAIN buffer[c] : buffer[c][k] <= queued[c]

\* What is on a stream of a connection was queued.
WrittenQueued ==
    \A c \in Connections : \A i \in DOMAIN adopted[c] :
        \A k \in DOMAIN written[adopted[c][i]] :
            written[adopted[c][i]][k] <= queued[c]

\* The stream of a connection is the one it adopted last.
StreamIsLast ==
    \A c \in Connections : stream[c] # None =>
        /\ Len(adopted[c]) \in DOMAIN adopted[c]
        /\ stream[c] = adopted[c][Len(adopted[c])]

\* Nothing is written on a stream that no connection has adopted.
WrittenIsAdopted ==
    \A s \in Streams : written[s] # <<>> =>
        \E c \in Connections : \E i \in DOMAIN adopted[c] : adopted[c][i] = s

OrderInv ==
    /\ BufferQueued
    /\ WrittenQueued
    /\ StreamIsLast
    /\ WrittenIsAdopted
    /\ InOrderAndOnce

\* The sequences are of numbers.
LEMMA OrderTypes ==
  ASSUME TypeOK
  PROVE  /\ \A c \in Connections : buffer[c] \in Seq(Nat)
         /\ \A s \in Streams : written[s] \in Seq(Nat)
         /\ \A c \in Connections : queued[c] \in Nat
         /\ \A c \in Connections : adopted[c] \in Seq(Streams)
         /\ \A c \in Connections : \A i \in DOMAIN adopted[c] :
                adopted[c][i] \in Streams
<1>1. ASSUME NEW q \in Seq(1 .. MaxMessages) PROVE q \in Seq(Nat)
  OBVIOUS
<1>2. /\ \A c \in Connections : buffer[c] \in Seq(1 .. MaxMessages)
      /\ \A s \in Streams : written[s] \in Seq(1 .. MaxMessages)
      /\ \A c \in Connections : queued[c] \in 0 .. MaxMessages
  BY DEF TypeOK
<1>3. \A c \in Connections : adopted[c] \in Seq(Streams)
  BY DEF TypeOK
<1> QED
  BY <1>1, <1>2, <1>3

LEMMA OrderUnchanged ==
  ASSUME OrderInv, UNCHANGED <<stream, buffer, queued, adopted, written>>
  PROVE  OrderInv'
BY DEF OrderInv, BufferQueued, WrittenQueued, StreamIsLast, WrittenIsAdopted,
   InOrderAndOnce

LEMMA OrderSend ==
  ASSUME TypeOK, OrderInv, NEW c \in Connections, Send(c)
  PROVE  OrderInv'
<1> DEFINE n == queued[c] + 1
           b == buffer[c]
<1>1. /\ UNCHANGED <<stream, adopted, written>>
      /\ queued' = [queued EXCEPT ![c] = n]
      /\ buffer' = [buffer EXCEPT ![c] = Append(b, n)]
      /\ DOMAIN queued = Connections /\ DOMAIN buffer = Connections
  BY DEF Send, TypeOK, historyVars
<1>2. b \in Seq(Nat) /\ n \in Nat /\ queued[c] \in Nat
  BY OrderTypes
<1>3. /\ \A d \in Connections \ {c} : buffer'[d] = buffer[d] /\ queued'[d] = queued[d]
      /\ buffer'[c] = Append(b, n) /\ queued'[c] = n
  BY <1>1
<1>4. n = queued[c] + 1
  OBVIOUS
<1>5. \A k \in DOMAIN b : b[k] <= queued[c] /\ b[k] < n
  BY <1>2 DEF OrderInv, BufferQueued
<1> HIDE DEF n
<1>6. BufferQueued'
  <2> SUFFICES ASSUME NEW d \in Connections, NEW k \in DOMAIN buffer'[d]
               PROVE  buffer'[d][k] <= queued'[d]
    BY DEF BufferQueued
  <2>1. CASE d = c
    <3>1. \/ k \in DOMAIN b /\ buffer'[d][k] = b[k]
          \/ buffer'[d][k] = n
      <4>1. /\ Len(b) \in Nat /\ DOMAIN b = 1 .. Len(b)
            /\ DOMAIN Append(b, n) = 1 .. Len(b) + 1
            /\ \A m \in 1 .. Len(b) : Append(b, n)[m] = b[m]
            /\ Append(b, n)[Len(b) + 1] = n
        BY <1>2, AppendFacts
      <4> QED
        BY <1>3, <2>1, <4>1
    <3>2. b \in Seq(Nat) /\ \A m \in DOMAIN b : b[m] \in Nat
      BY <1>2
    <3> QED
      BY <1>2, <1>3, <1>5, <2>1, <3>1, <3>2
  <2>2. CASE d # c
    BY <1>3, <2>2 DEF OrderInv, BufferQueued
  <2> QED
    BY <2>1, <2>2
<1>7. \A i \in DOMAIN adopted[c] : \A k \in DOMAIN written[adopted[c][i]] :
          /\ written[adopted[c][i]][k] \in Nat
          /\ written[adopted[c][i]][k] <= queued[c]
          /\ written[adopted[c][i]][k] < n
  <2> SUFFICES ASSUME NEW i \in DOMAIN adopted[c],
                      NEW k \in DOMAIN written[adopted[c][i]]
               PROVE  /\ written[adopted[c][i]][k] \in Nat
                      /\ written[adopted[c][i]][k] <= queued[c]
                      /\ written[adopted[c][i]][k] < n
    OBVIOUS
  <2>1. written[adopted[c][i]] \in Seq(Nat)
    BY OrderTypes
  <2>2. written[adopted[c][i]][k] \in Nat
    BY <2>1
  <2>3. written[adopted[c][i]][k] <= queued[c]
    BY DEF OrderInv, WrittenQueued
  <2> QED
    BY <1>2, <1>4, <2>2, <2>3
<1>8. WrittenQueued'
  <2> SUFFICES ASSUME NEW d \in Connections, NEW i \in DOMAIN adopted[d],
                      NEW k \in DOMAIN written[adopted[d][i]]
               PROVE  written[adopted[d][i]][k] <= queued'[d]
    BY <1>1 DEF WrittenQueued
  <2>1. CASE d = c
    <3>1. /\ written[adopted[d][i]][k] \in Nat
          /\ written[adopted[d][i]][k] < n
      BY <1>7, <2>1
    <3>2. queued'[d] = n
      BY <1>3, <2>1
    <3> QED
      BY <1>2, <3>1, <3>2
  <2>2. CASE d # c
    BY <1>3, <2>2 DEF OrderInv, WrittenQueued
  <2> QED
    BY <2>1, <2>2
<1>9. StreamIsLast' /\ WrittenIsAdopted'
  BY <1>1 DEF OrderInv, StreamIsLast, WrittenIsAdopted
<1>10. Increasing(Append(b, n))
  BY <1>2, <1>5, AppendOrder DEF OrderInv, InOrderAndOnce
<1>11. \A i \in DOMAIN adopted[c] : Before(written[adopted[c][i]], Append(b, n))
  <2> SUFFICES ASSUME NEW i \in DOMAIN adopted[c]
               PROVE  Before(written[adopted[c][i]], Append(b, n))
    OBVIOUS
  <2>1. written[adopted[c][i]] \in Seq(Nat)
    BY OrderTypes
  <2>2. \A k \in DOMAIN written[adopted[c][i]] : written[adopted[c][i]][k] < n
    BY <1>7
  <2>3. Before(written[adopted[c][i]], b)
    BY DEF OrderInv, InOrderAndOnce
  <2> QED
    BY <1>2, <2>1, <2>2, <2>3, BeforeAppend
<1>12. InOrderAndOnce'
  BY <1>1, <1>3, <1>10, <1>11 DEF OrderInv, InOrderAndOnce
<1> QED
  BY <1>6, <1>8, <1>9, <1>12 DEF OrderInv

LEMMA ConcatHead ==
  ASSUME NEW S, NEW a \in Seq(S), NEW r \in Seq(S), r # <<>>, NEW q, q = a \o r
  PROVE  /\ Len(a) \in Nat
         /\ DOMAIN a = 1 .. Len(a)
         /\ Len(a) + 1 \in 1 .. Len(q)
         /\ q[Len(a) + 1] = Head(r)
OBVIOUS

\* A stream that waits in a channel is fresh: nothing was written on it.
LEMMA WaitingIsFresh ==
  ASSUME TypeOK, StreamInv, WrittenIsAdopted,
         NEW c \in Connections, routing_chan[c] # <<>>
  PROVE  /\ Head(routing_chan[c]) \in Streams
         /\ written[Head(routing_chan[c])] = <<>>
<1> DEFINE a == adopted[c]
           r == routing_chan[c]
           q == Received[c]
<1>1. a \in Seq(Streams) /\ r \in Seq(Streams) /\ r # <<>> /\ q = a \o r
  BY DEF TypeOK, Received
<1> HIDE DEF a, r, q
<1>2. Head(r) \in Streams
  BY <1>1, TailFacts
<1>3. /\ Len(a) \in Nat /\ DOMAIN a = 1 .. Len(a)
      /\ Len(a) + 1 \in 1 .. Len(q)
      /\ q[Len(a) + 1] = Head(r)
  BY <1>1, ConcatHead
<1>4. ASSUME NEW d \in Connections, NEW i \in DOMAIN adopted[d],
             adopted[d][i] = Head(r)
      PROVE  FALSE
  <2>1. i \in 1 .. Len(Received[d]) /\ Received[d][i] = Head(r)
    BY <1>4, ReceivedAdopted
  <2>2. d = c /\ i = Len(a) + 1
    BY <1>3, <2>1 DEF StreamInv, ReceivedOnce, q
  <2>3. i \in 1 .. Len(a)
    BY <1>3, <2>2 DEF a
  <2> QED
    BY <1>3, <2>2, <2>3
<1> QED
  BY <1>2, <1>4 DEF WrittenIsAdopted, r

LEMMA OrderAdopt ==
  ASSUME TypeOK, StreamInv, OrderInv, NEW c \in Connections, Adopt(c)
  PROVE  OrderInv'
<1> DEFINE h == Head(routing_chan[c])
           a == adopted[c]
<1>1. /\ UNCHANGED <<buffer, queued, written>>
      /\ adopted' = [adopted EXCEPT ![c] = Append(a, h)]
      /\ stream' = [stream EXCEPT ![c] = h]
      /\ DOMAIN adopted = Connections /\ DOMAIN stream = Connections
  BY DEF Adopt, TypeOK
<1>2. h \in Streams /\ written[h] = <<>>
  BY WaitingIsFresh DEF OrderInv, Adopt
<1>3. a \in Seq(Streams)
  BY OrderTypes
<1>4. /\ \A d \in Connections \ {c} : adopted'[d] = adopted[d] /\ stream'[d] = stream[d]
      /\ adopted'[c] = Append(a, h) /\ stream'[c] = h
  BY <1>1
<1> HIDE DEF h
<1>5. /\ Len(a) \in Nat /\ DOMAIN a = 1 .. Len(a)
      /\ Len(Append(a, h)) = Len(a) + 1
      /\ DOMAIN Append(a, h) = 1 .. Len(a) + 1
      /\ \A i \in 1 .. Len(a) : Append(a, h)[i] = a[i]
      /\ Append(a, h)[Len(a) + 1] = h
  BY <1>2, <1>3, AppendFacts
<1>6. StreamIsLast'
  BY <1>4, <1>5 DEF OrderInv, StreamIsLast
<1>7. BufferQueued'
  BY <1>1 DEF OrderInv, BufferQueued
<1>8. ASSUME NEW d \in Connections, NEW i \in DOMAIN adopted'[d]
      PROVE  \/ i \in DOMAIN adopted[d] /\ adopted'[d][i] = adopted[d][i]
             \/ /\ d = c /\ i = Len(a) + 1
                /\ DOMAIN written[adopted'[d][i]] = {}
  <2>1. CASE d = c
    BY <1>2, <1>4, <1>5, <2>1
  <2>2. CASE d # c
    BY <1>4, <2>2
  <2> QED
    BY <2>1, <2>2
<1>9. WrittenQueued'
  BY <1>1, <1>8 DEF OrderInv, WrittenQueued
<1>10. WrittenIsAdopted'
  <2>1. \A d \in Connections : \A i \in DOMAIN adopted[d] :
            i \in DOMAIN adopted'[d] /\ adopted'[d][i] = adopted[d][i]
    <3> SUFFICES ASSUME NEW d \in Connections, NEW i \in DOMAIN adopted[d]
                 PROVE  i \in DOMAIN adopted'[d] /\ adopted'[d][i] = adopted[d][i]
      OBVIOUS
    <3>1. CASE d = c
      BY <1>4, <1>5, <3>1
    <3>2. CASE d # c
      BY <1>4, <3>2
    <3> QED
      BY <3>1, <3>2
  <2> QED
    BY <1>1, <2>1 DEF OrderInv, WrittenIsAdopted
<1>11. InOrderAndOnce'
  <2> SUFFICES ASSUME NEW d \in Connections, NEW i \in DOMAIN adopted'[d]
               PROVE  /\ Increasing(buffer[d])
                      /\ Increasing(written[adopted'[d][i]])
                      /\ Before(written[adopted'[d][i]], buffer[d])
                      /\ \A j \in DOMAIN adopted'[d] : i < j =>
                            Before(written[adopted'[d][i]], written[adopted'[d][j]])
    BY <1>1 DEF OrderInv, InOrderAndOnce
  <2>1. Increasing(buffer[d])
    BY DEF OrderInv, InOrderAndOnce
  <2>2. CASE DOMAIN written[adopted'[d][i]] = {}
    BY <2>1, <2>2 DEF Increasing, Before
  <2>3. CASE i \in DOMAIN adopted[d] /\ adopted'[d][i] = adopted[d][i]
    <3>1. /\ Increasing(written[adopted'[d][i]])
          /\ Before(written[adopted'[d][i]], buffer[d])
      BY <2>3 DEF OrderInv, InOrderAndOnce
    <3>2. ASSUME NEW j \in DOMAIN adopted'[d], i < j
          PROVE  Before(written[adopted'[d][i]], written[adopted'[d][j]])
      <4>1. CASE DOMAIN written[adopted'[d][j]] = {}
        BY <4>1 DEF Before
      <4>2. CASE j \in DOMAIN adopted[d] /\ adopted'[d][j] = adopted[d][j]
        BY <2>3, <3>2, <4>2 DEF OrderInv, InOrderAndOnce
      <4> QED
        BY <1>8, <4>1, <4>2
    <3> QED
      BY <2>1, <3>1, <3>2
  <2> QED
    BY <1>8, <2>2, <2>3
<1> QED
  BY <1>6, <1>7, <1>9, <1>10, <1>11 DEF OrderInv

LEMMA OrderFlush ==
  ASSUME TypeOK, StreamReachesItsConnection, OrderInv,
         NEW c \in Connections, Flush(c)
  PROVE  OrderInv'
<1> DEFINE x == stream[c]
           b == buffer[c]
           w == written[x]
           e == Head(b)
           last == Len(adopted[c])
<1>1. /\ UNCHANGED <<stream, queued, adopted>>
      /\ buffer' = [buffer EXCEPT ![c] = Tail(b)]
      /\ written' = [written EXCEPT ![x] = Append(w, e)]
      /\ DOMAIN buffer = Connections /\ DOMAIN written = Streams
      /\ b # <<>> /\ x # None /\ x \in Streams
  BY DEF Flush, buffer_left, TypeOK
<1>2. last \in DOMAIN adopted[c] /\ x = adopted[c][last]
  BY <1>1 DEF OrderInv, StreamIsLast
<1>3. /\ b \in Seq(Nat) /\ w \in Seq(Nat) /\ queued[c] \in Nat
      /\ adopted[c] \in Seq(Streams)
  BY <1>1, OrderTypes
<1>4. \A d \in Connections : \A i \in DOMAIN adopted[d] :
          adopted[d][i] = x <=> d = c /\ i = last
  BY <1>2 DEF StreamReachesItsConnection
<1>5. /\ Increasing(b) /\ Increasing(w) /\ Before(w, b)
  BY <1>2 DEF OrderInv, InOrderAndOnce
<1>6. /\ \A d \in Connections \ {c} : buffer'[d] = buffer[d]
      /\ buffer'[c] = Tail(b)
      /\ \A s \in Streams \ {x} : written'[s] = written[s]
      /\ written'[x] = Append(w, e)
  BY <1>1
<1> HIDE DEF x, b, w, e, last
<1>7. /\ Tail(b) \in Seq(Nat) /\ e \in Nat
      /\ Len(b) \in Nat \ {0} /\ DOMAIN b = 1 .. Len(b)
      /\ DOMAIN Tail(b) = 1 .. Len(b) - 1
      /\ \A i \in 1 .. Len(b) - 1 : Tail(b)[i] = b[i + 1]
      /\ e = b[1]
  BY <1>1, <1>3, TailFacts DEF e
<1>8. /\ Len(w) \in Nat /\ DOMAIN w = 1 .. Len(w)
      /\ DOMAIN Append(w, e) = 1 .. Len(w) + 1
      /\ \A i \in 1 .. Len(w) : Append(w, e)[i] = w[i]
      /\ Append(w, e)[Len(w) + 1] = e
  BY <1>3, <1>7, AppendFacts
<1>9. /\ Increasing(Tail(b))
      /\ \A i \in DOMAIN Tail(b) : e < Tail(b)[i]
  BY <1>1, <1>3, <1>5, TailOrder DEF e
<1>10. /\ Before(w, Tail(b))
       /\ \A i \in DOMAIN w : w[i] < e
  BY <1>1, <1>3, <1>5, BeforeTail DEF e
<1>11. Increasing(Append(w, e))
  BY <1>3, <1>5, <1>7, <1>10, AppendOrder
<1>12. Before(Append(w, e), Tail(b))
  BY <1>3, <1>7, <1>9, <1>10, AppendBefore
<1>13. \A k \in 1 .. Len(b) : b[k] <= queued[c]
  BY <1>7 DEF OrderInv, BufferQueued, b
<1>14. BufferQueued'
  <2> SUFFICES ASSUME NEW d \in Connections, NEW k \in DOMAIN buffer'[d]
               PROVE  buffer'[d][k] <= queued[d]
    BY <1>1 DEF BufferQueued
  <2>1. CASE d = c
    <3>1. buffer'[d][k] = b[k + 1] /\ k + 1 \in 1 .. Len(b)
      <4>1. buffer'[d] = Tail(b)
        BY <1>6, <2>1
      <4>2. k \in 1 .. Len(b) - 1 /\ buffer'[d][k] = Tail(b)[k]
        BY <1>7, <4>1
      <4> QED
        BY <1>7, <4>2
    <3> QED
      BY <1>13, <2>1, <3>1
  <2>2. CASE d # c
    BY <1>6, <2>2 DEF OrderInv, BufferQueued
  <2> QED
    BY <2>1, <2>2
<1>15. ASSUME NEW d \in Connections, NEW i \in DOMAIN adopted[d]
       PROVE  \/ d = c /\ i = last /\ written'[adopted[d][i]] = Append(w, e)
              \/ /\ written'[adopted[d][i]] = written[adopted[d][i]]
                 /\ d = c => i # last
  <2>1. adopted[d][i] \in Streams
    BY OrderTypes
  <2> QED
    BY <1>4, <1>6, <2>1
<1>16. WrittenQueued'
  <2> SUFFICES ASSUME NEW d \in Connections, NEW i \in DOMAIN adopted[d],
                      NEW k \in DOMAIN written'[adopted[d][i]]
               PROVE  written'[adopted[d][i]][k] <= queued[d]
    BY <1>1 DEF WrittenQueued
  <2>1. CASE d = c /\ i = last /\ written'[adopted[d][i]] = Append(w, e)
    <3>1. \A m \in 1 .. Len(w) : w[m] <= queued[c]
      BY <1>2, <1>8 DEF OrderInv, WrittenQueued, w
    <3>2. e <= queued[c]
      BY <1>7, <1>13
    <3> QED
      BY <1>8, <2>1, <3>1, <3>2
  <2>2. CASE written'[adopted[d][i]] = written[adopted[d][i]]
    BY <2>2 DEF OrderInv, WrittenQueued
  <2> QED
    BY <1>15, <2>1, <2>2
<1>17. StreamIsLast'
  BY <1>1 DEF OrderInv, StreamIsLast
<1>18. WrittenIsAdopted'
  BY <1>1, <1>2, <1>6 DEF OrderInv, WrittenIsAdopted
<1>19. ASSUME NEW i \in DOMAIN adopted[c], i # last
       PROVE  /\ i < last
              /\ Before(written[adopted[c][i]], Tail(b))
              /\ Before(written[adopted[c][i]], Append(w, e))
  <2>1. i < last
    <3>1. DOMAIN adopted[c] = 1 .. last /\ last \in Nat
      BY <1>3 DEF last
    <3> QED
      BY <1>19, <3>1
  <2>2. /\ Before(written[adopted[c][i]], b)
        /\ Before(written[adopted[c][i]], w)
    BY <1>2, <2>1 DEF OrderInv, InOrderAndOnce, b, w
  <2>3. written[adopted[c][i]] \in Seq(Nat)
    BY OrderTypes
  <2>4. /\ Before(written[adopted[c][i]], Tail(b))
        /\ \A k \in DOMAIN written[adopted[c][i]] : written[adopted[c][i]][k] < e
    BY <1>1, <1>3, <2>2, <2>3, BeforeTail DEF e
  <2> QED
    BY <1>3, <1>7, <2>1, <2>2, <2>3, <2>4, BeforeAppend
<1>20. InOrderAndOnce'
  <2> SUFFICES ASSUME NEW d \in Connections
               PROVE  /\ Increasing(buffer'[d])
                      /\ \A i \in DOMAIN adopted[d] :
                          /\ Increasing(written'[adopted[d][i]])
                          /\ Before(written'[adopted[d][i]], buffer'[d])
                          /\ \A j \in DOMAIN adopted[d] : i < j =>
                                Before(written'[adopted[d][i]],
                                       written'[adopted[d][j]])
    BY <1>1 DEF InOrderAndOnce
  <2>1. CASE d # c
    <3>1. \A i \in DOMAIN adopted[d] :
              written'[adopted[d][i]] = written[adopted[d][i]]
      BY <1>15, <2>1
    <3> QED
      BY <1>6, <2>1, <3>1 DEF OrderInv, InOrderAndOnce
  <2>2. CASE d = c
    <3>1. Increasing(buffer'[d])
      BY <1>6, <1>9, <2>2
    <3>2. ASSUME NEW i \in DOMAIN adopted[c]
          PROVE  /\ Increasing(written'[adopted[c][i]])
                 /\ Before(written'[adopted[c][i]], Tail(b))
      <4>1. CASE i = last /\ written'[adopted[c][i]] = Append(w, e)
        BY <1>11, <1>12, <4>1
      <4>2. CASE i # last /\ written'[adopted[c][i]] = written[adopted[c][i]]
        BY <1>19, <4>2 DEF OrderInv, InOrderAndOnce
      <4> QED
        BY <1>15, <4>1, <4>2
    <3>3. ASSUME NEW i \in DOMAIN adopted[c], NEW j \in DOMAIN adopted[c], i < j
          PROVE  Before(written'[adopted[c][i]], written'[adopted[c][j]])
      <4>1. i # last
        <5>1. DOMAIN adopted[c] = 1 .. last /\ last \in Nat
          BY <1>3 DEF last
        <5> QED
          BY <3>3, <5>1
      <4>2. written'[adopted[c][i]] = written[adopted[c][i]]
        BY <1>15, <4>1
      <4>3. CASE j = last
        <5>1. written'[adopted[c][j]] = Append(w, e)
          BY <1>15, <4>3
        <5> QED
          BY <1>19, <4>1, <4>2, <5>1
      <4>4. CASE j # last
        <5>1. written'[adopted[c][j]] = written[adopted[c][j]]
          BY <1>15, <4>4
        <5> QED
          BY <3>3, <4>2, <5>1 DEF OrderInv, InOrderAndOnce
      <4> QED
        BY <4>3, <4>4
    <3> QED
      BY <1>6, <2>2, <3>1, <3>2, <3>3
  <2> QED
    BY <2>1, <2>2
<1> QED
  BY <1>14, <1>16, <1>17, <1>18, <1>20 DEF OrderInv

LEMMA OrderFails ==
  ASSUME TypeOK, OrderInv, NEW c \in Connections, StreamFails(c)
  PROVE  OrderInv'
<1> DEFINE b == buffer[c]
<1>1. PICK rest \in buffer_rest(c) : buffer' = [buffer EXCEPT ![c] = rest]
  BY DEF StreamFails
<1>2. rest = b \/ (b # <<>> /\ rest = Tail(b))
  BY DEF buffer_rest
<1>3. /\ UNCHANGED <<queued, adopted, written>>
      /\ stream' = [stream EXCEPT ![c] = None]
      /\ DOMAIN buffer = Connections /\ DOMAIN stream = Connections
      /\ \A d \in Connections \ {c} : buffer'[d] = buffer[d]
      /\ buffer'[c] = rest
  BY <1>1 DEF StreamFails, Disconnect, TypeOK
<1>4. b \in Seq(Nat)
  BY OrderTypes
<1>5. Increasing(b) /\ (\A k \in DOMAIN b : b[k] <= queued[c])
  BY DEF OrderInv, InOrderAndOnce, BufferQueued
<1> HIDE DEF b
<1>6. Increasing(rest)
  BY <1>2, <1>4, <1>5, TailOrder
<1>7. \A k \in DOMAIN rest : rest[k] <= queued[c]
  <2>1. CASE b # <<>> /\ rest = Tail(b)
    <3>1. /\ Len(b) \in Nat \ {0} /\ DOMAIN b = 1 .. Len(b)
          /\ DOMAIN Tail(b) = 1 .. Len(b) - 1
          /\ \A i \in 1 .. Len(b) - 1 : Tail(b)[i] = b[i + 1]
      BY <1>4, <2>1, TailFacts
    <3> QED
      BY <1>5, <2>1, <3>1
  <2> QED
    BY <1>2, <1>5, <2>1
<1>8. \A i \in DOMAIN adopted[c] : Before(written[adopted[c][i]], rest)
  <2> SUFFICES ASSUME NEW i \in DOMAIN adopted[c]
               PROVE  Before(written[adopted[c][i]], rest)
    OBVIOUS
  <2>1. written[adopted[c][i]] \in Seq(Nat)
    BY OrderTypes
  <2>2. Before(written[adopted[c][i]], b)
    BY DEF OrderInv, InOrderAndOnce, b
  <2> QED
    BY <1>2, <1>4, <2>1, <2>2, BeforeTail
<1>9. BufferQueued'
  BY <1>3, <1>7 DEF OrderInv, BufferQueued
<1>10. WrittenQueued' /\ WrittenIsAdopted'
  BY <1>3 DEF OrderInv, WrittenQueued, WrittenIsAdopted
<1>11. StreamIsLast'
  BY <1>3 DEF OrderInv, StreamIsLast
<1>12. InOrderAndOnce'
  BY <1>3, <1>6, <1>8 DEF OrderInv, InOrderAndOnce
<1> QED
  BY <1>9, <1>10, <1>11, <1>12 DEF OrderInv

LEMMA OrderNext ==
  TypeOK /\ StreamInv /\ StreamReachesItsConnection /\ OrderInv /\ [Next]_vars
    => OrderInv'
<1> SUFFICES ASSUME TypeOK, StreamInv, StreamReachesItsConnection, OrderInv,
                    [Next]_vars
             PROVE  OrderInv'
  OBVIOUS
<1>1. CASE UNCHANGED <<stream, buffer, queued, adopted, written>>
  BY <1>1, OrderUnchanged
<1>2. ASSUME NEW t \in Tokens,
             Register(t) \/ \E s \in Streams : Incoming(s, t)
      PROVE  OrderInv'
  BY <1>1, <1>2 DEF Register, Incoming, historyVars
<1>3. ASSUME NEW s \in Streams, Break(s) \/ Handshake(s) PROVE OrderInv'
  BY <1>1, <1>3 DEF Break, Handshake, Lookup, Accept, Refuse, HandshakeFails,
     historyVars
<1>4. ASSUME NEW c \in Connections, Send(c) \/ Poll(c) PROVE OrderInv'
  <2>1. CASE RouterChannelClosed(c)
    BY <1>1, <2>1 DEF RouterChannelClosed, historyVars
  <2> QED
    BY <1>4, <2>1, OrderSend, OrderAdopt, OrderFlush, OrderFails DEF Poll
<1>5. CASE MatchEnds \/ UNCHANGED vars
  BY <1>1, <1>5 DEF MatchEnds, vars, historyVars
<1> QED
  BY <1>2, <1>3, <1>4, <1>5 DEF Next

LEMMA OrderAlways == Spec => []OrderInv
<1>1. Init => OrderInv
  BY DEF Init, OrderInv, BufferQueued, WrittenQueued, StreamIsLast,
     WrittenIsAdopted, InOrderAndOnce, Increasing
<1> QED
  BY <1>1, TypeCorrect, StreamAlways, StreamsAreRouted, OrderNext, PTL
  DEF Spec

\* Over any number of reconnects, and whatever is lost with a stream, a client
\* gets its messages in order and none twice.
THEOREM MessagesInOrder == Spec => []InOrderAndOnce
<1>1. OrderInv => InOrderAndOnce
  BY DEF OrderInv
<1> QED
  BY <1>1, OrderAlways, PTL

-----------------------------------------------------------------------------
(* What is lost *)

\* Message n of connection c is in its buffer, or was put on one of its streams.
Buffered(c, n)  == \E k \in DOMAIN buffer[c] : buffer[c][k] = n
OnAStream(c, n) == \E i \in DOMAIN adopted[c] :
                      \E k \in DOMAIN written[adopted[c][i]] :
                          written[adopted[c][i]][k] = n

LEMMA LostMeans ==
  ASSUME NEW c \in Connections
  PROVE  \A n : n \in Lost(c) <=>
             n \in 1 .. queued[c] /\ ~Buffered(c, n) /\ ~OnAStream(c, n)
BY DEF Lost, Elements, Buffered, OnAStream

LEMMA LostMeansNext ==
  ASSUME NEW c \in Connections
  PROVE  \A n : n \in Lost(c)' <=>
             n \in 1 .. queued'[c] /\ ~Buffered(c, n)' /\ ~OnAStream(c, n)'
BY DEF Lost, Elements, Buffered, OnAStream

\* Messages are finitely many, so losses can be counted.
LEMMA LostFinite ==
  ASSUME TypeOK, NEW c \in Connections
  PROVE  IsFiniteSet(Lost(c)) /\ Cardinality(Lost(c)) \in Nat
<1>1. queued[c] \in Nat
  BY OrderTypes
<1>2. IsFiniteSet(1 .. queued[c])
  BY <1>1, FS_Interval
<1>3. Lost(c) \subseteq 1 .. queued[c]
  BY DEF Lost
<1> QED
  BY <1>2, <1>3, FS_Subset, FS_CardinalityType

\* A step that loses no message of a connection keeps its count.
LEMMA NothingLost ==
  ASSUME TypeOK, OneLossPerDisconnect, NEW c \in Connections,
         Lost(c)' \subseteq Lost(c), disconnects'[c] = disconnects[c]
  PROVE  Cardinality(Lost(c)') <= disconnects'[c]
<1> DEFINE A == Lost(c)
           B == Lost(c)'
<1>1. IsFiniteSet(A) /\ Cardinality(A) \in Nat
  BY LostFinite
<1>2. Cardinality(A) <= disconnects[c] /\ disconnects[c] \in Nat
  BY DEF OneLossPerDisconnect, TypeOK
<1>3. B \subseteq A
  OBVIOUS
<1> HIDE DEF A, B
<1>4. /\ IsFiniteSet(B) /\ Cardinality(B) <= Cardinality(A)
      /\ Cardinality(B) \in Nat
  BY <1>1, <1>3, FS_Subset, FS_CardinalityType
<1> QED
  BY <1>1, <1>2, <1>4 DEF B

LEMMA LossUnchanged ==
  ASSUME OneLossPerDisconnect,
         UNCHANGED <<buffer, queued, adopted, written, disconnects>>
  PROVE  OneLossPerDisconnect'
BY DEF OneLossPerDisconnect, Lost

\* A message is queued by putting it in the buffer.
LEMMA LossSend ==
  ASSUME TypeOK, OneLossPerDisconnect, NEW c \in Connections, Send(c)
  PROVE  OneLossPerDisconnect'
<1> DEFINE n == queued[c] + 1
           b == buffer[c]
<1>1. /\ UNCHANGED <<adopted, written, disconnects>>
      /\ queued' = [queued EXCEPT ![c] = n]
      /\ buffer' = [buffer EXCEPT ![c] = Append(b, n)]
      /\ DOMAIN queued = Connections /\ DOMAIN buffer = Connections
  BY DEF Send, TypeOK, historyVars
<1>2. b \in Seq(Nat) /\ n \in Nat /\ queued[c] \in Nat
  BY OrderTypes
<1>3. /\ Len(b) \in Nat /\ DOMAIN b = 1 .. Len(b)
      /\ DOMAIN Append(b, n) = 1 .. Len(b) + 1
      /\ \A i \in 1 .. Len(b) : Append(b, n)[i] = b[i]
      /\ Append(b, n)[Len(b) + 1] = n
  BY <1>2, AppendFacts
<1> SUFFICES ASSUME NEW d \in Connections
             PROVE  Cardinality(Lost(d)') <= disconnects'[d]
  BY DEF OneLossPerDisconnect
<1>4. ASSUME NEW m \in Lost(d)' PROVE m \in Lost(d)
  <2>1. m \in 1 .. queued'[d] /\ ~Buffered(d, m)' /\ ~OnAStream(d, m)'
    BY <1>4, LostMeansNext
  <2>2. ~OnAStream(d, m)
    BY <1>1, <2>1 DEF OnAStream
  <2>3. CASE d = c
    <3>1. queued'[d] = n /\ buffer'[d] = Append(b, n)
      BY <1>1, <2>3
    <3>2. m # n
      BY <1>3, <2>1, <3>1 DEF Buffered
    <3>3. ~Buffered(d, m)
      BY <1>3, <2>1, <2>3, <3>1 DEF Buffered
    <3>4. m \in 1 .. queued[d]
      BY <1>2, <2>1, <2>3, <3>1, <3>2
    <3> QED
      BY <2>2, <3>3, <3>4, LostMeans
  <2>4. CASE d # c
    <3>1. queued'[d] = queued[d] /\ buffer'[d] = buffer[d]
      BY <1>1, <2>4
    <3> QED
      BY <2>1, <2>2, <3>1, LostMeans DEF Buffered
  <2> QED
    BY <2>3, <2>4
<1> QED
  BY <1>1, <1>4, NothingLost

\* A connection that takes a stream keeps the ones it had in its history.
LEMMA LossAdopt ==
  ASSUME TypeOK, OneLossPerDisconnect, NEW c \in Connections, Adopt(c)
  PROVE  OneLossPerDisconnect'
<1> DEFINE h == Head(routing_chan[c])
           a == adopted[c]
<1>1. /\ UNCHANGED <<buffer, queued, written, disconnects>>
      /\ adopted' = [adopted EXCEPT ![c] = Append(a, h)]
      /\ DOMAIN adopted = Connections
  BY DEF Adopt, TypeOK
<1>2. a \in Seq(Streams) /\ h \in Streams
  <2>1. routing_chan[c] \in Seq(Streams) /\ routing_chan[c] # <<>>
    BY DEF Adopt, TypeOK
  <2> QED
    BY <2>1, OrderTypes, TailFacts
<1> HIDE DEF h
<1>3. /\ DOMAIN a = 1 .. Len(a) /\ Len(a) \in Nat
      /\ DOMAIN Append(a, h) = 1 .. Len(a) + 1
      /\ \A i \in 1 .. Len(a) : Append(a, h)[i] = a[i]
  BY <1>2, AppendFacts
<1> SUFFICES ASSUME NEW d \in Connections
             PROVE  Cardinality(Lost(d)') <= disconnects'[d]
  BY DEF OneLossPerDisconnect
<1>4. \A i \in DOMAIN adopted[d] :
          i \in DOMAIN adopted'[d] /\ adopted'[d][i] = adopted[d][i]
  <2>1. CASE d = c
    BY <1>1, <1>3, <2>1
  <2>2. CASE d # c
    BY <1>1, <2>2
  <2> QED
    BY <2>1, <2>2
<1>5. ASSUME NEW m \in Lost(d)' PROVE m \in Lost(d)
  <2>1. m \in 1 .. queued'[d] /\ ~Buffered(d, m)' /\ ~OnAStream(d, m)'
    BY <1>5, LostMeansNext
  <2>2. ~OnAStream(d, m)
    BY <1>1, <1>4, <2>1 DEF OnAStream
  <2> QED
    BY <1>1, <2>1, <2>2, LostMeans DEF Buffered
<1> QED
  BY <1>1, <1>5, NothingLost

\* A message that leaves the buffer for a stream is on a stream the connection
\* adopted.
LEMMA LossFlush ==
  ASSUME TypeOK, StreamIsLast, OneLossPerDisconnect,
         NEW c \in Connections, Flush(c)
  PROVE  OneLossPerDisconnect'
<1> DEFINE x == stream[c]
           b == buffer[c]
           w == written[x]
           e == Head(b)
           last == Len(adopted[c])
<1>1. /\ UNCHANGED <<stream, queued, adopted, disconnects>>
      /\ buffer' = [buffer EXCEPT ![c] = Tail(b)]
      /\ written' = [written EXCEPT ![x] = Append(w, e)]
      /\ DOMAIN buffer = Connections /\ DOMAIN written = Streams
      /\ b # <<>> /\ x # None /\ x \in Streams
  BY DEF Flush, buffer_left, TypeOK
<1>2. last \in DOMAIN adopted[c] /\ x = adopted[c][last]
  BY <1>1 DEF StreamIsLast
<1>3. b \in Seq(Nat) /\ w \in Seq(Nat)
  BY <1>1, OrderTypes
<1>4. /\ \A d \in Connections \ {c} : buffer'[d] = buffer[d]
      /\ buffer'[c] = Tail(b)
      /\ \A s \in Streams \ {x} : written'[s] = written[s]
      /\ written'[x] = Append(w, e)
  BY <1>1
<1>5. /\ e \in Nat /\ e = b[1]
      /\ Len(b) \in Nat \ {0} /\ DOMAIN b = 1 .. Len(b)
      /\ DOMAIN Tail(b) = 1 .. Len(b) - 1
      /\ \A i \in 1 .. Len(b) - 1 : Tail(b)[i] = b[i + 1]
  BY <1>1, <1>3, TailFacts
<1> HIDE DEF x, b, w, e, last
<1>6. /\ Len(w) \in Nat /\ DOMAIN w = 1 .. Len(w)
      /\ DOMAIN Append(w, e) = 1 .. Len(w) + 1
      /\ \A i \in 1 .. Len(w) : Append(w, e)[i] = w[i]
      /\ Append(w, e)[Len(w) + 1] = e
  BY <1>3, <1>5, AppendFacts
<1> SUFFICES ASSUME NEW d \in Connections
             PROVE  Cardinality(Lost(d)') <= disconnects'[d]
  BY DEF OneLossPerDisconnect
<1>7. \A i \in DOMAIN adopted[d] :
        \A k \in DOMAIN written[adopted[d][i]] :
            /\ k \in DOMAIN written'[adopted[d][i]]
            /\ written'[adopted[d][i]][k] = written[adopted[d][i]][k]
  <2> SUFFICES ASSUME NEW i \in DOMAIN adopted[d],
                      NEW k \in DOMAIN written[adopted[d][i]]
               PROVE  /\ k \in DOMAIN written'[adopted[d][i]]
                      /\ written'[adopted[d][i]][k] = written[adopted[d][i]][k]
    OBVIOUS
  <2>1. adopted[d][i] \in Streams
    BY OrderTypes
  <2>2. CASE adopted[d][i] = x
    BY <1>4, <1>6, <2>2 DEF w
  <2>3. CASE adopted[d][i] # x
    BY <1>4, <2>1, <2>3
  <2> QED
    BY <2>2, <2>3
<1>8. ASSUME NEW m \in Lost(d)' PROVE m \in Lost(d)
  <2>1. m \in 1 .. queued'[d] /\ ~Buffered(d, m)' /\ ~OnAStream(d, m)'
    BY <1>8, LostMeansNext
  <2>2. ~OnAStream(d, m)
    <3> SUFFICES ASSUME NEW i \in DOMAIN adopted[d],
                        NEW k \in DOMAIN written[adopted[d][i]],
                        written[adopted[d][i]][k] = m
                 PROVE  OnAStream(d, m)'
      BY <2>1 DEF OnAStream
    <3>1. /\ k \in DOMAIN written'[adopted[d][i]]
          /\ written'[adopted[d][i]][k] = m
      BY <1>7
    <3>2. adopted' = adopted
      BY <1>1
    <3> QED
      BY <3>1, <3>2 DEF OnAStream
  <2>3. CASE d = c
    <3>1. m # e
      <4>1. Len(w) + 1 \in DOMAIN written'[adopted[c][last]]
            /\ written'[adopted[c][last]][Len(w) + 1] = e
        BY <1>2, <1>4, <1>6
      <4> QED
        BY <1>1, <1>2, <2>1, <2>3, <4>1 DEF OnAStream
    <3>2. ASSUME NEW k \in 1 .. Len(b), b[k] = m PROVE FALSE
      <4>1. k # 1
        BY <1>5, <3>1, <3>2
      <4>2. k - 1 \in 1 .. Len(b) - 1 /\ (k - 1) + 1 = k
        BY <1>5, <4>1
      <4>3. k - 1 \in DOMAIN buffer'[d] /\ buffer'[d][k - 1] = m
        BY <1>4, <1>5, <2>3, <3>2, <4>2
      <4> QED
        BY <2>1, <4>3 DEF Buffered
    <3>3. ~Buffered(d, m)
      BY <1>5, <2>3, <3>2 DEF Buffered, b
    <3> QED
      BY <1>1, <2>1, <2>2, <3>3, LostMeans
  <2>4. CASE d # c
    BY <1>1, <1>4, <2>1, <2>2, <2>4, LostMeans DEF Buffered
  <2> QED
    BY <2>3, <2>4
<1> QED
  BY <1>1, <1>8, NothingLost

\* A stream that fails takes at most the message it was given.
LEMMA LossFails ==
  ASSUME TypeOK, OneLossPerDisconnect, NEW c \in Connections, StreamFails(c)
  PROVE  OneLossPerDisconnect'
<1> DEFINE b == buffer[c]
           e == Head(b)
<1>1. PICK rest \in buffer_rest(c) : buffer' = [buffer EXCEPT ![c] = rest]
  BY DEF StreamFails
<1>2. rest = b \/ (b # <<>> /\ rest = Tail(b))
  BY DEF buffer_rest
<1>3. /\ UNCHANGED <<queued, adopted, written>>
      /\ disconnects' = [disconnects EXCEPT ![c] = @ + 1]
      /\ disconnects \in [Connections -> Nat]
      /\ DOMAIN buffer = Connections
  BY DEF StreamFails, Disconnect, TypeOK
<1>4. b \in Seq(Nat)
  BY OrderTypes
<1> SUFFICES ASSUME NEW d \in Connections
             PROVE  Cardinality(Lost(d)') <= disconnects'[d]
  BY DEF OneLossPerDisconnect
<1>5. CASE d # c
  <2>1. buffer'[d] = buffer[d] /\ disconnects'[d] = disconnects[d]
    BY <1>1, <1>3, <1>5
  <2>2. Lost(d)' = Lost(d)
    BY <1>3, <2>1 DEF Lost
  <2> QED
    BY <2>1, <2>2, NothingLost
<1>6. CASE d = c
  <2>1. buffer'[c] = rest /\ disconnects'[c] = disconnects[c] + 1
    BY <1>1, <1>3
  <2>2. ASSUME NEW m \in Lost(c)', m # e PROVE m \in Lost(c)
    <3>1. m \in 1 .. queued'[c] /\ ~Buffered(c, m)' /\ ~OnAStream(c, m)'
      BY <2>2, LostMeansNext
    <3>2. ~OnAStream(c, m)
      BY <1>3, <3>1 DEF OnAStream
    <3>3. ASSUME NEW k \in DOMAIN b, b[k] = m PROVE FALSE
      <4>1. CASE rest = b
        BY <2>1, <3>1, <3>3, <4>1 DEF Buffered
      <4>2. CASE b # <<>> /\ rest = Tail(b)
        <5>1. /\ Len(b) \in Nat \ {0} /\ DOMAIN b = 1 .. Len(b) /\ e = b[1]
              /\ DOMAIN Tail(b) = 1 .. Len(b) - 1
              /\ \A i \in 1 .. Len(b) - 1 : Tail(b)[i] = b[i + 1]
          BY <1>4, <4>2, TailFacts
        <5>2. k # 1
          BY <2>2, <3>3, <5>1
        <5>3. k - 1 \in 1 .. Len(b) - 1 /\ (k - 1) + 1 = k
          BY <3>3, <5>1, <5>2
        <5>4. k - 1 \in DOMAIN buffer'[c] /\ buffer'[c][k - 1] = m
          BY <2>1, <3>3, <4>2, <5>1, <5>3
        <5> QED
          BY <3>1, <5>4 DEF Buffered
      <4> QED
        BY <1>2, <4>1, <4>2
    <3>4. ~Buffered(c, m)
      BY <3>3 DEF Buffered
    <3> QED
      BY <1>3, <3>1, <3>2, <3>4, LostMeans
  <2> DEFINE A == Lost(c)
             B == Lost(c)'
  <2>3. B \subseteq A \union {e}
    BY <2>2
  <2>4. IsFiniteSet(A) /\ Cardinality(A) \in Nat
    BY LostFinite
  <2>5. Cardinality(A) <= disconnects[c] /\ disconnects[c] \in Nat
    BY <1>3 DEF OneLossPerDisconnect
  <2> HIDE DEF A, B
  <2>6. /\ IsFiniteSet(A \union {e})
        /\ Cardinality(A \union {e}) \in {Cardinality(A), Cardinality(A) + 1}
    BY <2>4, FS_AddElement
  <2>7. /\ Cardinality(B) <= Cardinality(A \union {e})
        /\ IsFiniteSet(B) /\ Cardinality(B) \in Nat
    BY <2>3, <2>6, FS_Subset, FS_CardinalityType
  <2>8. Cardinality(B) <= disconnects'[c]
    BY <2>1, <2>4, <2>5, <2>6, <2>7
  <2> QED
    BY <1>6, <2>8 DEF B
<1> QED
  BY <1>5, <1>6

LEMMA LossNext ==
  TypeOK /\ StreamIsLast /\ OneLossPerDisconnect /\ [Next]_vars
    => OneLossPerDisconnect'
<1> SUFFICES ASSUME TypeOK, StreamIsLast, OneLossPerDisconnect, [Next]_vars
             PROVE  OneLossPerDisconnect'
  OBVIOUS
<1>1. CASE UNCHANGED <<buffer, queued, adopted, written, disconnects>>
  BY <1>1, LossUnchanged
<1>2. ASSUME NEW t \in Tokens,
             Register(t) \/ \E s \in Streams : Incoming(s, t)
      PROVE  OneLossPerDisconnect'
  BY <1>1, <1>2 DEF Register, Incoming, historyVars
<1>3. ASSUME NEW s \in Streams, Break(s) \/ Handshake(s)
      PROVE  OneLossPerDisconnect'
  BY <1>1, <1>3 DEF Break, Handshake, Lookup, Accept, Refuse, HandshakeFails,
     historyVars
<1>4. ASSUME NEW c \in Connections, Send(c) \/ Poll(c)
      PROVE  OneLossPerDisconnect'
  <2>1. CASE RouterChannelClosed(c)
    BY <1>1, <2>1 DEF RouterChannelClosed, historyVars
  <2> QED
    BY <1>4, <2>1, LossSend, LossAdopt, LossFlush, LossFails DEF Poll
<1>5. CASE MatchEnds \/ UNCHANGED vars
  BY <1>1, <1>5 DEF MatchEnds, vars, historyVars
<1> QED
  BY <1>2, <1>3, <1>4, <1>5 DEF Next

\* However often a client reconnects, each failure of a stream costs it at most
\* one message that had not been handed to a stream.
THEOREM LossesAreBounded == Spec => []OneLossPerDisconnect
<1>1. Init => OneLossPerDisconnect
  <2> SUFFICES ASSUME Init, NEW c \in Connections
               PROVE  Cardinality(Lost(c)) <= disconnects[c]
    BY DEF OneLossPerDisconnect
  <2>1. Lost(c) = {} /\ disconnects[c] = 0
    BY DEF Init, Lost
  <2> QED
    BY <2>1, FS_EmptySet
<1>2. OrderInv => StreamIsLast
  BY DEF OrderInv
<1> QED
  BY <1>1, <1>2, TypeCorrect, OrderAlways, LossNext, PTL DEF Spec
=============================================================================
