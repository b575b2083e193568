------------------------ MODULE RequestHandlerProofs ------------------------
(***************************************************************************)
(* Proofs about RequestHandler, for every value of its bounds: its types,  *)
(* the inductive invariant that says where each request is, and that the   *)
(* handler implements AnswerOnce.                                          *)
(***************************************************************************)
EXTENDS RequestHandler, FiniteSetTheorems, TLAPS

\* Every plain message is in the channel or has taken a message id, and so
\* has every request, or it has been answered.
Counted == message_counter + Len(ctrl_chan) <= request_counter + MaxMessages

\* Only a command that is a request carries a request number, and the channel
\* carries the deadline the request was issued with.
ChannelOK ==
    \A i \in 1 .. Len(ctrl_chan) :
        ctrl_chan[i].kind = "request" =>
            /\ ctrl_chan[i].request_num \in 0 .. request_counter - 1
            /\ ctrl_chan[i].deadline = due[ctrl_chan[i].request_num]

\* A pending request has an id that was given out and a number that was
\* issued, and its entry in the heap, if any, has its own deadline.
BookOK ==
    /\ \A id \in DOMAIN requests :
        /\ id < message_counter
        /\ requests[id] \in 0 .. request_counter - 1
    /\ \A d \in deadlines :
        /\ d.key < message_counter
        /\ d.key \in DOMAIN requests => d.instant = due[requests[d.key]]
    /\ \A j \in 1 .. Len(event_channel) :
        event_channel[j].request_num \in 0 .. request_counter - 1

Asks(cmd, n) == cmd.kind = "request" /\ cmd.request_num = n

\* No request is in two places.
AtMostOnePlace ==
    /\ \A i, j \in 1 .. Len(ctrl_chan) : \A n \in RequestNums :
          Asks(ctrl_chan[i], n) /\ Asks(ctrl_chan[j], n) => i = j
    /\ \A id, id2 \in DOMAIN requests : requests[id] = requests[id2] => id = id2
    /\ \A i, j \in 1 .. Len(event_channel) :
          event_channel[i].request_num = event_channel[j].request_num => i = j
    /\ \A i \in 1 .. Len(ctrl_chan) : \A id \in DOMAIN requests :
          ~Asks(ctrl_chan[i], requests[id])
    /\ \A i \in 1 .. Len(ctrl_chan) : \A j \in 1 .. Len(event_channel) :
          ~Asks(ctrl_chan[i], event_channel[j].request_num)
    /\ \A id \in DOMAIN requests : \A j \in 1 .. Len(event_channel) :
          requests[id] # event_channel[j].request_num

\* Every issued request is somewhere.
SomePlace ==
    \A n \in 0 .. request_counter - 1 :
        \/ \E i \in 1 .. Len(ctrl_chan) : Asks(ctrl_chan[i], n)
        \/ \E id \in DOMAIN requests : requests[id] = n
        \/ \E j \in 1 .. Len(event_channel) : event_channel[j].request_num = n

\* The inductive invariant.
IInv ==
    /\ TypeOK
    /\ Counted
    /\ ChannelOK
    /\ BookOK
    /\ AtMostOnePlace
    /\ SomePlace
    /\ PendingHasDeadline

USE ConstantsAssumption

-----------------------------------------------------------------------------
LEMMA InitInv == Init => IInv
<1> SUFFICES ASSUME Init PROVE IInv
  OBVIOUS
<1>0. 0 .. request_counter - 1 = {} /\ DOMAIN requests = {}
  BY DEF Init
<1>1. TypeOK
  <2>1. due \in [0 .. request_counter - 1 -> Times]
    BY <1>0 DEF Init
  <2>2. deadlines \subseteq [key: MessageIds, instant: Times]
    BY DEF Init
  <2>3. /\ ctrl_chan \in Seq(Commands) /\ outbox \in Seq(Posts)
        /\ inbox \in Seq(MessageIds)   /\ event_channel \in Seq(Events)
    BY DEF Init
  <2>4. notified \in BOOLEAN /\ registered \in BOOLEAN
    BY DEF Init
  <2>5. /\ now \in Times /\ delay \in Times
        /\ request_counter \in 0 .. MaxRequests
        /\ pc \in {"idle", "commands", "timeouts", "connection"}
        /\ message_counter \in 0 .. MaxRequests + MaxMessages
        /\ DOMAIN requests \subseteq MessageIds
        /\ \A id \in DOMAIN requests : requests[id] \in RequestNums
    BY <1>0 DEF Init, Times
  <2> QED
    BY <2>1, <2>2, <2>3, <2>4, <2>5 DEF TypeOK
<1>2. Counted /\ ChannelOK
  BY DEF Init, Counted, ChannelOK
<1>3. BookOK
  BY <1>0 DEF Init, BookOK
<1>4. AtMostOnePlace
  BY <1>0 DEF Init, AtMostOnePlace
<1>5. SomePlace
  BY <1>0 DEF SomePlace
<1>6. PendingHasDeadline
  BY <1>0 DEF PendingHasDeadline
<1> QED
  BY <1>1, <1>2, <1>3, <1>4, <1>5, <1>6 DEF IInv

-----------------------------------------------------------------------------
(* Steps that leave every request where it is *)

\* The part of the state the invariant is about.
core == <<request_counter, due, ctrl_chan, message_counter, requests,
          deadlines, event_channel>>

LEMMA CoreInv ==
  ASSUME IInv, UNCHANGED core, TypeOK'
  PROVE  IInv'
BY DEF IInv, core, Counted, ChannelOK, BookOK, AtMostOnePlace, SomePlace,
       PendingHasDeadline, Asks

LEMMA QuietStep ==
  ASSUME IInv,
         \/ ClientRespond \/ Tick \/ FireDelay \/ BeginPoll
         \/ CommandsNotReady \/ TimeoutsNotReady \/ ConnectionNotReady
         \/ UNCHANGED vars
  PROVE  IInv'
<1> USE DEF IInv
<1>1. CASE ClientRespond
  <2>1. UNCHANGED core
    BY <1>1 DEF ClientRespond, core, handleVars, bookVars, heapVars
  <2>2. inbox' \in Seq(MessageIds)
    BY <1>1 DEF ClientRespond, TypeOK
  <2>3. TypeOK'
    BY <1>1, <2>2 DEF ClientRespond, TypeOK, handleVars, bookVars, heapVars
  <2> QED
    BY <2>1, <2>3, CoreInv
<1>2. CASE Tick
  <2>1. UNCHANGED core
    BY <1>2 DEF Tick, core, handleVars, bookVars, heapVars
  <2>2. now' \in Times
    BY <1>2 DEF Tick, TypeOK, Times
  <2>3. TypeOK'
    BY <1>2, <2>2 DEF Tick, TypeOK, handleVars, bookVars, heapVars
  <2> QED
    BY <2>1, <2>3, CoreInv
<1>3. CASE FireDelay
  <2>1. UNCHANGED core
    BY <1>3 DEF FireDelay, core, handleVars, bookVars, heapVars
  <2>2. TypeOK'
    BY <1>3 DEF FireDelay, TypeOK, handleVars, bookVars, heapVars
  <2> QED
    BY <2>1, <2>2, CoreInv
<1>4. CASE BeginPoll
  <2>1. UNCHANGED core
    BY <1>4 DEF BeginPoll, core, handleVars, bookVars, heapVars
  <2>2. TypeOK'
    BY <1>4 DEF BeginPoll, TypeOK, handleVars, bookVars, heapVars
  <2> QED
    BY <2>1, <2>2, CoreInv
<1>5. CASE CommandsNotReady
  <2>1. UNCHANGED core
    BY <1>5 DEF CommandsNotReady, core, handleVars, bookVars, heapVars
  <2>2. TypeOK'
    BY <1>5 DEF CommandsNotReady, TypeOK, handleVars, bookVars, heapVars
  <2> QED
    BY <2>1, <2>2, CoreInv
<1>6. CASE TimeoutsNotReady
  <2>1. UNCHANGED core
    BY <1>6 DEF TimeoutsNotReady, core, handleVars, bookVars, heapVars
  <2>2. registered' \in BOOLEAN
    BY <1>6 DEF TimeoutsNotReady
  <2>3. TypeOK'
    BY <1>6, <2>2 DEF TimeoutsNotReady, TypeOK, handleVars, bookVars, heapVars
  <2> QED
    BY <2>1, <2>3, CoreInv
<1>7. CASE ConnectionNotReady
  <2>1. UNCHANGED core
    BY <1>7 DEF ConnectionNotReady, core, handleVars, bookVars, heapVars
  <2>2. TypeOK'
    BY <1>7 DEF ConnectionNotReady, TypeOK, handleVars, bookVars, heapVars
  <2> QED
    BY <2>1, <2>2, CoreInv
<1>8. CASE UNCHANGED vars
  <2>1. UNCHANGED core
    BY <1>8 DEF vars, core, handleVars, bookVars, heapVars
  <2>2. TypeOK'
    BY <1>8 DEF vars, TypeOK, handleVars, bookVars, heapVars
  <2> QED
    BY <2>1, <2>2, CoreInv
<1> QED
  BY <1>1, <1>2, <1>3, <1>4, <1>5, <1>6, <1>7, <1>8
-----------------------------------------------------------------------------
(* Sequences *)

LEMMA AppendFacts ==
  ASSUME NEW S, NEW s \in Seq(S), NEW e \in S
  PROVE  /\ Append(s, e) \in Seq(S)
         /\ Len(s) \in Nat
         /\ Len(Append(s, e)) = Len(s) + 1
         /\ \A i \in 1 .. Len(s) : Append(s, e)[i] = s[i]
         /\ Append(s, e)[Len(s) + 1] = e
OBVIOUS

LEMMA TailFacts ==
  ASSUME NEW S, NEW s \in Seq(S), s # <<>>
  PROVE  /\ Tail(s) \in Seq(S)
         /\ Len(s) \in Nat \ {0}
         /\ Len(Tail(s)) = Len(s) - 1
         /\ \A i \in 1 .. Len(s) - 1 : Tail(s)[i] = s[i + 1]
         /\ Head(s) = s[1]
         /\ Head(s) \in S
OBVIOUS
-----------------------------------------------------------------------------
(* The controller issues a request or sends a message *)

LEMMA RequestStep == IInv /\ Request => IInv'
<1> SUFFICES ASSUME IInv, Request PROVE IInv'
  OBVIOUS
<1> DEFINE n == request_counter
           cmd == [kind |-> "request", request_num |-> n,
                   deadline |-> now + Timeout]
           L == Len(ctrl_chan)
<1>1. /\ n \in Nat /\ n < MaxRequests /\ n' = n + 1
      /\ ctrl_chan' = Append(ctrl_chan, cmd)
      /\ due' = Insert(due, n, now + Timeout)
      /\ now + Timeout \in Times
      /\ notified' = TRUE
      /\ UNCHANGED <<now, pc, message_counter, requests, outbox, deadlines,
                     delay, registered, inbox, event_channel>>
  BY DEF IInv, TypeOK, Request, bookVars, heapVars, Times
<1>2. cmd \in Commands
  BY <1>1 DEF Commands, RequestNums
<1>3. /\ ctrl_chan' \in Seq(Commands)
      /\ L \in Nat /\ Len(ctrl_chan') = L + 1
      /\ \A i \in 1 .. L : ctrl_chan'[i] = ctrl_chan[i]
      /\ ctrl_chan'[L + 1] = cmd
  <2>1. ctrl_chan \in Seq(Commands)
    BY DEF IInv, TypeOK
  <2> QED
    BY <1>1, <1>2, <2>1, AppendFacts
<1>4. /\ due' \in [0 .. n' - 1 -> Times]
      /\ due'[n] = now + Timeout
      /\ \A k \in 0 .. n - 1 : due'[k] = due[k]
  BY <1>1 DEF IInv, TypeOK, Insert
<1>5. TypeOK'
  <2>1. n' \in 0 .. MaxRequests
    BY <1>1
  <2> QED
    BY <1>1, <1>3, <1>4, <2>1 DEF IInv, TypeOK
<1>6. Counted'
  <2>1. /\ message_counter \in Int /\ request_counter \in Int
        /\ message_counter + L <= request_counter + MaxMessages
    BY DEF IInv, TypeOK, Counted, RequestNums
  <2>2. MaxMessages \in Int
    BY ConstantsAssumption
  <2>3. Len(ctrl_chan') = L + 1
    BY <1>3
  <2> QED
    BY <1>1, <2>1, <2>2, <2>3 DEF Counted
<1>7. ChannelOK'
  <2> SUFFICES ASSUME NEW i \in 1 .. L + 1, ctrl_chan'[i].kind = "request"
               PROVE  /\ ctrl_chan'[i].request_num \in 0 .. n' - 1
                      /\ ctrl_chan'[i].deadline = due'[ctrl_chan'[i].request_num]
    BY <1>3 DEF ChannelOK
  <2>1. CASE i = L + 1
    BY <1>1, <1>3, <1>4, <2>1
  <2>2. CASE i \in 1 .. L
    <3>1. /\ ctrl_chan[i].request_num \in 0 .. n - 1
          /\ ctrl_chan[i].deadline = due[ctrl_chan[i].request_num]
      BY <1>3, <2>2 DEF IInv, ChannelOK
    <3> QED
      BY <1>1, <1>3, <1>4, <2>2, <3>1
  <2> QED
    BY <1>3, <2>1, <2>2
<1>8. BookOK'
  BY <1>1, <1>4 DEF IInv, BookOK
<1>9. AtMostOnePlace'
  <2>1. \A k \in Int : Asks(ctrl_chan'[L + 1], k) <=> k = n
    BY <1>3 DEF Asks
  <2>2. \A i \in 1 .. L : \A k : Asks(ctrl_chan'[i], k) <=> Asks(ctrl_chan[i], k)
    BY <1>3 DEF Asks
  <2>3. \A i \in 1 .. L : ~Asks(ctrl_chan[i], n)
    BY <1>1 DEF IInv, ChannelOK, Asks
  <2>4. /\ \A id \in DOMAIN requests : requests[id] # n /\ requests[id] \in Int
        /\ \A j \in 1 .. Len(event_channel) :
              /\ event_channel[j].request_num # n
              /\ event_channel[j].request_num \in Int
    BY <1>1 DEF IInv, BookOK
  <2>5. RequestNums \subseteq Int
    BY DEF RequestNums
  <2>6. \A i, j \in 1 .. L + 1 : \A k \in RequestNums :
          Asks(ctrl_chan'[i], k) /\ Asks(ctrl_chan'[j], k) => i = j
    <3> SUFFICES ASSUME NEW i \in 1 .. L + 1, NEW j \in 1 .. L + 1,
                        NEW k \in RequestNums,
                        Asks(ctrl_chan'[i], k), Asks(ctrl_chan'[j], k)
                 PROVE  i = j
      OBVIOUS
    <3>1. i \in 1 .. L \/ i = L + 1
      BY <1>3
    <3>2. j \in 1 .. L \/ j = L + 1
      BY <1>3
    <3>3. CASE i \in 1 .. L /\ j \in 1 .. L
      BY <2>2, <3>3 DEF IInv, AtMostOnePlace
    <3> QED
      BY <2>1, <2>2, <2>3, <2>5, <3>1, <3>2, <3>3
  <2>7. \A i \in 1 .. L + 1 : \A id \in DOMAIN requests :
          ~Asks(ctrl_chan'[i], requests[id])
    <3>1. \A i \in 1 .. L : \A id \in DOMAIN requests :
            ~Asks(ctrl_chan'[i], requests[id])
      BY <2>2 DEF IInv, AtMostOnePlace
    <3> QED
      BY <1>3, <2>1, <2>4, <3>1
  <2>8. \A i \in 1 .. L + 1 : \A j \in 1 .. Len(event_channel) :
          ~Asks(ctrl_chan'[i], event_channel[j].request_num)
    <3>1. \A i \in 1 .. L : \A j \in 1 .. Len(event_channel) :
            ~Asks(ctrl_chan'[i], event_channel[j].request_num)
      BY <2>2 DEF IInv, AtMostOnePlace
    <3> QED
      BY <1>3, <2>1, <2>4, <3>1
  <2> QED
    BY <1>1, <1>3, <2>6, <2>7, <2>8 DEF IInv, AtMostOnePlace
<1>10. SomePlace'
  <2> SUFFICES ASSUME NEW k \in 0 .. n' - 1
               PROVE  \/ \E i \in 1 .. L + 1 : Asks(ctrl_chan'[i], k)
                      \/ \E id \in DOMAIN requests : requests[id] = k
                      \/ \E j \in 1 .. Len(event_channel) :
                             event_channel[j].request_num = k
    BY <1>1, <1>3 DEF SomePlace
  <2>1. CASE k = n
    <3>1. Asks(ctrl_chan'[L + 1], n) /\ L + 1 \in 1 .. L + 1
      BY <1>3 DEF Asks
    <3> QED
      BY <2>1, <3>1
  <2>2. CASE k # n
    BY <1>1, <1>3, <2>2 DEF IInv, SomePlace, Asks
  <2> QED
    BY <2>1, <2>2
<1>11. PendingHasDeadline'
  BY <1>1, <1>4 DEF IInv, PendingHasDeadline, BookOK
<1> QED
  BY <1>5, <1>6, <1>7, <1>8, <1>9, <1>10, <1>11 DEF IInv

LEMMA SendStep == IInv /\ Send => IInv'
<1> SUFFICES ASSUME IInv, Send PROVE IInv'
  OBVIOUS
<1> DEFINE cmd == [kind |-> "message", request_num |-> NoRequest,
                   deadline |-> now]
           L == Len(ctrl_chan)
<1>1. /\ ctrl_chan' = Append(ctrl_chan, cmd)
      /\ message_counter + L - request_counter < MaxMessages
      /\ notified' = TRUE
      /\ UNCHANGED <<now, request_counter, due, pc, message_counter, requests,
                     outbox, deadlines, delay, registered, inbox,
                     event_channel>>
  BY DEF Send, bookVars, heapVars
<1>2. cmd \in Commands
  BY DEF Commands, IInv, TypeOK
<1>3. /\ ctrl_chan' \in Seq(Commands)
      /\ L \in Nat /\ Len(ctrl_chan') = L + 1
      /\ \A i \in 1 .. L : ctrl_chan'[i] = ctrl_chan[i]
      /\ ctrl_chan'[L + 1] = cmd
  <2>1. ctrl_chan \in Seq(Commands)
    BY DEF IInv, TypeOK
  <2> QED
    BY <1>1, <1>2, <2>1, AppendFacts
<1>4. TypeOK'
  BY <1>1, <1>3 DEF IInv, TypeOK
<1>5. Counted'
  <2>1. /\ message_counter \in Int /\ request_counter \in Int
        /\ message_counter + L <= request_counter + MaxMessages
    BY DEF IInv, TypeOK, Counted, RequestNums
  <2>2. MaxMessages \in Int
    BY ConstantsAssumption
  <2>3. Len(ctrl_chan') = L + 1
    BY <1>3
  <2> QED
    BY <1>1, <2>1, <2>2, <2>3 DEF Counted
<1>6. /\ \A k : ~Asks(ctrl_chan'[L + 1], k)
      /\ \A i \in 1 .. L : \A k : Asks(ctrl_chan'[i], k) <=> Asks(ctrl_chan[i], k)
  BY <1>3 DEF Asks
<1>7. ChannelOK' /\ BookOK'
  BY <1>1, <1>3 DEF IInv, ChannelOK, BookOK
<1>8. AtMostOnePlace'
  BY <1>1, <1>3, <1>6 DEF IInv, AtMostOnePlace
<1>9. SomePlace' /\ PendingHasDeadline'
  BY SMTT(30), <1>1, <1>3, <1>6 DEF IInv, SomePlace, PendingHasDeadline
<1> QED
  BY <1>4, <1>5, <1>7, <1>8, <1>9 DEF IInv
-----------------------------------------------------------------------------
(* The handler executes a command *)

LEMMA HandleCommandStep == IInv /\ HandleCommand => IInv'
<1> SUFFICES ASSUME IInv, HandleCommand PROVE IInv'
  OBVIOUS
<1> DEFINE cmd == Head(ctrl_chan)
           c == message_counter
           L == Len(ctrl_chan)
           post == [message_id |-> c, request_num |-> cmd.request_num]
<1>1. /\ ctrl_chan # <<>> /\ ctrl_chan' = Tail(ctrl_chan)
      /\ outbox' = Append(outbox, post)
      /\ UNCHANGED <<now, request_counter, due, pc, notified, registered,
                     inbox, event_channel>>
  BY DEF HandleCommand
<1>2. /\ ctrl_chan' \in Seq(Commands)
      /\ L \in Nat \ {0} /\ Len(ctrl_chan') = L - 1
      /\ \A i \in 1 .. L - 1 : ctrl_chan'[i] = ctrl_chan[i + 1]
      /\ cmd = ctrl_chan[1] /\ cmd \in Commands
  <2>1. ctrl_chan \in Seq(Commands)
    BY DEF IInv, TypeOK
  <2> QED
    BY <1>1, <2>1, TailFacts
<1>3. /\ c \in Nat /\ request_counter \in 0 .. MaxRequests
      /\ c + L <= request_counter + MaxMessages
      /\ c \in MessageIds /\ c' = c + 1
      /\ c + 1 \in 0 .. MaxRequests + MaxMessages
  <2>1. c' = c + 1
    BY DEF HandleCommand, create_request, create_message
  <2> QED
    BY <1>2, <2>1 DEF IInv, TypeOK, Counted, MessageIds
<1>4. outbox' \in Seq(Posts)
  <2>1. post \in Posts
    BY <1>2, <1>3 DEF Posts, Commands
  <2>2. outbox \in Seq(Posts)
    BY DEF IInv, TypeOK
  <2> QED
    BY <1>1, <2>1, <2>2, AppendFacts
<1>5. Counted'
  BY <1>1, <1>2, <1>3 DEF Counted
<1>6. ChannelOK'
  BY <1>1, <1>2 DEF IInv, ChannelOK
<1>7. \A i \in 1 .. L - 1 :
        i + 1 \in 1 .. L /\ \A k : Asks(ctrl_chan'[i], k) <=> Asks(ctrl_chan[i + 1], k)
  BY <1>2
<1>8. CASE cmd.kind = "message"
  <2>1. UNCHANGED <<requests, deadlines, delay>>
    BY <1>8 DEF HandleCommand, create_message, heapVars
  <2>2. TypeOK'
    BY <1>1, <1>2, <1>3, <1>4, <2>1 DEF IInv, TypeOK
  <2>3. BookOK'
    BY SMTT(30), <1>1, <1>3, <2>1 DEF IInv, BookOK, TypeOK, MessageIds
  <2>4. AtMostOnePlace'
    BY SMTT(30), <1>1, <1>2, <1>7, <2>1 DEF IInv, AtMostOnePlace
  <2>5. SomePlace'
    <3> SUFFICES ASSUME NEW n \in 0 .. request_counter - 1
                 PROVE  \/ \E i \in 1 .. L - 1 : Asks(ctrl_chan'[i], n)
                        \/ \E id \in DOMAIN requests : requests[id] = n
                        \/ \E j \in 1 .. Len(event_channel) :
                               event_channel[j].request_num = n
      BY <1>1, <1>2, <2>1 DEF SomePlace
    <3>1. CASE \E i \in 1 .. L : Asks(ctrl_chan[i], n)
      <4>1. PICK i \in 1 .. L : Asks(ctrl_chan[i], n)
        BY <3>1
      <4>2. i # 1
        BY <1>2, <1>8, <4>1 DEF Asks
      <4>3. i - 1 \in 1 .. L - 1 /\ (i - 1) + 1 = i
        BY <1>2, <4>2
      <4> QED
        BY <1>7, <4>1, <4>3
    <3> QED
      BY <3>1 DEF IInv, SomePlace
  <2>6. PendingHasDeadline'
    BY <1>1, <2>1 DEF IInv, PendingHasDeadline
  <2> QED
    BY <1>5, <1>6, <2>2, <2>3, <2>4, <2>5, <2>6 DEF IInv
<1>9. CASE cmd.kind = "request"
  <2> DEFINE n == cmd.request_num
             entry == [key |-> c, instant |-> cmd.deadline]
  <2>1. /\ requests' = Insert(requests, c, n)
        /\ deadlines' = deadlines \union {entry}
        /\ delay' \in {delay, cmd.deadline}
    BY <1>9 DEF HandleCommand, create_request, set_timeout
  <2>2. n \in 0 .. request_counter - 1 /\ cmd.deadline = due[n]
    BY <1>2, <1>9 DEF IInv, ChannelOK
  <2>3. n \in RequestNums /\ cmd.deadline \in Times
    BY <1>2, <1>3, <2>2 DEF Commands, RequestNums
  <2>4. c \notin DOMAIN requests /\ \A d \in deadlines : d.key # c
    BY <1>3 DEF IInv, BookOK
  <2>5. /\ DOMAIN requests' = DOMAIN requests \union {c}
        /\ requests'[c] = n
        /\ \A id \in DOMAIN requests : requests'[id] = requests[id]
    BY <2>1, <2>4 DEF Insert
  <2>6. TypeOK'
    <3>1. deadlines' \subseteq [key: MessageIds, instant: Times]
      BY <1>3, <2>1, <2>3 DEF IInv, TypeOK
    <3>2. delay' \in Times
      BY <2>1, <2>3 DEF IInv, TypeOK
    <3>3. /\ DOMAIN requests' \subseteq MessageIds
          /\ \A id \in DOMAIN requests' : requests'[id] \in RequestNums
      BY <1>3, <2>3, <2>5 DEF IInv, TypeOK
    <3> QED
      BY <1>1, <1>2, <1>3, <1>4, <3>1, <3>2, <3>3 DEF IInv, TypeOK
  <2>7. BookOK'
    <3>1. \A id \in DOMAIN requests' : id < c' /\ requests'[id] \in 0 .. request_counter - 1
      BY <1>3, <2>2, <2>5 DEF IInv, BookOK, TypeOK, MessageIds
    <3>2. \A d \in deadlines' :
            /\ d.key < c'
            /\ d.key \in DOMAIN requests' => d.instant = due[requests'[d.key]]
      <4>1. \A d \in deadlines : d.key \in Int
        BY DEF IInv, TypeOK, MessageIds
      <4> QED
        BY <1>3, <2>1, <2>2, <2>4, <2>5, <4>1 DEF IInv, BookOK
    <3> QED
      BY <1>1, <3>1, <3>2 DEF IInv, BookOK
  <2>8. Asks(ctrl_chan[1], n) /\ 1 \in 1 .. L
    BY <1>2, <1>9 DEF Asks
  <2>9. \A i \in 1 .. L - 1 : ~Asks(ctrl_chan'[i], n)
    <3>1. \A i \in 1 .. L - 1 : i + 1 # 1
      BY <1>2
    <3> QED
      BY <1>7, <2>3, <2>8, <3>1 DEF IInv, AtMostOnePlace
  <2>10. /\ \A id \in DOMAIN requests : requests[id] # n
         /\ \A j \in 1 .. Len(event_channel) : event_channel[j].request_num # n
    BY <2>8 DEF IInv, AtMostOnePlace
  <2>11. AtMostOnePlace'
    <3>1. \A i, j \in 1 .. L - 1 : \A k \in RequestNums :
            Asks(ctrl_chan'[i], k) /\ Asks(ctrl_chan'[j], k) => i = j
      BY SMTT(30), <1>2, <1>7 DEF IInv, AtMostOnePlace
    <3>2. \A k, q \in DOMAIN requests' : requests'[k] = requests'[q] => k = q
      BY <2>5, <2>10 DEF IInv, AtMostOnePlace
    <3>3. \A i \in 1 .. L - 1 : \A k \in DOMAIN requests' :
            ~Asks(ctrl_chan'[i], requests'[k])
      BY <1>7, <2>5, <2>9 DEF IInv, AtMostOnePlace
    <3>4. \A i \in 1 .. L - 1 : \A j \in 1 .. Len(event_channel) :
            ~Asks(ctrl_chan'[i], event_channel[j].request_num)
      BY <1>7 DEF IInv, AtMostOnePlace
    <3>5. \A k \in DOMAIN requests' : \A j \in 1 .. Len(event_channel) :
            requests'[k] # event_channel[j].request_num
      BY <2>5, <2>10 DEF IInv, AtMostOnePlace
    <3> QED
      BY <1>1, <1>2, <3>1, <3>2, <3>3, <3>4, <3>5 DEF IInv, AtMostOnePlace
  <2>12. SomePlace'
    <3> SUFFICES ASSUME NEW k \in 0 .. request_counter - 1
                 PROVE  \/ \E i \in 1 .. L - 1 : Asks(ctrl_chan'[i], k)
                        \/ \E id \in DOMAIN requests' : requests'[id] = k
                        \/ \E j \in 1 .. Len(event_channel) :
                               event_channel[j].request_num = k
      BY <1>1, <1>2 DEF SomePlace
    <3>1. CASE \E i \in 1 .. L : Asks(ctrl_chan[i], k)
      <4>1. PICK i \in 1 .. L : Asks(ctrl_chan[i], k)
        BY <3>1
      <4>2. CASE i = 1
        BY <2>5, <2>8, <4>1, <4>2 DEF Asks
      <4>3. CASE i # 1
        <5>1. i - 1 \in 1 .. L - 1 /\ (i - 1) + 1 = i
          BY <1>2, <4>3
        <5> QED
          BY <1>7, <4>1, <5>1
      <4> QED
        BY <4>2, <4>3
    <3> QED
      BY <2>5, <3>1 DEF IInv, SomePlace
  <2>13. PendingHasDeadline'
    BY <1>1, <2>1, <2>2, <2>5 DEF IInv, PendingHasDeadline
  <2> QED
    BY <1>5, <1>6, <2>6, <2>7, <2>11, <2>12, <2>13 DEF IInv
<1> QED
  BY <1>2, <1>8, <1>9 DEF Commands
-----------------------------------------------------------------------------
(* The handler answers a request, by a time-out or by a response *)

LEMMA AnswerStep ==
  ASSUME IInv, TypeOK',
         NEW id, NEW value \in {"response", "timeout"}, Answer(id, value),
         deadlines' \subseteq deadlines,
         \A d \in deadlines : d.key # id => d \in deadlines',
         UNCHANGED <<request_counter, due, ctrl_chan, message_counter>>
  PROVE  IInv'
<1>1. /\ DOMAIN requests' = DOMAIN requests \ {id}
      /\ \A k \in DOMAIN requests' : requests'[k] = requests[k]
  BY DEF Answer, Remove
<1>2. Counted' /\ ChannelOK'
  BY DEF IInv, Counted, ChannelOK
<1>3. PendingHasDeadline'
  BY <1>1 DEF IInv, PendingHasDeadline
<1>4. CASE id \notin DOMAIN requests
  <2>1. UNCHANGED event_channel /\ DOMAIN requests' = DOMAIN requests
    BY <1>1, <1>4 DEF Answer
  <2> QED
    BY <1>1, <1>2, <1>3, <2>1
       DEF IInv, BookOK, AtMostOnePlace, SomePlace
<1>5. CASE id \in DOMAIN requests
  <2> DEFINE n == requests[id]
             e == [request_num |-> n, value |-> value]
             L == Len(event_channel)
  <2>1. e \in Events
    BY <1>5 DEF Events, IInv, TypeOK
  <2>2. /\ L \in Nat /\ Len(event_channel') = L + 1
        /\ \A j \in 1 .. L : event_channel'[j] = event_channel[j]
        /\ event_channel'[L + 1] = e
    <3>1. event_channel \in Seq(Events)
      BY DEF IInv, TypeOK
    <3>2. event_channel' = Append(event_channel, e)
      BY <1>5 DEF Answer, Dispatch
    <3> QED
      BY <2>1, <3>1, <3>2, AppendFacts
  <2>3. BookOK'
    BY <1>1, <1>5, <2>2 DEF IInv, BookOK
  <2>4. /\ \A k \in DOMAIN requests' : requests'[k] # n
        /\ \A j \in 1 .. L : event_channel[j].request_num # n
        /\ \A i \in 1 .. Len(ctrl_chan) : ~Asks(ctrl_chan[i], n)
    BY <1>1, <1>5 DEF IInv, AtMostOnePlace
  <2>5. event_channel'[L + 1].request_num = n
    BY <2>2
  <2>6. \A j \in 1 .. L + 1 : j = L + 1 \/ j \in 1 .. L
    BY <2>2
  <2>7. AtMostOnePlace'
    BY <1>1, <2>2, <2>4, <2>5, <2>6 DEF IInv, AtMostOnePlace
  <2>8. SomePlace'
    <3> SUFFICES ASSUME NEW k \in 0 .. request_counter - 1
                 PROVE  \/ \E i \in 1 .. Len(ctrl_chan) : Asks(ctrl_chan[i], k)
                        \/ \E q \in DOMAIN requests' : requests'[q] = k
                        \/ \E j \in 1 .. L + 1 : event_channel'[j].request_num = k
      BY <2>2 DEF SomePlace
    <3>1. CASE k = n
      <4>1. L + 1 \in 1 .. L + 1
        BY <2>2
      <4> QED
        BY <2>5, <3>1, <4>1
    <3>2. CASE k # n
      BY SMTT(30), <1>1, <2>2, <3>2 DEF IInv, SomePlace
    <3> QED
      BY <3>1, <3>2
  <2> QED
    BY <1>2, <1>3, <2>3, <2>7, <2>8 DEF IInv
<1> QED
  BY <1>4, <1>5

LEMMA AnswerTypes ==
  ASSUME IInv, NEW id, NEW value \in {"response", "timeout"}, Answer(id, value)
  PROVE  /\ DOMAIN requests' \subseteq MessageIds
         /\ \A k \in DOMAIN requests' : requests'[k] \in RequestNums
         /\ event_channel' \in Seq(Events)
<1>1. /\ DOMAIN requests' \subseteq MessageIds
      /\ \A k \in DOMAIN requests' : requests'[k] \in RequestNums
  BY DEF IInv, TypeOK, Answer, Remove
<1>2. event_channel \in Seq(Events)
  BY DEF IInv, TypeOK
<1>3. CASE id \in DOMAIN requests
  <2> DEFINE e == [request_num |-> requests[id], value |-> value]
  <2>1. e \in Events
    BY <1>3 DEF Events, IInv, TypeOK
  <2>2. event_channel' = Append(event_channel, e)
    BY <1>3 DEF Answer, Dispatch
  <2> QED
    BY <1>1, <1>2, <2>1, <2>2, AppendFacts
<1>4. CASE id \notin DOMAIN requests
  BY <1>1, <1>2, <1>4 DEF Answer
<1> QED
  BY <1>3, <1>4

LEMMA HandleTimeoutStep == IInv /\ HandleTimeout => IInv'
<1> SUFFICES ASSUME IInv, HandleTimeout PROVE IInv'
  OBVIOUS
<1>1. PICK top \in Tops : /\ deadlines' = deadlines \ {top}
                          /\ Answer(top.key, "timeout")
  BY DEF HandleTimeout
<1>2. UNCHANGED <<now, request_counter, due, ctrl_chan, pc, notified,
                  message_counter, outbox, delay, registered, inbox>>
  BY DEF HandleTimeout, handleVars
<1>3. TypeOK'
  <2>1. deadlines' \subseteq [key: MessageIds, instant: Times]
    BY <1>1 DEF IInv, TypeOK
  <2>2. /\ DOMAIN requests' \subseteq MessageIds
        /\ \A k \in DOMAIN requests' : requests'[k] \in RequestNums
        /\ event_channel' \in Seq(Events)
    BY <1>1, AnswerTypes
  <2> QED
    BY <1>2, <2>1, <2>2 DEF IInv, TypeOK
<1>4. \A d \in deadlines : d.key # top.key => d \in deadlines'
  BY <1>1
<1> QED
  BY <1>1, <1>2, <1>3, <1>4, AnswerStep

LEMMA HandlePacketStep == IInv /\ HandlePacket => IInv'
<1> SUFFICES ASSUME IInv, HandlePacket PROVE IInv'
  OBVIOUS
<1>1. /\ inbox # <<>> /\ inbox' = Tail(inbox)
      /\ Answer(Head(inbox), "response")
      /\ UNCHANGED <<now, request_counter, due, ctrl_chan, pc, notified,
                     message_counter, outbox, deadlines, delay, registered>>
  BY DEF HandlePacket, handleVars, heapVars
<1>2. TypeOK'
  <2>1. inbox' \in Seq(MessageIds)
    <3>1. inbox \in Seq(MessageIds)
      BY DEF IInv, TypeOK
    <3> QED
      BY <1>1, <3>1, TailFacts
  <2>2. /\ DOMAIN requests' \subseteq MessageIds
        /\ \A k \in DOMAIN requests' : requests'[k] \in RequestNums
        /\ event_channel' \in Seq(Events)
    BY <1>1, AnswerTypes
  <2> QED
    BY <1>1, <2>1, <2>2 DEF IInv, TypeOK
<1> QED
  BY <1>1, <1>2, AnswerStep
-----------------------------------------------------------------------------
(* Theorems *)

LEMMA NextInv == IInv /\ [Next]_vars => IInv'
BY QuietStep, RequestStep, SendStep, HandleCommandStep, HandleTimeoutStep,
   HandlePacketStep DEF Next, Handler

\* Every reachable state satisfies the inductive invariant.
THEOREM Invariance == Spec => []IInv
<1>1. Init => IInv
  BY InitInv
<1>2. IInv /\ [Next]_vars => IInv'
  BY NextInv
<1> QED
  BY <1>1, <1>2, PTL DEF Spec

\* The handler's state keeps its types, and its message ids stay in bounds.
THEOREM TypeCorrect == Spec => []TypeOK
<1>1. IInv => TypeOK
  BY DEF IInv
<1> QED
  BY <1>1, Invariance, PTL

\* A pending request never loses its entry in the time-out heap.
THEOREM HeapKeepsPending == Spec => []PendingHasDeadline
<1>1. IInv => PendingHasDeadline
  BY DEF IInv
<1> QED
  BY <1>1, Invariance, PTL

LEMMA OnePlace == IInv => EveryRequestInOnePlace
<1> SUFFICES ASSUME IInv, NEW n \in 0 .. request_counter - 1
             PROVE  Cardinality(PlacesOf(n)) = 1
  BY DEF EveryRequestInOnePlace
<1>1. /\ DOMAIN ctrl_chan = 1 .. Len(ctrl_chan)
      /\ DOMAIN event_channel = 1 .. Len(event_channel)
  BY DEF IInv, TypeOK
<1>2. n \in RequestNums
  BY DEF IInv, TypeOK, RequestNums
<1>3. SUFFICES \E x : PlacesOf(n) = {x}
  BY FS_Singleton
<1>4. CASE \E i \in 1 .. Len(ctrl_chan) : Asks(ctrl_chan[i], n)
  <2>1. PICK i \in 1 .. Len(ctrl_chan) : Asks(ctrl_chan[i], n)
    BY <1>4
  <2>2. PlacesOf(n) = {<<"ctrl_chan", i>>}
    BY <1>1, <1>2, <2>1
       DEF PlacesOf, Travelling, IInv, AtMostOnePlace, Asks
  <2> QED
    BY <2>2
<1>5. CASE \E id \in DOMAIN requests : requests[id] = n
  <2>1. PICK id \in DOMAIN requests : requests[id] = n
    BY <1>5
  <2>2. PlacesOf(n) = {<<"requests", id>>}
    BY <1>1, <2>1 DEF PlacesOf, Travelling, IInv, AtMostOnePlace, Asks
  <2> QED
    BY <2>2
<1>6. CASE \E j \in 1 .. Len(event_channel) : event_channel[j].request_num = n
  <2>1. PICK j \in 1 .. Len(event_channel) : event_channel[j].request_num = n
    BY <1>6
  <2>2. PlacesOf(n) = {<<"event_channel", j>>}
    BY <1>1, <2>1 DEF PlacesOf, Travelling, IInv, AtMostOnePlace, Asks
  <2> QED
    BY <2>2
<1> QED
  BY <1>4, <1>5, <1>6 DEF IInv, SomePlace

\* No request is lost on its way through the handler, and none is answered
\* twice: time-outs, late responses and unsolicited ones notwithstanding.
THEOREM NothingLostOrDoubled == Spec => []EveryRequestInOnePlace
BY OnePlace, Invariance, PTL

-----------------------------------------------------------------------------
(* Refinement *)

LEMMA SettleRefined ==
  ASSUME IInv, NEW id \in DOMAIN requests, NEW value \in {"response", "timeout"},
         Answer(id, value), value = "timeout" => now > due[requests[id]],
         UNCHANGED <<now, due>>
  PROVE  Promise!Next
<1> DEFINE n == requests[id]
<1>1. n \in Promise!Issued
  BY DEF Promise!Issued, IInv, BookOK, TypeOK
<1>2. n \notin Promise!Answered
  <2>1. DOMAIN event_channel = 1 .. Len(event_channel)
    BY DEF IInv, TypeOK
  <2> QED
    BY <2>1 DEF Promise!Answered, IInv, AtMostOnePlace
<1>3. event_channel' = Append(event_channel, [request_num |-> n, value |-> value])
  BY DEF Answer, Dispatch
<1>4. Promise!Settle(n, value)
  BY <1>2, <1>3 DEF Promise!Settle
<1> QED
  BY <1>1, <1>4 DEF Promise!Next

LEMMA StepRefined == IInv /\ [Next]_vars => [Promise!Next]_(Promise!vars)
<1> SUFFICES ASSUME IInv, [Next]_vars
             PROVE  Promise!Next \/ UNCHANGED <<now, due, event_channel>>
  BY DEF Promise!vars
<1>1. CASE Request
  <2> DEFINE n == request_counter
  <2>1. /\ due' = Insert(due, n, now + Timeout)
        /\ UNCHANGED <<now, event_channel>>
    BY <1>1 DEF Request
  <2>2. n \in Nat /\ now \in Nat /\ DOMAIN due = 0 .. n - 1
    BY DEF IInv, TypeOK, Times
  <2>3. /\ DOMAIN due' = DOMAIN due \union {n}
        /\ due'[n] = now + Timeout
        /\ \A m \in DOMAIN due : m < n /\ due'[m] = due[m]
    BY <2>1, <2>2 DEF Insert
  <2>4. now + Timeout >= now
    BY <2>2
  <2>5. Promise!Issue
    BY <2>1, <2>3, <2>4 DEF Promise!Issue, Promise!Issued
  <2> QED
    BY <2>5 DEF Promise!Next
<1>2. CASE Tick
  <2>1. now' > now /\ UNCHANGED <<due, event_channel>>
    BY <1>2 DEF Tick, handleVars, IInv, TypeOK, Times
  <2> QED
    BY <2>1 DEF Promise!Next, Promise!Tick
<1>3. CASE HandleTimeout
  <2>1. PICK top \in Tops : Expired(top) /\ Answer(top.key, "timeout")
    BY <1>3 DEF HandleTimeout
  <2>2. UNCHANGED <<now, due>>
    BY <1>3 DEF HandleTimeout, handleVars
  <2>3. CASE top.key \in DOMAIN requests
    <3>1. now > due[requests[top.key]]
      BY <2>1, <2>3 DEF Expired, Tops, IInv, BookOK
    <3> QED
      BY <2>1, <2>2, <2>3, <3>1, SettleRefined
  <2>4. CASE top.key \notin DOMAIN requests
    BY <2>1, <2>2, <2>4 DEF Answer
  <2> QED
    BY <2>3, <2>4
<1>4. CASE HandlePacket
  <2>1. Answer(Head(inbox), "response") /\ UNCHANGED <<now, due>>
    BY <1>4 DEF HandlePacket, handleVars
  <2>2. CASE Head(inbox) \in DOMAIN requests
    BY <2>1, <2>2, SettleRefined
  <2>3. CASE Head(inbox) \notin DOMAIN requests
    BY <2>1, <2>3 DEF Answer
  <2> QED
    BY <2>2, <2>3
<1>5. CASE \/ Send \/ ClientRespond \/ FireDelay \/ BeginPoll \/ HandleCommand
           \/ CommandsNotReady \/ TimeoutsNotReady \/ ConnectionNotReady
           \/ UNCHANGED vars
  BY <1>5 DEF Send, ClientRespond, FireDelay, BeginPoll, HandleCommand,
              CommandsNotReady, TimeoutsNotReady, ConnectionNotReady, vars,
              handleVars
<1> QED
  BY <1>1, <1>2, <1>3, <1>4, <1>5 DEF Next, Handler

\* The handler implements AnswerOnce: each request is answered at most once
\* and never timed out before its deadline, whatever the client does.
THEOREM Refinement == Spec => ImplementsAnswerOnce
<1>1. Init => Promise!Init
  BY DEF Init, Promise!Init, Promise!Issued
<1>2. IInv /\ [Next]_vars => [Promise!Next]_(Promise!vars)
  BY StepRefined
<1> QED
  BY <1>1, <1>2, Invariance, PTL DEF Spec, ImplementsAnswerOnce, Promise!Spec

-----------------------------------------------------------------------------
(* The ids the client sees *)

\* A message id is given out once, and a pending request was posted under the
\* id it is pending under.
PostsOK ==
    /\ \A i \in 1 .. Len(outbox) : outbox[i].message_id < message_counter
    /\ \A i, j \in 1 .. Len(outbox) :
          outbox[i].message_id = outbox[j].message_id => i = j
    /\ \A id \in DOMAIN requests : \E i \in 1 .. Len(outbox) :
          outbox[i] = [message_id |-> id, request_num |-> requests[id]]

\* Requests only leave the book, as they do when one is answered.
LEMMA PostsShrink ==
  ASSUME PostsOK, UNCHANGED <<outbox, message_counter>>,
         DOMAIN requests' \subseteq DOMAIN requests,
         \A id \in DOMAIN requests' : requests'[id] = requests[id]
  PROVE  PostsOK'
BY DEF PostsOK

LEMMA PostsAnswer ==
  ASSUME PostsOK, UNCHANGED <<outbox, message_counter>>,
         NEW id, NEW value, Answer(id, value)
  PROVE  PostsOK'
<1>1. /\ DOMAIN requests' \subseteq DOMAIN requests
      /\ \A k \in DOMAIN requests' : requests'[k] = requests[k]
  BY DEF Answer, Remove
<1> QED
  BY <1>1, PostsShrink

LEMMA PostsHandleCommand ==
  ASSUME IInv, PostsOK, HandleCommand
  PROVE  PostsOK'
<1> DEFINE cmd == Head(ctrl_chan)
           c == message_counter
           L == Len(outbox)
           post == [message_id |-> c, request_num |-> cmd.request_num]
<1>1. /\ outbox' = Append(outbox, post)
      /\ c \in Nat /\ c \in MessageIds /\ c' = c + 1
      /\ cmd \in Commands
  <2>1. /\ outbox' = Append(outbox, post) /\ ctrl_chan # <<>> /\ c' = c + 1
    BY DEF HandleCommand, create_request, create_message
  <2>2. cmd \in Commands /\ Len(ctrl_chan) \in Nat \ {0}
    BY <2>1, TailFacts DEF IInv, TypeOK
  <2>3. c \in Nat /\ request_counter \in 0 .. MaxRequests
        /\ c + Len(ctrl_chan) <= request_counter + MaxMessages
    BY DEF IInv, TypeOK, Counted
  <2> QED
    BY <2>1, <2>2, <2>3 DEF MessageIds
<1>2. /\ L \in Nat /\ Len(outbox') = L + 1
      /\ \A i \in 1 .. L : outbox'[i] = outbox[i]
      /\ outbox'[L + 1] = post
  <2>1. post \in Posts
    BY <1>1 DEF Posts, Commands
  <2> QED
    BY <1>1, <2>1, AppendFacts DEF IInv, TypeOK
<1>3. \A i \in 1 .. L : outbox[i].message_id \in Int /\ outbox[i].message_id < c
  <2>1. \A i \in 1 .. L : outbox[i] \in Posts
    BY DEF IInv, TypeOK
  <2>2. MessageIds \subseteq Int
    BY DEF MessageIds
  <2> QED
    BY <2>1, <2>2 DEF PostsOK, Posts
<1>4. /\ outbox'[L + 1].message_id = c
      /\ \A i \in 1 .. L + 1 : i \in 1 .. L \/ i = L + 1
  BY <1>2
<1>5. \A i \in 1 .. L + 1 : outbox'[i].message_id < c'
  BY <1>1, <1>2, <1>3, <1>4
<1>6. \A i, j \in 1 .. L + 1 :
        outbox'[i].message_id = outbox'[j].message_id => i = j
  BY <1>1, <1>2, <1>3, <1>4 DEF PostsOK
<1>7. \A id \in DOMAIN requests' : \E i \in 1 .. L + 1 :
        outbox'[i] = [message_id |-> id, request_num |-> requests'[id]]
  <2> SUFFICES ASSUME NEW id \in DOMAIN requests'
               PROVE  \E i \in 1 .. L + 1 :
                 outbox'[i] = [message_id |-> id, request_num |-> requests'[id]]
    OBVIOUS
  <2>1. CASE id \in DOMAIN requests /\ requests'[id] = requests[id]
    <3>1. PICK i \in 1 .. L :
            outbox[i] = [message_id |-> id, request_num |-> requests[id]]
      BY <2>1 DEF PostsOK
    <3> QED
      BY <1>2, <2>1, <3>1
  <2>2. CASE id = c /\ requests'[id] = cmd.request_num
    <3>1. L + 1 \in 1 .. L + 1
      BY <1>2
    <3> QED
      BY <1>2, <2>2, <3>1
  <2>3. CASE cmd.kind = "request"
    <3>1. requests' = Insert(requests, c, cmd.request_num)
      BY <2>3 DEF HandleCommand, create_request
    <3> QED
      BY <2>1, <2>2, <3>1 DEF Insert
  <2>4. CASE cmd.kind # "request"
    <3>1. requests' = requests
      BY <2>4 DEF HandleCommand, create_message
    <3> QED
      BY <2>1, <3>1
  <2> QED
    BY <2>3, <2>4
<1> QED
  BY <1>2, <1>5, <1>6, <1>7 DEF PostsOK

LEMMA PostsNext == IInv /\ PostsOK /\ [Next]_vars => PostsOK'
<1> SUFFICES ASSUME IInv, PostsOK, [Next]_vars PROVE PostsOK'
  OBVIOUS
<1>1. CASE HandleTimeout
  BY <1>1, PostsAnswer DEF HandleTimeout
<1>2. CASE HandlePacket
  BY <1>2, PostsAnswer DEF HandlePacket
<1>3. CASE \/ Request \/ Send \/ ClientRespond \/ Tick \/ FireDelay
           \/ BeginPoll \/ CommandsNotReady \/ TimeoutsNotReady
           \/ ConnectionNotReady \/ UNCHANGED vars
  <2>1. UNCHANGED <<outbox, message_counter, requests>>
    BY <1>3 DEF Request, Send, ClientRespond, Tick, FireDelay, BeginPoll,
                CommandsNotReady, TimeoutsNotReady, ConnectionNotReady, vars,
                bookVars
  <2> QED
    BY <2>1, PostsShrink
<1> QED
  BY <1>1, <1>2, <1>3, PostsHandleCommand DEF Next, Handler

\* The ids a client is given are distinct, and each pending request was sent
\* under its own: what the client answers settles the request it was asked.
THEOREM IdsNameRequests == Spec => []ResponseNamesItsRequest
<1>1. Init => PostsOK
  BY DEF Init, PostsOK
<1>2. IInv /\ PostsOK /\ [Next]_vars => PostsOK'
  BY PostsNext
<1>3. IInv /\ PostsOK => ResponseNamesItsRequest
  <2>1. IInv => DOMAIN outbox = 1 .. Len(outbox)
    BY DEF IInv, TypeOK
  <2> QED
    BY <2>1 DEF PostsOK, ResponseNamesItsRequest
<1> QED
  BY <1>1, <1>2, <1>3, Invariance, PTL DEF Spec
=============================================================================
