------------------------------ MODULE Framing -------------------------------
(***************************************************************************)
(* Messages over a byte stream: each is written as its length, a varint,   *)
(* and its bytes, and the stream is read in chunks cut anywhere.  There    *)
(* are two readers: ProtobufReader of the client library, which parses all *)
(* it can of each chunk, and LengthDelimited of the game server, which     *)
(* tokio's Framed asks for one message at a time and which remembers a     *)
(* length it has read.  Both read here what one peer writes.               *)
(***************************************************************************)
EXTENDS Naturals, SequencesExt

CONSTANTS
    Base,            \* values of a group of a varint: 128
    Messages,        \* sequences of bytes
    AtHead,          \* DecoderState::Head
    MaxSent          \* bound: messages written

Byte == 0 .. 2 * Base - 1

FramingAssumption ==
    /\ Base \in Nat \ {0, 1} /\ MaxSent \in Nat
    /\ \A m \in Messages : m \in Seq(Byte)

VARIABLES
    sent,        \* messages written to the stream
    toClient,    \* bytes on their way to the client
    buffer,      \* ProtobufReader.buffer
    pushed,      \* messages it pushed
    toServer,    \* bytes on their way to the server
    buf,         \* the buffer of Framed
    expected,    \* DecoderState: Data(n), or AtHead
    decoded,     \* messages it decoded
    open         \* whether the connection is open

clientVars == <<toClient, buffer, pushed>>
serverVars == <<toServer, buf, expected, decoded>>
vars == <<sent, clientVars, serverVars, open>>

Init ==
    /\ sent = <<>> /\ open = TRUE
    /\ toClient = <<>> /\ buffer = <<>> /\ pushed = <<>>
    /\ toServer = <<>> /\ buf = <<>> /\ expected = AtHead /\ decoded = <<>>
-----------------------------------------------------------------------------
\* A varint: groups, the least significant first, all but the last marked.
Varint(n) ==
    LET groups[k \in 0 .. n] ==
          IF k < Base THEN <<k>> ELSE <<(k % Base) + Base>> \o groups[k \div Base]
    IN groups[n]

\* The encoders: ldelim of protobufjs, and LengthDelimited.encode.
Encoded(message) == Varint(Len(message)) \o message

\* The bytes of the varint at the start, 0 if it is not all there.
VarintLen(bytes) == SelectInSeq(bytes, LAMBDA b : b < Base)

VarintValue(bytes) ==
    FoldRight(LAMBDA b, n : n * Base + (b % Base), SubSeq(bytes, 1, VarintLen(bytes)), 0)

Drop(bytes, n) == SubSeq(bytes, n + 1, Len(bytes))
-----------------------------------------------------------------------------
Write(message) ==
    /\ open /\ Len(sent) < MaxSent
    /\ sent' = Append(sent, message)
    /\ toClient' = toClient \o Encoded(message)
    /\ toServer' = toServer \o Encoded(message)
    /\ UNCHANGED <<buffer, pushed, buf, expected, decoded, open>>

\* What is on its way is lost; the readers are told of the end, and drop what
\* they hold of a message.
Close ==
    /\ open
    /\ open' = FALSE
    /\ toClient' = <<>> /\ toServer' = <<>>
    /\ UNCHANGED <<sent, buffer, pushed, buf, expected, decoded>>

\* Whether the length and the data of a message are all there.
Complete(bytes) ==
    /\ VarintLen(bytes) # 0
    /\ VarintLen(bytes) + VarintValue(bytes) <= Len(bytes)

\* ProtobufReader.readMessages: the complete messages from pos on, and where
\* the rest starts.
ReadMessages(bytes) ==
    LET read[pos \in 0 .. Len(bytes)] ==
          LET rest  == Drop(bytes, pos)
              start == VarintLen(rest)
              end   == start + VarintValue(rest)
          IN IF ~Complete(rest) THEN [messages |-> <<>>, pos |-> pos]
             ELSE [messages |-> <<SubSeq(rest, start + 1, end)>>
                                  \o read[pos + end].messages,
                   pos |-> read[pos + end].pos]
    IN read[0]

Kept(bytes, pos) == Drop(bytes, pos)

\* ProtobufReader._transform
Transform(n) ==
    LET bytes == buffer \o SubSeq(toClient, 1, n)
        read  == ReadMessages(bytes)
    IN /\ toClient' = Drop(toClient, n)
       /\ pushed' = pushed \o read.messages
       /\ buffer' = Kept(bytes, read.pos)
       /\ UNCHANGED <<sent, serverVars, open>>

\* LengthDelimited.decode_head
DecodeHead ==
    /\ expected = AtHead /\ VarintLen(buf) # 0
    /\ expected' = VarintValue(buf)
    /\ buf' = Drop(buf, VarintLen(buf))
    /\ UNCHANGED <<sent, toServer, decoded, open, clientVars>>

AfterData == AtHead

\* LengthDelimited.decode_data
DecodeData ==
    /\ expected # AtHead
    /\ expected <= Len(buf)
    /\ decoded' = Append(decoded, SubSeq(buf, 1, expected))
    /\ buf' = Drop(buf, expected)
    /\ expected' = AfterData
    /\ UNCHANGED <<sent, toServer, open, clientVars>>

\* Framed reads more only when there is nothing to decode.
ReadChunk(n) ==
    /\ IF expected = AtHead THEN VarintLen(buf) = 0 ELSE expected > Len(buf)
    /\ buf' = buf \o SubSeq(toServer, 1, n)
    /\ toServer' = Drop(toServer, n)
    /\ UNCHANGED <<sent, expected, decoded, open, clientVars>>

Next ==
    \/ \E m \in Messages : Write(m)
    \/ Close
    \/ \E n \in 1 .. Len(toClient) : Transform(n)
    \/ \E n \in 1 .. Len(toServer) : ReadChunk(n)
    \/ DecodeHead \/ DecodeData

\* Bytes on a connection that stays open arrive, and are read.
Fairness ==
    /\ WF_vars(\E n \in 1 .. Len(toClient) : Transform(n))
    /\ WF_vars(\E n \in 1 .. Len(toServer) : ReadChunk(n))
    /\ WF_vars(DecodeHead \/ DecodeData)

Spec == Init /\ [][Next]_vars /\ Fairness
-----------------------------------------------------------------------------
\* The types of the state.
TypeOK ==
    /\ sent \in Seq(Messages) /\ open \in BOOLEAN
    /\ {toClient, buffer, toServer, buf} \subseteq Seq(Byte)
    /\ expected = AtHead \/ expected \in {Len(m) : m \in Messages}

\* However the stream is cut, in a length, between it and the data or in the
\* data, and whatever bytes the data is made of, each reader has the messages
\* that were sent, whole and in order.
InOrderAndWhole ==
    IsPrefix(pushed, sent) /\ IsPrefix(decoded, sent)

\* No message waits in the client for a chunk that need not come: all that
\* arrived completely was pushed.
NothingHeldBack ==
    LET arrived == Len(FlattenSeq([i \in DOMAIN sent |-> Encoded(sent[i])]))
                     - Len(toClient)
        ends(k) == Len(FlattenSeq([i \in 1 .. k |-> Encoded(sent[i])]))
    IN open => \A k \in 1 .. Len(sent) : ends(k) <= arrived => k <= Len(pushed)

\* On a connection that stays open every message reaches both readers.
EverythingArrives ==
    \A k \in 1 .. MaxSent :
      Len(sent) = k ~> (~open \/ (Len(pushed) >= k /\ Len(decoded) >= k))
=============================================================================
