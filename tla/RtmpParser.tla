----------------------------- MODULE RtmpParser -----------------------------
(* The receiving side of RtmpImpl (rtmp/RtmpImpl.js): the handshake and the    *)
(* chunk parser behind feed(), fed with the bytes of a peer that the network   *)
(* cuts anywhere.                                                              *)
(*                                                                             *)
(* A call of feed() is the step Feed, which brings bytes, and the steps of its *)
(* loop, one per pass through the switch statements of feed() and chunkRead(), *)
(* until the bytes are used up. Nothing else runs meanwhile, so no other step  *)
(* looks at the parser. As a client reconnects with the same RtmpImpl, the     *)
(* parser goes on with the bytes of a new connection. A handler that throws    *)
(* ends the process: nothing catches what leaves the data handler of a socket. *)
(*                                                                             *)
(* The peer is external: it writes messages as chunks of any format the        *)
(* protocol allows, interleaved by channel, or with createChunks, as a peer    *)
(* that runs this code does. It changes its chunk size between messages only.  *)
EXTENDS ChunkFormat

CONSTANTS
  Messages,          \* what the peer may send: [cid, type, stream_id, clock, payload]
  HandshakeSize,     \* RTMP_HANDSHAKE_SIZE, 1536
  DefaultChunkSize,  \* RTMP_CHUNK_SIZE, 128
  FourCCs,           \* FOURCC_AV1, FOURCC_VP9, FOURCC_HEVC
  UnreadableCommands,  \* the commands that decodeAmf0Cmd throws on
  MaxMessages,       \* bound: messages the peer begins
  WireBound,         \* bound: bytes between the peer and the parser
  LostAnywhere       \* the connection may be lost within a message

\* frameType of parsePacketFlag, three bits of the first byte
FrameType(payload) == (payload[1] \div (B \div 16)) % 8

ASSUME MessagesAssumption ==
  \A m \in Messages : /\ m.cid \in ChannelIds
                      /\ m.type \in Byte
                      /\ m.stream_id \in 0..MaxClock
                      /\ m.clock \in Nat
                      /\ m.payload \in Seq(Byte) /\ Len(m.payload) < B * B * B

\* A message that sets the chunk size holds four bytes, which are not zero.
ASSUME ChunkSizeAssumption ==
  \A m \in Messages : m.type = SET_PACKET_SIZE =>
    Len(m.payload) = 4 /\ ReadUInt32BE(m.payload) > 0 /\ m.clock <= MaxClock

\* A video message has the bytes that parsePacketFlag looks at, and a control
\* message those that its handler reads.
ASSUME PayloadsAssumption ==
  /\ FourCCs \subseteq [1..4 -> Byte] /\ UnreadableCommands \subseteq Seq(Byte)
  /\ \A m \in Messages :
       /\ m.type \in {CONTROL, WINDOW_ACKNOWLEDGEMENT_SIZE, SET_PEER_BANDWIDTH, VIDEO}
            => m.payload # <<>>
       /\ m.type = VIDEO /\ FrameType(m.payload) # 0 => Len(m.payload) >= 5

\* The parser tells the channels apart only as far as it reads their numbers.
ASSUME ChannelsAssumption ==
  \A m, n \in Messages :
    ChannelRead(BasicHeader(0, m.cid)) = ChannelRead(BasicHeader(0, n.cid)) => m.cid = n.cid

ASSUME SizesAssumption ==
  /\ HandshakeSize \in Nat \ {0} /\ DefaultChunkSize \in Nat \ {0}
  /\ MaxMessages \in Nat /\ WireBound \in Nat
  /\ LostAnywhere \in BOOLEAN

VARIABLES
  \* the peer and the network
  wire,            \* bytes on the way
  open,            \* channel -> the message in progress, and how much of it is sent
  last,            \* channel -> the last message begun there, and its timestamp field
  outSize,         \* the chunk size the peer uses
  begun,           \* how many messages the peer began
  sent,            \* history: the messages written completely that are to be handled
  \* the parser
  data,            \* the bytes that the current call of feed() has not used yet
  handshakeState, handshakeBytes,
  parserState, parserBuffer, parserBasicBytes,
  channel,         \* the channel of parserPacket, which is its entry in inPackets
  inPackets, inChunkSize,
  received,        \* history: the messages handled
  running          \* the process has not ended by an exception

peerVars == <<wire, open, last, outSize, begun, sent>>
handshakeVars == <<handshakeState, handshakeBytes>>
headerVars == <<parserBuffer, parserBasicBytes, channel>>
vars == <<peerVars, data, handshakeVars, parserState, headerVars, inPackets, inChunkSize,
          received, running>>

\* RtmpPacket; the handshake payload and what lies in a payload beyond its length
\* are never read, so neither is kept.
RtmpPacket(cid) ==
  [fmt |-> 0, cid |-> cid, timestamp |-> 0, length |-> 0, type |-> 0, stream_id |-> 0,
   clock |-> 0, payload |-> <<>>, bytes |-> 0]

Handshake == [i \in 1..(1 + 2 * HandshakeSize) |-> i % B]

Init ==
  /\ wire = Handshake
  /\ open = <<>> /\ last = <<>> /\ outSize = DefaultChunkSize /\ begun = 0 /\ sent = <<>>
  /\ data = <<>>
  /\ handshakeState = "UNINIT" /\ handshakeBytes = 0
  /\ parserState = "INIT" /\ parserBuffer = <<>> /\ parserBasicBytes = 0
  /\ channel = 0
  /\ inPackets = <<>>
  /\ inChunkSize = DefaultChunkSize
  /\ received = <<>>
  /\ running = TRUE

-----------------------------------------------------------------------------
(* The peer                                                                    *)

Without(f, x) == [y \in DOMAIN f \ {x} |-> f[y]]
Put(f, x, v) == [y \in DOMAIN f \cup {x} |-> IF y = x THEN v ELSE f[y]]

\* The peer writes between the calls of feed(): what it writes during one waits
\* in the socket and can as well be written after it.
Write(bytes) ==
  /\ running
  /\ data = <<>>
  /\ Len(wire) + Len(bytes) <= WireBound
  /\ wire' = wire \o bytes

\* What a reader can tell of a message: RtmpImpl passes no channel on.
Content(m) ==
  [type |-> m.type, stream_id |-> m.stream_id, clock |-> m.clock, payload |-> m.payload]

\* All of m is written; a new chunk size holds from the next chunk on. A clock
\* that left its 32 bits is where the code gives up: that message is not handled.
Completes(m) ==
  /\ sent' = IF m.clock > MaxClock THEN sent ELSE Append(sent, Content(m))
  /\ outSize' = IF m.type = SET_PACKET_SIZE THEN ReadUInt32BE(m.payload) ELSE outSize

\* The timestamp field of a message that begins with format fmt: the clock
\* itself, or what it advanced by
TimestampField(m, fmt) == IF fmt = 0 THEN m.clock ELSE m.clock - last[m.cid].message.clock

\* What format fmt leaves out has to be as in the message before on that channel.
MayUse(fmt, m) ==
  IF fmt = 0 THEN m.clock <= MaxClock
  ELSE /\ m.cid \in DOMAIN last
       /\ LET before == last[m.cid]
          IN  /\ TimestampField(m, fmt) \in 0..MaxClock
              /\ m.stream_id = before.message.stream_id
              /\ fmt >= 2 => m.type = before.message.type
                             /\ Len(m.payload) = Len(before.message.payload)
              /\ fmt = 3 => TimestampField(m, fmt) = before.timestamp

Begin(m) ==
  /\ begun < MaxMessages
  /\ m.cid \notin DOMAIN open
  /\ m.type = SET_PACKET_SIZE => DOMAIN open = {}
  /\ \A cid \in DOMAIN open : open[cid].message.type # SET_PACKET_SIZE
  /\ begun' = begun + 1

\* The first chunk of a message
BeginMessage ==
  \E m \in Messages, fmt \in 0..3 :
    /\ Begin(m) /\ MayUse(fmt, m)
    /\ LET timestamp == TimestampField(m, fmt)
       IN  /\ Write(Chunk(m, m.cid, fmt, timestamp, 0, outSize))
           /\ last' = Put(last, m.cid, [message |-> m, timestamp |-> timestamp])
           /\ IF Len(m.payload) <= outSize
                THEN Completes(m) /\ UNCHANGED open
                ELSE /\ open' = Put(open, m.cid, [message |-> m, from |-> outSize])
                     /\ UNCHANGED <<sent, outSize>>
    /\ UNCHANGED <<data, handshakeVars, parserState, headerVars, inPackets, inChunkSize,
                   received, running>>

\* A further chunk
ContinueMessage ==
  \E cid \in DOMAIN open :
    LET m == open[cid].message
        from == open[cid].from
    IN  /\ Write(Chunk(m, cid, 3, last[cid].timestamp, from, outSize))
        /\ IF Len(m.payload) <= from + outSize
             THEN Completes(m) /\ open' = Without(open, cid)
             ELSE open' = [open EXCEPT ![cid].from = from + outSize] /\ UNCHANGED <<sent, outSize>>
        /\ UNCHANGED <<last, begun, data, handshakeVars, parserState, headerVars,
                       inPackets, inChunkSize, received, running>>

\* A message of a peer that runs this code: createChunks writes it at once.
SendChunks ==
  \E m \in Messages :
    /\ m.cid = ChannelOf(m.type) /\ m.payload # <<>> /\ m.clock <= MaxClock
    /\ Begin(m)
    /\ Write(createChunks(m, outSize))
    /\ last' = Put(last, m.cid, [message |-> m, timestamp |-> m.clock])
    /\ Completes(m)
    /\ UNCHANGED <<open, data, handshakeVars, parserState, headerVars, inPackets,
                   inChunkSize, received, running>>

\* The socket of a client closes and connects again, with a new peer, and the
\* connect handler of RtmpClient resets handshakeState and nothing else.
LostConnection ==
  /\ running
  /\ data = <<>>
  /\ LostAnywhere \/ handshakeState # "COMP"
                  \/ /\ wire = <<>> /\ DOMAIN open = {}
                     /\ parserState = "INIT" /\ outSize = DefaultChunkSize
  /\ wire' = Handshake
  /\ handshakeState' = "UNINIT"
  /\ open' = <<>> /\ last' = <<>> /\ outSize' = DefaultChunkSize
  /\ sent' = received
  /\ UNCHANGED <<begun, data, handshakeBytes, parserState, headerVars, inPackets,
                 inChunkSize, received, running>>

-----------------------------------------------------------------------------
(* The parser                                                                  *)

Feed ==
  /\ running
  /\ data = <<>>
  /\ \E n \in 1..Len(wire) :
       /\ data' = SubSeq(wire, 1, n)
       /\ wire' = SubSeq(wire, n + 1, Len(wire))
  /\ UNCHANGED <<open, last, outSize, begun, sent, handshakeVars, parserState, headerVars,
                 inPackets, inChunkSize, received, running>>

Least(x, y) == IF x < y THEN x ELSE y
Use(n) == data' = SubSeq(data, n + 1, Len(data))

(* feed() *)

ReadVersion ==
  /\ running /\ data # <<>> /\ handshakeState = "UNINIT"
  /\ Use(1)
  /\ handshakeState' = "BEGIN" /\ handshakeBytes' = 0
  /\ UNCHANGED <<peerVars, parserState, headerVars, inPackets, inChunkSize, received, running>>

\* Variant with a defect: the count is not reset for the second signature.
ReadSignatureUnreset(state, next) ==
  /\ running /\ data # <<>> /\ handshakeState = state
  /\ LET n == Least(HandshakeSize - handshakeBytes, Len(data))
     IN  /\ Use(n)
         /\ handshakeBytes' = handshakeBytes + n
         /\ handshakeState' = IF handshakeBytes + n = HandshakeSize THEN next ELSE state
  /\ UNCHANGED <<peerVars, parserState, headerVars, inPackets, inChunkSize, received, running>>

ReadSignature(state, next) ==
  /\ running /\ data # <<>> /\ handshakeState = state
  /\ LET n == Least(HandshakeSize - handshakeBytes, Len(data))
     IN  /\ Use(n)
         /\ IF handshakeBytes + n = HandshakeSize
              THEN handshakeState' = next /\ handshakeBytes' = 0
              ELSE handshakeBytes' = handshakeBytes + n /\ UNCHANGED handshakeState
  /\ UNCHANGED <<peerVars, parserState, headerVars, inPackets, inChunkSize, received, running>>

(* chunkRead() *)

Reading(state) == running /\ data # <<>> /\ handshakeState = "COMP" /\ parserState = state

\* Takes bytes into parserBuffer until it holds size of them; parserBytes is its
\* length.
Collect(size) ==
  LET n == Least(IF size > Len(parserBuffer) THEN size - Len(parserBuffer) ELSE 0, Len(data))
  IN  /\ Use(n)
      /\ parserBuffer' = parserBuffer \o SubSeq(data, 1, n)

\* Variant with a defect: the header of the chunk before is kept.
ReadFirstByteAppended ==
  /\ Reading("INIT")
  /\ Use(1)
  /\ parserBuffer' = Append(parserBuffer, Head(data))
  /\ parserBasicBytes' = BasicBytes(Head(data))
  /\ parserState' = "BASIC_HEADER"
  /\ UNCHANGED <<peerVars, handshakeVars, channel, inPackets, inChunkSize, received, running>>

ReadFirstByte ==
  /\ Reading("INIT")
  /\ Use(1)
  /\ parserBuffer' = <<Head(data)>>
  /\ parserBasicBytes' = BasicBytes(Head(data))
  /\ parserState' = "BASIC_HEADER"
  /\ UNCHANGED <<peerVars, handshakeVars, channel, inPackets, inChunkSize, received, running>>

\* Variant with a defect: > for >=.
ReadBasicHeaderStrict ==
  /\ Reading("BASIC_HEADER")
  /\ Collect(parserBasicBytes)
  /\ parserState' = IF Len(parserBuffer') > parserBasicBytes THEN "MESSAGE_HEADER" ELSE parserState
  /\ UNCHANGED <<peerVars, handshakeVars, parserBasicBytes, channel, inPackets, inChunkSize,
                 received, running>>

ReadBasicHeader ==
  /\ Reading("BASIC_HEADER")
  /\ Collect(parserBasicBytes)
  /\ parserState' = IF Len(parserBuffer') >= parserBasicBytes THEN "MESSAGE_HEADER" ELSE parserState
  /\ UNCHANGED <<peerVars, handshakeVars, parserBasicBytes, channel, inPackets, inChunkSize,
                 received, running>>

Format(buffer) == buffer[1] \div Direct

\* Variant with a defect: format 1 keeps the length of the message before.
HeaderReadKeepsLength(packet, buffer, basicBytes) ==
  LET fmt == Format(buffer)
      field(from) == ReadUInt24BE(SubSeq(buffer, basicBytes + from + 1, basicBytes + from + 3))
  IN  [packet EXCEPT !.fmt = fmt,
                     !.timestamp = IF fmt <= 2 THEN field(0) ELSE @,
                     !.length = IF fmt = 0 THEN field(3) ELSE @,
                     !.type = IF fmt <= 1 THEN buffer[basicBytes + 7] ELSE @,
                     !.stream_id = IF fmt = 0
                       THEN ReadUInt32BE(Reverse(SubSeq(buffer, basicBytes + 8, basicBytes + 11)))
                       ELSE @]

\* chunkMessageHeaderRead: the fields the format has; the others stay.
HeaderRead(packet, buffer, basicBytes) ==
  LET fmt == Format(buffer)
      field(from) == ReadUInt24BE(SubSeq(buffer, basicBytes + from + 1, basicBytes + from + 3))
  IN  [packet EXCEPT !.fmt = fmt,
                     !.timestamp = IF fmt <= 2 THEN field(0) ELSE @,
                     !.length = IF fmt <= 1 THEN field(3) ELSE @,
                     !.type = IF fmt <= 1 THEN buffer[basicBytes + 7] ELSE @,
                     !.stream_id = IF fmt = 0
                       THEN ReadUInt32BE(Reverse(SubSeq(buffer, basicBytes + 8, basicBytes + 11)))
                       ELSE @]

\* packetParse when the header is there
ReadMessageHeader ==
  /\ Reading("MESSAGE_HEADER")
  /\ LET size == rtmpHeaderSize[Format(parserBuffer)] + parserBasicBytes
     IN  /\ Collect(size)
         /\ IF Len(parserBuffer') >= size
              THEN LET cid == ChannelRead(parserBuffer')
                       packet == IF cid \in DOMAIN inPackets THEN inPackets[cid] ELSE RtmpPacket(cid)
                   IN  /\ channel' = cid
                       /\ inPackets' = Put(inPackets, cid, HeaderRead(packet, parserBuffer', parserBasicBytes))
                       /\ parserState' = "EXTENDED_TIMESTAMP"
              ELSE UNCHANGED <<channel, inPackets, parserState>>
  /\ UNCHANGED <<peerVars, handshakeVars, parserBasicBytes, inChunkSize, received, running>>

\* Variant with a defect: every chunk moves the clock.
StartedAgain(packet, timestamp) ==
  [packet EXCEPT !.clock = IF packet.fmt = 0 THEN timestamp ELSE @ + timestamp]

\* The packet at the end of the header: a first chunk moves its clock.
Started(packet, timestamp) ==
  IF packet.bytes = 0
    THEN [packet EXCEPT !.clock = IF packet.fmt = 0 THEN timestamp ELSE @ + timestamp]
    ELSE packet

ReadExtendedTimestamp ==
  /\ Reading("EXTENDED_TIMESTAMP")
  /\ LET packet == inPackets[channel]
         header == rtmpHeaderSize[packet.fmt] + parserBasicBytes
         extended == packet.timestamp = TimestampMark
         size == IF extended THEN header + 4 ELSE header
     IN  /\ Collect(size)
         /\ IF Len(parserBuffer') >= size
              THEN LET timestamp == IF extended
                                      THEN ReadUInt32BE(SubSeq(parserBuffer', header + 1, header + 4))
                                      ELSE packet.timestamp
                   IN  /\ inPackets' = [inPackets EXCEPT ![channel] = Started(packet, timestamp)]
                       /\ parserState' = "PAYLOAD"
              ELSE UNCHANGED <<inPackets, parserState>>
  /\ UNCHANGED <<peerVars, handshakeVars, parserBasicBytes, channel, inChunkSize, received, running>>

\* createMessage throws: createChunks writes the extended timestamp behind the
\* buffer of an empty payload, and parsePacketFlag compares enhanced video with
\* names that its module does not import.
MessageThrows(packet) ==
  /\ packet.type \in {AUDIO, VIDEO, DATA, DATA_EXTENDED}
  /\ \/ packet.payload = <<>> /\ packet.clock >= TimestampMark
     \/ /\ packet.type = VIDEO /\ packet.payload # <<>>
        /\ FrameType(packet.payload) # 0
        /\ \E fourCC \in FourCCs : IsPrefix(fourCC, Tail(packet.payload))

\* The command of packetHandler; an extended one has a byte before it.
CommandThrows(packet) ==
  \/ packet.type = COMMAND /\ packet.payload \in UnreadableCommands
  \/ packet.type = COMMAND_EXTENDED /\ SubSeq(packet.payload, 2, packet.length) \in UnreadableCommands

Throws(packet) == MessageThrows(packet) \/ CommandThrows(packet)

\* Variant with a defect: the chunk size is noted but not used.
HandleForgets(packet) ==
  /\ received' = IF packet.clock > MaxClock THEN received ELSE Append(received, Content(packet))
  /\ UNCHANGED <<inChunkSize, running>>

\* packetHandler: a message whose clock left its 32 bits is not handled, and one
\* that its handler throws on never reaches a listener. The only one whose handling
\* changes the parser is that which sets the chunk size.
Handle(packet) ==
  \/ packet.clock > MaxClock /\ UNCHANGED <<received, inChunkSize, running>>
  \/ /\ packet.clock <= MaxClock /\ Throws(packet)
     /\ running' = FALSE
     /\ UNCHANGED <<received, inChunkSize>>
  \/ /\ packet.clock <= MaxClock /\ ~Throws(packet)
     /\ received' = Append(received, Content(packet))
     /\ inChunkSize' = IF packet.type = SET_PACKET_SIZE
                         THEN ReadUInt32BE(SubSeq(packet.payload, 1, 4))
                         ELSE inChunkSize
     /\ UNCHANGED running

ReadPayload ==
  /\ Reading("PAYLOAD")
  /\ LET packet == inPackets[channel]
         size == Least(Least(inChunkSize - (packet.bytes % inChunkSize), packet.length - packet.bytes),
                       Len(data))
         bytes == packet.bytes + size
         filled == [packet EXCEPT !.payload = SubSeq(@, 1, packet.bytes) \o SubSeq(data, 1, size),
                                  !.bytes = IF bytes >= packet.length THEN 0 ELSE bytes]
     IN  /\ Use(size)
         /\ inPackets' = [inPackets EXCEPT ![channel] = filled]
         /\ parserState' = IF bytes >= packet.length \/ bytes % inChunkSize = 0
                             THEN "INIT" ELSE parserState
         /\ IF bytes >= packet.length THEN Handle(filled)
                                      ELSE UNCHANGED <<received, inChunkSize, running>>
  /\ UNCHANGED <<peerVars, handshakeVars, headerVars>>

Parse ==
  \/ ReadVersion
  \/ ReadSignature("BEGIN", "CONT")
  \/ ReadSignature("CONT", "COMP")
  \/ ReadFirstByte
  \/ ReadBasicHeader
  \/ ReadMessageHeader
  \/ ReadExtendedTimestamp
  \/ ReadPayload

Peer == BeginMessage \/ ContinueMessage \/ SendChunks \/ LostConnection

Next == Peer \/ Feed \/ Parse

Spec == Init /\ [][Next]_vars

\* feed() runs its loop to the end.
FairSpec == Spec /\ WF_vars(Parse)

-----------------------------------------------------------------------------
\* The values of the variables.  A header never exceeds parserBuffer: Node drops
\* what is written behind its end.
MAX_CHUNK_HEADER == 18
TypeOK ==
  /\ wire \in Seq(Byte) /\ data \in Seq(Byte)
  /\ parserBuffer \in Seq(Byte) /\ Len(parserBuffer) <= MAX_CHUNK_HEADER
  /\ \A cid \in DOMAIN open : open[cid].message \in Messages
  /\ outSize \in Nat \ {0} /\ inChunkSize \in Nat \ {0}
  /\ begun \in 0..MaxMessages
  /\ handshakeState \in {"UNINIT", "BEGIN", "CONT", "COMP"}
  /\ handshakeBytes \in 0..(HandshakeSize - 1)
  /\ parserState \in {"INIT", "BASIC_HEADER", "MESSAGE_HEADER", "EXTENDED_TIMESTAMP", "PAYLOAD"}
  /\ parserBasicBytes \in 0..3
  /\ \A cid \in DOMAIN inPackets :
       /\ inPackets[cid].bytes \in 0..inPackets[cid].length
       /\ inPackets[cid].payload \in Seq(Byte)
  /\ parserState \in {"EXTENDED_TIMESTAMP", "PAYLOAD"} => channel \in DOMAIN inPackets

\* However the network cuts the bytes and the peer interleaves, formats and sizes
\* its chunks, the messages handled are those that were sent, with their type,
\* stream, time and payload, none twice, none missing in between, none made up
\* (feed, chunkRead, packetHandler; for createChunks too).
ReadsWhatWasSent == IsPrefix(received, sent)

\* When feed() has used all that was sent, every message was handled that was
\* sent completely. The exception is a last message with an empty payload: the
\* loop leaves it until a byte of the next chunk comes.
NothingHeldBack ==
  running /\ data = <<>> /\ wire = <<>> /\ received # sent
    => /\ received = Front(sent)
       /\ sent[Len(sent)].payload = <<>>

\* The reader uses the chunk size of the writer whenever it has read all there
\* is: neither runs ahead (SET_PACKET_SIZE in controlHandler).
ChunkSizesAgree ==
  running /\ data = <<>> /\ wire = <<>> /\ received = sent => inChunkSize = outSize

\* Every call of feed() ends, with all bytes used or by an exception: no state of
\* the parser waits in the loop for bytes it does not have.
FeedReturns == data # <<>> ~> (data = <<>> \/ ~running)

=============================================================================
