----------------------------- MODULE ChunkFormat -----------------------------
(* The bytes of RTMP chunks: the headers and the writer of RtmpMessage.js and  *)
(* the field reads of RtmpImpl.js.                                             *)
(*                                                                             *)
(* A byte is a number below B. The code has B = 256; every width scales with   *)
(* it: the two format bits of a basic header leave B \div 4 values for the     *)
(* channel, a timestamp has three digits and its extension four.               *)
EXTENDS Integers, Sequences, SequencesExt

CONSTANT B

ASSUME BaseAssumption == B \in Nat /\ B >= 32 /\ B % 4 = 0

Byte == 0..(B - 1)

\* CodecType
SET_PACKET_SIZE == 1
CONTROL == 4
WINDOW_ACKNOWLEDGEMENT_SIZE == 5
SET_PEER_BANDWIDTH == 6
AUDIO == 8
VIDEO == 9
DATA_EXTENDED == 15
COMMAND_EXTENDED == 17
DATA == 18
COMMAND == 20

\* The direct values of a basic header (64), 0xffffff and 0xffffffff
Direct == B \div 4
TimestampMark == B * B * B - 1
MaxClock == B * B * B * B - 1

\* The channels a basic header can name
ChannelIds == 2..(Direct + B * B - 1)

rtmpHeaderSize == [fmt \in 0..3 |-> <<11, 7, 3, 0>>[fmt + 1]]

\* Buffer.writeUIntBE(x, ..., 3), Buffer.writeUInt32BE, and how they are read
Digit(x) == x % B
WriteUInt24BE(x) == <<Digit((x \div B) \div B), Digit(x \div B), Digit(x)>>
WriteUInt32BE(x) ==
  <<Digit(((x \div B) \div B) \div B), Digit((x \div B) \div B), Digit(x \div B), Digit(x)>>
ReadUInt24BE(b) == (b[1] * B + b[2]) * B + b[3]
ReadUInt32BE(b) == ((b[1] * B + b[2]) * B + b[3]) * B + b[4]

\* chunkBasicHeaderCreate. As in the code, a channel of Direct + B - 1 takes the
\* long form although the middle one would do.
BasicHeader(fmt, cid) ==
  IF cid >= Direct + (B - 1)
    THEN <<fmt * Direct + 1, (cid - Direct) % B, ((cid - Direct) \div B) % B>>
  ELSE IF cid >= Direct THEN <<fmt * Direct, cid - Direct>>
  ELSE <<fmt * Direct + cid>>

\* parserBasicBytes, and the channel packetParse reads from a basic header. The
\* long form is not the inverse of BasicHeader: the code scales the whole sum.
BasicBytes(first) ==
  CASE first % Direct = 0 -> 2
    [] first % Direct = 1 -> 3
    [] OTHER -> 1

ChannelRead(buffer) ==
  CASE BasicBytes(buffer[1]) = 2 -> Direct + buffer[2]
    [] BasicBytes(buffer[1]) = 3 -> (Direct + buffer[2] + buffer[3]) * B
    [] OTHER -> buffer[1] % Direct

\* What the three bytes of a timestamp hold
Capped(timestamp) == IF timestamp >= TimestampMark THEN TimestampMark ELSE timestamp

\* chunkMessageHeaderCreate; the stream id is written low byte first.
MessageHeader(m, fmt, timestamp) ==
  (IF fmt <= 2 THEN WriteUInt24BE(Capped(timestamp)) ELSE <<>>)
  \o (IF fmt <= 1 THEN WriteUInt24BE(Len(m.payload)) \o <<m.type>> ELSE <<>>)
  \o (IF fmt = 0 THEN Reverse(WriteUInt32BE(m.stream_id)) ELSE <<>>)

ExtendedTimestamp(timestamp) ==
  IF timestamp >= TimestampMark THEN WriteUInt32BE(timestamp) ELSE <<>>

\* The chunk of m that starts at payload offset from, with chunks of size bytes
Chunk(m, cid, fmt, timestamp, from, size) ==
  BasicHeader(fmt, cid) \o MessageHeader(m, fmt, timestamp) \o ExtendedTimestamp(timestamp)
    \o SubSeq(m.payload, from + 1, IF from + size < Len(m.payload) THEN from + size ELSE Len(m.payload))

\* The channel createChunks gives a message, whatever channel it came on
ChannelOf(type) ==
  CASE type = AUDIO -> 4
    [] type = VIDEO -> 5
    [] type \in {DATA, DATA_EXTENDED} -> 6
    [] type \in {COMMAND, COMMAND_EXTENDED} -> 3
    [] OTHER -> 0

\* createChunks computes the length of its buffer in advance, ...
BufferLength(length, headerSize, extended, size) ==
  headerSize + length + (length \div size) * (1 + extended)
    - (IF length % size = 0 THEN 1 + extended ELSE 0)

\* ... fills it with a chunk of format 0 and, while there is more payload, chunks
\* of format 3, and returns all of it: what does not fit is cut off, and what is
\* not filled is zero. The further chunks start at regular distances.
createChunks(m, size) ==
  LET cid == ChannelOf(m.type)
      extended == Len(ExtendedTimestamp(m.clock))
      header == Len(BasicHeader(0, cid)) + rtmpHeaderSize[0] + extended
      first == Chunk(m, cid, 0, m.clock, 0, size)
      distance == Len(BasicHeader(3, cid)) + extended + size
      further(j) == Chunk(m, cid, 3, m.clock, j * size, size)
      byteOf(j, i) == IF j * size < Len(m.payload) /\ i <= Len(further(j)) THEN further(j)[i] ELSE 0
  IN  [i \in 1..BufferLength(Len(m.payload), header, extended, size) |->
         IF i <= Len(first) THEN first[i]
         ELSE LET behind == i - Len(first) - 1
              IN  byteOf((behind \div distance) + 1, (behind % distance) + 1)]

=============================================================================
