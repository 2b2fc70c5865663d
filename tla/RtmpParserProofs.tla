--------------------------- MODULE RtmpParserProofs ---------------------------
(* What holds of the chunk format and of its parser for every base, every size *)
(* and all messages.                                                           *)
(*                                                                             *)
(* The first part is about ChunkFormat alone: createChunks computes the right  *)
(* size in advance, which channel numbers are read as they were written, and   *)
(* what each header holds. The second part is about RtmpParser: whatever the   *)
(* parser has read is explained by a history of whole chunks that the peer     *)
(* wrote, and it is between two of them or within the next one (Explains). One *)
(* lemma for each case of the parser and each step of the peer keeps that; the *)
(* theorems at the end follow from it.                                         *)
EXTENDS RtmpParser, TLAPS

-----------------------------------------------------------------------------
\* Division by a positive number
LEMMA DivisionProperties ==
  ASSUME NEW n \in Nat, NEW d \in Nat \ {0}
  PROVE  /\ n \div d \in Nat /\ n % d \in 0..(d - 1)
         /\ n = d * (n \div d) + (n % d)
  OBVIOUS

LEMMA QuotientUnique ==
  ASSUME NEW d \in Nat \ {0}, NEW q \in Nat, NEW r \in 0..(d - 1), NEW n \in Nat,
         n = d * q + r
  PROVE  n \div d = q
<1>1. PICK p \in Nat : p = n \div d
  BY DivisionProperties
<1>2. PICK s \in 0..(d - 1) : n = d * p + s
  BY <1>1, DivisionProperties
<1>3. d * p + s = d * q + r
  BY <1>2
<1>4. ~(p > q)
  <2>1. SUFFICES ASSUME p > q PROVE FALSE
    OBVIOUS
  <2>2. d * (q + 1) <= d * p
    BY <2>1
  <2>3. d * (q + 1) = d * q + d
    OBVIOUS
  <2>. QED
    BY <1>3, <2>2, <2>3
<1>5. ~(p < q)
  <2>1. SUFFICES ASSUME p < q PROVE FALSE
    OBVIOUS
  <2>2. d * (p + 1) <= d * q
    BY <2>1
  <2>3. d * (p + 1) = d * p + d
    OBVIOUS
  <2>. QED
    BY <1>3, <2>2, <2>3
<1>. QED
  BY <1>1, <1>4, <1>5

-----------------------------------------------------------------------------
\* The bytes that the loop of createChunks writes: the first header, the payload,
\* and one byte of header, with an extended timestamp, for each further chunk
BytesWritten(length, headerSize, extended, size) ==
  headerSize + length + (((length + size - 1) \div size) - 1) * (1 + extended)

\* For every payload that is not empty the size createChunks computes in advance
\* is exactly what it then writes: nothing is cut off and no byte is left over.
THEOREM ChunksFillTheirBuffer ==
  ASSUME NEW length \in Nat \ {0}, NEW size \in Nat \ {0},
         NEW headerSize \in Nat, NEW extended \in Nat
  PROVE  BufferLength(length, headerSize, extended, size)
           = BytesWritten(length, headerSize, extended, size)
<1>1. PICK q \in Nat : q = length \div size
  BY DivisionProperties
<1>2. PICK r \in 0..(size - 1) : r = length % size
  BY DivisionProperties
<1>3. length = size * q + r
  BY <1>1, <1>2, DivisionProperties
<1>4. CASE r = 0
  <2>1. q # 0
    BY <1>3, <1>4
  <2>2. PICK p \in Nat : q = p + 1
    BY <2>1
  <2>3. length + size - 1 = size * q + (size - 1)
    BY <1>3, <1>4
  <2>4. (length + size - 1) \div size = q
    BY <2>3, QuotientUnique
  <2>5. q * (1 + extended) - (1 + extended) = (q - 1) * (1 + extended)
    BY <2>2
  <2>. QED
    BY <1>1, <1>2, <1>4, <2>4, <2>5 DEF BufferLength, BytesWritten
<1>5. CASE r # 0
  <2>1. length + size - 1 = size * (q + 1) + (r - 1)
    BY <1>3
  <2>2. r - 1 \in 0..(size - 1) /\ q + 1 \in Nat /\ length + size - 1 \in Nat
    BY <1>5
  <2>3. (length + size - 1) \div size = q + 1
    BY <2>1, <2>2, QuotientUnique
  <2>4. (q + 1) - 1 = q
    OBVIOUS
  <2>. QED
    BY <1>1, <1>2, <1>5, <2>3, <2>4 DEF BufferLength, BytesWritten
<1>. QED
  BY <1>4, <1>5

\* An empty payload is the exception: the buffer is then shorter than its header.
THEOREM EmptyPayloadIsCut ==
  ASSUME NEW size \in Nat \ {0}, NEW headerSize \in Nat, NEW extended \in Nat
  PROVE  BufferLength(0, headerSize, extended, size) = headerSize - (1 + extended)
<1>1. 0 \div size = 0 /\ 0 % size = 0
  <2>1. 0 = size * 0 + 0
    OBVIOUS
  <2>2. 0 \div size = 0
    BY <2>1, QuotientUnique
  <2>. QED
    BY <2>1, <2>2, DivisionProperties
<1>. QED
  BY <1>1 DEF BufferLength

-----------------------------------------------------------------------------
LEMMA DirectProperties ==
  /\ Direct \in Nat /\ Direct >= 8 /\ B = 4 * Direct
  BY BaseAssumption DEF Direct

\* Every channel below the long form is read as it was written, whatever the
\* format (chunkBasicHeaderCreate, packetParse).
THEOREM ShortChannelsAreRead ==
  ASSUME NEW fmt \in 0..3, NEW cid \in 2..(Direct + B - 2)
  PROVE  ChannelRead(BasicHeader(fmt, cid)) = cid
<1>1. PICK d \in Nat : d = Direct /\ d >= 8 /\ B = 4 * d
  BY DirectProperties
<1>2. CASE cid >= d
  <2>1. BasicHeader(fmt, cid) = <<fmt * d, cid - d>>
    BY <1>1, <1>2 DEF BasicHeader
  <2>2. fmt * d = d * fmt + 0
    BY <1>1
  <2>3. (fmt * d) % d = 0
    BY <1>1
  <2>4. BasicBytes(fmt * d) = 2
    BY <1>1, <2>3 DEF BasicBytes
  <2>. QED
    BY <1>1, <1>2, <2>1, <2>4 DEF ChannelRead
<1>3. CASE cid < d
  <2>1. BasicHeader(fmt, cid) = <<fmt * d + cid>>
    BY <1>1, <1>3 DEF BasicHeader
  <2>2. (fmt * d + cid) % d = cid
    BY <1>1, <1>3
  <2>3. BasicBytes(fmt * d + cid) = 1
    BY <1>1, <2>2 DEF BasicBytes
  <2>. QED
    BY <1>1, <2>1, <2>2, <2>3 DEF ChannelRead
<1>. QED
  BY <1>1, <1>2, <1>3

-----------------------------------------------------------------------------
(* Numbers as bytes                                                            *)

LEMMA BaseProperties ==
  /\ B \in Nat \ {0} /\ B >= 32
  /\ B * B \in Nat \ {0} /\ B * B * B \in Nat \ {0} /\ B * B * B * B \in Nat \ {0}
<1>1. B \in Nat \ {0} /\ B >= 32
  BY BaseAssumption
<1>2. \A x \in Nat \ {0} : x * B \in Nat \ {0}
  BY <1>1
<1>. QED
  BY <1>1, <1>2

LEMMA DigitProperties ==
  ASSUME NEW x \in Nat
  PROVE  /\ Digit(x) \in Byte /\ x \div B \in Nat
         /\ x = (x \div B) * B + Digit(x)
<1>1. PICK b \in Nat \ {0} : b = B
  BY BaseProperties
<1>2. /\ x \div b \in Nat /\ x % b \in 0..(b - 1)
      /\ x = b * (x \div b) + (x % b)
  BY DivisionProperties
<1>3. b * (x \div b) = (x \div b) * b
  BY <1>2
<1>. QED
  BY <1>1, <1>2, <1>3 DEF Digit, Byte

LEMMA QuotientBound ==
  ASSUME NEW x \in Nat, NEW c \in Nat, x < c * B
  PROVE  x \div B < c
<1>1. PICK b \in Nat \ {0} : b = B
  BY BaseProperties
<1>2. PICK q \in Nat : q = x \div b /\ q * b <= x
  <2>1. x \div b \in Nat /\ x = (x \div b) * b + Digit(x) /\ Digit(x) \in 0..(b - 1)
    BY <1>1, DigitProperties DEF Byte
  <2>2. ASSUME NEW q \in Nat, q = x \div b PROVE q * b <= x
    BY <2>1, <2>2
  <2>. QED
    BY <2>1, <2>2
<1>3. ASSUME q >= c PROVE FALSE
  <2>1. q * b >= c * b
    BY <1>3
  <2>. QED
    BY <1>1, <1>2, <2>1
<1>. QED
  BY <1>1, <1>2, <1>3

LEMMA SmallDigit ==
  ASSUME NEW x \in Byte
  PROVE  Digit(x) = x
<1>1. PICK b \in Nat \ {0} : b = B
  BY BaseProperties
<1>2. x \in Nat /\ x < b /\ x = b * 0 + x
  BY <1>1 DEF Byte
<1>3. x \div b = 0
  BY <1>1, <1>2, QuotientUnique DEF Byte
<1>4. x = b * (x \div b) + (x % b) /\ x % b \in 0..(b - 1)
  BY <1>2, DivisionProperties
<1>. QED
  BY <1>1, <1>2, <1>3, <1>4 DEF Digit

\* A number of three or four bytes is read as it was written.
LEMMA UInt24 ==
  ASSUME NEW x \in Nat
  PROVE  /\ WriteUInt24BE(x) \in Seq(Byte) /\ Len(WriteUInt24BE(x)) = 3
         /\ x < B * B * B => ReadUInt24BE(WriteUInt24BE(x)) = x
<1>. DEFINE y == x \div B
            z == y \div B
<1>1. x = y * B + Digit(x) /\ y \in Nat /\ Digit(x) \in Byte
  BY DigitProperties
<1>2. y = z * B + Digit(y) /\ z \in Nat /\ Digit(y) \in Byte
  BY <1>1, DigitProperties
<1>3. Digit(z) \in Byte
  BY <1>2, DigitProperties
<1>4. WriteUInt24BE(x) = <<Digit(z), Digit(y), Digit(x)>>
  BY DEF WriteUInt24BE
<1>5. ASSUME x < B * B * B PROVE z = Digit(z)
  <2>1. y < B * B
    BY <1>1, <1>5, BaseProperties, QuotientBound
  <2>2. z < B
    BY <1>2, <2>1, BaseProperties, QuotientBound
  <2>. QED
    BY <1>2, <2>2, BaseProperties, SmallDigit DEF Byte
<1>6. ReadUInt24BE(WriteUInt24BE(x)) = (Digit(z) * B + Digit(y)) * B + Digit(x)
  BY <1>4 DEF ReadUInt24BE
<1>. QED
  BY <1>1, <1>2, <1>3, <1>4, <1>5, <1>6

LEMMA UInt32 ==
  ASSUME NEW x \in Nat
  PROVE  /\ WriteUInt32BE(x) \in Seq(Byte) /\ Len(WriteUInt32BE(x)) = 4
         /\ x < B * B * B * B => ReadUInt32BE(WriteUInt32BE(x)) = x
<1>. DEFINE y == x \div B
            z == y \div B
            w == z \div B
<1>1. x = y * B + Digit(x) /\ y \in Nat /\ Digit(x) \in Byte
  BY DigitProperties
<1>2. y = z * B + Digit(y) /\ z \in Nat /\ Digit(y) \in Byte
  BY <1>1, DigitProperties
<1>3. z = w * B + Digit(z) /\ w \in Nat /\ Digit(z) \in Byte
  BY <1>2, DigitProperties
<1>4. Digit(w) \in Byte
  BY <1>3, DigitProperties
<1>5. WriteUInt32BE(x) = <<Digit(w), Digit(z), Digit(y), Digit(x)>>
  BY DEF WriteUInt32BE
<1>6. ASSUME x < B * B * B * B PROVE w = Digit(w)
  <2>1. y < B * B * B
    BY <1>1, <1>6, BaseProperties, QuotientBound
  <2>2. z < B * B
    BY <1>2, <2>1, BaseProperties, QuotientBound
  <2>3. w < B
    BY <1>3, <2>2, BaseProperties, QuotientBound
  <2>. QED
    BY <1>3, <2>3, BaseProperties, SmallDigit DEF Byte
<1>7. ReadUInt32BE(WriteUInt32BE(x)) = ((Digit(w) * B + Digit(z)) * B + Digit(y)) * B + Digit(x)
  BY <1>5 DEF ReadUInt32BE
<1>. QED
  BY <1>1, <1>2, <1>3, <1>4, <1>5, <1>6, <1>7

\* Where a buffer holds the bytes of a number, it is read from there.
LEMMA UInt24At ==
  ASSUME NEW x \in Nat, x < B * B * B, NEW b \in Seq(Byte), NEW o \in Nat, o + 3 <= Len(b),
         \A i \in 1..3 : b[o + i] = WriteUInt24BE(x)[i]
  PROVE  ReadUInt24BE(SubSeq(b, o + 1, o + 3)) = x
<1>. DEFINE s == SubSeq(b, o + 1, o + 3)
<1>1. s[1] = b[o + 1] /\ s[2] = b[o + 2] /\ s[3] = b[o + 3]
  OBVIOUS
<1>2. ReadUInt24BE(s) = ReadUInt24BE(WriteUInt24BE(x))
  BY <1>1 DEF ReadUInt24BE
<1>. QED
  BY <1>2, UInt24

LEMMA UInt32At ==
  ASSUME NEW x \in Nat, x < B * B * B * B, NEW b \in Seq(Byte), NEW o \in Nat, o + 4 <= Len(b),
         \A i \in 1..4 : b[o + i] = WriteUInt32BE(x)[i]
  PROVE  ReadUInt32BE(SubSeq(b, o + 1, o + 4)) = x
<1>. DEFINE s == SubSeq(b, o + 1, o + 4)
<1>1. s[1] = b[o + 1] /\ s[2] = b[o + 2] /\ s[3] = b[o + 3] /\ s[4] = b[o + 4]
  OBVIOUS
<1>2. ReadUInt32BE(s) = ReadUInt32BE(WriteUInt32BE(x))
  BY <1>1 DEF ReadUInt32BE
<1>. QED
  BY <1>2, UInt32

LEMMA UInt32LEAt ==
  ASSUME NEW x \in Nat, x < B * B * B * B, NEW b \in Seq(Byte), NEW o \in Nat, o + 4 <= Len(b),
         \A i \in 1..4 : b[o + i] = WriteUInt32BE(x)[5 - i]
  PROVE  ReadUInt32BE(Reverse(SubSeq(b, o + 1, o + 4))) = x
<1>. DEFINE s == SubSeq(b, o + 1, o + 4)
            r == Reverse(s)
<1>1. s[1] = b[o + 1] /\ s[2] = b[o + 2] /\ s[3] = b[o + 3] /\ s[4] = b[o + 4] /\ Len(s) = 4
  OBVIOUS
<1>2. r[1] = s[4] /\ r[2] = s[3] /\ r[3] = s[2] /\ r[4] = s[1]
  BY <1>1 DEF Reverse
<1>3. r[1] = WriteUInt32BE(x)[1] /\ r[2] = WriteUInt32BE(x)[2]
      /\ r[3] = WriteUInt32BE(x)[3] /\ r[4] = WriteUInt32BE(x)[4]
  BY <1>1, <1>2
<1>4. ReadUInt32BE(r) = ReadUInt32BE(WriteUInt32BE(x))
  BY <1>3 DEF ReadUInt32BE
<1>. QED
  BY <1>4, UInt32

-----------------------------------------------------------------------------
(* The parts of a chunk                                                        *)

LEMMA Concatenation ==
  ASSUME NEW s \in Seq(Byte), NEW t \in Seq(Byte)
  PROVE  /\ s \o t \in Seq(Byte) /\ Len(s \o t) = Len(s) + Len(t)
         /\ \A i \in 1..Len(s) : (s \o t)[i] = s[i]
         /\ \A i \in 1..Len(t) : (s \o t)[Len(s) + i] = t[i]
  OBVIOUS

LEMMA FirstByte ==
  ASSUME NEW fmt \in 0..3, NEW r \in Nat, r < Direct
  PROVE  /\ fmt * Direct + r \in Byte
         /\ (fmt * Direct + r) \div Direct = fmt
         /\ (fmt * Direct + r) % Direct = r
<1>1. PICK d \in Nat \ {0} : d = Direct /\ B = 4 * d
  BY DirectProperties
<1>2. fmt * d + r \in Nat /\ fmt * d + r < 4 * d
  <2>1. fmt = 0 \/ fmt = 1 \/ fmt = 2 \/ fmt = 3
    OBVIOUS
  <2>. QED
    BY <1>1, <2>1
<1>3. fmt * d + r = d * fmt + r /\ r \in 0..(d - 1)
  BY <1>1
<1>4. (fmt * d + r) \div d = fmt
  BY <1>2, <1>3, QuotientUnique
<1>5. fmt * d + r = d * ((fmt * d + r) \div d) + ((fmt * d + r) % d)
  BY <1>2, DivisionProperties
<1>6. (fmt * d + r) % d \in 0..(d - 1)
  BY <1>2, DivisionProperties
<1>7. (fmt * d + r) % d = r
  BY <1>3, <1>4, <1>5, <1>6
<1>. QED
  BY <1>1, <1>2, <1>4, <1>7 DEF Byte

\* A basic header tells its own length and format, and the channel it is read as
\* does not depend on the format.
LEMMA BasicHeaderProperties ==
  ASSUME NEW fmt \in 0..3, NEW cid \in ChannelIds
  PROVE  /\ BasicHeader(fmt, cid) \in Seq(Byte)
         /\ Len(BasicHeader(fmt, cid)) \in 1..3
         /\ BasicBytes(BasicHeader(fmt, cid)[1]) = Len(BasicHeader(fmt, cid))
         /\ BasicHeader(fmt, cid)[1] \div Direct = fmt
         /\ Len(BasicHeader(0, cid)) = Len(BasicHeader(fmt, cid))
         /\ \A b : (\A i \in 1..Len(BasicHeader(fmt, cid)) : b[i] = BasicHeader(fmt, cid)[i])
                      => ChannelRead(b) = ChannelRead(BasicHeader(0, cid))
<1>. DEFINE h == BasicHeader(fmt, cid)
            h0 == BasicHeader(0, cid)
<1>1. /\ Direct \in Nat /\ Direct >= 8 /\ B \in Nat /\ B >= 32
      /\ cid \in Nat /\ cid >= 2
  BY DirectProperties, BaseProperties DEF ChannelIds
<1>2. CASE cid >= Direct + (B - 1)
  <2>. DEFINE x == (cid - Direct) % B
              y == ((cid - Direct) \div B) % B
  <2>1. x \in Byte /\ y \in Byte
    <3>1. cid - Direct \in Nat
      BY <1>1, <1>2
    <3>2. x = Digit(cid - Direct) /\ y = Digit((cid - Direct) \div B)
      BY DEF Digit
    <3>. QED
      BY <3>1, <3>2, DigitProperties
  <2>2. h = <<fmt * Direct + 1, x, y>> /\ h0 = <<0 * Direct + 1, x, y>>
    BY <1>2 DEF BasicHeader
  <2>3. /\ fmt * Direct + 1 \in Byte /\ (fmt * Direct + 1) \div Direct = fmt
        /\ (fmt * Direct + 1) % Direct = 1 /\ (0 * Direct + 1) % Direct = 1
    BY <1>1, FirstByte, SMTT(30)
  <2>4. BasicBytes(fmt * Direct + 1) = 3 /\ BasicBytes(0 * Direct + 1) = 3
    BY <2>3 DEF BasicBytes
  <2>5. ASSUME NEW b, \A i \in 1..3 : b[i] = h[i] PROVE ChannelRead(b) = ChannelRead(h0)
    <3>1. b[1] = fmt * Direct + 1 /\ b[2] = x /\ b[3] = y
      BY <2>2, <2>5
    <3>2. ChannelRead(b) = (Direct + x + y) * B
      BY <2>4, <3>1 DEF ChannelRead
    <3>3. ChannelRead(h0) = (Direct + x + y) * B
      BY <2>2, <2>4 DEF ChannelRead
    <3>. QED
      BY <3>2, <3>3
  <2>6. Len(h) = 3 /\ Len(h0) = 3 /\ h[1] = fmt * Direct + 1 /\ h \in Seq(Byte)
    BY <2>1, <2>2, <2>3
  <2>. QED
    BY <2>3, <2>4, <2>5, <2>6
<1>3. CASE cid >= Direct /\ ~(cid >= Direct + (B - 1))
  <2>. DEFINE x == cid - Direct
  <2>1. x \in Byte
    BY <1>1, <1>3 DEF Byte
  <2>2. h = <<fmt * Direct, x>> /\ h0 = <<0 * Direct, x>>
    BY <1>3 DEF BasicHeader
  <2>3. /\ fmt * Direct \in Byte /\ (fmt * Direct) \div Direct = fmt
        /\ (fmt * Direct) % Direct = 0 /\ (0 * Direct) % Direct = 0
    <3>1. ASSUME NEW f \in 0..3, NEW r \in Nat, r = 0
          PROVE  f * Direct \in Byte /\ (f * Direct) \div Direct = f /\ (f * Direct) % Direct = 0
      <4>1. f * Direct + r = f * Direct /\ r < Direct
        BY <1>1, <3>1
      <4>2. f * Direct + r \in Byte /\ (f * Direct + r) \div Direct = f /\ (f * Direct + r) % Direct = r
        BY <4>1, FirstByte
      <4>. QED
        BY <3>1, <4>1, <4>2, Zenon
    <3>2. 0 \in 0..3 /\ 0 \in Nat
      OBVIOUS
    <3>. QED
      BY <3>1, <3>2, Zenon
  <2>4. BasicBytes(fmt * Direct) = 2 /\ BasicBytes(0 * Direct) = 2
    BY <2>3 DEF BasicBytes
  <2>5. ASSUME NEW b, \A i \in 1..2 : b[i] = h[i] PROVE ChannelRead(b) = ChannelRead(h0)
    <3>1. b[1] = fmt * Direct /\ b[2] = x
      BY <2>2, <2>5
    <3>2. ChannelRead(b) = Direct + x
      BY <2>4, <3>1 DEF ChannelRead
    <3>3. ChannelRead(h0) = Direct + x
      BY <2>2, <2>4 DEF ChannelRead
    <3>. QED
      BY <3>2, <3>3
  <2>6. Len(h) = 2 /\ Len(h0) = 2 /\ h[1] = fmt * Direct /\ h \in Seq(Byte)
    BY <2>1, <2>2, <2>3
  <2>. QED
    BY <2>3, <2>4, <2>5, <2>6
<1>4. CASE ~(cid >= Direct)
  <2>1. cid \in Nat /\ cid < Direct /\ cid # 0 /\ cid # 1
    BY <1>1, <1>4
  <2>2. h = <<fmt * Direct + cid>> /\ h0 = <<0 * Direct + cid>>
    BY <1>1, <1>4 DEF BasicHeader
  <2>3. /\ fmt * Direct + cid \in Byte /\ (fmt * Direct + cid) \div Direct = fmt
        /\ (fmt * Direct + cid) % Direct = cid /\ (0 * Direct + cid) % Direct = cid
    BY <1>1, <2>1, FirstByte
  <2>4. BasicBytes(fmt * Direct + cid) = 1 /\ BasicBytes(0 * Direct + cid) = 1
    BY <2>1, <2>3 DEF BasicBytes
  <2>5. ASSUME NEW b, \A i \in 1..1 : b[i] = h[i] PROVE ChannelRead(b) = ChannelRead(h0)
    <3>1. b[1] = fmt * Direct + cid
      BY <2>2, <2>5
    <3>2. ChannelRead(b) = cid
      BY <2>3, <2>4, <3>1 DEF ChannelRead
    <3>3. ChannelRead(h0) = cid
      BY <2>2, <2>3, <2>4 DEF ChannelRead
    <3>. QED
      BY <3>2, <3>3
  <2>6. Len(h) = 1 /\ Len(h0) = 1 /\ h[1] = fmt * Direct + cid /\ h \in Seq(Byte)
    BY <2>2, <2>3
  <2>. QED
    BY <2>3, <2>4, <2>5, <2>6
<1>. QED
  BY <1>2, <1>3, <1>4

LEMMA TimestampProperties ==
  /\ TimestampMark \in Nat /\ TimestampMark < B * B * B
  /\ MaxClock \in Nat /\ MaxClock < B * B * B * B
  /\ \A t \in Nat : Capped(t) \in Nat /\ Capped(t) < B * B * B
<1>1. TimestampMark \in Nat /\ TimestampMark < B * B * B
  BY BaseProperties DEF TimestampMark
<1>2. MaxClock \in Nat /\ MaxClock < B * B * B * B
  BY BaseProperties DEF MaxClock
<1>3. ASSUME NEW t \in Nat PROVE Capped(t) \in Nat /\ Capped(t) < B * B * B
  <2>1. CASE t >= TimestampMark
    BY <1>1, <2>1 DEF Capped
  <2>2. CASE ~(t >= TimestampMark)
    <3>1. Capped(t) = t
      BY <2>2 DEF Capped
    <3>2. t < TimestampMark
      BY <1>1, <2>2
    <3>. QED
      BY <1>1, <3>1, <3>2, BaseProperties
  <2>. QED
    BY <2>1, <2>2
<1>. QED
  BY <1>1, <1>2, <1>3

\* What the header of a message of n bytes needs to be read back
Writable(m) ==
  /\ Len(m.payload) \in Nat /\ Len(m.payload) < B * B * B
  /\ m.type \in Byte /\ m.stream_id \in 0..MaxClock

\* h holds the fields that the header of a message has in format fmt.
HeaderWritten(h, m, fmt, t) ==
  /\ h \in Seq(Byte) /\ Len(h) = rtmpHeaderSize[fmt]
  /\ fmt <= 2 => \A i \in 1..3 : h[i] = WriteUInt24BE(Capped(t))[i]
  /\ fmt <= 1 => /\ \A i \in 1..3 : h[3 + i] = WriteUInt24BE(Len(m.payload))[i]
                 /\ h[7] = m.type
  /\ fmt = 0 => \A i \in 1..4 : h[7 + i] = WriteUInt32BE(m.stream_id)[5 - i]

LEMMA MessageHeaderProperties ==
  ASSUME NEW m, Writable(m), NEW fmt \in 0..3, NEW t \in Nat
  PROVE  HeaderWritten(MessageHeader(m, fmt, t), m, fmt, t)
<1>. DEFINE X == IF fmt <= 2 THEN WriteUInt24BE(Capped(t)) ELSE <<>>
            Y == IF fmt <= 1 THEN WriteUInt24BE(Len(m.payload)) \o <<m.type>> ELSE <<>>
            Z == IF fmt = 0 THEN Reverse(WriteUInt32BE(m.stream_id)) ELSE <<>>
<1>1. MessageHeader(m, fmt, t) = X \o Y \o Z
  BY DEF MessageHeader
<1>2. /\ X \in Seq(Byte) /\ Len(X) = (IF fmt <= 2 THEN 3 ELSE 0)
      /\ fmt <= 2 => X = WriteUInt24BE(Capped(t))
  <2>1. WriteUInt24BE(Capped(t)) \in Seq(Byte) /\ Len(WriteUInt24BE(Capped(t))) = 3
    BY TimestampProperties, UInt24
  <2>2. CASE fmt <= 2
    BY <2>1, <2>2
  <2>3. CASE ~(fmt <= 2)
    BY <2>3
  <2>. QED
    BY <2>2, <2>3
<1>3. /\ Y \in Seq(Byte) /\ Len(Y) = (IF fmt <= 1 THEN 4 ELSE 0)
      /\ fmt <= 1 => /\ \A i \in 1..3 : Y[i] = WriteUInt24BE(Len(m.payload))[i]
                     /\ Y[4] = m.type
  <2>1. WriteUInt24BE(Len(m.payload)) \in Seq(Byte) /\ Len(WriteUInt24BE(Len(m.payload))) = 3
    BY UInt24 DEF Writable
  <2>2. <<m.type>> \in Seq(Byte) /\ Len(<<m.type>>) = 1 /\ <<m.type>>[1] = m.type
    BY DEF Writable
  <2>3. CASE fmt <= 1
    <3>1. Y = WriteUInt24BE(Len(m.payload)) \o <<m.type>>
      BY <2>3
    <3>2. /\ Y \in Seq(Byte) /\ Len(Y) = 3 + 1
          /\ \A i \in 1..3 : Y[i] = WriteUInt24BE(Len(m.payload))[i]
          /\ \A i \in 1..1 : Y[3 + i] = <<m.type>>[i]
      BY <2>1, <2>2, <3>1, Concatenation
    <3>3. Y[4] = m.type
      BY <2>2, <3>2
    <3>. QED
      BY <2>3, <3>2, <3>3
  <2>4. CASE ~(fmt <= 1)
    BY <2>4
  <2>. QED
    BY <2>3, <2>4
<1>4. /\ Z \in Seq(Byte) /\ Len(Z) = (IF fmt = 0 THEN 4 ELSE 0)
      /\ fmt = 0 => \A i \in 1..4 : Z[i] = WriteUInt32BE(m.stream_id)[5 - i]
  <2>1. m.stream_id \in Nat
    BY TimestampProperties DEF Writable
  <2>2. WriteUInt32BE(m.stream_id) \in Seq(Byte) /\ Len(WriteUInt32BE(m.stream_id)) = 4
    BY <2>1, UInt32
  <2>. QED
    BY <2>2 DEF Reverse
<1>. HIDE DEF X, Y, Z
<1>5. /\ X \o Y \in Seq(Byte) /\ Len(X \o Y) = Len(X) + Len(Y)
      /\ \A i \in 1..Len(X) : (X \o Y)[i] = X[i]
      /\ \A i \in 1..Len(Y) : (X \o Y)[Len(X) + i] = Y[i]
  BY <1>2, <1>3, Concatenation
<1>6. /\ X \o Y \o Z \in Seq(Byte) /\ Len(X \o Y \o Z) = Len(X \o Y) + Len(Z)
      /\ \A i \in 1..Len(X \o Y) : (X \o Y \o Z)[i] = (X \o Y)[i]
      /\ \A i \in 1..Len(Z) : (X \o Y \o Z)[Len(X \o Y) + i] = Z[i]
  BY <1>4, <1>5, Concatenation
<1>7. Len(X \o Y \o Z) = rtmpHeaderSize[fmt]
  <2>1. fmt = 0 \/ fmt = 1 \/ fmt = 2 \/ fmt = 3
    OBVIOUS
  <2>2. /\ rtmpHeaderSize[0] = 11 /\ rtmpHeaderSize[1] = 7
        /\ rtmpHeaderSize[2] = 3 /\ rtmpHeaderSize[3] = 0
    BY DEF rtmpHeaderSize
  <2>. QED
    BY <1>2, <1>3, <1>4, <1>5, <1>6, <2>1, <2>2, SMTT(30)
<1>8. ASSUME fmt <= 2, NEW i \in 1..3 PROVE (X \o Y \o Z)[i] = WriteUInt24BE(Capped(t))[i]
  <2>1. Len(X) = 3 /\ Len(X \o Y) >= 3 /\ X = WriteUInt24BE(Capped(t))
    BY <1>2, <1>3, <1>5, <1>8
  <2>. QED
    BY <1>5, <1>6, <2>1
<1>9. ASSUME fmt <= 1
      PROVE  /\ \A i \in 1..3 : (X \o Y \o Z)[3 + i] = WriteUInt24BE(Len(m.payload))[i]
             /\ (X \o Y \o Z)[7] = m.type
  <2>1. Len(X) = 3 /\ Len(Y) = 4 /\ Len(X \o Y) = 7
    BY <1>2, <1>3, <1>5, <1>9
  <2>2. ASSUME NEW i \in 1..4, NEW j \in 1..7, j = 3 + i PROVE (X \o Y \o Z)[j] = Y[i]
    <3>1. (X \o Y)[3 + i] = Y[i]
      BY <1>5, <2>1
    <3>. QED
      BY <1>6, <2>1, <2>2, <3>1
  <2>3. (X \o Y \o Z)[7] = Y[4]
    <3>1. 4 \in 1..4 /\ 7 \in 1..7 /\ 7 = 3 + 4
      OBVIOUS
    <3>. QED
      BY <2>2, <3>1
  <2>4. ASSUME NEW i \in 1..3 PROVE (X \o Y \o Z)[3 + i] = Y[i]
    <3>1. PICK j \in 1..7 : j = 3 + i
      OBVIOUS
    <3>2. i \in 1..4
      OBVIOUS
    <3>. QED
      BY <2>2, <3>1, <3>2, Zenon
  <2>. QED
    BY <1>3, <1>9, <2>3, <2>4
<1>10. ASSUME fmt = 0, NEW i \in 1..4
       PROVE  (X \o Y \o Z)[7 + i] = WriteUInt32BE(m.stream_id)[5 - i]
  <2>1. Len(X \o Y) = 7 /\ Len(Z) = 4
    BY <1>2, <1>3, <1>4, <1>5, <1>10
  <2>. QED
    BY <1>4, <1>6, <1>10, <2>1
<1>. QED
  BY <1>1, <1>6, <1>7, <1>8, <1>9, <1>10 DEF HeaderWritten

LEMMA ClockBound ==
  ASSUME NEW x \in 0..MaxClock
  PROVE  x \in Nat /\ x < B * B * B * B
<1>1. PICK b \in Nat \ {0} : b = B * B * B * B
  BY BaseProperties
<1>2. MaxClock = b - 1
  BY <1>1 DEF MaxClock
<1>3. x < b /\ x \in Nat
  BY <1>2
<1>. QED
  BY <1>1, <1>3, Zenon

LEMMA MessageHeaderLength ==
  ASSUME NEW m, Writable(m), NEW fmt \in 0..3, NEW t \in Nat
  PROVE  /\ MessageHeader(m, fmt, t) \in Seq(Byte)
         /\ Len(MessageHeader(m, fmt, t)) = rtmpHeaderSize[fmt]
  BY MessageHeaderProperties DEF HeaderWritten

LEMMA ExtendedTimestampProperties ==
  ASSUME NEW t \in 0..MaxClock
  PROVE  /\ ExtendedTimestamp(t) \in Seq(Byte)
         /\ Len(ExtendedTimestamp(t)) = (IF Capped(t) = TimestampMark THEN 4 ELSE 0)
         /\ Capped(t) = TimestampMark => ExtendedTimestamp(t) = WriteUInt32BE(t)
         /\ Capped(t) # TimestampMark => Capped(t) = t
<1>1. t \in Nat /\ TimestampMark \in Nat
  BY TimestampProperties
<1>2. WriteUInt32BE(t) \in Seq(Byte) /\ Len(WriteUInt32BE(t)) = 4
  BY <1>1, UInt32
<1>3. CASE t >= TimestampMark
  BY <1>2, <1>3 DEF ExtendedTimestamp, Capped
<1>4. CASE ~(t >= TimestampMark)
  <2>1. ExtendedTimestamp(t) = <<>> /\ Capped(t) = t /\ Capped(t) # TimestampMark
    BY <1>1, <1>4 DEF ExtendedTimestamp, Capped
  <2>. QED
    BY <2>1
<1>. QED
  BY <1>3, <1>4

\* How much of the payload of m a chunk holds that starts at offset from
PartOf(m, from, size) ==
  IF from + size < Len(m.payload) THEN size ELSE Len(m.payload) - from

\* c is W, X, Y and Z one after the other; they end at p, q, r and its end.
InParts(c, W, X, Y, Z, p, q, r) ==
  /\ p = Len(W) /\ q = p + Len(X) /\ r = q + Len(Y)
  /\ c \in Seq(Byte) /\ Len(c) = r + Len(Z)
  /\ \A i \in 1..p : c[i] = W[i]
  /\ \A i \in 1..Len(X), j \in Nat : j = p + i => c[j] = X[i]
  /\ \A i \in 1..Len(Y), j \in Nat : j = q + i => c[j] = Y[i]
  /\ \A i \in 1..Len(Z), j \in Nat : j = r + i => c[j] = Z[i]

LEMMA FourParts ==
  ASSUME NEW W \in Seq(Byte), NEW X \in Seq(Byte), NEW Y \in Seq(Byte), NEW Z \in Seq(Byte),
         NEW c, c = W \o X \o Y \o Z
  PROVE  \E p, q, r \in Nat : InParts(c, W, X, Y, Z, p, q, r)
<1>1. PICK V : V = W \o X
  OBVIOUS
<1>2. PICK U : U = V \o Y
  OBVIOUS
<1>3. c = U \o Z
  BY <1>1, <1>2, Zenon
<1>4. PICK p \in Nat : p = Len(W)
  OBVIOUS
<1>5. PICK q \in Nat : q = Len(V)
  BY <1>1
<1>6. PICK r \in Nat : r = Len(U)
  BY <1>1, <1>2
<1>7. V \in Seq(Byte)
  BY <1>1
<1>8. U \in Seq(Byte)
  BY <1>2, <1>7
<1>9. c \in Seq(Byte)
  BY <1>3, <1>8
<1>10. q = p + Len(X)
  BY <1>1, <1>4, <1>5
<1>11. r = q + Len(Y)
  BY <1>2, <1>5, <1>6, <1>7
<1>12. Len(c) = r + Len(Z)
  BY <1>3, <1>6, <1>8
<1>13. \A i \in 1..p : V[i] = W[i]
  BY <1>1, <1>4
<1>14. \A i \in 1..Len(X), j \in Nat : j = p + i => V[j] = X[i]
  BY <1>1, <1>4
<1>15. \A i \in 1..q : U[i] = V[i]
  BY <1>2, <1>5, <1>7
<1>16. \A i \in 1..Len(Y), j \in Nat : j = q + i => U[j] = Y[i]
  BY <1>2, <1>5, <1>7
<1>17. \A i \in 1..r : c[i] = U[i]
  BY <1>3, <1>6, <1>8
<1>18. \A i \in 1..Len(Z), j \in Nat : j = r + i => c[j] = Z[i]
  BY <1>3, <1>6, <1>8
<1>19. p <= q /\ q <= r
  <2>1. Len(X) \in Nat /\ Len(Y) \in Nat
    OBVIOUS
  <2>2. \A x, y \in Nat : q = p + x /\ r = q + y => p <= q /\ q <= r
    OBVIOUS
  <2>. QED
    BY <1>10, <1>11, <2>1, <2>2
<1>20. \A i \in 1..p : i \in 1..q /\ i \in 1..r
  BY <1>19
<1>21. \A i \in 1..Len(X), j \in Nat : j = p + i => j \in 1..q /\ j \in 1..r
  <2>1. PICK x \in Nat : x = Len(X)
    OBVIOUS
  <2>. QED
    BY <1>10, <1>19, <2>1
<1>22. \A i \in 1..Len(Y), j \in Nat : j = q + i => j \in 1..r
  <2>1. PICK y \in Nat : y = Len(Y)
    OBVIOUS
  <2>. QED
    BY <1>11, <2>1
<1>23. \A i \in 1..p : c[i] = W[i]
  BY <1>13, <1>15, <1>17, <1>20, Zenon
<1>24. \A i \in 1..Len(X), j \in Nat : j = p + i => c[j] = X[i]
  BY <1>14, <1>15, <1>17, <1>21, Zenon
<1>25. \A i \in 1..Len(Y), j \in Nat : j = q + i => c[j] = Y[i]
  BY <1>16, <1>17, <1>22, Zenon
<1>26. InParts(c, W, X, Y, Z, p, q, r)
  BY <1>4, <1>9, <1>10, <1>11, <1>12, <1>18, <1>23, <1>24, <1>25, Zenon DEF InParts
<1>. QED
  BY <1>26, Zenon

\* c is a chunk of m with n bytes of its payload from offset from on: its basic
\* header, the fixed part of its header and all of its header end at bl, hl, el.
LaidOut(c, m, cid, fmt, t, from, n, bl, hl, el) ==
  /\ bl = Len(BasicHeader(fmt, cid)) /\ bl \in 1..3
  /\ hl = bl + rtmpHeaderSize[fmt] /\ hl \in bl..(bl + 11)
  /\ el = hl + Len(ExtendedTimestamp(t)) /\ el \in hl..(hl + 4)
  /\ c \in Seq(Byte) /\ Len(c) = el + n
  /\ \A i \in 1..bl : c[i] = BasicHeader(fmt, cid)[i]
  /\ \A i \in 1..rtmpHeaderSize[fmt], j \in Nat : j = bl + i => c[j] = MessageHeader(m, fmt, t)[i]
  /\ \A i \in 1..Len(ExtendedTimestamp(t)), j \in Nat :
       j = hl + i => c[j] = ExtendedTimestamp(t)[i]
  /\ \A i \in 1..n, j \in Nat : j = el + i => c[j] = m.payload[from + i]

LEMMA PayloadPart ==
  ASSUME NEW s \in Seq(Byte), NEW from \in 0..Len(s), NEW n \in Nat, from + n <= Len(s),
         NEW to \in Nat, to = from + n
  PROVE  /\ SubSeq(s, from + 1, to) \in Seq(Byte) /\ Len(SubSeq(s, from + 1, to)) = n
         /\ \A i \in 1..n : SubSeq(s, from + 1, to)[i] = s[from + i]
<1>1. SubSeq(s, from + 1, to) \in Seq(Byte)
  OBVIOUS
<1>2. Len(SubSeq(s, from + 1, to)) = n
  OBVIOUS
<1>3. ASSUME NEW i \in 1..n PROVE SubSeq(s, from + 1, to)[i] = s[from + i]
  OBVIOUS
<1>. QED
  BY <1>1, <1>2, <1>3

LEMMA ChunkProperties ==
  ASSUME NEW m, Writable(m), m.payload \in Seq(Byte), NEW cid \in ChannelIds,
         NEW fmt \in 0..3, NEW t \in 0..MaxClock, NEW size \in Nat \ {0},
         NEW from \in 0..Len(m.payload)
  PROVE  /\ PartOf(m, from, size) \in 0..size /\ from + PartOf(m, from, size) <= Len(m.payload)
         /\ \E bl, hl, el \in Nat :
              LaidOut(Chunk(m, cid, fmt, t, from, size), m, cid, fmt, t, from,
                      PartOf(m, from, size), bl, hl, el)
<1>. DEFINE W == BasicHeader(fmt, cid)
            X == MessageHeader(m, fmt, t)
            Y == ExtendedTimestamp(t)
            end == IF from + size < Len(m.payload) THEN from + size ELSE Len(m.payload)
            Z == SubSeq(m.payload, from + 1, end)
            n == PartOf(m, from, size)
            c == Chunk(m, cid, fmt, t, from, size)
<1>1. c = W \o X \o Y \o Z
  BY DEF Chunk
<1>2. W \in Seq(Byte) /\ Len(W) \in 1..3
  BY BasicHeaderProperties
<1>. HIDE DEF W
<1>. HIDE DEF X, Y
<1>3. X \in Seq(Byte) /\ Len(X) = rtmpHeaderSize[fmt] /\ Len(X) \in 0..11
  <2>1. t \in Nat
    BY TimestampProperties
  <2>2. /\ MessageHeader(m, fmt, t) \in Seq(Byte)
        /\ Len(MessageHeader(m, fmt, t)) = rtmpHeaderSize[fmt]
    BY <2>1, MessageHeaderLength
  <2>3. rtmpHeaderSize[fmt] \in 0..11
    BY DEF rtmpHeaderSize
  <2>. QED
    BY <2>2, <2>3 DEF X
<1>4. Y \in Seq(Byte) /\ Len(Y) \in 0..4
  BY ExtendedTimestampProperties DEF Y
<1>5. n \in 0..size /\ end \in Nat /\ end = from + n /\ from + n <= Len(m.payload)
  <2>1. PICK l \in Nat : l = Len(m.payload)
    OBVIOUS
  <2>2. from \in 0..l
    BY <2>1
  <2>3. CASE from + size < l
    <3>1. end = from + size /\ n = size
      BY <2>1, <2>3 DEF PartOf
    <3>. QED
      BY <2>1, <2>2, <2>3, <3>1
  <2>4. CASE ~(from + size < l)
    <3>1. end = l /\ n = l - from
      BY <2>1, <2>4 DEF PartOf
    <3>. QED
      BY <2>1, <2>2, <2>4, <3>1
  <2>. QED
    BY <2>3, <2>4
<1>. HIDE DEF end, n
<1>6. n \in Nat
  BY <1>5
<1>7. Z \in Seq(Byte) /\ Len(Z) = n /\ \A i \in 1..n : Z[i] = m.payload[from + i]
  BY <1>5, <1>6, PayloadPart, Zenon
<1>. HIDE DEF Z, c
<1>8. PICK p, q, r \in Nat : InParts(c, W, X, Y, Z, p, q, r)
  BY <1>1, <1>2, <1>3, <1>4, <1>7, FourParts, Zenon
<1>9. p \in 1..3 /\ q \in p..(p + 11) /\ r \in q..(q + 4)
  <2>1. PICK x \in 0..11, y \in 0..4 : x = Len(X) /\ y = Len(Y)
    BY <1>3, <1>4
  <2>2. p = Len(W) /\ q = p + Len(X) /\ r = q + Len(Y)
    BY <1>8, Zenon DEF InParts
  <2>3. p \in 1..3
    BY <1>2, <2>2
  <2>4. q = p + x
    BY <2>1, <2>2, Zenon
  <2>5. r = q + y
    BY <2>1, <2>2, Zenon
  <2>. QED
    BY <2>3, <2>4, <2>5
<1>10. LaidOut(c, m, cid, fmt, t, from, n, p, q, r)
  <2>1. p = Len(W) /\ q = p + rtmpHeaderSize[fmt] /\ r = q + Len(Y)
    BY <1>3, <1>8, Zenon DEF InParts
  <2>2. c \in Seq(Byte) /\ Len(c) = r + n
    BY <1>7, <1>8 DEF InParts
  <2>3. \A i \in 1..p : c[i] = W[i]
    BY <1>8, Zenon DEF InParts
  <2>4. \A i \in 1..rtmpHeaderSize[fmt], j \in Nat : j = p + i => c[j] = X[i]
    BY <1>3, <1>8, Zenon DEF InParts
  <2>5. \A i \in 1..Len(Y), j \in Nat : j = q + i => c[j] = Y[i]
    BY <1>8, Zenon DEF InParts
  <2>6. \A i \in 1..n, j \in Nat : j = r + i => c[j] = m.payload[from + i]
    <3>1. ASSUME NEW i \in 1..n, NEW j \in Nat, j = r + i PROVE c[j] = m.payload[from + i]
      <4>1. i \in 1..Len(Z) /\ Z[i] = m.payload[from + i]
        BY <1>7, Zenon
      <4>2. c[j] = Z[i]
        BY <1>8, <3>1, <4>1, Zenon DEF InParts
      <4>. QED
        BY <4>1, <4>2, Zenon
    <3>. QED
      BY <3>1
  <2>. QED
    BY <1>9, <2>1, <2>2, <2>3, <2>4, <2>5, <2>6, Zenon DEF LaidOut, W, X, Y
<1>11. n \in 0..size /\ from + n <= Len(m.payload)
  BY <1>5
<1>. QED
  BY <1>10, <1>11, Zenon DEF n, c

-----------------------------------------------------------------------------
(* What the parser reads in the headers of a chunk                             *)

\* The channel the parser reads for the channel of a message
Key(cid) == ChannelRead(BasicHeader(0, cid))

Keys == {Key(cid) : cid \in ChannelIds}

Packets ==
  [fmt : 0..3, cid : Keys, timestamp : Nat, length : Nat, type : Nat,
   stream_id : Nat, clock : Nat, payload : Seq(Byte), bytes : Nat]

\* buffer holds the first o bytes of b.
Begins(buffer, b, o) ==
  /\ buffer \in Seq(Byte) /\ Len(buffer) = o
  /\ \A i \in 1..o : buffer[i] = b[i]

LEMMA BasicHeaderRead ==
  ASSUME NEW m, NEW cid \in ChannelIds, NEW fmt \in 0..3, NEW t, NEW from, NEW n,
         NEW bl, NEW hl, NEW el, NEW b, LaidOut(b, m, cid, fmt, t, from, n, bl, hl, el),
         NEW o \in Nat, NEW buffer, Begins(buffer, b, o)
  PROVE  /\ o >= 1 => BasicBytes(buffer[1]) = bl /\ Format(buffer) = fmt
         /\ o >= bl => ChannelRead(buffer) = Key(cid)
<1>1. /\ bl = Len(BasicHeader(fmt, cid)) /\ bl \in 1..3
      /\ \A i \in 1..bl : b[i] = BasicHeader(fmt, cid)[i]
  BY Zenon DEF LaidOut
<1>2. /\ BasicBytes(BasicHeader(fmt, cid)[1]) = bl
      /\ BasicHeader(fmt, cid)[1] \div Direct = fmt
      /\ \A x : (\A i \in 1..bl : x[i] = BasicHeader(fmt, cid)[i])
                  => ChannelRead(x) = ChannelRead(BasicHeader(0, cid))
  BY <1>1, BasicHeaderProperties, Zenon
<1>3. ASSUME o >= 1 PROVE BasicBytes(buffer[1]) = bl /\ Format(buffer) = fmt
  <2>1. 1 \in 1..o /\ 1 \in 1..bl
    BY <1>1, <1>3
  <2>2. buffer[1] = b[1] /\ b[1] = BasicHeader(fmt, cid)[1]
    BY <1>1, <2>1 DEF Begins
  <2>. QED
    BY <1>2, <2>2 DEF Format
<1>4. ASSUME o >= bl PROVE ChannelRead(buffer) = Key(cid)
  <2>1. ASSUME NEW i \in 1..bl PROVE buffer[i] = BasicHeader(fmt, cid)[i]
    <3>1. i \in 1..o
      BY <1>1, <1>4
    <3>. QED
      BY <1>1, <3>1, Zenon DEF Begins
  <2>. QED
    BY <1>2, <2>1, Zenon DEF Key
<1>. QED
  BY <1>3, <1>4

LEMMA MessageHeaderRead ==
  ASSUME NEW m, Writable(m), NEW cid \in ChannelIds, NEW fmt \in 0..3, NEW t \in 0..MaxClock,
         NEW from, NEW n, NEW bl, NEW hl, NEW el, NEW b,
         LaidOut(b, m, cid, fmt, t, from, n, bl, hl, el),
         NEW o \in Nat, NEW buffer, Begins(buffer, b, o), o >= hl
  PROVE  /\ fmt <= 2 => ReadUInt24BE(SubSeq(buffer, bl + 0 + 1, bl + 0 + 3)) = Capped(t)
         /\ fmt <= 1 => /\ ReadUInt24BE(SubSeq(buffer, bl + 3 + 1, bl + 3 + 3)) = Len(m.payload)
                        /\ buffer[bl + 7] = m.type
         /\ fmt = 0 =>
              ReadUInt32BE(Reverse(SubSeq(buffer, bl + 8, bl + 11))) = m.stream_id
<1>. DEFINE size == rtmpHeaderSize[fmt]
            H == MessageHeader(m, fmt, t)
<1>1. /\ bl \in 1..3 /\ hl = bl + size /\ hl \in Nat
      /\ \A i \in 1..size, j \in Nat : j = bl + i => b[j] = H[i]
  <2>1. bl \in 1..3 /\ hl = bl + size /\ hl \in bl..(bl + 11)
    BY Zenon DEF LaidOut
  <2>2. \A i \in 1..size, j \in Nat : j = bl + i => b[j] = H[i]
    BY Zenon DEF LaidOut
  <2>. QED
    BY <2>1, <2>2
<1>2. size = (CASE fmt = 0 -> 11 [] fmt = 1 -> 7 [] fmt = 2 -> 3 [] fmt = 3 -> 0)
  <2>1. fmt = 0 \/ fmt = 1 \/ fmt = 2 \/ fmt = 3
    OBVIOUS
  <2>2. /\ rtmpHeaderSize[0] = 11 /\ rtmpHeaderSize[1] = 7
        /\ rtmpHeaderSize[2] = 3 /\ rtmpHeaderSize[3] = 0
    BY DEF rtmpHeaderSize
  <2>. QED
    BY <2>1, <2>2
<1>3. /\ fmt <= 2 => \A i \in 1..3 : H[i] = WriteUInt24BE(Capped(t))[i]
      /\ fmt <= 1 => /\ \A i \in 1..3 : H[3 + i] = WriteUInt24BE(Len(m.payload))[i]
                     /\ H[7] = m.type
      /\ fmt = 0 => \A i \in 1..4 : H[7 + i] = WriteUInt32BE(m.stream_id)[5 - i]
  <2>1. t \in Nat
    BY TimestampProperties
  <2>. QED
    <3>1. HeaderWritten(H, m, fmt, t)
      BY <2>1, MessageHeaderProperties
    <3>. QED
      BY <3>1, Zenon DEF HeaderWritten
<1>. HIDE DEF size, H
<1>4. size \in Nat /\ (fmt <= 2 => size >= 3) /\ (fmt <= 1 => size >= 7) /\ (fmt = 0 => size = 11)
  BY <1>2
<1>5. buffer \in Seq(Byte) /\ Len(buffer) = o /\ \A i \in 1..o : buffer[i] = b[i]
  BY DEF Begins
<1>6. ASSUME NEW i \in 1..size, NEW j \in Nat, j = bl + i PROVE buffer[j] = H[i] /\ j <= Len(buffer)
  <2>1. j \in 1..o
    BY <1>1, <1>4, <1>6
  <2>2. b[j] = H[i]
    BY <1>1, <1>6, Zenon
  <2>3. j <= Len(buffer)
    BY <1>5, <2>1
  <2>. QED
    BY <1>5, <2>1, <2>2, <2>3
<1>7. ASSUME fmt <= 2
      PROVE ReadUInt24BE(SubSeq(buffer, bl + 0 + 1, bl + 0 + 3)) = Capped(t)
  <2>1. ASSUME NEW i \in 1..3 PROVE buffer[bl + i] = WriteUInt24BE(Capped(t))[i]
    <3>1. i \in 1..size /\ bl + i \in Nat
      BY <1>1, <1>4, <1>7
    <3>2. buffer[bl + i] = H[i]
      BY <1>6, <3>1, Zenon
    <3>. QED
      BY <1>3, <1>7, <3>2, Zenon
  <2>2. bl \in Nat /\ bl + 3 <= Len(buffer) /\ bl + 0 + 1 = bl + 1 /\ bl + 0 + 3 = bl + 3
    BY <1>1, <1>4, <1>5, <1>7
  <2>3. Capped(t) \in Nat /\ Capped(t) < B * B * B
    BY TimestampProperties
  <2>. QED
    BY <1>5, <2>1, <2>2, <2>3, UInt24At, ZenonT(40)
<1>8. ASSUME fmt <= 1
      PROVE /\ ReadUInt24BE(SubSeq(buffer, bl + 3 + 1, bl + 3 + 3)) = Len(m.payload)
            /\ buffer[bl + 7] = m.type
  <2>1. ASSUME NEW i \in 1..3 PROVE buffer[bl + 3 + i] = WriteUInt24BE(Len(m.payload))[i]
    <3>1. 3 + i \in 1..size /\ bl + 3 + i \in Nat /\ bl + 3 + i = bl + (3 + i)
      BY <1>1, <1>4, <1>8
    <3>2. buffer[bl + 3 + i] = H[3 + i]
      BY <1>6, <3>1, Zenon
    <3>. QED
      BY <1>3, <1>8, <3>2, Zenon
  <2>2. bl + 3 \in Nat /\ bl + 3 + 3 <= Len(buffer)
    BY <1>1, <1>4, <1>5, <1>8
  <2>3. Len(m.payload) \in Nat /\ Len(m.payload) < B * B * B
    BY DEF Writable
  <2>4. ReadUInt24BE(SubSeq(buffer, bl + 3 + 1, bl + 3 + 3)) = Len(m.payload)
    BY <1>5, <2>1, <2>2, <2>3, UInt24At, Zenon
  <2>5. 7 \in 1..size /\ bl + 7 \in Nat
    BY <1>1, <1>4, <1>8
  <2>6. buffer[bl + 7] = H[7]
    BY <1>6, <2>5, Zenon
  <2>. QED
    BY <1>3, <1>8, <2>4, <2>6, Zenon
<1>9. ASSUME fmt = 0
      PROVE ReadUInt32BE(Reverse(SubSeq(buffer, bl + 8, bl + 11))) = m.stream_id
  <2>1. ASSUME NEW i \in 1..4 PROVE buffer[bl + 7 + i] = WriteUInt32BE(m.stream_id)[5 - i]
    <3>1. 7 + i \in 1..size /\ bl + 7 + i \in Nat /\ bl + 7 + i = bl + (7 + i)
      BY <1>1, <1>4, <1>9
    <3>2. buffer[bl + 7 + i] = H[7 + i]
      BY <1>6, <3>1, Zenon
    <3>. QED
      BY <1>3, <1>9, <3>2, Zenon
  <2>2. /\ bl + 7 \in Nat /\ bl + 7 + 4 <= Len(buffer)
        /\ bl + 7 + 1 = bl + 8 /\ bl + 7 + 4 = bl + 11
    BY <1>1, <1>4, <1>5, <1>9
  <2>3. m.stream_id \in Nat /\ m.stream_id < B * B * B * B
    BY ClockBound DEF Writable
  <2>4. ReadUInt32BE(Reverse(SubSeq(buffer, bl + 7 + 1, bl + 7 + 4))) = m.stream_id
    BY <1>5, <2>1, <2>2, <2>3, UInt32LEAt, Zenon
  <2>. QED
    BY <2>2, <2>4, Zenon
<1>. QED
  BY <1>7, <1>8, <1>9

LEMMA ExtendedTimestampRead ==
  ASSUME NEW m, NEW cid \in ChannelIds, NEW fmt \in 0..3, NEW t \in 0..MaxClock,
         NEW from, NEW n, NEW bl, NEW hl, NEW el, NEW b,
         LaidOut(b, m, cid, fmt, t, from, n, bl, hl, el),
         NEW o \in Nat, NEW buffer, Begins(buffer, b, o)
  PROVE  /\ el = (IF Capped(t) = TimestampMark THEN hl + 4 ELSE hl)
         /\ Capped(t) # TimestampMark => Capped(t) = t
         /\ o >= el /\ Capped(t) = TimestampMark
              => ReadUInt32BE(SubSeq(buffer, hl + 1, hl + 4)) = t
<1>1. /\ hl \in Nat /\ el = hl + Len(ExtendedTimestamp(t))
      /\ \A i \in 1..Len(ExtendedTimestamp(t)), j \in Nat :
           j = hl + i => b[j] = ExtendedTimestamp(t)[i]
  BY DEF LaidOut
<1>2. /\ Len(ExtendedTimestamp(t)) = (IF Capped(t) = TimestampMark THEN 4 ELSE 0)
      /\ Capped(t) = TimestampMark => ExtendedTimestamp(t) = WriteUInt32BE(t)
      /\ Capped(t) # TimestampMark => Capped(t) = t
  BY ExtendedTimestampProperties
<1>3. el = (IF Capped(t) = TimestampMark THEN hl + 4 ELSE hl)
  BY <1>1, <1>2
<1>4. ASSUME o >= el, Capped(t) = TimestampMark PROVE ReadUInt32BE(SubSeq(buffer, hl + 1, hl + 4)) = t
  <2>1. buffer \in Seq(Byte) /\ Len(buffer) = o /\ \A i \in 1..o : buffer[i] = b[i]
    BY DEF Begins
  <2>2. hl + 4 <= Len(buffer)
    BY <1>3, <1>4, <2>1
  <2>3. ASSUME NEW i \in 1..4 PROVE buffer[hl + i] = WriteUInt32BE(t)[i]
    <3>1. i \in 1..Len(ExtendedTimestamp(t))
      BY <1>2, <1>4
    <3>2. hl + i \in Nat /\ hl + i \in 1..o
      BY <1>1, <2>1, <2>2
    <3>3. b[hl + i] = WriteUInt32BE(t)[i]
      BY <1>1, <1>2, <1>4, <3>1, <3>2, Zenon
    <3>. QED
      BY <2>1, <3>2, <3>3, Zenon
  <2>4. t \in Nat /\ t < B * B * B * B
    BY ClockBound
  <2>. QED
    BY <1>1, <2>1, <2>2, <2>3, <2>4, UInt32At, Zenon
<1>. QED
  BY <1>2, <1>3, <1>4

-----------------------------------------------------------------------------
(* The history of a connection                                                 *)

ChunkBytes(c, size) == Chunk(c.message, c.message.cid, c.fmt, c.timestamp, c.from, size)

ChunkOK(c, size) ==
  /\ c.message \in Messages /\ c.fmt \in 0..3 /\ c.timestamp \in 0..MaxClock
  /\ c.from \in 0..Len(c.message.payload) /\ c.part = PartOf(c.message, c.from, size)
  /\ c.part \in Nat /\ c.bl \in Nat /\ c.hl \in Nat /\ c.el \in Nat
  /\ LaidOut(ChunkBytes(c, size), c.message, c.message.cid, c.fmt, c.timestamp, c.from,
             c.part, c.bl, c.hl, c.el)

LEMMA MessageProperties ==
  ASSUME NEW m \in Messages
  PROVE  /\ m.cid \in ChannelIds /\ m.payload \in Seq(Byte) /\ Writable(m)
         /\ Len(m.payload) \in Nat /\ m.type \in Nat /\ m.stream_id \in Nat /\ m.clock \in Nat
<1>1. /\ m.cid \in ChannelIds /\ m.type \in Byte /\ m.stream_id \in 0..MaxClock
      /\ m.clock \in Nat /\ m.payload \in Seq(Byte) /\ Len(m.payload) < B * B * B
  BY MessagesAssumption
<1>2. Len(m.payload) \in Nat
  BY <1>1
<1>3. m.type \in Nat
  BY <1>1, BaseProperties DEF Byte
<1>4. m.stream_id \in Nat
  BY <1>1, ClockBound
<1>. QED
  BY <1>1, <1>2, <1>3, <1>4, Zenon DEF Writable

LEMMA ChunkHeaderRead ==
  ASSUME NEW size, NEW c, ChunkOK(c, size), NEW o \in Nat, NEW buffer,
         Begins(buffer, ChunkBytes(c, size), o)
  PROVE  /\ o >= 1 => BasicBytes(buffer[1]) = c.bl /\ Format(buffer) = c.fmt
         /\ o >= c.bl => ChannelRead(buffer) = Key(c.message.cid)
         /\ o >= c.hl =>
              /\ c.fmt <= 2 => ReadUInt24BE(SubSeq(buffer, c.bl + 0 + 1, c.bl + 0 + 3)) = Capped(c.timestamp)
              /\ c.fmt <= 1 =>
                   /\ ReadUInt24BE(SubSeq(buffer, c.bl + 3 + 1, c.bl + 3 + 3)) = Len(c.message.payload)
                   /\ buffer[c.bl + 7] = c.message.type
              /\ c.fmt = 0 =>
                   ReadUInt32BE(Reverse(SubSeq(buffer, c.bl + 8, c.bl + 11))) = c.message.stream_id
         /\ c.el = (IF Capped(c.timestamp) = TimestampMark THEN c.hl + 4 ELSE c.hl)
         /\ Capped(c.timestamp) # TimestampMark => Capped(c.timestamp) = c.timestamp
         /\ o >= c.el /\ Capped(c.timestamp) = TimestampMark
              => ReadUInt32BE(SubSeq(buffer, c.hl + 1, c.hl + 4)) = c.timestamp
<1>1. PICK m, fmt, t, from, n, bl, hl, el, b :
         /\ m = c.message /\ fmt = c.fmt /\ t = c.timestamp /\ from = c.from /\ n = c.part
         /\ bl = c.bl /\ hl = c.hl /\ el = c.el /\ b = ChunkBytes(c, size)
  OBVIOUS
<1>2. PICK cid : cid = m.cid
  OBVIOUS
<1>3. /\ m \in Messages /\ fmt \in 0..3 /\ t \in 0..MaxClock
      /\ LaidOut(b, m, cid, fmt, t, from, n, bl, hl, el)
  BY <1>1, <1>2, Zenon DEF ChunkOK
<1>4. Writable(m) /\ cid \in ChannelIds
  BY <1>2, <1>3, MessageProperties
<1>5. Begins(buffer, b, o)
  BY <1>1, Zenon
<1>6. /\ o >= 1 => BasicBytes(buffer[1]) = bl /\ Format(buffer) = fmt
      /\ o >= bl => ChannelRead(buffer) = Key(cid)
  <2>1. fmt \in 0..3 /\ LaidOut(b, m, cid, fmt, t, from, n, bl, hl, el)
    BY <1>3
  <2>2. o >= 1 => BasicBytes(buffer[1]) = bl /\ Format(buffer) = fmt
    BY <1>4, <1>5, <2>1, BasicHeaderRead
  <2>3. o >= bl => ChannelRead(buffer) = Key(cid)
    BY <1>4, <1>5, <2>1, BasicHeaderRead
  <2>. QED
    BY <2>2, <2>3
<1>7. o >= hl =>
      /\ fmt <= 2 => ReadUInt24BE(SubSeq(buffer, bl + 0 + 1, bl + 0 + 3)) = Capped(t)
      /\ fmt <= 1 => /\ ReadUInt24BE(SubSeq(buffer, bl + 3 + 1, bl + 3 + 3)) = Len(m.payload)
                     /\ buffer[bl + 7] = m.type
      /\ fmt = 0 => ReadUInt32BE(Reverse(SubSeq(buffer, bl + 8, bl + 11))) = m.stream_id
  BY <1>3, <1>4, <1>5, MessageHeaderRead
<1>8. /\ el = (IF Capped(t) = TimestampMark THEN hl + 4 ELSE hl)
      /\ Capped(t) # TimestampMark => Capped(t) = t
      /\ o >= el /\ Capped(t) = TimestampMark => ReadUInt32BE(SubSeq(buffer, hl + 1, hl + 4)) = t
  BY <1>3, <1>4, <1>5, ExtendedTimestampRead
<1>. QED
  BY <1>1, <1>2, <1>6, <1>7, <1>8, Zenon

\* What the header of a chunk leaves in the packet of its channel
HasHeader(r, c) ==
  /\ r.fmt = c.fmt /\ r.timestamp = Capped(c.timestamp)
  /\ r.length = Len(c.message.payload) /\ r.type = c.message.type
  /\ r.stream_id = c.message.stream_id

LEMMA HeaderReadFields ==
  ASSUME NEW size, NEW c, ChunkOK(c, size), NEW o \in Nat, NEW buffer,
         Begins(buffer, ChunkBytes(c, size), o), o >= c.hl, NEW packet \in Packets,
         c.fmt >= 1 => packet.stream_id = c.message.stream_id,
         c.fmt >= 2 => packet.type = c.message.type /\ packet.length = Len(c.message.payload),
         c.fmt = 3 => packet.timestamp = Capped(c.timestamp),
         NEW r, r = HeaderRead(packet, buffer, c.bl)
  PROVE  /\ r \in Packets /\ HasHeader(r, c)
         /\ r.clock = packet.clock /\ r.payload = packet.payload /\ r.bytes = packet.bytes
<1>. DEFINE m == c.message
            bl == c.bl
<1>1. /\ m \in Messages /\ c.fmt \in 0..3 /\ c.timestamp \in 0..MaxClock
      /\ bl \in Nat /\ c.hl \in Nat
      /\ LaidOut(ChunkBytes(c, size), m, m.cid, c.fmt, c.timestamp, c.from, c.part, bl, c.hl, c.el)
  BY Zenon DEF ChunkOK
<1>2. Writable(m) /\ m.cid \in ChannelIds /\ Len(m.payload) \in Nat /\ m.type \in Nat
      /\ m.stream_id \in Nat /\ Capped(c.timestamp) \in Nat
  BY <1>1, MessageProperties, ClockBound, TimestampProperties
<1>3. bl \in 1..3 /\ c.hl \in bl..(bl + 11)
  BY <1>1, Zenon DEF LaidOut
<1>4. Format(buffer) = c.fmt
  <2>1. o >= 1
    BY <1>3
  <2>. QED
    BY <2>1, ChunkHeaderRead
<1>5. /\ c.fmt <= 2 => ReadUInt24BE(SubSeq(buffer, bl + 0 + 1, bl + 0 + 3)) = Capped(c.timestamp)
      /\ c.fmt <= 1 => /\ ReadUInt24BE(SubSeq(buffer, bl + 3 + 1, bl + 3 + 3)) = Len(m.payload)
                       /\ buffer[bl + 7] = m.type
      /\ c.fmt = 0 =>
           ReadUInt32BE(Reverse(SubSeq(buffer, bl + 8, bl + 11))) = m.stream_id
  BY ChunkHeaderRead, ZenonT(40)
<1>. DEFINE ts == IF c.fmt <= 2 THEN ReadUInt24BE(SubSeq(buffer, bl + 0 + 1, bl + 0 + 3))
                                ELSE packet.timestamp
            ln == IF c.fmt <= 1 THEN ReadUInt24BE(SubSeq(buffer, bl + 3 + 1, bl + 3 + 3))
                                ELSE packet.length
            ty == IF c.fmt <= 1 THEN buffer[bl + 7] ELSE packet.type
            st == IF c.fmt = 0 THEN ReadUInt32BE(Reverse(SubSeq(buffer, bl + 8, bl + 11)))
                               ELSE packet.stream_id
<1>6. ts = Capped(c.timestamp)
  BY <1>1, <1>5
<1>7. ln = Len(m.payload) /\ ty = m.type
  BY <1>1, <1>5
<1>8. st = m.stream_id
  BY <1>1, <1>5
<1>9. r = [packet EXCEPT !.fmt = c.fmt, !.timestamp = ts, !.length = ln, !.type = ty,
                         !.stream_id = st]
  BY <1>4 DEF HeaderRead
<1>. HIDE DEF ts, ln, ty, st, m, bl
<1>10. /\ r.fmt = c.fmt /\ r.timestamp = ts /\ r.length = ln /\ r.type = ty /\ r.stream_id = st
       /\ r.clock = packet.clock /\ r.payload = packet.payload /\ r.bytes = packet.bytes
  BY <1>9 DEF Packets
<1>11. r \in Packets
  <2>1. c.fmt \in 0..3 /\ ts \in Nat /\ ln \in Nat /\ ty \in Nat /\ st \in Nat
    BY <1>1, <1>2, <1>6, <1>7, <1>8
  <2>. QED
    BY <1>9, <2>1 DEF Packets
<1>. QED
  BY <1>6, <1>7, <1>8, <1>10, <1>11, Zenon DEF HasHeader, m

\* A place in what the peer wrote, before a chunk or at the end: its offset at,
\* and what open, last, outSize and sent were there
PlaceOK(p) ==
  /\ p.at \in Nat /\ p.size \in Nat \ {0}
  /\ \A cid \in DOMAIN p.last :
       /\ p.last[cid].message \in Messages /\ p.last[cid].message.cid = cid
       /\ p.last[cid].timestamp \in 0..MaxClock
  /\ \A cid \in DOMAIN p.open :
       /\ cid \in DOMAIN p.last
       /\ p.open[cid] \in [message : Messages, from : Nat \ {0}]
       /\ p.open[cid].message = p.last[cid].message
       /\ p.open[cid].from < Len(p.last[cid].message.payload)
       /\ p.open[cid].from % p.size = 0
       /\ p.last[cid].message.type = SET_PACKET_SIZE => DOMAIN p.open = {cid}

\* What format fmt leaves out is as in the message before.
Inherits(c, before) ==
  LET m == c.message
  IN  /\ c.timestamp = m.clock - before.message.clock
      /\ m.stream_id = before.message.stream_id
      /\ c.fmt >= 2 => m.type = before.message.type /\ Len(m.payload) = Len(before.message.payload)
      /\ c.fmt = 3 => c.timestamp = before.timestamp

Starts(c, p, q) ==
  LET cid == c.message.cid
  IN  /\ c.from = 0 /\ cid \notin DOMAIN p.open
      /\ c.message.type = SET_PACKET_SIZE => DOMAIN p.open = {}
      /\ \A x \in DOMAIN p.open : p.open[x].message.type # SET_PACKET_SIZE
      /\ c.fmt = 0 => c.timestamp = c.message.clock
      /\ c.fmt # 0 => cid \in DOMAIN p.last /\ Inherits(c, p.last[cid])
      /\ DOMAIN q.last = DOMAIN p.last \cup {cid}
      /\ \A x \in DOMAIN p.last \ {cid} : q.last[x] = p.last[x]
      /\ q.last[cid].message = c.message /\ q.last[cid].timestamp = c.timestamp

Continues(c, p, q) ==
  LET cid == c.message.cid
  IN  /\ c.fmt = 3 /\ cid \in DOMAIN p.open
      /\ p.open[cid].message = c.message /\ p.open[cid].from = c.from
      /\ c.timestamp = p.last[cid].timestamp
      /\ q.last = p.last

Ends(c, p, q) ==
  LET m == c.message
  IN  /\ DOMAIN q.open = DOMAIN p.open \ {m.cid}
      /\ \A x \in DOMAIN q.open : q.open[x] = p.open[x]
      /\ q.sent = IF m.clock > MaxClock THEN p.sent ELSE Append(p.sent, Content(m))
      /\ q.size = IF m.type = SET_PACKET_SIZE THEN ReadUInt32BE(m.payload) ELSE p.size

Leaves(c, p, q) ==
  LET cid == c.message.cid
  IN  /\ DOMAIN q.open = DOMAIN p.open \cup {cid}
      /\ \A x \in DOMAIN p.open \ {cid} : q.open[x] = p.open[x]
      /\ q.open[cid] = [message |-> c.message, from |-> c.from + p.size]
      /\ q.sent = p.sent /\ q.size = p.size

Moves(c, p, q) ==
  /\ Starts(c, p, q) \/ Continues(c, p, q)
  /\ Len(c.message.payload) <= c.from + p.size => Ends(c, p, q)
  /\ ~(Len(c.message.payload) <= c.from + p.size) => Leaves(c, p, q)
  /\ q.at = p.at + c.el + c.part

LEMMA RemainderUnique ==
  ASSUME NEW d \in Nat \ {0}, NEW q \in Nat, NEW r \in 0..(d - 1), NEW n \in Nat, n = d * q + r
  PROVE  n % d = r
<1>1. n \div d = q
  BY QuotientUnique
<1>2. n = d * (n \div d) + (n % d) /\ n % d \in Nat
  BY DivisionProperties
<1>3. n = d * q + (n % d)
  BY <1>1, <1>2, Zenon
<1>. QED
  BY <1>2, <1>3

LEMMA Remainders ==
  ASSUME NEW s \in Nat \ {0}, NEW a \in Nat, a % s = 0
  PROVE  /\ (a + s) % s = 0
         /\ \A x \in 0..(s - 1) : (a + x) % s = x
<1>1. PICK q \in Nat : q = a \div s
  BY DivisionProperties
<1>2. a = s * q + 0
  <2>1. a = s * (a \div s) + (a % s)
    BY DivisionProperties
  <2>. QED
    BY <1>1, <2>1
<1>3. (a + s) % s = 0
  <2>1. PICK k \in Nat, r \in 0..(s - 1), n \in Nat : k = q + 1 /\ r = 0 /\ n = a + s
    OBVIOUS
  <2>2. n = s * k + r
    BY <1>2, <2>1
  <2>3. n % s = r
    BY <2>2, RemainderUnique
  <2>. QED
    BY <2>1, <2>3, Zenon
<1>4. ASSUME NEW x \in 0..(s - 1) PROVE (a + x) % s = x
  <2>1. a + x = s * q + x /\ a + x \in Nat
    BY <1>2
  <2>. QED
    BY <2>1, RemainderUnique
<1>. QED
  BY <1>3, <1>4

LEMMA ChunkSizeSet ==
  ASSUME NEW m \in Messages, m.type = SET_PACKET_SIZE
  PROVE  /\ Len(m.payload) = 4 /\ ReadUInt32BE(m.payload) \in Nat \ {0} /\ ~(m.clock > MaxClock)
<1>1. Len(m.payload) = 4 /\ ReadUInt32BE(m.payload) > 0 /\ m.clock <= MaxClock
  BY ChunkSizeAssumption
<1>2. m.payload \in Seq(Byte) /\ m.clock \in Nat
  BY MessageProperties
<1>3. /\ m.payload[1] \in Nat /\ m.payload[2] \in Nat /\ m.payload[3] \in Nat
      /\ m.payload[4] \in Nat
  <2>1. \A i \in 1..4 : m.payload[i] \in Byte
    BY <1>1, <1>2
  <2>. QED
    BY <2>1, BaseProperties DEF Byte
<1>4. B \in Nat
  BY BaseProperties
<1>5. ReadUInt32BE(m.payload) \in Nat
  BY <1>3, <1>4 DEF ReadUInt32BE
<1>6. MaxClock \in Nat
  BY TimestampProperties
<1>. QED
  BY <1>1, <1>2, <1>5, <1>6

\* After a chunk is again a place.
LEMMA PlaceFollows ==
  ASSUME NEW p, PlaceOK(p), NEW c, ChunkOK(c, p.size), NEW q, Moves(c, p, q)
  PROVE  PlaceOK(q)
<1>. DEFINE m == c.message
            cid == m.cid
<1>1. /\ m \in Messages /\ c.from \in 0..Len(m.payload) /\ c.timestamp \in 0..MaxClock
      /\ c.el \in Nat /\ c.part \in Nat
  BY Zenon DEF ChunkOK
<1>2. Len(m.payload) \in Nat
  BY <1>1, MessageProperties
<1>3. p.at \in Nat /\ p.size \in Nat \ {0}
  BY DEF PlaceOK
<1>4. q.at \in Nat
  BY <1>1, <1>3 DEF Moves
<1>5. q.size \in Nat \ {0}
  BY <1>1, <1>3, ChunkSizeSet DEF Moves, Ends, Leaves
<1>6. ASSUME NEW x \in DOMAIN q.last
      PROVE  /\ q.last[x].message \in Messages /\ q.last[x].message.cid = x
             /\ q.last[x].timestamp \in 0..MaxClock
  <2>1. CASE Starts(c, p, q)
    BY <1>1, <2>1 DEF Starts, PlaceOK
  <2>2. CASE Continues(c, p, q)
    BY <2>2 DEF Continues, PlaceOK
  <2>. QED
    BY <2>1, <2>2 DEF Moves
<1>7. DOMAIN p.last \subseteq DOMAIN q.last /\ \A x \in DOMAIN p.last \ {cid} : q.last[x] = p.last[x]
  BY DEF Moves, Starts, Continues
<1>8. cid \in DOMAIN q.last /\ q.last[cid].message = m
  <2>1. CASE Starts(c, p, q)
    BY <2>1 DEF Starts
  <2>2. CASE Continues(c, p, q)
    <3>1. cid \in DOMAIN p.open /\ p.open[cid].message = m /\ q.last = p.last
      BY <2>2 DEF Continues
    <3>2. cid \in DOMAIN p.last /\ p.open[cid].message = p.last[cid].message
      BY <3>1, Zenon DEF PlaceOK
    <3>. QED
      BY <3>1, <3>2, Zenon
  <2>. QED
    BY <2>1, <2>2 DEF Moves
<1>9. ASSUME NEW x \in DOMAIN p.open, x # cid
      PROVE  /\ x \in DOMAIN q.last /\ q.last[x] = p.last[x]
  BY <1>7, <1>9 DEF PlaceOK
<1>10. c.from % p.size = 0
  <2>1. CASE Starts(c, p, q)
    <3>1. c.from = 0
      BY <2>1 DEF Starts
    <3>2. 0 = p.size * 0 + 0 /\ 0 \in 0..(p.size - 1)
      BY <1>3
    <3>. QED
      BY <1>3, <3>1, <3>2, RemainderUnique
  <2>2. CASE Continues(c, p, q)
    BY <2>2 DEF Continues, PlaceOK
  <2>. QED
    BY <2>1, <2>2 DEF Moves
<1>11. m.type = SET_PACKET_SIZE => DOMAIN p.open \subseteq {cid}
  <2>1. CASE Starts(c, p, q)
    BY <2>1 DEF Starts
  <2>2. CASE Continues(c, p, q)
    <3>1. cid \in DOMAIN p.open /\ p.open[cid].message = m
      BY <2>2, Zenon DEF Continues
    <3>2. /\ p.open[cid].message = p.last[cid].message
          /\ p.last[cid].message.type = SET_PACKET_SIZE => DOMAIN p.open = {cid}
      BY <3>1, Zenon DEF PlaceOK
    <3>. QED
      BY <3>1, <3>2, Zenon
  <2>. QED
    BY <2>1, <2>2 DEF Moves
<1>12. CASE Len(m.payload) <= c.from + p.size
  <2>1. Ends(c, p, q)
    BY <1>12 DEF Moves
  <2>2. CASE m.type = SET_PACKET_SIZE
    <3>1. DOMAIN p.open \subseteq {cid}
      BY <1>11, <2>2
    <3>2. DOMAIN q.open = {}
      BY <2>1, <3>1 DEF Ends
    <3>. QED
      BY <1>4, <1>5, <1>6, <3>2 DEF PlaceOK
  <2>3. CASE m.type # SET_PACKET_SIZE
    <3>1. q.size = p.size
      BY <2>1, <2>3 DEF Ends
    <3>2. ASSUME NEW x \in DOMAIN q.open
          PROVE  /\ x \in DOMAIN q.last
                 /\ q.open[x] \in [message : Messages, from : Nat \ {0}]
                 /\ q.open[x].message = q.last[x].message
                 /\ q.open[x].from < Len(q.last[x].message.payload)
                 /\ q.open[x].from % q.size = 0
                 /\ q.last[x].message.type = SET_PACKET_SIZE => DOMAIN q.open = {x}
      <4>1. x \in DOMAIN p.open /\ x # cid /\ q.open[x] = p.open[x]
        BY <2>1 DEF Ends
      <4>2. x \in DOMAIN q.last /\ q.last[x] = p.last[x]
        BY <1>9, <4>1
      <4>3. q.last[x].message.type = SET_PACKET_SIZE => DOMAIN q.open = {x}
        <5>1. SUFFICES ASSUME p.last[x].message.type = SET_PACKET_SIZE PROVE DOMAIN q.open = {x}
          BY <4>2
        <5>2. DOMAIN p.open = {x}
          BY <4>1, <5>1 DEF PlaceOK
        <5>. QED
          BY <2>1, <4>1, <5>2 DEF Ends
      <4>. QED
        BY <3>1, <4>1, <4>2, <4>3 DEF PlaceOK
    <3>. QED
      BY <1>4, <1>5, <1>6, <3>2 DEF PlaceOK
  <2>. QED
    BY <2>2, <2>3
<1>13. CASE ~(Len(m.payload) <= c.from + p.size)
  <2>1. Leaves(c, p, q)
    BY <1>13 DEF Moves
  <2>2. q.size = p.size
    BY <2>1 DEF Leaves
  <2>3. q.open[cid] = [message |-> m, from |-> c.from + p.size]
    BY <2>1 DEF Leaves
  <2>4. m.type = SET_PACKET_SIZE => DOMAIN q.open = {cid}
    BY <1>11, <2>1 DEF Leaves
  <2>5. ASSUME NEW x \in DOMAIN q.open
        PROVE  /\ x \in DOMAIN q.last
               /\ q.open[x] \in [message : Messages, from : Nat \ {0}]
               /\ q.open[x].message = q.last[x].message
               /\ q.open[x].from < Len(q.last[x].message.payload)
               /\ q.open[x].from % q.size = 0
               /\ q.last[x].message.type = SET_PACKET_SIZE => DOMAIN q.open = {x}
    <3>1. CASE x = cid
      <4>1. q.open[x].from = c.from + p.size /\ q.open[x].message = m
        BY <2>3, <3>1
      <4>2. (c.from + p.size) % p.size = 0
        BY <1>1, <1>3, <1>10, Remainders
      <4>3. c.from + p.size \in Nat \ {0} /\ c.from + p.size < Len(m.payload)
        BY <1>1, <1>2, <1>3, <1>13
      <4>4. q.open[x] \in [message : Messages, from : Nat \ {0}]
        BY <1>1, <2>3, <3>1, <4>3
      <4>5. q.open[x].from % q.size = 0
        BY <2>2, <4>1, <4>2, Zenon
      <4>6. x \in DOMAIN q.last /\ q.last[x].message = m
        BY <1>8, <3>1, Zenon
      <4>7. m.type = SET_PACKET_SIZE => DOMAIN q.open = {x}
        BY <2>4, <3>1, Zenon
      <4>8. q.open[x].from < Len(m.payload)
        BY <4>1, <4>3, Zenon
      <4>. QED
        BY <4>1, <4>4, <4>5, <4>6, <4>7, <4>8, Zenon
    <3>2. CASE x # cid
      <4>1. x \in DOMAIN p.open /\ q.open[x] = p.open[x]
        BY <2>1, <3>2 DEF Leaves
      <4>2. x \in DOMAIN q.last /\ q.last[x] = p.last[x]
        BY <1>9, <3>2, <4>1
      <4>3. p.last[x].message.type # SET_PACKET_SIZE
        <5>1. CASE Starts(c, p, q)
          <6>1. p.open[x].message.type # SET_PACKET_SIZE
            BY <4>1, <5>1 DEF Starts
          <6>2. p.open[x].message = p.last[x].message
            BY <4>1 DEF PlaceOK
          <6>. QED
            BY <6>1, <6>2
        <5>2. CASE Continues(c, p, q)
          <6>1. cid \in DOMAIN p.open
            BY <5>2 DEF Continues
          <6>2. p.last[x].message.type = SET_PACKET_SIZE => DOMAIN p.open = {x}
            BY <4>1, Zenon DEF PlaceOK
          <6>. QED
            BY <3>2, <6>1, <6>2
        <5>. QED
          BY <5>1, <5>2 DEF Moves
      <4>. QED
        BY <2>2, <4>1, <4>2, <4>3 DEF PlaceOK
    <3>. QED
      BY <3>1, <3>2
  <2>. QED
    BY <1>4, <1>5, <1>6, <2>5 DEF PlaceOK
<1>. QED
  BY <1>12, <1>13

-----------------------------------------------------------------------------
(* The bytes on their way                                                      *)

\* Of all bytes S of the connection the parser has used x.
Underway(S, x) ==
  /\ S \in Seq(Byte) /\ data \in Seq(Byte) /\ wire \in Seq(Byte)
  /\ x + Len(data) + Len(wire) = Len(S)
  /\ \A i \in 1..Len(data), j \in Nat : j = x + i => data[i] = S[j]
  /\ \A i \in 1..Len(wire), j \in Nat : j = x + Len(data) + i => wire[i] = S[j]

LEMMA TailOfSeq ==
  ASSUME NEW s \in Seq(Byte), NEW n \in 0..Len(s), NEW t, t = SubSeq(s, n + 1, Len(s))
  PROVE  /\ t \in Seq(Byte) /\ Len(t) = Len(s) - n
         /\ \A i \in 1..Len(t), j \in Nat : j = n + i => j \in 1..Len(s) /\ t[i] = s[j]
<1>1. t \in Seq(Byte)
  OBVIOUS
<1>2. Len(t) = Len(s) - n
  OBVIOUS
<1>3. ASSUME NEW i \in 1..Len(t), NEW j \in Nat, j = n + i PROVE j \in 1..Len(s) /\ t[i] = s[j]
  <2>1. PICK l \in Nat : l = Len(s)
    OBVIOUS
  <2>2. Len(t) = l - n /\ n \in 0..l
    BY <1>2, <2>1
  <2>3. i \in 1..(l - n)
    BY <2>2
  <2>4. j \in 1..l /\ j = (n + 1) + i - 1
    BY <1>3, <2>2, <2>3
  <2>5. t[i] = s[(n + 1) + i - 1]
    BY <2>1, <2>2, <2>3
  <2>. QED
    BY <2>1, <2>4, <2>5
<1>. QED
  BY <1>1, <1>2, <1>3

LEMMA Joined ==
  ASSUME NEW s \in Seq(Byte), NEW t \in Seq(Byte), NEW u, u = s \o t,
         NEW o \in Nat, o = Len(s), NEW n \in Nat, n = Len(t)
  PROVE  /\ u \in Seq(Byte) /\ Len(u) = o + n
         /\ \A i \in 1..o : u[i] = s[i]
         /\ \A h \in 1..n, i \in Nat : i = o + h => u[i] = t[h]
<1>1. u \in Seq(Byte)
  OBVIOUS
<1>2. Len(u) = o + n
  OBVIOUS
<1>3. ASSUME NEW i \in 1..o PROVE u[i] = s[i]
  OBVIOUS
<1>4. ASSUME NEW h \in 1..n, NEW i \in Nat, i = o + h PROVE u[i] = t[h]
  BY <1>4
<1>. QED
  BY <1>1, <1>2, <1>3, <1>4

LEMMA HeadOfSeq ==
  ASSUME NEW s \in Seq(Byte), NEW n \in 0..Len(s), NEW t, t = SubSeq(s, 1, n)
  PROVE  /\ t \in Seq(Byte) /\ Len(t) = n
         /\ \A i \in 1..n : i \in 1..Len(s) /\ t[i] = s[i]
<1>1. t \in Seq(Byte)
  OBVIOUS
<1>2. Len(t) = n
  OBVIOUS
<1>3. ASSUME NEW i \in 1..n PROVE i \in 1..Len(s) /\ t[i] = s[i]
  OBVIOUS
<1>. QED
  BY <1>1, <1>2, <1>3

LEMMA UseBytes ==
  ASSUME NEW S, NEW x \in Nat, Underway(S, x), NEW n \in 0..Len(data), Use(n), wire' = wire,
         NEW y \in Nat, y = x + n
  PROVE  Underway(S, y)'
<1>1. PICK l \in Nat : l = Len(data)
  BY DEF Underway
<1>2. PICK w \in Nat : w = Len(wire)
  BY DEF Underway
<1>3. n \in 0..l
  BY <1>1
<1>4. /\ data' \in Seq(Byte) /\ Len(data') = l - n
      /\ \A i \in 1..Len(data'), j \in Nat : j = n + i => j \in 1..Len(data) /\ data'[i] = data[j]
  <2>1. data \in Seq(Byte) /\ data' = SubSeq(data, n + 1, Len(data))
    BY DEF Use, Underway
  <2>2. /\ data' \in Seq(Byte) /\ Len(data') = Len(data) - n
        /\ \A i \in 1..Len(data'), j \in Nat : j = n + i => j \in 1..Len(data) /\ data'[i] = data[j]
    BY <2>1, TailOfSeq
  <2>. QED
    BY <1>1, <2>2, Zenon
<1>5. S \in Seq(Byte) /\ wire' \in Seq(Byte) /\ Len(wire') = w
  BY <1>2 DEF Underway
<1>6. x + l + w = Len(S)
  BY <1>1, <1>2, Zenon DEF Underway
<1>7. y + Len(data') + Len(wire') = Len(S)
  <2>1. (x + n) + (l - n) + w = x + l + w
    BY <1>3
  <2>2. y + (l - n) + w = Len(S)
    BY <1>6, <2>1, Zenon
  <2>. QED
    BY <1>4, <1>5, <2>2, Zenon
<1>8. ASSUME NEW i \in 1..Len(data'), NEW j \in Nat, j = y + i PROVE data'[i] = S[j]
  <2>1. PICK h \in Nat : h = n + i
    BY <1>3
  <2>2. j = x + h
    BY <1>8, <2>1, <1>3
  <2>3. h \in 1..Len(data) /\ data'[i] = data[h]
    BY <1>4, <2>1, Zenon
  <2>4. data[h] = S[j]
    BY <2>2, <2>3, Zenon DEF Underway
  <2>. QED
    BY <2>3, <2>4, Zenon
<1>9. ASSUME NEW i \in 1..Len(wire'), NEW j \in Nat, j = y + Len(data') + i PROVE wire'[i] = S[j]
  <2>1. i \in 1..Len(wire) /\ wire'[i] = wire[i]
    BY Zenon
  <2>2. j = x + l + i
    <3>1. i \in Nat
      BY <1>2, <2>1
    <3>. QED
      BY <1>3, <1>4, <1>9, <3>1
  <2>3. wire[i] = S[j]
    BY <1>1, <2>1, <2>2, Zenon DEF Underway
  <2>. QED
    BY <2>1, <2>3, Zenon
<1>. QED
  BY <1>4, <1>5, <1>7, <1>8, <1>9, Zenon DEF Underway

\* S holds b from offset at on.
HoldsAt(S, at, b) ==
  /\ at \in Nat /\ b \in Seq(Byte) /\ at + Len(b) <= Len(S)
  /\ \A i \in 1..Len(b), j \in Nat : j = at + i => S[j] = b[i]

\* The bytes that come next are those of the chunk.
LEMMA NextBytes ==
  ASSUME NEW S, NEW x \in Nat, Underway(S, x), NEW at, NEW b, HoldsAt(S, at, b),
         NEW o \in Nat, x = at + o, NEW i \in 1..Len(data), NEW h \in 1..Len(b), h = o + i
  PROVE  data[i] = b[h]
<1>1. at \in Nat
  BY DEF HoldsAt
<1>2. i \in Nat
  BY DEF Underway
<1>3. PICK j \in Nat : j = x + i
  BY <1>2
<1>4. h \in Nat /\ j = at + h
  BY <1>1, <1>2, <1>3
<1>5. data[i] = S[j]
  BY <1>3, Zenon DEF Underway
<1>6. S[j] = b[h]
  BY <1>4, Zenon DEF HoldsAt
<1>. QED
  BY <1>5, <1>6, Zenon

LEMMA CollectBytes ==
  ASSUME NEW S, NEW x \in Nat, Underway(S, x), NEW at, NEW b, HoldsAt(S, at, b),
         NEW o \in Nat, x = at + o, Begins(parserBuffer, b, o),
         NEW size \in Nat, o <= size, size <= Len(b), data # <<>>, Collect(size), wire' = wire
  PROVE  \E y \in Nat : /\ o <= y /\ y <= size /\ (y = size \/ o < y)
                        /\ Begins(parserBuffer', b, y)
                        /\ \E z \in Nat : z = at + y /\ Underway(S, z)'
<1>1. PICK l \in Nat : l = Len(data) /\ l # 0
  BY DEF Underway
<1>2. parserBuffer \in Seq(Byte) /\ Len(parserBuffer) = o /\ data \in Seq(Byte) /\ at \in Nat
      /\ b \in Seq(Byte)
  BY DEF Begins, Underway, HoldsAt
<1>3. PICK n \in 0..l : /\ n = Least(IF size > o THEN size - o ELSE 0, l)
                        /\ o + n <= size /\ (o + n = size \/ n > 0)
  BY <1>1 DEF Least
<1>4. Use(n) /\ parserBuffer' = parserBuffer \o SubSeq(data, 1, n)
  BY <1>1, <1>2, <1>3 DEF Collect
<1>5. PICK y \in Nat : y = o + n
  BY <1>3
<1>6. PICK z \in Nat : z = x + n
  BY <1>3
<1>7. z = at + y /\ o <= y /\ y <= size /\ (y = size \/ o < y)
  <2>1. n \in Nat /\ at \in Nat
    BY <1>2, <1>3
  <2>2. z = at + y
    BY <1>5, <1>6, <2>1
  <2>. QED
    BY <1>3, <1>5, <2>2
<1>8. Underway(S, z)'
  BY <1>1, <1>3, <1>4, <1>6, UseBytes
<1>9. PICK t : t = SubSeq(data, 1, n)
  OBVIOUS
<1>10. t \in Seq(Byte) /\ Len(t) = n /\ \A i \in 1..n : i \in 1..Len(data) /\ t[i] = data[i]
  BY <1>1, <1>2, <1>3, <1>9, HeadOfSeq
<1>11. parserBuffer' = parserBuffer \o t
  BY <1>4, <1>9
<1>12. /\ parserBuffer' \in Seq(Byte) /\ Len(parserBuffer') = y
       /\ \A i \in 1..o : parserBuffer'[i] = parserBuffer[i]
       /\ \A h \in 1..n, i \in Nat : i = o + h => parserBuffer'[i] = t[h]
  <2>1. n \in Nat /\ o = Len(parserBuffer) /\ n = Len(t)
    BY <1>2, <1>3, <1>10
  <2>2. /\ parserBuffer' \in Seq(Byte) /\ Len(parserBuffer') = o + n
        /\ \A i \in 1..o : parserBuffer'[i] = parserBuffer[i]
        /\ \A h \in 1..n, i \in Nat : i = o + h => parserBuffer'[i] = t[h]
    <3>1. parserBuffer \in Seq(Byte) /\ t \in Seq(Byte)
      BY <1>2, <1>10
    <3>. QED
      BY <1>11, <2>1, <3>1, Joined
  <2>. QED
    BY <1>5, <2>2, Zenon
<1>13. ASSUME NEW i \in 1..y PROVE parserBuffer'[i] = b[i]
  <2>1. CASE i <= o
    <3>2. i \in 1..o
      BY <1>5, <2>1
    <3>1. parserBuffer'[i] = parserBuffer[i]
      BY <1>12, <3>2, Zenon
    <3>. QED
      BY <3>1, <3>2, Zenon DEF Begins
  <2>2. CASE ~(i <= o)
    <3>1. PICK h \in 1..n : i = o + h
      BY <1>3, <1>5, <2>2
    <3>2. parserBuffer'[i] = t[h]
      BY <1>12, <3>1
    <3>3. h \in 1..Len(data) /\ t[h] = data[h]
      BY <1>10, <3>1, Zenon
    <3>4. i \in 1..Len(b)
      BY <1>2, <1>7
    <3>5. data[h] = b[i]
      BY <3>1, <3>3, <3>4, NextBytes
    <3>. QED
      BY <3>2, <3>3, <3>5, Zenon
  <2>. QED
    BY <2>1, <2>2
<1>14. Begins(parserBuffer', b, y)
  BY <1>12, <1>13, Zenon DEF Begins
<1>. QED
  BY <1>7, <1>8, <1>14, Zenon

-----------------------------------------------------------------------------
(* What the parser knows                                                       *)

From(p, cid) == IF cid \in DOMAIN p.open THEN p.open[cid].from ELSE 0

\* The first count bytes of m are in the packet.
Filled(packet, m, count) ==
  /\ packet.bytes = count /\ count \in 0..Len(packet.payload)
  /\ \A i \in 1..count : packet.payload[i] = m.payload[i]

Knows(p, cid) ==
  LET packet == inPackets[Key(cid)]
      m == p.last[cid].message
  IN  /\ Key(cid) \in DOMAIN inPackets
      /\ packet.length = Len(m.payload) /\ packet.type = m.type /\ packet.stream_id = m.stream_id
      /\ packet.timestamp = Capped(p.last[cid].timestamp) /\ packet.clock = m.clock
      /\ Filled(packet, m, From(p, cid))

\* The parser is where the peer was at p, but for the channels busy.
AgreesBut(p, busy) ==
  /\ received = p.sent /\ inChunkSize = p.size
  /\ \A cid \in DOMAIN p.last \ busy : Knows(p, cid)
  /\ \A x \in DOMAIN inPackets :
       inPackets[x].bytes # 0 => \E cid \in DOMAIN p.open \cup busy : x = Key(cid)

PacketsOK == \A x \in DOMAIN inPackets : inPackets[x] \in Packets

LEMMA KeyInjective ==
  ASSUME NEW m \in Messages, NEW n \in Messages, Key(m.cid) = Key(n.cid)
  PROVE  m.cid = n.cid
  BY ChannelsAssumption, Zenon DEF Key

LEMMA AgreesStays ==
  ASSUME NEW p, NEW busy, AgreesBut(p, busy), UNCHANGED <<inPackets, inChunkSize, received>>
  PROVE  AgreesBut(p, busy)'
  BY DEF AgreesBut, Knows

\* A change of the packet of one channel leaves what is known of the others.
LEMMA AgreesOthers ==
  ASSUME NEW p, PlaceOK(p), NEW m \in Messages, NEW busy, busy \subseteq {m.cid},
         AgreesBut(p, busy), inChunkSize' = inChunkSize, received' = received,
         \A x \in DOMAIN inPackets : x \in DOMAIN inPackets',
         \A x \in DOMAIN inPackets' :
           x # Key(m.cid) => x \in DOMAIN inPackets /\ inPackets'[x] = inPackets[x]
  PROVE  AgreesBut(p, {m.cid})'
<1>1. received' = p.sent /\ inChunkSize' = p.size
  BY DEF AgreesBut
<1>2. ASSUME NEW cid \in DOMAIN p.last, cid # m.cid PROVE Knows(p, cid)'
  <2>1. Knows(p, cid)
    BY <1>2 DEF AgreesBut
  <2>2. Key(cid) # Key(m.cid)
    <3>1. p.last[cid].message \in Messages /\ p.last[cid].message.cid = cid
      BY DEF PlaceOK
    <3>. QED
      BY <1>2, <3>1, KeyInjective, Zenon
  <2>3. Key(cid) \in DOMAIN inPackets' /\ inPackets'[Key(cid)] = inPackets[Key(cid)]
    BY <2>1, <2>2, Zenon DEF Knows
  <2>. QED
    BY <2>1, <2>3, Zenon DEF Knows
<1>3. ASSUME NEW x \in DOMAIN inPackets', inPackets'[x].bytes # 0
      PROVE  \E cid \in DOMAIN p.open \cup {m.cid} : x = Key(cid)
  <2>1. CASE x = Key(m.cid)
    BY <2>1
  <2>2. CASE x # Key(m.cid)
    <3>1. x \in DOMAIN inPackets /\ inPackets[x].bytes # 0
      BY <1>3, <2>2, Zenon
    <3>2. PICK cid \in DOMAIN p.open \cup busy : x = Key(cid)
      BY <3>1, Zenon DEF AgreesBut
    <3>. QED
      BY <3>2
  <2>. QED
    BY <2>1, <2>2
<1>. QED
  BY <1>1, <1>2, <1>3 DEF AgreesBut

-----------------------------------------------------------------------------
(* Within a chunk                                                              *)

InBasicHeader(c, p, o) ==
  /\ parserState = "BASIC_HEADER" /\ parserBasicBytes = c.bl
  /\ o \in 1..c.bl /\ Begins(parserBuffer, ChunkBytes(c, p.size), o) /\ AgreesBut(p, {})

InMessageHeader(c, p, o) ==
  /\ parserState = "MESSAGE_HEADER" /\ parserBasicBytes = c.bl
  /\ o \in c.bl..c.hl /\ Begins(parserBuffer, ChunkBytes(c, p.size), o) /\ AgreesBut(p, {})

HeaderIs(c, p) ==
  /\ channel = Key(c.message.cid) /\ channel \in DOMAIN inPackets
  /\ HasHeader(inPackets[channel], c) /\ AgreesBut(p, {c.message.cid})

InExtendedTimestamp(c, p, o) ==
  /\ parserState = "EXTENDED_TIMESTAMP" /\ parserBasicBytes = c.bl
  /\ o \in c.hl..c.el /\ Begins(parserBuffer, ChunkBytes(c, p.size), o)
  /\ HeaderIs(c, p) /\ Filled(inPackets[channel], c.message, c.from)
  /\ c.from # 0 => inPackets[channel].clock = c.message.clock
  /\ c.from = 0 /\ c.fmt # 0 => inPackets[channel].clock = p.last[c.message.cid].message.clock

InPayload(c, p, o) ==
  /\ parserState = "PAYLOAD"
  /\ \E x \in 0..c.part :
       /\ o = c.el + x /\ (x < c.part \/ c.part = 0)
       /\ HeaderIs(c, p) /\ Filled(inPackets[channel], c.message, c.from + x)
       /\ inPackets[channel].clock = c.message.clock

InChunk(c, p, o) ==
  InBasicHeader(c, p, o) \/ InMessageHeader(c, p, o) \/ InExtendedTimestamp(c, p, o) \/ InPayload(c, p, o)

\* The parser is in the chunk between p and q, or at its end.
Reads(S, c, p, q) ==
  \E x \in Nat :
    /\ Underway(S, x)
    /\ \/ \E o \in Nat : x = p.at + o /\ InChunk(c, p, o)
       \/ parserState = "INIT" /\ x = q.at /\ AgreesBut(q, {})

Follows(S, c, p, q) ==
  /\ ChunkOK(c, p.size) /\ Moves(c, p, q) /\ HoldsAt(S, p.at, ChunkBytes(c, p.size))

LEMMA ChunkLengths ==
  ASSUME NEW size, NEW c, ChunkOK(c, size)
  PROVE  /\ c.bl \in 1..3 /\ c.hl \in c.bl..(c.bl + 11) /\ c.el \in c.hl..(c.hl + 4)
         /\ c.hl = c.bl + rtmpHeaderSize[c.fmt]
         /\ c.bl \in Nat /\ c.hl \in Nat /\ c.el \in Nat /\ c.part \in Nat
         /\ 1 <= c.bl /\ c.bl <= c.hl /\ c.hl <= c.el /\ c.el <= 18
         /\ ChunkBytes(c, size) \in Seq(Byte) /\ Len(ChunkBytes(c, size)) = c.el + c.part
         /\ c.message \in Messages /\ c.fmt \in 0..3 /\ c.message.cid \in ChannelIds
<1>1. /\ c.bl \in 1..3 /\ c.hl \in c.bl..(c.bl + 11) /\ c.el \in c.hl..(c.hl + 4)
      /\ c.hl = c.bl + rtmpHeaderSize[c.fmt]
      /\ ChunkBytes(c, size) \in Seq(Byte) /\ Len(ChunkBytes(c, size)) = c.el + c.part
  BY Zenon DEF ChunkOK, LaidOut
<1>2. /\ c.bl \in Nat /\ c.hl \in Nat /\ c.el \in Nat /\ c.part \in Nat /\ c.message \in Messages
      /\ c.fmt \in 0..3
  BY Zenon DEF ChunkOK
<1>3. c.message.cid \in ChannelIds
  BY <1>2, MessageProperties
<1>4. 1 <= c.bl /\ c.bl <= c.hl /\ c.hl <= c.el /\ c.el <= 18
  <2>1. PICK bl \in 1..3, hl \in Nat, el \in Nat :
          /\ bl = c.bl /\ hl = c.hl /\ el = c.el /\ hl \in bl..(bl + 11) /\ el \in hl..(hl + 4)
    BY <1>1, <1>2
  <2>2. 1 <= bl /\ bl <= hl /\ hl <= el /\ el <= 18
    BY <2>1
  <2>. QED
    BY <2>1, <2>2, Zenon
<1>. QED
  BY <1>1, <1>2, <1>3, <1>4

LEMMA FirstByteStep ==
  ASSUME NEW S, NEW c, NEW p, NEW q, Follows(S, c, p, q),
         Underway(S, p.at), AgreesBut(p, {}), ReadFirstByte
  PROVE  Reads(S, c, p, q)' /\ parserBuffer' \in Seq(Byte) /\ Len(parserBuffer') <= 18
<1>1. PICK b : b = ChunkBytes(c, p.size)
  OBVIOUS
<1>2. PICK at \in Nat : at = p.at /\ HoldsAt(S, at, b)
  BY <1>1, ZenonT(40) DEF Follows, HoldsAt
<1>3. /\ c.bl \in 1..3 /\ b \in Seq(Byte) /\ Len(b) = c.el + c.part /\ c.el \in Nat /\ c.part \in Nat
      /\ 1 <= c.el + c.part /\ c.bl \in Nat
  <2>1. ChunkOK(c, p.size)
    BY DEF Follows
  <2>2. /\ c.bl \in 1..3 /\ b \in Seq(Byte) /\ Len(b) = c.el + c.part /\ c.el \in Nat
        /\ c.part \in Nat /\ c.bl \in Nat /\ c.hl \in Nat
        /\ 1 <= c.bl /\ c.bl <= c.hl /\ c.hl <= c.el
    BY <1>1, <2>1, ChunkLengths
  <2>. QED
    BY <2>2
<1>4. /\ data # <<>> /\ Use(1) /\ parserBuffer' = <<Head(data)>>
      /\ parserBasicBytes' = BasicBytes(Head(data)) /\ parserState' = "BASIC_HEADER"
      /\ wire' = wire /\ UNCHANGED <<inPackets, inChunkSize, received>>
  BY DEF ReadFirstByte, Reading, peerVars
<1>5. PICK z \in Nat : z = at + 1
  BY <1>2
<1>6. data \in Seq(Byte) /\ 1 \in 0..Len(data) /\ 1 \in 1..Len(data) /\ Head(data) = data[1]
  BY <1>4 DEF Underway
<1>7. Underway(S, z)'
  BY <1>2, <1>4, <1>5, <1>6, UseBytes
<1>8. data[1] = b[1]
  <2>1. PICK o \in Nat, x \in Nat : o = 0 /\ x = at + o /\ x = at
    BY <1>2
  <2>2. 1 \in 1..Len(b) /\ 1 = o + 1
    BY <1>3, <2>1
  <2>3. Underway(S, x)
    BY <1>2, <2>1, Zenon
  <2>. QED
    BY <1>2, <1>6, <2>1, <2>2, <2>3, NextBytes
<1>9. Begins(parserBuffer', b, 1)
  BY <1>4, <1>6, <1>8 DEF Begins
<1>10. parserBasicBytes' = c.bl
  <2>1. parserBuffer'[1] = Head(data)
    BY <1>4
  <2>2. BasicBytes(parserBuffer'[1]) = c.bl
    BY <1>1, <1>9, ChunkHeaderRead DEF Follows
  <2>. QED
    BY <1>4, <2>1, <2>2, Zenon
<1>11. AgreesBut(p, {})'
  BY <1>4, AgreesStays
<1>12. InBasicHeader(c, p, 1)'
  BY <1>1, <1>3, <1>4, <1>9, <1>10, <1>11 DEF InBasicHeader
<1>13. Reads(S, c, p, q)'
  BY <1>2, <1>5, <1>7, <1>12 DEF Reads, InChunk
<1>. QED
  BY <1>4, <1>6, <1>13

\* Collecting header bytes up to offset size of the chunk
LEMMA HeaderBytes ==
  ASSUME NEW S, NEW c, NEW p, NEW q, Follows(S, c, p, q), NEW x \in Nat, Underway(S, x),
         NEW o \in Nat, x = p.at + o, Begins(parserBuffer, ChunkBytes(c, p.size), o),
         NEW size \in Nat, o <= size, size <= c.el, data # <<>>, Collect(size), wire' = wire
  PROVE  /\ parserBuffer' \in Seq(Byte) /\ Len(parserBuffer') <= 18
         /\ \E y \in Nat :
              /\ o <= y /\ y <= size /\ (Len(parserBuffer') >= size <=> y = size)
              /\ Begins(parserBuffer', ChunkBytes(c, p.size), y)
              /\ \E z \in Nat : z = p.at + y /\ Underway(S, z)'
<1>1. PICK at, b : at = p.at /\ b = ChunkBytes(c, p.size)
  OBVIOUS
<1>2. HoldsAt(S, at, b) /\ ChunkOK(c, p.size) /\ Begins(parserBuffer, b, o)
  BY <1>1, Zenon DEF Follows
<1>3. c.el \in Nat /\ c.part \in Nat /\ c.el <= 18 /\ Len(b) = c.el + c.part
  BY <1>1, <1>2, ChunkLengths
<1>4. size <= Len(b)
  BY <1>3
<1>5. x = at + o
  BY <1>1
<1>6. PICK y \in Nat : /\ o <= y /\ y <= size /\ (y = size \/ o < y)
                       /\ Begins(parserBuffer', b, y)
                       /\ \E z \in Nat : z = at + y /\ Underway(S, z)'
  BY <1>2, <1>4, <1>5, CollectBytes
<1>7. parserBuffer' \in Seq(Byte) /\ Len(parserBuffer') = y
  BY <1>6, Zenon DEF Begins
<1>8. Len(parserBuffer') <= 18 /\ (Len(parserBuffer') >= size <=> y = size)
  <2>1. o <= y /\ y <= size
    BY <1>6
  <2>. QED
    BY <1>3, <1>7, <2>1
<1>. QED
  BY <1>1, <1>6, <1>7, <1>8

LEMMA BasicHeaderStep ==
  ASSUME NEW S, NEW c, NEW p, NEW q, Follows(S, c, p, q), NEW x \in Nat, Underway(S, x),
         NEW o \in Nat, x = p.at + o, InBasicHeader(c, p, o), ReadBasicHeader
  PROVE  Reads(S, c, p, q)' /\ parserBuffer' \in Seq(Byte) /\ Len(parserBuffer') <= 18
<1>1. /\ data # <<>> /\ Collect(parserBasicBytes) /\ wire' = wire
      /\ parserState' = IF Len(parserBuffer') >= parserBasicBytes THEN "MESSAGE_HEADER" ELSE parserState
      /\ parserBasicBytes' = parserBasicBytes /\ UNCHANGED <<inPackets, inChunkSize, received>>
  BY DEF ReadBasicHeader, Reading, peerVars
<1>2. /\ parserBasicBytes = c.bl /\ o \in 1..c.bl /\ parserState = "BASIC_HEADER"
      /\ Begins(parserBuffer, ChunkBytes(c, p.size), o) /\ AgreesBut(p, {})
  BY DEF InBasicHeader
<1>3. c.bl \in Nat /\ c.hl \in Nat /\ c.bl <= c.hl /\ c.bl <= c.el
  <2>1. ChunkOK(c, p.size)
    BY DEF Follows
  <2>. QED
    BY <2>1, ChunkLengths
<1>4. PICK size \in Nat : size = c.bl /\ o <= size /\ size <= c.el /\ Collect(size)
  BY <1>1, <1>2, <1>3
<1>5. /\ parserBuffer' \in Seq(Byte) /\ Len(parserBuffer') <= 18
      /\ \E y \in Nat :
              /\ o <= y /\ y <= size /\ (Len(parserBuffer') >= size <=> y = size)
              /\ Begins(parserBuffer', ChunkBytes(c, p.size), y)
              /\ \E z \in Nat : z = p.at + y /\ Underway(S, z)'
  BY <1>1, <1>2, <1>4, HeaderBytes
<1>6. PICK y \in Nat :
              /\ o <= y /\ y <= size /\ (Len(parserBuffer') >= size <=> y = size)
              /\ Begins(parserBuffer', ChunkBytes(c, p.size), y)
              /\ \E z \in Nat : z = p.at + y /\ Underway(S, z)'
  BY <1>5
<1>7. AgreesBut(p, {})'
  BY <1>1, <1>2, AgreesStays
<1>8. InChunk(c, p, y)'
  <2>1. CASE y = size
    <3>1. parserState' = "MESSAGE_HEADER"
      BY <1>1, <1>2, <1>4, <1>6, <2>1
    <3>2. y \in c.bl..c.hl
      BY <1>3, <1>4, <2>1
    <3>3. InMessageHeader(c, p, y)'
      BY <1>1, <1>2, <1>6, <1>7, <3>1, <3>2, Zenon DEF InMessageHeader
    <3>. QED
      BY <3>3 DEF InChunk
  <2>2. CASE y # size
    <3>1. parserState' = "BASIC_HEADER"
      BY <1>1, <1>2, <1>4, <1>6, <2>2
    <3>2. y \in 1..c.bl
      <4>1. o \in Nat /\ 1 <= o /\ o <= y /\ y <= size
        BY <1>2, <1>3, <1>6
      <4>. QED
        BY <1>3, <1>4, <4>1
    <3>3. InBasicHeader(c, p, y)'
      BY <1>1, <1>2, <1>6, <1>7, <3>1, <3>2, Zenon DEF InBasicHeader
    <3>. QED
      BY <3>3 DEF InChunk
  <2>. QED
    BY <2>1, <2>2
<1>9. Reads(S, c, p, q)'
  BY <1>6, <1>8 DEF Reads
<1>. QED
  BY <1>5, <1>9

LEMMA NewPacket ==
  ASSUME NEW key \in Keys
  PROVE  RtmpPacket(key) \in Packets
<1>1. PICK empty : empty = <<>> /\ empty \in Seq(Byte)
  <2>1. <<>> \in Seq(Byte)
    OBVIOUS
  <2>. QED
    BY <2>1, Zenon
<1>2. RtmpPacket(key) =
        [fmt |-> 0, cid |-> key, timestamp |-> 0, length |-> 0, type |-> 0,
         stream_id |-> 0, clock |-> 0, payload |-> empty, bytes |-> 0]
  BY <1>1 DEF RtmpPacket
<1>. QED
  BY <1>1, <1>2 DEF Packets

\* What is known of the channel of a chunk before its header is read
LEMMA BeforeHeader ==
  ASSUME NEW p, PlaceOK(p), NEW c, ChunkOK(c, p.size), NEW q, Moves(c, p, q), AgreesBut(p, {}),
         PacketsOK, NEW key, key = Key(c.message.cid), NEW packet,
         packet = IF key \in DOMAIN inPackets THEN inPackets[key] ELSE RtmpPacket(key)
  PROVE  /\ packet \in Packets
         /\ Filled(packet, c.message, c.from)
         /\ c.fmt >= 1 => packet.stream_id = c.message.stream_id
         /\ c.fmt >= 2 => packet.type = c.message.type /\ packet.length = Len(c.message.payload)
         /\ c.fmt = 3 => packet.timestamp = Capped(c.timestamp)
         /\ c.from # 0 => packet.clock = c.message.clock
         /\ c.from = 0 /\ c.fmt # 0 => packet.clock = p.last[c.message.cid].message.clock
<1>. DEFINE m == c.message
            cid == m.cid
<1>1. m \in Messages /\ c.fmt \in 0..3 /\ cid \in ChannelIds
  BY MessageProperties DEF ChunkOK
<1>2. packet \in Packets
  <2>1. CASE key \in DOMAIN inPackets
    BY <2>1 DEF PacketsOK
  <2>2. CASE key \notin DOMAIN inPackets
    <3>1. packet = RtmpPacket(key)
      BY <2>2
    <3>2. key \in Keys
      BY <1>1 DEF Keys
    <3>. QED
      BY <3>1, <3>2, NewPacket
  <2>. QED
    BY <2>1, <2>2
<1>3. ASSUME cid \in DOMAIN p.last
      PROVE  /\ packet.length = Len(p.last[cid].message.payload)
             /\ packet.type = p.last[cid].message.type
             /\ packet.stream_id = p.last[cid].message.stream_id
             /\ packet.timestamp = Capped(p.last[cid].timestamp)
             /\ packet.clock = p.last[cid].message.clock
             /\ Filled(packet, p.last[cid].message, From(p, cid))
  <2>1. Knows(p, cid)
    BY <1>3 DEF AgreesBut
  <2>2. key \in DOMAIN inPackets /\ packet = inPackets[key]
    BY <2>1 DEF Knows
  <2>. QED
    BY <2>1, <2>2, Zenon DEF Knows
<1>4. CASE Starts(c, p, q)
  <2>1. c.from = 0 /\ cid \notin DOMAIN p.open
    BY <1>4 DEF Starts
  <2>2. packet.bytes = 0
    <3>1. CASE key \in DOMAIN inPackets
      <4>1. SUFFICES ASSUME inPackets[key].bytes # 0 PROVE FALSE
        BY <3>1
      <4>2. PICK x \in DOMAIN p.open : key = Key(x)
        BY <3>1, <4>1 DEF AgreesBut
      <4>3. p.last[x].message \in Messages /\ p.last[x].message.cid = x
        BY DEF PlaceOK
      <4>4. x = cid
        BY <1>1, <4>2, <4>3, KeyInjective
      <4>. QED
        BY <2>1, <4>2, <4>4
    <3>2. CASE key \notin DOMAIN inPackets
      BY <3>2 DEF RtmpPacket
    <3>. QED
      BY <3>1, <3>2
  <2>3. Filled(packet, m, c.from)
    <3>1. packet.payload \in Seq(Byte)
      BY <1>2 DEF Packets
    <3>. QED
      BY <2>1, <2>2, <3>1 DEF Filled
  <2>4. ASSUME c.fmt # 0 PROVE cid \in DOMAIN p.last /\ Inherits(c, p.last[cid])
    BY <1>4, <2>4 DEF Starts
  <2>5. c.fmt >= 1 => packet.stream_id = m.stream_id
    BY <1>1, <1>3, <2>4 DEF Inherits
  <2>6. c.fmt >= 2 => packet.type = m.type /\ packet.length = Len(m.payload)
    BY <1>1, <1>3, <2>4 DEF Inherits
  <2>7. c.fmt = 3 => packet.timestamp = Capped(c.timestamp)
    BY <1>1, <1>3, <2>4 DEF Inherits
  <2>8. c.fmt # 0 => packet.clock = p.last[cid].message.clock
    BY <1>3, <2>4
  <2>. QED
    BY <1>2, <2>1, <2>3, <2>5, <2>6, <2>7, <2>8
<1>5. CASE Continues(c, p, q)
  <2>1. /\ c.fmt = 3 /\ cid \in DOMAIN p.open /\ p.open[cid].message = m /\ p.open[cid].from = c.from
        /\ c.timestamp = p.last[cid].timestamp
    BY <1>5, Zenon DEF Continues
  <2>2. cid \in DOMAIN p.last /\ p.open[cid].message = p.last[cid].message
        /\ p.open[cid].from \in Nat \ {0}
    BY <2>1 DEF PlaceOK
  <2>3. p.last[cid].message = m /\ From(p, cid) = c.from /\ c.from # 0
    BY <2>1, <2>2, Zenon DEF From
  <2>. QED
    BY <1>2, <1>3, <2>1, <2>2, <2>3
<1>. QED
  BY <1>4, <1>5 DEF Moves

\* The outcome of a step of the parser within a chunk
Proceeds(S, c, p, q) ==
  /\ Reads(S, c, p, q)' /\ PacketsOK'
  /\ parserBuffer' \in Seq(Byte) /\ Len(parserBuffer') <= 18

LEMMA MessageHeaderStep ==
  ASSUME NEW S, NEW c, NEW p, NEW q, PlaceOK(p), Follows(S, c, p, q), NEW x \in Nat, Underway(S, x),
         NEW o \in Nat, x = p.at + o, InMessageHeader(c, p, o), PacketsOK, ReadMessageHeader
  PROVE  Proceeds(S, c, p, q)
<1>. DEFINE m == c.message
<1>1. /\ parserBasicBytes = c.bl /\ o \in c.bl..c.hl /\ parserState = "MESSAGE_HEADER"
      /\ Begins(parserBuffer, ChunkBytes(c, p.size), o) /\ AgreesBut(p, {})
  BY DEF InMessageHeader
<1>2. ChunkOK(c, p.size) /\ Moves(c, p, q)
  BY DEF Follows
<1>3. /\ c.bl \in Nat /\ c.hl \in Nat /\ c.el \in Nat /\ 1 <= c.bl /\ c.bl <= c.hl /\ c.hl <= c.el
      /\ c.hl = c.bl + rtmpHeaderSize[c.fmt] /\ m \in Messages /\ c.fmt \in 0..3
  BY <1>2, ChunkLengths
<1>4. Format(parserBuffer) = c.fmt
  <2>1. o >= 1
    BY <1>1, <1>3
  <2>. QED
    BY <1>1, <1>2, <2>1, ChunkHeaderRead
<1>5. PICK size \in Nat : size = c.hl
  BY <1>3
<1>6. size = rtmpHeaderSize[Format(parserBuffer)] + parserBasicBytes
  <2>1. rtmpHeaderSize[c.fmt] \in Nat
    BY <1>3 DEF rtmpHeaderSize
  <2>. QED
    BY <1>1, <1>3, <1>4, <1>5, <2>1
<1>. DEFINE cid == ChannelRead(parserBuffer')
            packet == IF cid \in DOMAIN inPackets THEN inPackets[cid] ELSE RtmpPacket(cid)
<1>7. /\ data # <<>> /\ Collect(size) /\ wire' = wire /\ parserBasicBytes' = parserBasicBytes
      /\ UNCHANGED <<inChunkSize, received>>
      /\ Len(parserBuffer') >= size =>
           /\ channel' = cid /\ parserState' = "EXTENDED_TIMESTAMP"
           /\ inPackets' = Put(inPackets, cid, HeaderRead(packet, parserBuffer', parserBasicBytes))
      /\ ~(Len(parserBuffer') >= size) => UNCHANGED <<channel, inPackets, parserState>>
  BY <1>6, Zenon DEF ReadMessageHeader, Reading, peerVars
<1>. HIDE DEF m, cid, packet
<1>8. o <= size /\ size <= c.el
  BY <1>1, <1>3, <1>5
<1>9. /\ parserBuffer' \in Seq(Byte) /\ Len(parserBuffer') <= 18
      /\ \E y \in Nat :
              /\ o <= y /\ y <= size /\ (Len(parserBuffer') >= size <=> y = size)
              /\ Begins(parserBuffer', ChunkBytes(c, p.size), y)
              /\ \E z \in Nat : z = p.at + y /\ Underway(S, z)'
  BY <1>1, <1>7, <1>8, HeaderBytes
<1>10. PICK y \in Nat :
              /\ o <= y /\ y <= size /\ (Len(parserBuffer') >= size <=> y = size)
              /\ Begins(parserBuffer', ChunkBytes(c, p.size), y)
              /\ \E z \in Nat : z = p.at + y /\ Underway(S, z)'
  BY <1>9
<1>11. CASE y # size
  <2>1. UNCHANGED <<channel, inPackets, parserState>>
    BY <1>7, <1>10, <1>11
  <2>2. AgreesBut(p, {})'
    BY <1>1, <1>7, <2>1, AgreesStays
  <2>3. y \in c.bl..c.hl
    BY <1>1, <1>3, <1>5, <1>10
  <2>4. InMessageHeader(c, p, y)'
    BY <1>1, <1>7, <1>10, <2>1, <2>2, <2>3, Zenon DEF InMessageHeader
  <2>5. PacketsOK'
    BY <2>1 DEF PacketsOK
  <2>. QED
    BY <1>9, <1>10, <2>4, <2>5, Zenon DEF Reads, InChunk, Proceeds
<1>12. CASE y = size
  <2>1. PICK buffer, key, r :
          /\ buffer = parserBuffer' /\ key = cid /\ r = HeaderRead(packet, buffer, c.bl)
    OBVIOUS
  <2>2. /\ channel' = key /\ parserState' = "EXTENDED_TIMESTAMP"
        /\ inPackets' = Put(inPackets, key, r)
    BY <1>1, <1>7, <1>10, <1>12, <2>1, Zenon
  <2>3. Begins(buffer, ChunkBytes(c, p.size), y)
    BY <1>10, <2>1, Zenon
  <2>4. y >= c.bl /\ y >= c.hl
    BY <1>3, <1>5, <1>12
  <2>5. key = Key(c.message.cid)
    <3>1. ChannelRead(buffer) = Key(c.message.cid)
      BY <1>2, <2>3, <2>4, ChunkHeaderRead
    <3>. QED
      BY <2>1, <3>1, Zenon DEF cid
  <2>6. packet = IF key \in DOMAIN inPackets THEN inPackets[key] ELSE RtmpPacket(key)
    BY <2>1, Zenon DEF packet
  <2>7. /\ packet \in Packets
        /\ Filled(packet, c.message, c.from)
        /\ c.fmt >= 1 => packet.stream_id = c.message.stream_id
        /\ c.fmt >= 2 => packet.type = c.message.type /\ packet.length = Len(c.message.payload)
        /\ c.fmt = 3 => packet.timestamp = Capped(c.timestamp)
        /\ c.from # 0 => packet.clock = c.message.clock
        /\ c.from = 0 /\ c.fmt # 0 => packet.clock = p.last[c.message.cid].message.clock
    BY <1>1, <1>2, <2>5, <2>6, BeforeHeader
  <2>8. /\ r \in Packets /\ HasHeader(r, c)
        /\ r.clock = packet.clock /\ r.payload = packet.payload /\ r.bytes = packet.bytes
    BY <1>2, <2>1, <2>3, <2>4, <2>7, HeaderReadFields
  <2>9. /\ DOMAIN inPackets' = DOMAIN inPackets \cup {key} /\ inPackets'[key] = r
        /\ \A z \in DOMAIN inPackets' : z # key => z \in DOMAIN inPackets /\ inPackets'[z] = inPackets[z]
    <3>1. /\ DOMAIN Put(inPackets, key, r) = DOMAIN inPackets \cup {key}
          /\ Put(inPackets, key, r)[key] = r
          /\ \A z \in DOMAIN Put(inPackets, key, r) :
               z # key => z \in DOMAIN inPackets /\ Put(inPackets, key, r)[z] = inPackets[z]
      BY DEF Put
    <3>. QED
      BY <2>2, <3>1, Zenon
  <2>10. PacketsOK'
    BY <2>8, <2>9, Zenon DEF PacketsOK
  <2>11. AgreesBut(p, {c.message.cid})'
    <3>1. \A z \in DOMAIN inPackets : z \in DOMAIN inPackets'
      BY <2>9
    <3>2. \A z \in DOMAIN inPackets' :
            z # Key(c.message.cid) => z \in DOMAIN inPackets /\ inPackets'[z] = inPackets[z]
      BY <2>5, <2>9, Zenon
    <3>3. c.message \in Messages /\ {} \subseteq {c.message.cid}
      BY <1>3 DEF m
    <3>. QED
      BY <1>1, <1>7, <3>1, <3>2, <3>3, AgreesOthers
  <2>12. channel' = Key(c.message.cid) /\ channel' \in DOMAIN inPackets' /\ inPackets'[channel'] = r
    BY <2>2, <2>5, <2>9
  <2>13. HeaderIs(c, p)'
    BY <2>8, <2>11, <2>12, Zenon DEF HeaderIs
  <2>14. Filled(r, c.message, c.from)
    BY <2>7, <2>8, Zenon DEF Filled
  <2>15. /\ c.from # 0 => r.clock = c.message.clock
         /\ c.from = 0 /\ c.fmt # 0 => r.clock = p.last[c.message.cid].message.clock
    BY <2>7, <2>8, Zenon
  <2>16. y \in c.hl..c.el
    BY <1>3, <1>5, <1>12
  <2>17. InExtendedTimestamp(c, p, y)'
    BY <1>1, <1>7, <1>10, <2>2, <2>12, <2>13, <2>14, <2>15, <2>16, Zenon DEF InExtendedTimestamp
  <2>. QED
    BY <1>9, <1>10, <2>10, <2>17, Zenon DEF Reads, InChunk, Proceeds
<1>. QED
  BY <1>11, <1>12

\* The first chunk of a message moves the clock of its packet to that of the message.
LEMMA ClockStarts ==
  ASSUME NEW p, PlaceOK(p), NEW c, ChunkOK(c, p.size), NEW q, Moves(c, p, q),
         NEW packet \in Packets, HasHeader(packet, c), Filled(packet, c.message, c.from),
         c.from # 0 => packet.clock = c.message.clock,
         c.from = 0 /\ c.fmt # 0 => packet.clock = p.last[c.message.cid].message.clock,
         NEW r, r = Started(packet, c.timestamp)
  PROVE  /\ r \in Packets /\ HasHeader(r, c) /\ Filled(r, c.message, c.from)
         /\ r.clock = c.message.clock
<1>. DEFINE m == c.message
<1>1. m \in Messages /\ m.clock \in Nat /\ c.timestamp \in Nat
  BY MessageProperties, ClockBound DEF ChunkOK
<1>2. packet.bytes = c.from /\ packet.fmt = c.fmt
  BY Zenon DEF Filled, HasHeader
<1>3. CASE c.from # 0
  <2>1. r = packet
    BY <1>2, <1>3 DEF Started
  <2>. QED
    BY <1>3, <2>1
<1>4. CASE c.from = 0
  <2>1. Starts(c, p, q)
    <3>1. ASSUME Continues(c, p, q) PROVE FALSE
      <4>1. m.cid \in DOMAIN p.open /\ p.open[m.cid].from = 0
        BY <1>4, <3>1 DEF Continues
      <4>. QED
        BY <4>1 DEF PlaceOK
    <3>. QED
      BY <3>1 DEF Moves
  <2>2. PICK clock : clock = IF packet.fmt = 0 THEN c.timestamp ELSE packet.clock + c.timestamp
    OBVIOUS
  <2>3. r = [packet EXCEPT !.clock = clock]
    BY <1>2, <1>4, <2>2 DEF Started
  <2>4. clock = m.clock
    <3>1. CASE c.fmt = 0
      BY <1>2, <2>1, <2>2, <3>1 DEF Starts
    <3>2. CASE c.fmt # 0
      <4>1. /\ m.cid \in DOMAIN p.last
            /\ c.timestamp = m.clock - p.last[m.cid].message.clock
        BY <2>1, <3>2 DEF Starts, Inherits
      <4>2. p.last[m.cid].message \in Messages
        BY <4>1 DEF PlaceOK
      <4>3. p.last[m.cid].message.clock \in Nat
        BY <4>2, MessageProperties
      <4>4. packet.clock = p.last[m.cid].message.clock
        BY <1>4, <3>2
      <4>5. clock = p.last[m.cid].message.clock + c.timestamp
        BY <1>2, <2>2, <3>2, <4>4
      <4>. QED
        BY <1>1, <4>1, <4>3, <4>5
    <3>. QED
      BY <3>1, <3>2
  <2>5. /\ r.fmt = packet.fmt /\ r.timestamp = packet.timestamp /\ r.length = packet.length
        /\ r.type = packet.type /\ r.stream_id = packet.stream_id /\ r.clock = clock
        /\ r.payload = packet.payload /\ r.bytes = packet.bytes
    BY <2>3 DEF Packets
  <2>6. r \in Packets
    BY <1>1, <2>3, <2>4 DEF Packets
  <2>. QED
    BY <2>4, <2>5, <2>6, Zenon DEF HasHeader, Filled
<1>. QED
  BY <1>3, <1>4

LEMMA ExtendedTimestampStep ==
  ASSUME NEW S, NEW c, NEW p, NEW q, PlaceOK(p), Follows(S, c, p, q), NEW x \in Nat, Underway(S, x),
         NEW o \in Nat, x = p.at + o, InExtendedTimestamp(c, p, o), PacketsOK, ReadExtendedTimestamp
  PROVE  Proceeds(S, c, p, q)
<1>1. /\ parserBasicBytes = c.bl /\ o \in c.hl..c.el /\ parserState = "EXTENDED_TIMESTAMP"
      /\ Begins(parserBuffer, ChunkBytes(c, p.size), o)
      /\ HeaderIs(c, p) /\ Filled(inPackets[channel], c.message, c.from)
      /\ c.from # 0 => inPackets[channel].clock = c.message.clock
      /\ c.from = 0 /\ c.fmt # 0 => inPackets[channel].clock = p.last[c.message.cid].message.clock
  BY DEF InExtendedTimestamp
<1>2. ChunkOK(c, p.size) /\ Moves(c, p, q)
  BY DEF Follows
<1>3. /\ c.bl \in Nat /\ c.hl \in Nat /\ c.el \in Nat /\ 1 <= c.bl /\ c.bl <= c.hl /\ c.hl <= c.el
      /\ c.hl = c.bl + rtmpHeaderSize[c.fmt] /\ c.message \in Messages /\ c.fmt \in 0..3
      /\ c.part \in Nat
  BY <1>2, ChunkLengths
<1>4. /\ channel = Key(c.message.cid) /\ channel \in DOMAIN inPackets
      /\ HasHeader(inPackets[channel], c) /\ AgreesBut(p, {c.message.cid})
  BY <1>1, Zenon DEF HeaderIs
<1>5. PICK packet : packet = inPackets[channel] /\ packet \in Packets /\ HasHeader(packet, c)
  BY <1>4 DEF PacketsOK
<1>6. PICK header \in Nat : header = c.hl /\ header = rtmpHeaderSize[packet.fmt] + parserBasicBytes
  <2>1. rtmpHeaderSize[c.fmt] \in Nat
    BY <1>3 DEF rtmpHeaderSize
  <2>2. packet.fmt = c.fmt
    BY <1>5, Zenon DEF HasHeader
  <2>. QED
    BY <1>1, <1>3, <2>1, <2>2
<1>7. PICK size \in Nat : /\ size = c.el
                          /\ size = IF packet.timestamp = TimestampMark THEN header + 4 ELSE header
  <2>1. c.el = (IF Capped(c.timestamp) = TimestampMark THEN c.hl + 4 ELSE c.hl)
    BY <1>1, <1>2, ChunkHeaderRead
  <2>2. packet.timestamp = Capped(c.timestamp)
    BY <1>5, Zenon DEF HasHeader
  <2>. QED
    BY <1>3, <1>6, <2>1, <2>2
<1>. DEFINE timestamp == IF packet.timestamp = TimestampMark
                           THEN ReadUInt32BE(SubSeq(parserBuffer', header + 1, header + 4))
                           ELSE packet.timestamp
<1>8. /\ data # <<>> /\ Collect(size) /\ wire' = wire
      /\ UNCHANGED <<parserBasicBytes, channel, inChunkSize, received>>
      /\ Len(parserBuffer') >= size =>
           /\ inPackets' = [inPackets EXCEPT ![channel] = Started(packet, timestamp)]
           /\ parserState' = "PAYLOAD"
      /\ ~(Len(parserBuffer') >= size) => UNCHANGED <<inPackets, parserState>>
  BY <1>5, <1>6, <1>7, Zenon DEF ReadExtendedTimestamp, Reading, peerVars
<1>. HIDE DEF timestamp
<1>9. o <= size /\ size <= c.el
  BY <1>1, <1>3, <1>7
<1>10. /\ parserBuffer' \in Seq(Byte) /\ Len(parserBuffer') <= 18
       /\ \E y \in Nat :
              /\ o <= y /\ y <= size /\ (Len(parserBuffer') >= size <=> y = size)
              /\ Begins(parserBuffer', ChunkBytes(c, p.size), y)
              /\ \E z \in Nat : z = p.at + y /\ Underway(S, z)'
  BY <1>1, <1>8, <1>9, HeaderBytes
<1>11. PICK y \in Nat :
              /\ o <= y /\ y <= size /\ (Len(parserBuffer') >= size <=> y = size)
              /\ Begins(parserBuffer', ChunkBytes(c, p.size), y)
              /\ \E z \in Nat : z = p.at + y /\ Underway(S, z)'
  BY <1>10
<1>12. CASE y # size
  <2>1. UNCHANGED <<channel, inPackets, parserState>>
    BY <1>8, <1>11, <1>12
  <2>2. AgreesBut(p, {c.message.cid})'
    BY <1>4, <1>8, <2>1, AgreesStays
  <2>3. HeaderIs(c, p)'
    BY <1>4, <2>1, <2>2, Zenon DEF HeaderIs
  <2>4. y \in c.hl..c.el
    BY <1>1, <1>3, <1>7, <1>11
  <2>5. InExtendedTimestamp(c, p, y)'
    BY <1>1, <1>8, <1>11, <2>1, <2>3, <2>4, Zenon DEF InExtendedTimestamp
  <2>6. PacketsOK'
    BY <2>1 DEF PacketsOK
  <2>. QED
    BY <1>10, <1>11, <2>5, <2>6, Zenon DEF Reads, InChunk, Proceeds
<1>13. CASE y = size
  <2>1. PICK buffer, r, key :
          buffer = parserBuffer' /\ r = Started(packet, c.timestamp) /\ key = channel
    OBVIOUS
  <2>2. timestamp = c.timestamp
    <3>1. Begins(buffer, ChunkBytes(c, p.size), y)
      BY <1>11, <2>1, Zenon
    <3>2. y >= c.el
      BY <1>3, <1>7, <1>13
    <3>3. /\ Capped(c.timestamp) # TimestampMark => Capped(c.timestamp) = c.timestamp
          /\ Capped(c.timestamp) = TimestampMark
              => ReadUInt32BE(SubSeq(buffer, c.hl + 1, c.hl + 4)) = c.timestamp
      BY <1>2, <3>1, <3>2, ChunkHeaderRead
    <3>4. packet.timestamp = Capped(c.timestamp)
      BY <1>5, Zenon DEF HasHeader
    <3>. QED
      BY <1>6, <2>1, <3>3, <3>4, Zenon DEF timestamp
  <2>3. inPackets' = [inPackets EXCEPT ![key] = r] /\ parserState' = "PAYLOAD"
    BY <1>8, <1>11, <1>13, <2>1, <2>2, Zenon
  <2>4. /\ r \in Packets /\ HasHeader(r, c) /\ Filled(r, c.message, c.from)
        /\ r.clock = c.message.clock
    <3>1. /\ Filled(packet, c.message, c.from)
          /\ c.from # 0 => packet.clock = c.message.clock
          /\ c.from = 0 /\ c.fmt # 0 => packet.clock = p.last[c.message.cid].message.clock
      BY <1>1, <1>5, Zenon
    <3>. QED
      BY <1>2, <1>5, <2>1, <3>1, ClockStarts
  <2>5. /\ DOMAIN inPackets' = DOMAIN inPackets /\ inPackets'[key] = r
        /\ \A z \in DOMAIN inPackets' : z # key => inPackets'[z] = inPackets[z]
    BY <1>4, <2>1, <2>3
  <2>6. PacketsOK'
    BY <2>4, <2>5, Zenon DEF PacketsOK
  <2>7. channel' = key /\ key = Key(c.message.cid) /\ key \in DOMAIN inPackets'
    BY <1>4, <1>8, <2>1, <2>5, Zenon
  <2>8. AgreesBut(p, {c.message.cid})'
    <3>1. \A z \in DOMAIN inPackets : z \in DOMAIN inPackets'
      BY <2>5
    <3>2. \A z \in DOMAIN inPackets' :
            z # Key(c.message.cid) => z \in DOMAIN inPackets /\ inPackets'[z] = inPackets[z]
      BY <2>5, <2>7, Zenon
    <3>. QED
      BY <1>3, <1>4, <1>8, <3>1, <3>2, AgreesOthers
  <2>9. HeaderIs(c, p)'
    BY <2>4, <2>5, <2>7, <2>8, Zenon DEF HeaderIs
  <2>10. PICK w \in 0..c.part : w = 0 /\ y = c.el + w /\ (w < c.part \/ c.part = 0) /\ c.from = c.from + w
    <3>1. c.from \in Nat
      <4>1. c.from \in 0..Len(c.message.payload) /\ Len(c.message.payload) \in Nat
        BY <1>2, <1>3, MessageProperties DEF ChunkOK
      <4>. QED
        BY <4>1
    <3>. QED
      BY <1>3, <1>7, <1>13, <3>1
  <2>11. Filled(r, c.message, c.from + w)
    BY <2>4, <2>10, Zenon
  <2>12. InPayload(c, p, y)'
    BY <2>3, <2>4, <2>5, <2>7, <2>9, <2>10, <2>11, Zenon DEF InPayload
  <2>. QED
    BY <1>10, <1>11, <2>6, <2>12, Zenon DEF Reads, InChunk, Proceeds
<1>. QED
  BY <1>12, <1>13

\* What a chunk changes in the peer concerns its own channel only.
LEMMA OthersStay ==
  ASSUME NEW p, PlaceOK(p), NEW c, NEW q, Moves(c, p, q), NEW cid, cid = c.message.cid
  PROVE  /\ DOMAIN q.last = DOMAIN p.last \cup {cid}
         /\ \A x \in DOMAIN q.last : x # cid =>
              x \in DOMAIN p.last /\ q.last[x] = p.last[x] /\ From(q, x) = From(p, x)
         /\ q.last[cid].message = c.message /\ q.last[cid].timestamp = c.timestamp
         /\ \A x \in DOMAIN p.open : x # cid => x \in DOMAIN q.open
<1>1. /\ DOMAIN q.last = DOMAIN p.last \cup {cid}
      /\ \A x \in DOMAIN q.last : x # cid => x \in DOMAIN p.last /\ q.last[x] = p.last[x]
      /\ q.last[cid].message = c.message /\ q.last[cid].timestamp = c.timestamp
  <2>1. CASE Starts(c, p, q)
    BY <2>1 DEF Starts
  <2>2. CASE Continues(c, p, q)
    <3>1. /\ cid \in DOMAIN p.open /\ p.open[cid].message = c.message
          /\ c.timestamp = p.last[cid].timestamp /\ q.last = p.last
      BY <2>2, Zenon DEF Continues
    <3>2. cid \in DOMAIN p.last /\ p.open[cid].message = p.last[cid].message
      BY <3>1 DEF PlaceOK
    <3>3. DOMAIN q.last = DOMAIN p.last \cup {cid}
      <4>1. \A D, y : y \in D => D = D \cup {y}
        OBVIOUS
      <4>. QED
        BY <3>1, <3>2, <4>1, Zenon
    <3>. QED
      BY <3>1, <3>2, <3>3, Zenon
  <2>. QED
    BY <2>1, <2>2 DEF Moves
<1>2. \A x : x # cid => /\ x \in DOMAIN p.open <=> x \in DOMAIN q.open
                        /\ x \in DOMAIN p.open => q.open[x] = p.open[x]
  <2>1. CASE Ends(c, p, q)
    BY <2>1 DEF Ends
  <2>2. CASE Leaves(c, p, q)
    BY <2>2 DEF Leaves
  <2>. QED
    BY <2>1, <2>2 DEF Moves
<1>3. \A x : x # cid => From(q, x) = From(p, x)
  BY <1>2, Zenon DEF From
<1>. QED
  BY <1>1, <1>2, <1>3

\* At the end of a chunk the parser is where the peer was.
LEMMA AgreesNext ==
  ASSUME NEW p, PlaceOK(p), NEW c, c.message \in Messages, NEW q, Moves(c, p, q),
         NEW key, key = Key(c.message.cid), AgreesBut(p, {c.message.cid}),
         DOMAIN inPackets' = DOMAIN inPackets, key \in DOMAIN inPackets,
         \A z \in DOMAIN inPackets' : z # key => inPackets'[z] = inPackets[z],
         NEW r, inPackets'[key] = r, HasHeader(r, c), r.clock = c.message.clock,
         Filled(r, c.message, From(q, c.message.cid)),
         received' = q.sent, inChunkSize' = q.size
  PROVE  AgreesBut(q, {})'
<1>. DEFINE cid == c.message.cid
<1>1. ASSUME NEW x \in DOMAIN q.last PROVE Knows(q, x)'
  <2>1. CASE x = cid
    <3>1. q.last[cid].message = c.message /\ q.last[cid].timestamp = c.timestamp
      BY OthersStay
    <3>. QED
      BY <2>1, <3>1, Zenon DEF Knows, HasHeader
  <2>2. CASE x # cid
    <3>1. x \in DOMAIN p.last /\ q.last[x] = p.last[x] /\ From(q, x) = From(p, x)
      BY <2>2, OthersStay
    <3>2. Knows(p, x)
      BY <2>2, <3>1 DEF AgreesBut
    <3>3. p.last[x].message \in Messages /\ p.last[x].message.cid = x
      BY <3>1 DEF PlaceOK
    <3>4. Key(x) # key
      BY <2>2, <3>3, KeyInjective, Zenon
    <3>5. Key(x) \in DOMAIN inPackets' /\ inPackets'[Key(x)] = inPackets[Key(x)]
      BY <3>2, <3>4, Zenon DEF Knows
    <3>. QED
      BY <3>1, <3>2, <3>5, Zenon DEF Knows
  <2>. QED
    BY <2>1, <2>2
<1>2. ASSUME NEW x \in DOMAIN inPackets', inPackets'[x].bytes # 0
      PROVE  \E y \in DOMAIN q.open : x = Key(y)
  <2>1. CASE x = key
    <3>1. From(q, cid) # 0
      BY <1>2, <2>1 DEF Filled
    <3>. QED
      BY <2>1, <3>1 DEF From
  <2>2. CASE x # key
    <3>1. x \in DOMAIN inPackets /\ inPackets[x].bytes # 0
      BY <1>2, <2>2, Zenon
    <3>2. PICK y \in DOMAIN p.open \cup {cid} : x = Key(y)
      BY <3>1, Zenon DEF AgreesBut
    <3>3. y # cid /\ y \in DOMAIN p.open
      BY <2>2, <3>2
    <3>4. y \in DOMAIN q.open
      BY <3>3, OthersStay
    <3>. QED
      BY <3>2, <3>4
  <2>. QED
    BY <2>1, <2>2
<1>. QED
  BY <1>1, <1>2 DEF AgreesBut

\* How many bytes of the payload a pass takes of l that are there, when x of the
\* part of a chunk are read, and whether the chunk is over then
PartLeft(length, size, from, part, x, l, n) ==
  /\ from \in 0..length /\ from % size = 0 /\ x \in 0..part /\ (x < part \/ part = 0)
  /\ part = IF from + size < length THEN size ELSE length - from
  /\ n = Least(Least(size - ((from + x) % size), length - (from + x)), l)

PartTaken(length, size, from, part, x, l, n) ==
  /\ n \in 0..l /\ x + n <= part /\ part \in 0..size
  /\ from + x + n >= length => from + x + n = length
  /\ x + n < part => ~(from + x + n >= length) /\ (from + x + n) % size # 0
  /\ x + n = part =>
       /\ from + x + n = from + part
       /\ length <= from + size <=> from + x + n >= length
       /\ ~(length <= from + size) => part = size /\ (from + x + n) % size = 0

LEMMA TakesPart ==
  ASSUME NEW length \in Nat, NEW size \in Nat \ {0}, NEW l \in Nat \ {0},
         NEW from, NEW part, NEW x, NEW n, PartLeft(length, size, from, part, x, l, n)
  PROVE  PartTaken(length, size, from, part, x, l, n)
<1>0. /\ from \in 0..length /\ from % size = 0 /\ x \in 0..part /\ (x < part \/ part = 0)
      /\ part = IF from + size < length THEN size ELSE length - from
      /\ n = Least(Least(size - ((from + x) % size), length - (from + x)), l)
  BY Zenon DEF PartLeft
<1>1. part \in 0..size /\ from + part <= length
  BY <1>0
<1>2. /\ (from + size) % size = 0 /\ \A y \in 0..(size - 1) : (from + y) % size = y
  <2>1. PICK a \in Nat : a = from
    BY <1>0
  <2>2. a % size = 0
    BY <1>0, <2>1, Zenon
  <2>3. (a + size) % size = 0 /\ \A y \in 0..(size - 1) : (a + y) % size = y
    BY <2>2, Remainders
  <2>. QED
    BY <2>1, <2>3, Zenon
<1>3. n = Least(part - x, l)
  <2>1. CASE part = 0
    <3>1. x = 0 /\ length = from /\ from \in Nat /\ n = Least(Least(size - ((from + x) % size), 0), l)
      BY <1>0, <2>1
    <3>2. (from + x) % size \in 0..(size - 1)
      BY <3>1, DivisionProperties
    <3>. QED
      BY <2>1, <3>1, <3>2 DEF Least
  <2>2. CASE x < part
    <3>1. x \in 0..(size - 1)
      BY <1>0, <1>1, <2>2
    <3>2. (from + x) % size = x
      BY <1>2, <3>1
    <3>4. n = Least(Least(size - x, length - (from + x)), l)
      BY <1>0, <3>2, Zenon
    <3>. QED
      BY <1>0, <3>4 DEF Least
  <2>. QED
    BY <1>0, <2>1, <2>2
<1>4. n \in 0..l /\ x + n <= part /\ (x + n < part => n > 0)
  BY <1>0, <1>1, <1>3 DEF Least
<1>5. ASSUME x + n < part PROVE ~(from + x + n >= length) /\ (from + x + n) % size # 0
  <2>1. PICK y \in 0..(size - 1) : y = x + n /\ y # 0 /\ from + x + n = from + y /\ y < part
    BY <1>0, <1>1, <1>4, <1>5
  <2>2. (from + y) % size = y
    BY <1>2
  <2>3. ~(from + y >= length)
    BY <1>0, <1>1, <2>1
  <2>. QED
    BY <2>1, <2>2, <2>3, Zenon
<1>6. ASSUME x + n = part
      PROVE  /\ from + x + n = from + part
             /\ length <= from + size <=> from + x + n >= length
             /\ ~(length <= from + size) => part = size /\ (from + x + n) % size = 0
  <2>1. from + x + n = from + part
    BY <1>0, <1>4, <1>6
  <2>2. length <= from + size <=> from + part >= length
    BY <1>0
  <2>3. ~(length <= from + size) => part = size
    BY <1>0
  <2>. QED
    BY <1>2, <2>1, <2>2, <2>3, Zenon
<1>7. from + x + n >= length => from + x + n = length
  BY <1>0, <1>1, <1>4
<1>. QED
  BY <1>1, <1>4, <1>5, <1>6, <1>7, Zenon DEF PartTaken

LEMMA FromIsAligned ==
  ASSUME NEW p, PlaceOK(p), NEW c, NEW q, Moves(c, p, q)
  PROVE  c.from % p.size = 0
<1>1. CASE Starts(c, p, q)
  <2>1. c.from = 0 /\ p.size \in Nat \ {0}
    BY <1>1 DEF Starts, PlaceOK
  <2>2. 0 = p.size * 0 + 0 /\ 0 \in 0..(p.size - 1)
    BY <2>1
  <2>. QED
    BY <2>1, <2>2, RemainderUnique
<1>2. CASE Continues(c, p, q)
  <2>1. c.message.cid \in DOMAIN p.open /\ p.open[c.message.cid].from = c.from
    BY <1>2 DEF Continues
  <2>. QED
    BY <2>1 DEF PlaceOK
<1>. QED
  BY <1>1, <1>2 DEF Moves

\* s and t agree in their first n elements; s holds n elements of t from offset k
\* on; b holds part elements of t, from offset f on, from offset el on.
Same(s, t, n) == \A i \in 1..n : s[i] = t[i]
Lies(s, t, k, n) == \A h \in 1..n, i \in Nat : i = k + h => s[h] = t[i]
Carries(b, el, part, t, f) == \A i \in 1..part, j \in Nat : j = el + i => b[j] = t[f + i]

LEMMA PartBytes ==
  ASSUME NEW S, NEW at, NEW b, HoldsAt(S, at, b), NEW el \in Nat, NEW part \in Nat,
         Len(b) = el + part, NEW M, NEW f \in Nat,
         Carries(b, el, part, M, f),
         NEW x \in Nat, NEW y \in Nat, y = el + x, NEW o \in Nat, o = at + y, Underway(S, o),
         NEW n \in Nat, n <= Len(data), x + n <= part, NEW k \in Nat, k = f + x
  PROVE  Lies(data, M, k, n)
<1>. SUFFICES ASSUME NEW h \in 1..n, NEW i \in Nat, i = k + h PROVE data[h] = M[i]
  BY Zenon DEF Lies
<1>1. at \in Nat
  BY DEF HoldsAt
<1>3. PICK l \in Nat : l = x + h
  OBVIOUS
<1>4. PICK j \in Nat : j = y + h
  OBVIOUS
<1>5. l \in 1..part /\ j = el + l
  BY <1>3, <1>4
<1>6. i = f + l
  BY <1>3
<1>8. j \in 1..Len(b)
  <2>1. j \in 1..(el + part)
    BY <1>5
  <2>. QED
    BY <2>1, Zenon
<1>9. h \in 1..Len(data)
  <2>1. PICK d \in Nat : d = Len(data)
    BY DEF Underway
  <2>. QED
    BY <2>1
<1>10. data[h] = b[j]
  BY <1>4, <1>8, <1>9, NextBytes
<1>11. b[j] = M[f + l]
  BY <1>5, Zenon DEF Carries
<1>. QED
  BY <1>6, <1>10, <1>11, Zenon

LEMMA Behind ==
  ASSUME NEW a \in Nat, NEW b \in Nat, NEW y \in 1..(a + b), ~(y <= a)
  PROVE  \E h \in 1..b : y = a + h
<1>1. y - a \in 1..b /\ y = a + (y - a)
  OBVIOUS
<1>. QED
  BY <1>1

\* w is the first k elements of s and then the first n of t.
Joins(w, s, k, t, n) == w = SubSeq(s, 1, k) \o SubSeq(t, 1, n)

LEMMA PayloadJoins ==
  ASSUME NEW P \in Seq(Byte), NEW k \in 0..Len(P), NEW D \in Seq(Byte), NEW n \in 0..Len(D),
         NEW M, Same(P, M, k), Lies(D, M, k, n),
         NEW w, Joins(w, P, k, D, n), NEW t \in Nat, t = k + n
  PROVE  w \in Seq(Byte) /\ Len(w) = t /\ Same(w, M, t)
<1>1. PICK u, v : u = SubSeq(P, 1, k) /\ v = SubSeq(D, 1, n) /\ w = u \o v
  BY Zenon DEF Joins
<1>2. u \in Seq(Byte) /\ Len(u) = k /\ \A i \in 1..k : u[i] = P[i]
  BY <1>1, HeadOfSeq
<1>3. v \in Seq(Byte) /\ Len(v) = n /\ \A i \in 1..n : v[i] = D[i]
  BY <1>1, HeadOfSeq
<1>4. k \in Nat /\ n \in Nat
  OBVIOUS
<1>5. /\ w \in Seq(Byte) /\ Len(w) = k + n
      /\ \A i \in 1..k : w[i] = u[i]
      /\ \A h \in 1..n, i \in Nat : i = k + h => w[i] = v[h]
  <2>1. k = Len(u) /\ n = Len(v)
    BY <1>2, <1>3
  <2>. QED
    BY <1>1, <1>2, <1>3, <1>4, <2>1, Joined
<1>6. ASSUME NEW i \in 1..t PROVE w[i] = M[i]
  <2>1. CASE i <= k
    <3>1. i \in 1..k
      BY <1>4, <2>1
    <3>. QED
      BY <1>2, <1>5, <3>1, Zenon DEF Same
  <2>2. CASE ~(i <= k)
    <3>1. PICK h \in 1..n : i = k + h
      BY <1>4, <2>2, Behind
    <3>2. i \in Nat
      BY <1>4
    <3>3. w[i] = v[h] /\ v[h] = D[h]
      BY <1>3, <1>5, <3>1, <3>2, Zenon
    <3>4. D[h] = M[i]
      BY <3>1, <3>2, Zenon DEF Lies
    <3>. QED
      BY <3>3, <3>4, Zenon
  <2>. QED
    BY <2>1, <2>2
<1>. QED
  BY <1>5, <1>6, Zenon DEF Same

\* The bytes that come within the payload of a chunk
LEMMA DataIsPayload ==
  ASSUME NEW S, NEW c, NEW size, ChunkOK(c, size), NEW at, HoldsAt(S, at, ChunkBytes(c, size)),
         NEW x \in Nat, NEW y \in Nat, y = c.el + x, NEW o \in Nat, o = at + y, Underway(S, o),
         NEW n \in Nat, n <= Len(data), x + n <= c.part, NEW k \in Nat, k = c.from + x
  PROVE  Lies(data, c.message.payload, k, n)
<1>. DEFINE m == c.message
<1>1. /\ c.el \in Nat /\ c.part \in Nat /\ c.from \in Nat
      /\ Len(ChunkBytes(c, size)) = c.el + c.part
  <2>1. m \in Messages /\ c.from \in 0..Len(m.payload)
    BY DEF ChunkOK
  <2>2. c.from \in Nat
    BY <2>1, MessageProperties
  <2>. QED
    BY <2>2, ChunkLengths
<1>2. PICK f \in Nat, el \in Nat, part \in Nat : f = c.from /\ el = c.el /\ part = c.part
  BY <1>1
<1>3. PICK b, M : b = ChunkBytes(c, size) /\ M = m.payload
  OBVIOUS
<1>4. HoldsAt(S, at, b) /\ Len(b) = el + part
  BY <1>1, <1>2, <1>3, Zenon
<1>5. Carries(b, el, part, M, f)
  BY <1>2, <1>3, Zenon DEF ChunkOK, LaidOut, Carries
<1>6. y = el + x /\ x + n <= part /\ k = f + x
  BY <1>2, Zenon
<1>7. Lies(data, M, k, n)
  BY <1>4, <1>5, <1>6, PartBytes
<1>. QED
  BY <1>3, <1>7, Zenon

Refilled(r, packet, w, bytes) == r = [packet EXCEPT !.payload = w, !.bytes = bytes]

LEMMA PacketFills ==
  ASSUME NEW c, NEW packet \in Packets, HasHeader(packet, c), NEW w \in Seq(Byte), NEW bytes \in Nat,
         NEW r, Refilled(r, packet, w, bytes)
  PROVE  /\ r \in Packets /\ HasHeader(r, c) /\ r.clock = packet.clock
         /\ r.bytes = bytes /\ r.payload = w
<1>1. /\ r.fmt = packet.fmt /\ r.timestamp = packet.timestamp /\ r.length = packet.length
      /\ r.type = packet.type /\ r.stream_id = packet.stream_id /\ r.clock = packet.clock
      /\ r.payload = w /\ r.bytes = bytes
  BY DEF Packets, Refilled
<1>2. r \in Packets
  BY DEF Packets, Refilled
<1>. QED
  BY <1>1, <1>2, Zenon DEF HasHeader

\* Handling the packet of a message that is there completely, without an exception
LEMMA HandlesIt ==
  ASSUME NEW m \in Messages, NEW packet, packet.type = m.type, packet.stream_id = m.stream_id,
         packet.clock = m.clock, packet.payload \in Seq(Byte), Len(packet.payload) = Len(m.payload),
         \A i \in 1..Len(m.payload) : packet.payload[i] = m.payload[i],
         Handle(packet), running' = TRUE
  PROVE  /\ received' = IF m.clock > MaxClock THEN received ELSE Append(received, Content(m))
         /\ inChunkSize' = IF m.type = SET_PACKET_SIZE THEN ReadUInt32BE(m.payload) ELSE inChunkSize
<1>1. m.payload \in Seq(Byte)
  BY MessageProperties
<1>2. packet.payload = m.payload
  BY <1>1
<1>3. Content(packet) = Content(m)
  BY <1>2, Zenon DEF Content
<1>4. ASSUME m.type = SET_PACKET_SIZE
      PROVE  ~(m.clock > MaxClock) /\ ReadUInt32BE(SubSeq(packet.payload, 1, 4)) = ReadUInt32BE(m.payload)
  <2>1. Len(m.payload) = 4 /\ ~(m.clock > MaxClock)
    BY <1>4, ChunkSizeSet
  <2>2. SubSeq(m.payload, 1, 4) = m.payload
    BY <1>1, <2>1
  <2>. QED
    BY <1>2, <2>1, <2>2, Zenon
<1>5. m.clock <= MaxClock <=> ~(m.clock > MaxClock)
  <2>1. PICK x \in Nat, y \in Nat : x = m.clock /\ y = MaxClock
    BY MessageProperties, TimestampProperties
  <2>2. x <= y <=> ~(x > y)
    OBVIOUS
  <2>. QED
    BY <2>1, <2>2, Zenon
<1>6. CASE m.clock > MaxClock
  <2>1. received' = received /\ inChunkSize' = inChunkSize
    BY <1>5, <1>6, Zenon DEF Handle
  <2>. QED
    BY <1>4, <1>6, <2>1, Zenon
<1>7. CASE ~(m.clock > MaxClock)
  <2>1. /\ received' = Append(received, Content(packet))
        /\ inChunkSize' = IF packet.type = SET_PACKET_SIZE
                            THEN ReadUInt32BE(SubSeq(packet.payload, 1, 4))
                            ELSE inChunkSize
    BY <1>7, Zenon DEF Handle
  <2>. QED
    BY <1>3, <1>4, <1>7, <2>1, Zenon
<1>. QED
  BY <1>6, <1>7

\* What a pass over the payload does, with x bytes of the chunk's part read before
PayloadTaken(c, p, x, n, r, t) ==
  /\ Use(n) /\ wire' = wire /\ UNCHANGED headerVars
  /\ n = Least(Least(p.size - ((c.from + x) % p.size), Len(c.message.payload) - (c.from + x)), Len(data))
  /\ t = c.from + x + n
  /\ r = [inPackets[channel] EXCEPT
            !.payload = SubSeq(inPackets[channel].payload, 1, c.from + x) \o SubSeq(data, 1, n),
            !.bytes = IF t >= Len(c.message.payload) THEN 0 ELSE t]
  /\ inPackets' = [inPackets EXCEPT ![channel] = r]
  /\ parserState' = IF t >= Len(c.message.payload) \/ t % p.size = 0 THEN "INIT" ELSE parserState
  /\ IF t >= Len(c.message.payload) THEN Handle(r) ELSE UNCHANGED <<received, inChunkSize, running>>

LEMMA PayloadIsTaken ==
  ASSUME NEW c, NEW p, NEW x, HeaderIs(c, p), Filled(inPackets[channel], c.message, c.from + x),
         ReadPayload
  PROVE  data # <<>> /\ \E n, r, t : PayloadTaken(c, p, x, n, r, t)
<1>1. PICK packet : packet = inPackets[channel]
  OBVIOUS
<1>2. /\ packet.length = Len(c.message.payload) /\ packet.bytes = c.from + x /\ inChunkSize = p.size
  BY <1>1, Zenon DEF HeaderIs, HasHeader, Filled, AgreesBut
<1>3. PICK n : n = Least(Least(inChunkSize - (packet.bytes % inChunkSize), packet.length - packet.bytes),
                         Len(data))
  OBVIOUS
<1>4. PICK t : t = packet.bytes + n
  OBVIOUS
<1>5. PICK r : r = [packet EXCEPT !.payload = SubSeq(packet.payload, 1, packet.bytes) \o SubSeq(data, 1, n),
                                  !.bytes = IF t >= packet.length THEN 0 ELSE t]
  OBVIOUS
<1>6. /\ data # <<>> /\ Use(n) /\ wire' = wire /\ UNCHANGED headerVars
      /\ inPackets' = [inPackets EXCEPT ![channel] = r]
      /\ parserState' = IF t >= packet.length \/ t % inChunkSize = 0 THEN "INIT" ELSE parserState
      /\ IF t >= packet.length THEN Handle(r) ELSE UNCHANGED <<received, inChunkSize, running>>
  BY <1>1, <1>3, <1>4, <1>5, Zenon DEF ReadPayload, Reading, peerVars
<1>7. PayloadTaken(c, p, x, n, r, t)
  BY <1>1, <1>2, <1>3, <1>4, <1>5, <1>6, Zenon DEF PayloadTaken
<1>. QED
  BY <1>6, <1>7, Zenon

\* ... and what the packet holds then
LEMMA PayloadTakes ==
  ASSUME NEW S, NEW c, NEW p, NEW q, PlaceOK(p), Follows(S, c, p, q),
         NEW x \in 0..c.part, x < c.part \/ c.part = 0,
         NEW o \in Nat, o = c.el + x, NEW e \in Nat, e = p.at + o, Underway(S, e), data # <<>>,
         NEW packet \in Packets, HasHeader(packet, c), Filled(packet, c.message, c.from + x),
         packet = inPackets[channel],
         NEW n, NEW r, NEW t, PayloadTaken(c, p, x, n, r, t)
  PROVE  /\ n \in 0..Len(data) /\ x + n \in 0..c.part /\ t \in Nat
         /\ x + n < c.part => ~(t >= Len(c.message.payload)) /\ t % p.size # 0
         /\ x + n = c.part =>
              /\ Len(c.message.payload) <= c.from + p.size <=> t >= Len(c.message.payload)
              /\ ~(Len(c.message.payload) <= c.from + p.size) => t % p.size = 0 /\ t = c.from + p.size
         /\ r \in Packets /\ HasHeader(r, c) /\ r.clock = packet.clock
         /\ r.bytes = (IF t >= Len(c.message.payload) THEN 0 ELSE t)
         /\ r.payload \in Seq(Byte) /\ Len(r.payload) = t /\ Same(r.payload, c.message.payload, t)
         /\ t >= Len(c.message.payload) => t = Len(c.message.payload)
<1>. DEFINE m == c.message
<1>1. ChunkOK(c, p.size) /\ Moves(c, p, q) /\ HoldsAt(S, p.at, ChunkBytes(c, p.size))
  BY Zenon DEF Follows
<1>2. /\ m \in Messages /\ c.from \in 0..Len(m.payload) /\ c.part = PartOf(m, c.from, p.size)
      /\ c.el \in Nat /\ c.part \in Nat
  BY <1>1, Zenon DEF ChunkOK
<1>3. Len(m.payload) \in Nat
  BY <1>2, MessageProperties
<1>4. p.size \in Nat \ {0} /\ p.at \in Nat
  BY DEF PlaceOK
<1>5. PICK size \in Nat \ {0}, length \in Nat, l \in Nat \ {0} :
        size = p.size /\ length = Len(m.payload) /\ l = Len(data)
  <2>1. Len(data) \in Nat \ {0}
    BY DEF Underway
  <2>. QED
    BY <1>3, <1>4, <2>1, Zenon
<1>6. PICK from \in 0..length, part \in Nat :
        from = c.from /\ part = c.part
  BY <1>2, <1>5, Zenon
<1>7. PartLeft(length, size, from, part, x, l, n) /\ t = from + x + n
  <2>1. c.from % p.size = 0
    BY <1>1, FromIsAligned
  <2>. QED
    BY <1>2, <1>5, <1>6, <2>1, Zenon DEF PartOf, PayloadTaken, PartLeft
<1>8. /\ n \in 0..l /\ x + n <= part /\ part \in 0..size
      /\ from + x + n >= length => from + x + n = length
      /\ x + n < part => ~(from + x + n >= length) /\ (from + x + n) % size # 0
      /\ x + n = part =>
           /\ from + x + n = from + part
           /\ length <= from + size <=> from + x + n >= length
           /\ ~(length <= from + size) => part = size /\ (from + x + n) % size = 0
  <2>1. PartTaken(length, size, from, part, x, l, n)
    BY <1>7, TakesPart
  <2>. QED
    BY <2>1, Zenon DEF PartTaken
<1>9. n \in 0..Len(data) /\ n \in Nat /\ n <= Len(data) /\ x \in Nat /\ x + n <= c.part
  <2>1. n \in Nat /\ n <= l /\ x \in Nat
    BY <1>7, <1>8
  <2>. QED
    BY <1>5, <1>6, <1>8, <2>1, Zenon
<1>10. PICK k \in Nat : k = c.from + x /\ t = k + n /\ t \in Nat
  <2>1. PICK k \in Nat : k = from + x /\ from + x + n = k + n /\ k + n \in Nat
    BY <1>9
  <2>. QED
    BY <1>6, <1>7, <2>1, Zenon
<1>11. Lies(data, m.payload, k, n)
  <2>1. PICK at : at = p.at
    OBVIOUS
  <2>2. HoldsAt(S, at, ChunkBytes(c, p.size)) /\ e = at + o
    BY <1>1, <2>1, Zenon
  <2>. QED
    BY <1>1, <1>9, <1>10, <2>2, DataIsPayload
<1>12. /\ packet.payload \in Seq(Byte) /\ k \in 0..Len(packet.payload)
       /\ Same(packet.payload, m.payload, k)
  <2>1. packet.payload \in Seq(Byte)
    BY DEF Packets
  <2>2. Filled(packet, m, k)
    BY <1>10, Zenon
  <2>. QED
    BY <2>1, <2>2, Zenon DEF Filled, Same
<1>13. PICK w, P : P = packet.payload /\ Joins(w, P, k, data, n)
  BY Zenon DEF Joins
<1>14. w \in Seq(Byte) /\ Len(w) = t /\ Same(w, m.payload, t)
  <2>1. PICK M : M = m.payload
    OBVIOUS
  <2>2. Lies(data, M, k, n) /\ P \in Seq(Byte) /\ k \in 0..Len(P) /\ Same(P, M, k)
    BY <1>11, <1>12, <1>13, <2>1, Zenon
  <2>3. data \in Seq(Byte) /\ n \in 0..Len(data) /\ t = k + n /\ t \in Nat
    BY <1>9, <1>10, Zenon DEF Underway
  <2>4. w \in Seq(Byte) /\ Len(w) = t /\ Same(w, M, t)
    BY <1>13, <2>2, <2>3, PayloadJoins
  <2>. QED
    BY <2>1, <2>4, Zenon
<1>15. PICK bytes \in Nat : bytes = IF t >= Len(m.payload) THEN 0 ELSE t
  BY <1>10
<1>16. Refilled(r, packet, w, bytes)
  BY <1>10, <1>13, <1>15, Zenon DEF PayloadTaken, Joins, Refilled
<1>17. /\ r \in Packets /\ HasHeader(r, c) /\ r.clock = packet.clock
       /\ r.bytes = bytes /\ r.payload = w
  BY <1>14, <1>16, PacketFills
<1>18. /\ x + n \in 0..c.part
       /\ x + n < c.part => ~(t >= Len(m.payload)) /\ t % p.size # 0
  <2>1. x + n \in 0..part
    BY <1>8, <1>9
  <2>. QED
    BY <1>5, <1>6, <1>7, <1>8, <2>1, Zenon
<1>19. ASSUME x + n = c.part
       PROVE  /\ Len(m.payload) <= c.from + p.size <=> t >= Len(m.payload)
              /\ ~(Len(m.payload) <= c.from + p.size) => t % p.size = 0 /\ t = c.from + p.size
  BY <1>5, <1>6, <1>7, <1>8, <1>19, Zenon
<1>20. ASSUME t >= Len(m.payload) PROVE t = Len(m.payload)
  BY <1>5, <1>7, <1>8, <1>20, Zenon
<1>. QED
  BY <1>9, <1>10, <1>14, <1>15, <1>17, <1>18, <1>19, <1>20, Zenon

LEMMA AtMost ==
  ASSUME NEW b \in Nat, NEW a \in 0..b
  PROVE  a < b \/ a = b
  OBVIOUS

LEMMA PayloadStep ==
  ASSUME NEW S, NEW c, NEW p, NEW q, PlaceOK(p), Follows(S, c, p, q), NEW e \in Nat, Underway(S, e),
         NEW o \in Nat, e = p.at + o, InPayload(c, p, o), PacketsOK, ReadPayload, running' = TRUE,
         parserBuffer \in Seq(Byte), Len(parserBuffer) <= 18
  PROVE  Proceeds(S, c, p, q)
<1>. DEFINE m == c.message
<1>1. parserState = "PAYLOAD"
  BY DEF InPayload
<1>2. PICK x \in 0..c.part :
        /\ o = c.el + x /\ (x < c.part \/ c.part = 0)
        /\ HeaderIs(c, p) /\ Filled(inPackets[channel], m, c.from + x)
        /\ inPackets[channel].clock = m.clock
  BY DEF InPayload
<1>3. /\ channel = Key(m.cid) /\ channel \in DOMAIN inPackets
      /\ HasHeader(inPackets[channel], c) /\ AgreesBut(p, {m.cid})
  BY <1>2, Zenon DEF HeaderIs
<1>4. PICK packet : packet = inPackets[channel] /\ packet \in Packets /\ HasHeader(packet, c)
                    /\ Filled(packet, m, c.from + x) /\ packet.clock = m.clock
  BY <1>2, <1>3, Zenon DEF PacketsOK
<1>5. data # <<>> /\ \E n, r, t : PayloadTaken(c, p, x, n, r, t)
  BY <1>2, PayloadIsTaken
<1>6. PICK n, r, t : PayloadTaken(c, p, x, n, r, t)
  BY <1>5
<1>7. /\ n \in 0..Len(data) /\ x + n \in 0..c.part /\ t \in Nat
      /\ x + n < c.part => ~(t >= Len(m.payload)) /\ t % p.size # 0
      /\ x + n = c.part =>
           /\ Len(m.payload) <= c.from + p.size <=> t >= Len(m.payload)
           /\ ~(Len(m.payload) <= c.from + p.size) => t % p.size = 0 /\ t = c.from + p.size
      /\ r \in Packets /\ HasHeader(r, c) /\ r.clock = packet.clock
      /\ r.bytes = (IF t >= Len(m.payload) THEN 0 ELSE t)
      /\ r.payload \in Seq(Byte) /\ Len(r.payload) = t /\ Same(r.payload, m.payload, t)
      /\ t >= Len(m.payload) => t = Len(m.payload)
  <2>1. x \in 0..c.part /\ (x < c.part \/ c.part = 0) /\ o = c.el + x
    BY <1>2
  <2>. QED
    BY <1>4, <1>5, <1>6, <2>1, PayloadTakes
<1>8. ChunkOK(c, p.size) /\ Moves(c, p, q) /\ HoldsAt(S, p.at, ChunkBytes(c, p.size))
  BY Zenon DEF Follows
<1>9. /\ m \in Messages /\ c.part \in Nat /\ c.el \in Nat /\ p.at \in Nat
      /\ q.at = p.at + c.el + c.part /\ t = c.from + x + n /\ p.size \in Nat \ {0}
      /\ Len(m.payload) \in Nat
  <2>1. m \in Messages /\ c.part \in Nat /\ c.el \in Nat
    BY <1>8, Zenon DEF ChunkOK
  <2>2. Len(m.payload) \in Nat
    BY <2>1, MessageProperties
  <2>3. q.at = p.at + c.el + c.part
    BY <1>8, Zenon DEF Moves
  <2>. QED
    BY <1>6, <2>1, <2>2, <2>3 DEF PlaceOK, PayloadTaken
<1>10. /\ Use(n) /\ wire' = wire /\ parserBuffer' = parserBuffer /\ channel' = channel
       /\ inPackets' = [inPackets EXCEPT ![channel] = r]
       /\ parserState' = IF t >= Len(m.payload) \/ t % p.size = 0 THEN "INIT" ELSE parserState
       /\ IF t >= Len(m.payload) THEN Handle(r) ELSE UNCHANGED <<received, inChunkSize, running>>
  BY <1>6, Zenon DEF PayloadTaken, headerVars
<1>11. PICK y \in Nat, z \in Nat : y = c.el + (x + n) /\ z = p.at + y /\ z = e + n
  <2>1. PICK at \in Nat, el \in Nat, a \in Nat, b \in Nat :
          at = p.at /\ el = c.el /\ a = x /\ b = n /\ e = at + (el + a)
    <3>1. x \in Nat /\ n \in Nat
      BY <1>7, <1>9 DEF Underway
    <3>. QED
      BY <1>2, <1>9, <3>1
  <2>2. PICK y \in Nat, z \in Nat : y = el + (a + b) /\ z = at + y /\ z = at + (el + a) + b
    <3>1. el + (a + b) \in Nat /\ at + (el + (a + b)) \in Nat
          /\ at + (el + (a + b)) = at + (el + a) + b
      OBVIOUS
    <3>. QED
      BY <3>1, Zenon
  <2>3. y = c.el + (x + n) /\ z = p.at + y /\ z = e + n
    BY <2>1, <2>2, Zenon
  <2>. QED
    BY <2>3
<1>12. Underway(S, z)'
  BY <1>7, <1>10, <1>11, UseBytes
<1>13. PICK key : key = channel
  OBVIOUS
<1>14. /\ DOMAIN inPackets' = DOMAIN inPackets /\ inPackets'[key] = r
       /\ \A w \in DOMAIN inPackets' : w # key => inPackets'[w] = inPackets[w]
       /\ key = Key(m.cid) /\ key \in DOMAIN inPackets
  <2>1. inPackets' = [inPackets EXCEPT ![key] = r] /\ key \in DOMAIN inPackets /\ key = Key(m.cid)
    BY <1>3, <1>10, <1>13, Zenon
  <2>2. /\ DOMAIN inPackets' = DOMAIN inPackets /\ inPackets'[key] = r
        /\ \A w \in DOMAIN inPackets' : w # key => inPackets'[w] = inPackets[w]
    BY <2>1
  <2>. QED
    BY <2>1, <2>2, Zenon
<1>15. PacketsOK'
  BY <1>7, <1>14, Zenon DEF PacketsOK
<1>16. parserBuffer' \in Seq(Byte) /\ Len(parserBuffer') <= 18
  BY <1>10, Zenon
<1>17. CASE x + n < c.part
  <2>1. ~(t >= Len(m.payload)) /\ t % p.size # 0
    BY <1>7, <1>17
  <2>2. parserState' = "PAYLOAD" /\ received' = received /\ inChunkSize' = inChunkSize /\ r.bytes = t
    BY <1>1, <1>7, <1>10, <2>1, Zenon
  <2>3. AgreesBut(p, {m.cid})'
    <3>1. \A w \in DOMAIN inPackets : w \in DOMAIN inPackets'
      BY <1>14
    <3>2. \A w \in DOMAIN inPackets' :
            w # Key(m.cid) => w \in DOMAIN inPackets /\ inPackets'[w] = inPackets[w]
      BY <1>14, Zenon
    <3>. QED
      BY <1>3, <1>9, <2>2, <3>1, <3>2, AgreesOthers
  <2>4. HeaderIs(c, p)'
    BY <1>7, <1>10, <1>13, <1>14, <2>3, Zenon DEF HeaderIs
  <2>5. Filled(r, m, t)
    <3>1. t \in 0..Len(r.payload)
      BY <1>7
    <3>. QED
      BY <1>7, <2>2, <3>1, Zenon DEF Filled, Same
  <2>6. PICK w \in 0..c.part : w = x + n /\ y = c.el + w /\ w < c.part
    BY <1>7, <1>11, <1>17, Zenon
  <2>7. t = c.from + w
    <3>1. c.from \in Nat /\ x \in Nat /\ n \in Nat
      <4>1. c.from \in 0..Len(m.payload)
        BY <1>8, Zenon DEF ChunkOK
      <4>. QED
        BY <1>7, <1>9, <4>1 DEF Underway
    <3>2. c.from + x + n = c.from + (x + n)
      BY <3>1
    <3>. QED
      BY <1>9, <2>6, <3>2, Zenon
  <2>8. InPayload(c, p, y)'
    BY <1>4, <1>7, <1>10, <1>13, <1>14, <2>2, <2>4, <2>5, <2>6, <2>7, Zenon DEF InPayload
  <2>. QED
    BY <1>11, <1>12, <1>15, <1>16, <2>8, Zenon DEF Reads, InChunk, Proceeds
<1>18. CASE x + n = c.part
  <2>1. z = q.at
    <3>1. z = p.at + (c.el + c.part)
      BY <1>11, <1>18, Zenon
    <3>2. PICK at \in Nat, el \in Nat, part \in Nat : at = p.at /\ el = c.el /\ part = c.part
      BY <1>9, Zenon
    <3>3. at + el + part = at + (el + part)
      OBVIOUS
    <3>4. p.at + c.el + c.part = p.at + (c.el + c.part)
      BY <3>2, <3>3, Zenon
    <3>. QED
      BY <1>9, <3>1, <3>4, Zenon
  <2>2. parserState' = "INIT"
    BY <1>7, <1>10, <1>18, Zenon
  <2>3. received = p.sent /\ inChunkSize = p.size
    BY <1>3, Zenon DEF AgreesBut
  <2>4. HasHeader(r, c) /\ r.clock = m.clock
    BY <1>4, <1>7, Zenon
  <2>5. /\ received' = q.sent /\ inChunkSize' = q.size
        /\ Filled(r, m, From(q, m.cid))
    <3>1. CASE Len(m.payload) <= c.from + p.size
      <4>1. t = Len(m.payload) /\ t >= Len(m.payload) /\ r.bytes = 0 /\ Handle(r)
        BY <1>7, <1>10, <1>18, <3>1, Zenon
      <4>2. Ends(c, p, q)
        BY <1>8, <3>1, Zenon DEF Moves
      <4>3. /\ received' = IF m.clock > MaxClock THEN received ELSE Append(received, Content(m))
            /\ inChunkSize' = IF m.type = SET_PACKET_SIZE THEN ReadUInt32BE(m.payload) ELSE inChunkSize
        <5>1. r.type = m.type /\ r.stream_id = m.stream_id
          BY <2>4, Zenon DEF HasHeader
        <5>2. \A i \in 1..Len(m.payload) : r.payload[i] = m.payload[i]
          BY <1>7, <4>1, Zenon DEF Same
        <5>3. r.payload \in Seq(Byte) /\ Len(r.payload) = Len(m.payload)
          BY <1>7, <4>1, Zenon
        <5>. QED
          BY <1>9, <2>4, <4>1, <5>1, <5>2, <5>3, HandlesIt
      <4>4. received' = q.sent /\ inChunkSize' = q.size
        BY <2>3, <4>2, <4>3, Zenon DEF Ends
      <4>5. From(q, m.cid) = 0
        <5>1. m.cid \notin DOMAIN q.open
          BY <4>2 DEF Ends
        <5>. QED
          BY <5>1, Zenon DEF From
      <4>6. Filled(r, m, 0)
        <5>1. 0 \in 0..Len(r.payload) /\ 1..0 = {}
          BY <1>7
        <5>. QED
          BY <4>1, <5>1, Zenon DEF Filled
      <4>. QED
        BY <4>4, <4>5, <4>6, Zenon
    <3>2. CASE ~(Len(m.payload) <= c.from + p.size)
      <4>1. t = c.from + p.size /\ ~(t >= Len(m.payload)) /\ r.bytes = t
            /\ received' = received /\ inChunkSize' = inChunkSize
        BY <1>7, <1>10, <1>18, <3>2, Zenon
      <4>2. Leaves(c, p, q)
        BY <1>8, <3>2, Zenon DEF Moves
      <4>3. received' = q.sent /\ inChunkSize' = q.size
        BY <2>3, <4>1, <4>2, Zenon DEF Leaves
      <4>4. From(q, m.cid) = t
        <5>1. m.cid \in DOMAIN q.open
          BY <4>2 DEF Leaves
        <5>2. q.open[m.cid] = [message |-> m, from |-> c.from + p.size]
          BY <4>2, Zenon DEF Leaves
        <5>3. q.open[m.cid].from = c.from + p.size
          BY <5>2
        <5>. QED
          BY <4>1, <5>1, <5>3, Zenon DEF From
      <4>5. Filled(r, m, t)
        <5>1. t \in 0..Len(r.payload)
          BY <1>7
        <5>. QED
          BY <1>7, <4>1, <5>1, Zenon DEF Filled, Same
      <4>. QED
        BY <4>3, <4>4, <4>5, Zenon
    <3>. QED
      BY <3>1, <3>2
  <2>6. AgreesBut(q, {})'
    BY <1>3, <1>8, <1>9, <1>14, <2>4, <2>5, AgreesNext
  <2>. QED
    BY <1>12, <1>15, <1>16, <2>1, <2>2, <2>6, Zenon DEF Reads, Proceeds
<1>19. x + n < c.part \/ x + n = c.part
  BY <1>7, <1>9, AtMost, Zenon
<1>. QED
  BY <1>17, <1>18, <1>19

-----------------------------------------------------------------------------
(* What the peer wrote on a connection                                         *)

Contents == {Content(m) : m \in Messages}

Prefix(s, t) ==
  /\ s \in Seq(Contents) /\ t \in Seq(Contents)
  /\ Len(s) <= Len(t) /\ Same(s, t, Len(s))

LEMMA PrefixTransitive ==
  ASSUME NEW s, NEW t, NEW u, Prefix(s, t), Prefix(t, u)
  PROVE  Prefix(s, u)
<1>1. PICK k \in Nat, l \in Nat, n \in Nat : k = Len(s) /\ l = Len(t) /\ n = Len(u)
  BY DEF Prefix
<1>2. k <= l /\ l <= n
  BY <1>1, Zenon DEF Prefix
<1>3. k <= n
  BY <1>2
<1>4. ASSUME NEW i \in 1..k PROVE s[i] = u[i]
  <2>1. i \in 1..l
    BY <1>2
  <2>. QED
    BY <1>1, <2>1, Zenon DEF Prefix, Same
<1>. QED
  BY <1>1, <1>3, <1>4, Zenon DEF Prefix, Same

LEMMA PrefixReflexive ==
  ASSUME NEW s \in Seq(Contents)
  PROVE  Prefix(s, s)
<1>1. Len(s) <= Len(s)
  OBVIOUS
<1>. QED
  BY <1>1, Zenon DEF Prefix, Same

LEMMA PrefixOfMore ==
  ASSUME NEW s \in Seq(Contents), NEW m \in Messages
  PROVE  Prefix(s, Append(s, Content(m)))
<1>1. PICK e \in Contents : e = Content(m)
  BY DEF Contents
<1>2. PICK t : t = Append(s, e)
  OBVIOUS
<1>3. t \in Seq(Contents) /\ Len(s) <= Len(t) /\ \A i \in 1..Len(s) : s[i] = t[i]
  BY <1>2
<1>. QED
  BY <1>1, <1>2, <1>3, Zenon DEF Prefix, Same

LEMMA PrefixIsPrefix ==
  ASSUME NEW s, NEW t, Prefix(s, t)
  PROVE  IsPrefix(s, t)
<1>1. s \in Seq(Contents) /\ t \in Seq(Contents) /\ Len(s) <= Len(t) /\ \A i \in 1..Len(s) : s[i] = t[i]
  BY Zenon DEF Prefix, Same
<1>. QED
  BY <1>1 DEF IsPrefix

LEMMA MovesOn ==
  ASSUME NEW p, NEW c, c.message \in Messages, NEW q, Moves(c, p, q), p.sent \in Seq(Contents)
  PROVE  Prefix(p.sent, q.sent)
<1>1. Prefix(p.sent, p.sent) /\ Prefix(p.sent, Append(p.sent, Content(c.message)))
  BY PrefixReflexive, PrefixOfMore
<1>2. q.sent = p.sent \/ q.sent = Append(p.sent, Content(c.message))
  BY DEF Moves, Ends, Leaves
<1>. QED
  BY <1>1, <1>2, Zenon

LEMMA PrefixTyped ==
  ASSUME NEW s, NEW t, Prefix(s, t)
  PROVE  s \in Seq(Contents) /\ t \in Seq(Contents)
  BY Zenon DEF Prefix

\* S holds the chunks C between the n places P, the last of which is its end.
Segment(S, P, C, n) ==
  /\ S \in Seq(Byte) /\ n \in Nat \ {0}
  /\ \A h \in 1..n : PlaceOK(P[h]) /\ Prefix(P[h].sent, P[n].sent)
  /\ \A i, j \in 1..n : j = i + 1 => Follows(S, C[i], P[i], P[j])
  /\ P[n].at = Len(S)

Extends(S, T) ==
  /\ S \in Seq(Byte) /\ T \in Seq(Byte) /\ Len(S) <= Len(T) /\ Same(S, T, Len(S))

LEMMA FollowsStays ==
  ASSUME NEW S, NEW T, Extends(S, T), NEW c, NEW p, NEW q, Follows(S, c, p, q)
  PROVE  Follows(T, c, p, q)
<1>1. PICK b : b = ChunkBytes(c, p.size)
  OBVIOUS
<1>2. PICK at \in Nat, k \in Nat, l \in Nat, n \in Nat :
        at = p.at /\ k = Len(b) /\ l = Len(S) /\ n = Len(T) /\ at + k <= l /\ l <= n
        /\ HoldsAt(S, at, b)
  <2>1. /\ HoldsAt(S, p.at, b) /\ p.at \in Nat /\ b \in Seq(Byte) /\ p.at + Len(b) <= Len(S)
        /\ S \in Seq(Byte) /\ T \in Seq(Byte) /\ Len(S) <= Len(T)
    BY <1>1, Zenon DEF Follows, HoldsAt, Extends
  <2>2. Len(b) \in Nat /\ Len(S) \in Nat /\ Len(T) \in Nat
    BY <2>1
  <2>. QED
    BY <2>1, <2>2, Zenon
<1>3. at + k <= n
  BY <1>2
<1>4. ASSUME NEW i \in 1..k, NEW j \in Nat, j = at + i PROVE T[j] = b[i]
  <2>1. S[j] = b[i]
    BY <1>2, <1>4, Zenon DEF HoldsAt
  <2>2. j \in 1..l
    <3>1. at + k <= l
      BY <1>2
    <3>. QED
      BY <1>4, <3>1
  <2>3. S[j] = T[j]
    BY <1>2, <2>2, Zenon DEF Extends, Same
  <2>. QED
    BY <2>1, <2>3, Zenon
<1>5. HoldsAt(T, at, b)
  BY <1>2, <1>3, <1>4, Zenon DEF HoldsAt
<1>. QED
  BY <1>1, <1>2, <1>5, Zenon DEF Follows

LEMMA SegmentsJoin ==
  ASSUME NEW S, NEW P, NEW C, NEW n, Segment(S, P, C, n), NEW T, Extends(S, T),
         NEW Q, NEW D, NEW num, Segment(T, Q, D, num), Q[1] = P[n]
  PROVE  \E R, E, l : /\ Segment(T, R, E, l) /\ R[l] = Q[num] /\ n <= l
                      /\ \A i \in 1..n : R[i] = P[i] /\ (i # n => E[i] = C[i])
<1>1. n \in Nat \ {0} /\ num \in Nat \ {0} /\ T \in Seq(Byte) /\ Q[num].at = Len(T)
  BY Zenon DEF Segment
<1>2. PICK l \in Nat \ {0} : l = (n - 1) + num
  BY <1>1
<1>13. PICK R, E : /\ R = [i \in Nat |-> IF i <= n THEN P[i] ELSE Q[i - (n - 1)]]
                   /\ E = [i \in Nat |-> IF i < n THEN C[i] ELSE D[i - (n - 1)]]
  OBVIOUS
<1>3. /\ \A i \in Nat : i <= n => R[i] = P[i]
      /\ \A i \in Nat : i < n => E[i] = C[i]
      /\ \A i, j \in Nat : i = (n - 1) + j /\ j # 0 => R[i] = Q[j] /\ E[i] = D[j]
  <2>2. ASSUME NEW i \in Nat, i <= n PROVE R[i] = P[i]
    BY <1>13, <2>2
  <2>3. ASSUME NEW i \in Nat, i < n PROVE E[i] = C[i]
    BY <1>13, <2>3
  <2>4. ASSUME NEW i \in Nat, NEW j \in Nat, i = (n - 1) + j, j # 0
        PROVE  R[i] = Q[j] /\ E[i] = D[j]
    <3>1. i - (n - 1) = j /\ ~(i < n)
      BY <1>1, <2>4
    <3>2. E[i] = D[j]
      BY <1>13, <3>1
    <3>3. CASE j = 1
      <4>1. i = n
        BY <1>1, <2>4, <3>3
      <4>2. R[i] = P[n]
        BY <1>1, <2>2, <4>1
      <4>. QED
        BY <3>2, <3>3, <4>2
    <3>4. CASE j # 1
      <4>1. ~(i <= n)
        BY <1>1, <2>4, <3>4
      <4>2. R[i] = Q[i - (n - 1)]
        BY <1>13, <4>1
      <4>. QED
        BY <3>1, <3>2, <4>2
    <3>. QED
      BY <3>3, <3>4
  <2>. QED
    BY <2>2, <2>3, <2>4, Zenon
<1>4. R[l] = Q[num]
  BY <1>1, <1>2, <1>3, Zenon
<1>5. Prefix(P[n].sent, Q[num].sent)
  <2>1. 1 \in 1..num
    BY <1>1
  <2>2. Prefix(Q[1].sent, Q[num].sent)
    BY <2>1, Zenon DEF Segment
  <2>. QED
    BY <2>2, Zenon
<1>6. ASSUME NEW i \in 1..l, ~(i <= n) PROVE \E j \in 1..num : i = (n - 1) + j /\ j # 0 /\ j # 1
  <2>1. i - (n - 1) \in 1..num /\ i - (n - 1) # 0 /\ i - (n - 1) # 1 /\ i = (n - 1) + (i - (n - 1))
    BY <1>1, <1>2, <1>6
  <2>. QED
    BY <2>1
<1>7. ASSUME NEW i \in 1..l PROVE PlaceOK(R[i]) /\ Prefix(R[i].sent, R[l].sent)
  <2>1. CASE i <= n
    <3>1. R[i] = P[i] /\ i \in 1..n
      BY <1>1, <1>3, <2>1
    <3>2. PlaceOK(P[i]) /\ Prefix(P[i].sent, P[n].sent)
      BY <3>1, Zenon DEF Segment
    <3>3. Prefix(P[i].sent, Q[num].sent)
      BY <1>5, <3>2, PrefixTransitive
    <3>. QED
      BY <1>4, <3>1, <3>2, <3>3, Zenon
  <2>2. CASE ~(i <= n)
    <3>1. PICK j \in 1..num : i = (n - 1) + j /\ j # 0
      BY <1>6, <2>2
    <3>2. R[i] = Q[j]
      BY <1>3, <3>1
    <3>3. PlaceOK(Q[j]) /\ Prefix(Q[j].sent, Q[num].sent)
      BY <3>1, Zenon DEF Segment
    <3>. QED
      BY <1>4, <3>2, <3>3, Zenon
  <2>. QED
    BY <2>1, <2>2
<1>8. ASSUME NEW i \in 1..l, NEW j \in 1..l, j = i + 1 PROVE Follows(T, E[i], R[i], R[j])
  <2>1. CASE i < n
    <3>1. i \in 1..n /\ j \in 1..n /\ E[i] = C[i] /\ R[i] = P[i] /\ R[j] = P[j]
      <4>1. i \in 1..n /\ j \in 1..n /\ i \in Nat /\ j \in Nat /\ i <= n /\ j <= n
        BY <1>1, <1>8, <2>1
      <4>. QED
        BY <1>3, <2>1, <4>1
    <3>2. Follows(S, C[i], P[i], P[j])
      BY <1>8, <3>1, Zenon DEF Segment
    <3>. QED
      BY <3>1, <3>2, FollowsStays
  <2>2. CASE ~(i < n)
    <3>1. PICK x \in 1..num, y \in 1..num :
            i = (n - 1) + x /\ j = (n - 1) + y /\ y = x + 1 /\ x # 0 /\ y # 0
      <4>1. /\ i - (n - 1) \in 1..num /\ j - (n - 1) \in 1..num
            /\ i = (n - 1) + (i - (n - 1)) /\ j = (n - 1) + (j - (n - 1))
            /\ j - (n - 1) = (i - (n - 1)) + 1 /\ i - (n - 1) # 0 /\ j - (n - 1) # 0
        BY <1>1, <1>2, <1>8, <2>2
      <4>. QED
        BY <4>1, Zenon
    <3>2. R[i] = Q[x] /\ E[i] = D[x] /\ R[j] = Q[y]
      <4>1. i \in Nat /\ j \in Nat /\ x \in Nat /\ y \in Nat
        BY <1>1
      <4>. QED
        BY <1>3, <3>1, <4>1, Zenon
    <3>3. Follows(T, D[x], Q[x], Q[y])
      BY <3>1, Zenon DEF Segment
    <3>. QED
      BY <3>2, <3>3, Zenon
  <2>. QED
    BY <2>1, <2>2
<1>9. R[l].at = Len(T)
  BY <1>1, <1>4, Zenon
<1>10. Segment(T, R, E, l)
  BY <1>1, <1>2, <1>7, <1>8, <1>9, Zenon DEF Segment
<1>11. n <= l
  BY <1>1, <1>2
<1>12. ASSUME NEW i \in 1..n PROVE R[i] = P[i] /\ (i # n => E[i] = C[i])
  <2>1. i \in Nat /\ i <= n /\ (i # n => i < n)
    BY <1>1
  <2>. QED
    BY <1>3, <2>1, Zenon
<1>. WITNESS R, E, l
<1>. QED
  BY <1>4, <1>10, <1>11, <1>12, Zenon

\* The peer writes: the bytes of the connection grow.
LEMMA Grows ==
  ASSUME NEW S, NEW x \in Nat, Underway(S, x), NEW bytes \in Seq(Byte),
         data' = data, wire' = wire \o bytes, NEW T, T = S \o bytes
  PROVE  Underway(T, x)' /\ Extends(S, T)
<1>1. /\ S \in Seq(Byte) /\ data \in Seq(Byte) /\ wire \in Seq(Byte)
      /\ x + Len(data) + Len(wire) = Len(S)
  BY DEF Underway
<1>2. PICK s \in Nat, w \in Nat, b \in Nat, d \in Nat :
        s = Len(S) /\ w = Len(wire) /\ b = Len(bytes) /\ d = Len(data)
  BY <1>1
<1>3. /\ T \in Seq(Byte) /\ Len(T) = s + b
      /\ \A i \in 1..s : T[i] = S[i]
      /\ \A h \in 1..b, i \in Nat : i = s + h => T[i] = bytes[h]
  BY <1>1, <1>2, Joined
<1>4. /\ wire' \in Seq(Byte) /\ Len(wire') = w + b
      /\ \A i \in 1..w : wire'[i] = wire[i]
      /\ \A h \in 1..b, i \in Nat : i = w + h => wire'[i] = bytes[h]
  BY <1>1, <1>2, Joined
<1>5. x + d + w = s
  BY <1>1, <1>2, Zenon
<1>6. x + d + (w + b) = s + b
  BY <1>5
<1>7. ASSUME NEW i \in 1..d, NEW j \in Nat, j = x + i PROVE data'[i] = T[j]
  <2>1. j \in 1..s
    BY <1>5, <1>7
  <2>2. data[i] = S[j]
    BY <1>2, <1>7, Zenon DEF Underway
  <2>3. T[j] = S[j]
    BY <1>3, <2>1, Zenon
  <2>. QED
    BY <2>2, <2>3
<1>8. ASSUME NEW i \in 1..(w + b), NEW j \in Nat, j = x + d + i PROVE wire'[i] = T[j]
  <2>1. CASE i <= w
    <3>1. i \in 1..w /\ j \in 1..s
      BY <1>5, <1>8, <2>1
    <3>2. wire[i] = S[j]
      BY <1>2, <1>8, <3>1, Zenon DEF Underway
    <3>. QED
      BY <1>3, <1>4, <3>1, <3>2, Zenon
  <2>2. CASE ~(i <= w)
    <3>1. i - w \in 1..b /\ i \in Nat /\ i = w + (i - w) /\ j = s + (i - w)
      BY <1>5, <1>8, <2>2
    <3>2. PICK h \in 1..b : i = w + h /\ j = s + h
      BY <3>1, Zenon
    <3>3. wire'[i] = bytes[h]
      BY <1>4, <3>1, <3>2, Zenon
    <3>4. T[j] = bytes[h]
      BY <1>3, <3>2, Zenon
    <3>. QED
      BY <3>3, <3>4, Zenon
  <2>. QED
    BY <2>1, <2>2
<1>9. Underway(T, x)'
  <2>1. data' = data /\ Len(data') = d /\ Len(wire') = w + b
    BY <1>2, <1>4, Zenon
  <2>2. x + Len(data') + Len(wire') = Len(T)
    BY <1>3, <1>6, <2>1, Zenon
  <2>3. \A i \in 1..Len(data'), j \in Nat : j = x + i => data'[i] = T[j]
    BY <1>7, <2>1
  <2>4. \A i \in 1..Len(wire'), j \in Nat : j = x + Len(data') + i => wire'[i] = T[j]
    BY <1>8, <2>1, Zenon
  <2>. QED
    BY <1>1, <1>3, <1>4, <2>1, <2>2, <2>3, <2>4, Zenon DEF Underway
<1>10. Extends(S, T)
  <2>1. s <= s + b
    OBVIOUS
  <2>. QED
    BY <1>1, <1>2, <1>3, <2>1, Zenon DEF Extends, Same
<1>. QED
  BY <1>9, <1>10

\* The network brings bytes: the parser has used no more of them.
LEMMA Brings ==
  ASSUME NEW S, NEW x \in Nat, Underway(S, x), data = <<>>, NEW n \in 1..Len(wire),
         data' = SubSeq(wire, 1, n), wire' = SubSeq(wire, n + 1, Len(wire))
  PROVE  Underway(S, x)'
<1>1. S \in Seq(Byte) /\ wire \in Seq(Byte) /\ x + Len(data) + Len(wire) = Len(S)
  BY DEF Underway
<1>2. PICK w \in Nat : w = Len(wire) /\ n \in 1..w /\ n \in 0..w /\ n \in Nat
  BY <1>1
<1>3. /\ data' \in Seq(Byte) /\ Len(data') = n
      /\ \A i \in 1..n : i \in 1..Len(wire) /\ data'[i] = wire[i]
  BY <1>1, <1>2, HeadOfSeq
<1>4. /\ wire' \in Seq(Byte) /\ Len(wire') = w - n
      /\ \A i \in 1..Len(wire'), j \in Nat : j = n + i => j \in 1..Len(wire) /\ wire'[i] = wire[j]
  <2>1. /\ wire' \in Seq(Byte) /\ Len(wire') = Len(wire) - n
        /\ \A i \in 1..Len(wire'), j \in Nat : j = n + i => j \in 1..Len(wire) /\ wire'[i] = wire[j]
    BY <1>1, <1>2, TailOfSeq
  <2>. QED
    BY <1>2, <2>1, Zenon
<1>5. Len(data) = 0
  OBVIOUS
<1>6. x + w = Len(S)
  <2>1. x + 0 + w = Len(S)
    BY <1>1, <1>2, <1>5, Zenon
  <2>. QED
    BY <2>1
<1>7. x + Len(data') + Len(wire') = Len(S)
  <2>1. x + n + (w - n) = x + w
    BY <1>2
  <2>. QED
    BY <1>3, <1>4, <1>6, <2>1, Zenon
<1>8. \A i \in 1..w, j \in Nat : j = x + 0 + i => wire[i] = S[j]
  BY <1>2, <1>5, ZenonT(40) DEF Underway
<1>9. ASSUME NEW i \in 1..Len(data'), NEW j \in Nat, j = x + i PROVE data'[i] = S[j]
  <2>1. i \in 1..n
    BY <1>3
  <2>2. i \in 1..w /\ j = x + 0 + i
    BY <1>2, <1>9, <2>1
  <2>. QED
    BY <1>3, <1>8, <2>1, <2>2, Zenon
<1>10. ASSUME NEW i \in 1..Len(wire'), NEW j \in Nat, j = x + Len(data') + i PROVE wire'[i] = S[j]
  <2>1. i \in 1..(w - n)
    BY <1>4
  <2>2. PICK h \in Nat : h = n + i
    BY <1>2, <2>1
  <2>3. h \in 1..w /\ wire'[i] = wire[h]
    BY <1>2, <1>4, <2>2, Zenon
  <2>4. j = x + n + i
    BY <1>3, <1>10, Zenon
  <2>5. j = x + 0 + h
    BY <1>2, <2>1, <2>2, <2>4
  <2>. QED
    BY <1>8, <2>3, <2>5, Zenon
<1>. QED
  BY <1>1, <1>3, <1>4, <1>7, <1>9, <1>10, Zenon DEF Underway

-----------------------------------------------------------------------------
(* The inductive invariant                                                     *)

\* The parser is x bytes into the handshake, which it has not finished.
Shaking(x) ==
  /\ parserState = "INIT"
  /\ \/ handshakeState = "UNINIT" /\ x = 0
     \/ handshakeState = "BEGIN" /\ x = 1 + handshakeBytes
     \/ handshakeState = "CONT" /\ x = 1 + HandshakeSize + handshakeBytes

\* With x bytes read the parser is at place k, or in the chunk behind it.
Reached(P, C, n, k, x) ==
  \/ k = 1 /\ Shaking(x) /\ AgreesBut(P[1], {})
  \/ handshakeState = "COMP" /\ parserState = "INIT" /\ x = P[k].at /\ AgreesBut(P[k], {})
  \/ /\ handshakeState = "COMP" /\ k # n
     /\ \E o \in Nat : x = P[k].at + o /\ InChunk(C[k], P[k], o)

\* The first place is behind the handshake, ...
Opening(p) == p.at = 2 * HandshakeSize + 1 /\ p.size = DefaultChunkSize /\ DOMAIN p.open = {}

\* ... and the last one is where the peer is.
PeerIs(p) == p.open = open /\ p.last = last /\ p.size = outSize /\ p.sent = sent

Explains(S, P, C, n) ==
  /\ Segment(S, P, C, n) /\ Opening(P[1]) /\ PeerIs(P[n])
  /\ \E k \in 1..n, x \in Nat : Underway(S, x) /\ Reached(P, C, n, k, x)

Values ==
  /\ begun \in 0..MaxMessages
  /\ handshakeBytes \in 0..(HandshakeSize - 1)
  /\ parserBuffer \in Seq(Byte) /\ Len(parserBuffer) <= 18
  /\ parserBasicBytes \in 0..3
  /\ PacketsOK

\* There is a history of chunks that explains what the parser has read and what
\* is still on its way.
ParserInv == Values /\ \E S, P, C, n : Explains(S, P, C, n)

\* What a step of the parser leaves to the peer
PeerStays == UNCHANGED <<open, last, outSize, sent>>

LEMMA ExplainsParts ==
  ASSUME NEW S, NEW P, NEW C, NEW n, Segment(S, P, C, n)
  PROVE  /\ n \in Nat \ {0} /\ 1 \in 1..n /\ n \in 1..n /\ S \in Seq(Byte)
         /\ \A h \in 1..n : PlaceOK(P[h]) /\ Prefix(P[h].sent, P[n].sent)
         /\ \A i \in 1..n : i # n => i + 1 \in 1..n /\ Follows(S, C[i], P[i], P[i + 1])
         /\ P[n].at = Len(S)
<1>1. n \in Nat \ {0} /\ S \in Seq(Byte) /\ P[n].at = Len(S)
      /\ \A h \in 1..n : PlaceOK(P[h]) /\ Prefix(P[h].sent, P[n].sent)
      /\ \A i, j \in 1..n : j = i + 1 => Follows(S, C[i], P[i], P[j])
  BY Zenon DEF Segment
<1>2. 1 \in 1..n /\ n \in 1..n
  BY <1>1
<1>3. ASSUME NEW i \in 1..n, i # n PROVE i + 1 \in 1..n /\ Follows(S, C[i], P[i], P[i + 1])
  <2>1. i + 1 \in 1..n
    BY <1>1, <1>3
  <2>. QED
    BY <1>1, <2>1, Zenon
<1>. QED
  BY <1>1, <1>2, <1>3, Zenon

\* A step that reads on in the handshake
LEMMA ShakesOn ==
  ASSUME NEW S, NEW P, NEW C, NEW n, Explains(S, P, C, n), handshakeState # "COMP",
         PeerStays, UNCHANGED <<wire, inPackets, inChunkSize, received, parserState>>,
         NEW m \in 0..Len(data), Use(m),
         \A x, y \in Nat : Shaking(x) /\ y = x + m =>
           Shaking(y)' \/ (handshakeState' = "COMP" /\ y = 2 * HandshakeSize + 1)
  PROVE  Explains(S, P, C, n)'
<1>1. Segment(S, P, C, n) /\ Opening(P[1]) /\ PeerIs(P[n])
  BY Zenon DEF Explains
<1>2. PICK x \in Nat : Underway(S, x) /\ Shaking(x) /\ AgreesBut(P[1], {})
  BY Zenon DEF Explains, Reached
<1>3. PICK y \in Nat : y = x + m
  BY <1>2 DEF Underway
<1>4. Underway(S, y)'
  BY <1>2, <1>3, UseBytes
<1>5. AgreesBut(P[1], {})'
  BY <1>2, AgreesStays
<1>6. Shaking(y)' \/ (handshakeState' = "COMP" /\ y = P[1].at)
  BY <1>1, <1>2, <1>3, Zenon DEF Opening
<1>7. parserState' = "INIT"
  BY <1>2, Zenon DEF Shaking
<1>8. Reached(P, C, n, 1, y)'
  BY <1>5, <1>6, <1>7, Zenon DEF Reached
<1>9. PeerIs(P[n])'
  BY <1>1, Zenon DEF PeerIs, PeerStays
<1>10. 1 \in 1..n
  BY <1>1, ExplainsParts, Zenon
<1>. QED
  BY <1>1, <1>4, <1>8, <1>9, <1>10, Zenon DEF Explains

LEMMA VersionStep ==
  ASSUME NEW S, NEW P, NEW C, NEW n, Explains(S, P, C, n), ReadVersion
  PROVE  Explains(S, P, C, n)'
<1>1. /\ data # <<>> /\ handshakeState = "UNINIT" /\ Use(1)
      /\ handshakeState' = "BEGIN" /\ handshakeBytes' = 0
      /\ PeerStays /\ UNCHANGED <<wire, inPackets, inChunkSize, received, parserState>>
  BY DEF ReadVersion, peerVars, PeerStays
<1>2. PICK k \in 1..n, x \in Nat : Underway(S, x)
  BY Zenon DEF Explains
<1>3. 1 \in 0..Len(data)
  BY <1>1, <1>2 DEF Underway
<1>4. handshakeState # "COMP"
  BY <1>1
<1>5. ASSUME NEW z \in Nat, NEW y \in Nat, Shaking(z), y = z + 1 PROVE Shaking(y)'
  <2>1. z = 0 /\ parserState = "INIT"
    BY <1>1, <1>5 DEF Shaking
  <2>2. y = 1 + 0
    BY <1>5, <2>1
  <2>. QED
    BY <1>1, <2>1, <2>2, Zenon DEF Shaking
<1>. QED
  BY <1>1, <1>3, <1>4, <1>5, ShakesOn, Zenon

LEMMA SignatureStep ==
  ASSUME NEW S, NEW P, NEW C, NEW n, Explains(S, P, C, n), Values,
         NEW state, NEW next, ReadSignature(state, next),
         <<state, next>> \in {<<"BEGIN", "CONT">>, <<"CONT", "COMP">>}
  PROVE  Explains(S, P, C, n)' /\ handshakeBytes' \in 0..(HandshakeSize - 1)
<1>1. PICK m : /\ m = Least(HandshakeSize - handshakeBytes, Len(data)) /\ Use(m)
               /\ IF handshakeBytes + m = HandshakeSize
                    THEN handshakeState' = next /\ handshakeBytes' = 0
                    ELSE handshakeBytes' = handshakeBytes + m /\ handshakeState' = handshakeState
  BY Zenon DEF ReadSignature
<1>2. /\ data # <<>> /\ handshakeState = state
      /\ PeerStays /\ UNCHANGED <<wire, inPackets, inChunkSize, received, parserState>>
  BY DEF ReadSignature, peerVars, PeerStays
<1>3. PICK k \in 1..n, x \in Nat : Underway(S, x)
  BY Zenon DEF Explains
<1>4. PICK h \in Nat, b \in Nat, l \in Nat :
        h = HandshakeSize /\ h # 0 /\ b = handshakeBytes /\ b < h /\ l = Len(data)
  <2>1. HandshakeSize \in Nat \ {0}
    BY SizesAssumption
  <2>2. handshakeBytes \in 0..(HandshakeSize - 1)
    BY Zenon DEF Values
  <2>3. Len(data) \in Nat
    BY <1>3 DEF Underway
  <2>4. handshakeBytes \in Nat /\ handshakeBytes < HandshakeSize /\ HandshakeSize # 0
        /\ HandshakeSize \in Nat
    BY <2>1, <2>2
  <2>. QED
    BY <2>3, <2>4, Zenon
<1>5. m = Least(h - b, l)
  BY <1>1, <1>4, Zenon
<1>6. m \in 0..l /\ b + m <= h /\ m \in Nat
  BY <1>4, <1>5 DEF Least
<1>7. m \in 0..Len(data)
  BY <1>4, <1>6, Zenon
<1>8. \/ state = "BEGIN" /\ next = "CONT"
      \/ state = "CONT" /\ next = "COMP"
  OBVIOUS
<1>9. handshakeState # "COMP"
  BY <1>2, <1>8
<1>10. /\ b + m = h => handshakeState' = next /\ handshakeBytes' = 0
       /\ b + m # h => handshakeState' = handshakeState /\ handshakeBytes' = b + m
  BY <1>1, <1>4, Zenon
<1>11. handshakeBytes' \in 0..(HandshakeSize - 1)
  <2>1. b + m # h => b + m \in 0..(h - 1)
    BY <1>6
  <2>2. 0 \in 0..(h - 1)
    BY <1>4
  <2>. QED
    BY <1>4, <1>10, <2>1, <2>2, Zenon
<1>12. ASSUME NEW z \in Nat, NEW y \in Nat, Shaking(z), y = z + m
       PROVE  Shaking(y)' \/ (handshakeState' = "COMP" /\ y = 2 * HandshakeSize + 1)
  <2>1. parserState' = "INIT"
    BY <1>2, <1>12, Zenon DEF Shaking
  <2>2. CASE state = "BEGIN" /\ next = "CONT"
    <3>1. z = 1 + b
      BY <1>2, <1>4, <1>12, <2>2 DEF Shaking
    <3>2. CASE b + m = h
      <4>1. y = 1 + h + 0
        BY <1>6, <1>12, <3>1, <3>2
      <4>. QED
        BY <1>4, <1>10, <2>1, <2>2, <3>2, <4>1, Zenon DEF Shaking
    <3>3. CASE b + m # h
      <4>1. y = 1 + (b + m)
        BY <1>6, <1>12, <3>1
      <4>. QED
        BY <1>2, <1>10, <2>1, <2>2, <3>3, <4>1, Zenon DEF Shaking
    <3>. QED
      BY <3>2, <3>3
  <2>3. CASE state = "CONT" /\ next = "COMP"
    <3>1. z = 1 + h + b
      BY <1>2, <1>4, <1>12, <2>3 DEF Shaking
    <3>2. CASE b + m = h
      <4>1. y = 2 * h + 1
        BY <1>6, <1>12, <3>1, <3>2
      <4>. QED
        BY <1>4, <1>10, <2>3, <3>2, <4>1, Zenon
    <3>3. CASE b + m # h
      <4>1. y = 1 + h + (b + m)
        BY <1>6, <1>12, <3>1
      <4>. QED
        BY <1>2, <1>4, <1>10, <2>1, <2>3, <3>3, <4>1, Zenon DEF Shaking
    <3>. QED
      BY <3>2, <3>3
  <2>. QED
    BY <1>8, <2>2, <2>3
<1>13. Explains(S, P, C, n)'
  BY <1>1, <1>2, <1>7, <1>9, <1>12, ShakesOn, Zenon
<1>. QED
  BY <1>11, <1>13

LEMMA ReadsOn ==
  ASSUME NEW S, NEW P, NEW C, NEW n, Segment(S, P, C, n), Opening(P[1]), PeerIs(P[n]), PeerStays,
         NEW k \in 1..n, k # n, Reads(S, C[k], P[k], P[k + 1])', handshakeState' = "COMP"
  PROVE  Explains(S, P, C, n)'
<1>1. k + 1 \in 1..n
  BY ExplainsParts, Zenon
<1>2. PeerIs(P[n])'
  BY Zenon DEF PeerIs, PeerStays
<1>3. PICK x \in Nat :
        /\ Underway(S, x)'
        /\ \/ \E o \in Nat : x = P[k].at + o /\ InChunk(C[k], P[k], o)'
           \/ parserState' = "INIT" /\ x = P[k + 1].at /\ AgreesBut(P[k + 1], {})'
  BY Zenon DEF Reads
<1>4. CASE \E o \in Nat : x = P[k].at + o /\ InChunk(C[k], P[k], o)'
  <2>1. Reached(P, C, n, k, x)'
    BY <1>4, Zenon DEF Reached
  <2>. QED
    BY <1>2, <1>3, <2>1, Zenon DEF Explains
<1>5. CASE parserState' = "INIT" /\ x = P[k + 1].at /\ AgreesBut(P[k + 1], {})'
  <2>1. Reached(P, C, n, k + 1, x)'
    BY <1>5, Zenon DEF Reached
  <2>. QED
    BY <1>1, <1>2, <1>3, <2>1, Zenon DEF Explains
<1>. QED
  BY <1>3, <1>4, <1>5

ChunkRead ==
  ReadFirstByte \/ ReadBasicHeader \/ ReadMessageHeader \/ ReadExtendedTimestamp \/ ReadPayload

LEMMA ChunkReadStep ==
  ASSUME NEW S, NEW P, NEW C, NEW n, Explains(S, P, C, n), Values, ChunkRead, running' = TRUE
  PROVE  Explains(S, P, C, n)' /\ Values'
<1>1. /\ data # <<>> /\ handshakeState = "COMP" /\ handshakeState' = "COMP"
      /\ handshakeBytes' = handshakeBytes /\ begun' = begun /\ PeerStays
  BY DEF ChunkRead, ReadFirstByte, ReadBasicHeader, ReadMessageHeader, ReadExtendedTimestamp,
         ReadPayload, Reading, peerVars, handshakeVars, PeerStays
<1>2. PacketsOK /\ parserBuffer \in Seq(Byte) /\ Len(parserBuffer) <= 18
  BY Zenon DEF Values
<1>3. Segment(S, P, C, n) /\ Opening(P[1]) /\ PeerIs(P[n])
  BY Zenon DEF Explains
<1>4. PICK k \in 1..n, x \in Nat : Underway(S, x) /\ Reached(P, C, n, k, x)
  BY Zenon DEF Explains
<1>5. PlaceOK(P[k]) /\ (k # n => Follows(S, C[k], P[k], P[k + 1]))
  BY <1>3, ExplainsParts, Zenon
<1>6. \/ parserState = "INIT" /\ x = P[k].at /\ AgreesBut(P[k], {})
      \/ k # n /\ \E o \in Nat : x = P[k].at + o /\ InChunk(C[k], P[k], o)
  BY <1>1, <1>4 DEF Reached, Shaking
<1>7. parserBasicBytes' \in 0..3
  <2>1. CASE ReadFirstByte
    BY <2>1 DEF ReadFirstByte, BasicBytes
  <2>2. CASE ~ReadFirstByte
    <3>1. parserBasicBytes' = parserBasicBytes
      BY <2>2 DEF ChunkRead, ReadBasicHeader, ReadMessageHeader, ReadExtendedTimestamp,
                  ReadPayload, headerVars
    <3>. QED
      BY <3>1, Zenon DEF Values
  <2>. QED
    BY <2>1, <2>2
<1>8. k # n /\ Proceeds(S, C[k], P[k], P[k + 1])
  <2>1. CASE parserState = "INIT" /\ x = P[k].at /\ AgreesBut(P[k], {})
    <3>1. ReadFirstByte
      BY <2>1 DEF ChunkRead, ReadBasicHeader, ReadMessageHeader, ReadExtendedTimestamp,
                  ReadPayload, Reading
    <3>2. k # n
      <4>1. P[n].at = Len(S)
        BY <1>3, ExplainsParts, Zenon
      <4>2. x < Len(S)
        BY <1>1, <1>4 DEF Underway
      <4>. QED
        BY <2>1, <4>1, <4>2
    <3>3. Underway(S, P[k].at)
      BY <1>4, <2>1, Zenon
    <3>4. Follows(S, C[k], P[k], P[k + 1]) /\ AgreesBut(P[k], {})
      BY <1>5, <2>1, <3>2, Zenon
    <3>5. /\ Reads(S, C[k], P[k], P[k + 1])'
          /\ parserBuffer' \in Seq(Byte) /\ Len(parserBuffer') <= 18
      BY <3>1, <3>3, <3>4, FirstByteStep
    <3>6. PacketsOK'
      <4>1. inPackets' = inPackets
        BY <3>1 DEF ReadFirstByte
      <4>. QED
        BY <1>2, <4>1, Zenon DEF PacketsOK
    <3>. QED
      BY <3>2, <3>5, <3>6, Zenon DEF Proceeds
  <2>2. CASE k # n /\ \E o \in Nat : x = P[k].at + o /\ InChunk(C[k], P[k], o)
    <3>1. PICK o \in Nat : x = P[k].at + o /\ InChunk(C[k], P[k], o)
      BY <2>2
    <3>2. PICK c, p, q : c = C[k] /\ p = P[k] /\ q = P[k + 1]
      OBVIOUS
    <3>3. /\ PlaceOK(p) /\ Follows(S, c, p, q) /\ x \in Nat /\ Underway(S, x) /\ o \in Nat
          /\ x = p.at + o /\ InChunk(c, p, o)
      BY <1>4, <1>5, <2>2, <3>1, <3>2, Zenon
    <3>4. Proceeds(S, c, p, q)
      <4>1. CASE InBasicHeader(c, p, o)
        <5>1. ReadBasicHeader
          BY <4>1 DEF ChunkRead, ReadFirstByte, ReadMessageHeader, ReadExtendedTimestamp,
                      ReadPayload, Reading, InBasicHeader
        <5>2. Reads(S, c, p, q)' /\ parserBuffer' \in Seq(Byte) /\ Len(parserBuffer') <= 18
          BY <3>3, <4>1, <5>1, BasicHeaderStep
        <5>3. PacketsOK'
          <6>1. inPackets' = inPackets
            BY <5>1 DEF ReadBasicHeader
          <6>. QED
            BY <1>2, <6>1, Zenon DEF PacketsOK
        <5>. QED
          BY <5>2, <5>3, Zenon DEF Proceeds
      <4>2. CASE InMessageHeader(c, p, o)
        <5>1. ReadMessageHeader
          BY <4>2 DEF ChunkRead, ReadFirstByte, ReadBasicHeader, ReadExtendedTimestamp,
                      ReadPayload, Reading, InMessageHeader
        <5>. QED
          BY <1>2, <3>3, <4>2, <5>1, MessageHeaderStep
      <4>3. CASE InExtendedTimestamp(c, p, o)
        <5>1. ReadExtendedTimestamp
          BY <4>3 DEF ChunkRead, ReadFirstByte, ReadBasicHeader, ReadMessageHeader,
                      ReadPayload, Reading, InExtendedTimestamp
        <5>. QED
          BY <1>2, <3>3, <4>3, <5>1, ExtendedTimestampStep
      <4>4. CASE InPayload(c, p, o)
        <5>1. ReadPayload
          BY <4>4 DEF ChunkRead, ReadFirstByte, ReadBasicHeader, ReadMessageHeader,
                      ReadExtendedTimestamp, Reading, InPayload
        <5>. QED
          BY <1>2, <3>3, <4>4, <5>1, PayloadStep
      <4>. QED
        BY <3>3, <4>1, <4>2, <4>3, <4>4, Zenon DEF InChunk
    <3>. QED
      BY <2>2, <3>2, <3>4, Zenon
  <2>. QED
    BY <1>6, <2>1, <2>2
<1>9. Reads(S, C[k], P[k], P[k + 1])' /\ PacketsOK'
      /\ parserBuffer' \in Seq(Byte) /\ Len(parserBuffer') <= 18
  BY <1>8, Zenon DEF Proceeds
<1>10. Explains(S, P, C, n)'
  BY <1>1, <1>3, <1>8, <1>9, ReadsOn, Zenon
<1>11. Values'
  BY <1>1, <1>7, <1>9, Zenon DEF Values
<1>. QED
  BY <1>10, <1>11

\* Nothing of this is about the bytes on their way.
LEMMA ReachedStays ==
  ASSUME NEW P, NEW C, NEW n, NEW k, NEW x, Reached(P, C, n, k, x),
         UNCHANGED <<handshakeState, handshakeBytes, parserState, parserBuffer, parserBasicBytes,
                     channel, inPackets, inChunkSize, received>>
  PROVE  Reached(P, C, n, k, x)'
<1>1. \A p, busy : AgreesBut(p, busy) => AgreesBut(p, busy)'
  BY AgreesStays
<1>2. Shaking(x) => Shaking(x)'
  BY DEF Shaking
<1>3. ASSUME NEW c, NEW p, NEW o, InChunk(c, p, o) PROVE InChunk(c, p, o)'
  <2>1. HeaderIs(c, p) => HeaderIs(c, p)'
    BY <1>1 DEF HeaderIs
  <2>2. InBasicHeader(c, p, o) => InBasicHeader(c, p, o)'
    BY <1>1 DEF InBasicHeader
  <2>3. InMessageHeader(c, p, o) => InMessageHeader(c, p, o)'
    BY <1>1 DEF InMessageHeader
  <2>4. InExtendedTimestamp(c, p, o) => InExtendedTimestamp(c, p, o)'
    BY <2>1 DEF InExtendedTimestamp
  <2>5. InPayload(c, p, o) => InPayload(c, p, o)'
    BY <2>1 DEF InPayload
  <2>. QED
    BY <1>3, <2>2, <2>3, <2>4, <2>5, Zenon DEF InChunk
<1>4. CASE k = 1 /\ Shaking(x) /\ AgreesBut(P[1], {})
  BY <1>1, <1>2, <1>4, Zenon DEF Reached
<1>5. CASE handshakeState = "COMP" /\ parserState = "INIT" /\ x = P[k].at /\ AgreesBut(P[k], {})
  <2>1. handshakeState' = "COMP" /\ parserState' = "INIT" /\ AgreesBut(P[k], {})'
    BY <1>1, <1>5
  <2>. QED
    BY <1>5, <2>1, Zenon DEF Reached
<1>6. CASE /\ handshakeState = "COMP" /\ k # n
           /\ \E o \in Nat : x = P[k].at + o /\ InChunk(C[k], P[k], o)
  <2>1. handshakeState' = "COMP"
    BY <1>6
  <2>. QED
    BY <1>3, <1>6, <2>1, Zenon DEF Reached
<1>. QED
  BY <1>4, <1>5, <1>6, Zenon DEF Reached

LEMMA NewConnection ==
  ASSUME NEW s \in Seq(Contents)
  PROVE  \E P, C : /\ Segment(Handshake, P, C, 1) /\ Opening(P[1])
                   /\ P[1].open = <<>> /\ P[1].last = <<>> /\ P[1].size = DefaultChunkSize
                   /\ P[1].sent = s
<1>1. PICK h \in Nat : h = 2 * HandshakeSize + 1
  BY SizesAssumption
<1>2. Handshake \in Seq(Byte) /\ Len(Handshake) = h
  <2>1. Handshake = [i \in 1..h |-> i % B]
    <3>1. 1 + 2 * HandshakeSize = h
      BY <1>1, SizesAssumption
    <3>. QED
      BY <3>1 DEF Handshake
  <2>2. \A i \in 1..h : i % B \in Byte
    BY BaseProperties DEF Byte
  <2>. QED
    BY <2>1, <2>2
<1>3. PICK p : p = [at |-> h, open |-> <<>>, last |-> <<>>, size |-> DefaultChunkSize, sent |-> s]
  OBVIOUS
<1>4. /\ p.at = h /\ p.open = <<>> /\ p.last = <<>> /\ p.size = DefaultChunkSize /\ p.sent = s
      /\ DOMAIN p.open = {} /\ DOMAIN p.last = {}
  BY <1>3
<1>5. PICK P : P = [i \in {1} |-> p]
  OBVIOUS
<1>6. P[1] = p
  BY <1>5
<1>7. PlaceOK(p)
  BY <1>4, SizesAssumption DEF PlaceOK
<1>8. Prefix(p.sent, p.sent)
  BY <1>4, PrefixReflexive
<1>9. Segment(Handshake, P, P, 1)
  <2>1. 1 \in Nat \ {0} /\ \A i \in 1..1 : i = 1
    OBVIOUS
  <2>2. \A i, j \in 1..1 : ~(j = i + 1)
    OBVIOUS
  <2>3. P[1].at = Len(Handshake)
    BY <1>2, <1>4, <1>6, Zenon
  <2>4. \A i \in 1..1 : PlaceOK(P[i]) /\ Prefix(P[i].sent, P[1].sent)
    BY <1>6, <1>7, <1>8, <2>1, Zenon
  <2>. QED
    BY <1>2, <2>1, <2>2, <2>3, <2>4, Zenon DEF Segment
<1>10. Opening(P[1])
  BY <1>1, <1>4, <1>6, Zenon DEF Opening
<1>. QED
  BY <1>4, <1>6, <1>9, <1>10, Zenon

LEMMA InitExplained ==
  ASSUME Init
  PROVE  ParserInv
<1>1. /\ wire = Handshake /\ open = <<>> /\ last = <<>> /\ outSize = DefaultChunkSize
      /\ begun = 0 /\ sent = <<>> /\ data = <<>> /\ handshakeState = "UNINIT" /\ handshakeBytes = 0
      /\ parserState = "INIT" /\ parserBuffer = <<>> /\ parserBasicBytes = 0 /\ inPackets = <<>>
      /\ inChunkSize = DefaultChunkSize /\ received = <<>>
  BY DEF Init
<1>2. Values
  BY <1>1, SizesAssumption DEF Values, PacketsOK
<1>3. PICK P, C : /\ Segment(Handshake, P, C, 1) /\ Opening(P[1])
                  /\ P[1].open = <<>> /\ P[1].last = <<>> /\ P[1].size = DefaultChunkSize
                  /\ P[1].sent = <<>>
  <2>1. <<>> \in Seq(Contents)
    OBVIOUS
  <2>. QED
    BY <2>1, NewConnection, Zenon
<1>4. PeerIs(P[1])
  BY <1>1, <1>3, Zenon DEF PeerIs
<1>5. Underway(Handshake, 0)
  <2>1. Handshake \in Seq(Byte)
    BY <1>3, Zenon DEF Segment
  <2>. QED
    BY <1>1, <2>1 DEF Underway
<1>6. AgreesBut(P[1], {})
  <2>1. DOMAIN P[1].last = {} /\ DOMAIN inPackets = {}
    BY <1>1, <1>3
  <2>. QED
    BY <1>1, <1>3, <2>1 DEF AgreesBut
<1>7. Reached(P, C, 1, 1, 0)
  BY <1>1, <1>6 DEF Reached, Shaking
<1>8. Explains(Handshake, P, C, 1)
  <2>1. 1 \in 1..1 /\ 0 \in Nat
    OBVIOUS
  <2>. QED
    BY <1>3, <1>4, <1>5, <1>7, <2>1, Zenon DEF Explains
<1>. QED
  BY <1>2, <1>8, Zenon DEF ParserInv

LEMMA FeedStep ==
  ASSUME NEW S, NEW P, NEW C, NEW n, Explains(S, P, C, n), Feed
  PROVE  Explains(S, P, C, n)'
<1>1. /\ data = <<>> /\ PeerStays
      /\ UNCHANGED <<handshakeState, handshakeBytes, parserState, parserBuffer, parserBasicBytes,
                     channel, inPackets, inChunkSize, received>>
  BY DEF Feed, PeerStays, handshakeVars, headerVars
<1>2. PICK m \in 1..Len(wire) : data' = SubSeq(wire, 1, m) /\ wire' = SubSeq(wire, m + 1, Len(wire))
  BY DEF Feed
<1>3. Segment(S, P, C, n) /\ Opening(P[1]) /\ PeerIs(P[n])
  BY Zenon DEF Explains
<1>4. PICK k \in 1..n, x \in Nat : Underway(S, x) /\ Reached(P, C, n, k, x)
  BY Zenon DEF Explains
<1>5. Underway(S, x)'
  BY <1>1, <1>2, <1>4, Brings
<1>6. Reached(P, C, n, k, x)'
  BY <1>1, <1>4, ReachedStays
<1>7. PeerIs(P[n])'
  BY <1>1, <1>3, Zenon DEF PeerIs, PeerStays
<1>. QED
  BY <1>3, <1>5, <1>6, <1>7, Zenon DEF Explains

\* A chunk lies between two places.
LEMMA FollowsBefore ==
  ASSUME NEW S \in Seq(Byte), NEW c, NEW p, NEW q, Follows(S, c, p, q)
  PROVE  p.at < Len(S)
<1>1. PICK b : b = ChunkBytes(c, p.size)
  OBVIOUS
<1>2. p.at \in Nat /\ p.at + Len(b) <= Len(S)
  BY <1>1, Zenon DEF Follows, HoldsAt
<1>3. Len(b) = c.el + c.part /\ c.el \in Nat /\ c.part \in Nat /\ 1 <= c.el
  <2>1. ChunkOK(c, p.size)
    BY DEF Follows
  <2>2. /\ Len(b) = c.el + c.part /\ c.el \in Nat /\ c.part \in Nat
        /\ c.bl \in Nat /\ c.hl \in Nat /\ 1 <= c.bl /\ c.bl <= c.hl /\ c.hl <= c.el
    BY <1>1, <2>1, ChunkLengths
  <2>. QED
    BY <2>2
<1>4. PICK a \in Nat, l \in Nat, e \in Nat, t \in Nat :
        a = p.at /\ l = Len(S) /\ e = c.el /\ t = c.part
  BY <1>2, <1>3
<1>5. a + (e + t) <= l /\ 1 <= e
  BY <1>2, <1>3, <1>4, Zenon
<1>6. a < l
  BY <1>5
<1>. QED
  BY <1>4, <1>6, Zenon

\* A connection that is lost in the handshake, or when nothing is in progress, leaves a
\* parser that is ready for the next one.
LEMMA LostStep ==
  ASSUME NEW S, NEW P, NEW C, NEW n, Explains(S, P, C, n), Values, LostAnywhere = FALSE,
         LostConnection
  PROVE  ParserInv'
<1>1. /\ data = <<>> /\ data' = data /\ wire' = Handshake /\ handshakeState' = "UNINIT"
      /\ open' = <<>> /\ last' = <<>> /\ outSize' = DefaultChunkSize /\ sent' = received
      /\ UNCHANGED <<begun, handshakeBytes, parserState, parserBuffer, parserBasicBytes, inPackets,
                     inChunkSize, received>>
  BY DEF LostConnection, headerVars
<1>2. \/ handshakeState # "COMP"
      \/ wire = <<>> /\ DOMAIN open = {} /\ parserState = "INIT" /\ outSize = DefaultChunkSize
  BY DEF LostConnection
<1>3. Segment(S, P, C, n) /\ Opening(P[1]) /\ PeerIs(P[n])
  BY Zenon DEF Explains
<1>4. PICK k \in 1..n, x \in Nat : Underway(S, x) /\ Reached(P, C, n, k, x)
  BY Zenon DEF Explains
<1>5. PICK i \in 1..n : /\ parserState = "INIT" /\ AgreesBut(P[i], {})
                        /\ P[i].size = DefaultChunkSize /\ DOMAIN P[i].open = {}
  <2>1. CASE k = 1 /\ Shaking(x) /\ AgreesBut(P[1], {})
    <3>1. parserState = "INIT"
      BY <2>1, Zenon DEF Shaking
    <3>2. 1 \in 1..n
      BY <1>3, ExplainsParts, Zenon
    <3>. QED
      BY <1>3, <2>1, <3>1, <3>2, Zenon DEF Opening
  <2>2. CASE handshakeState = "COMP" /\ parserState = "INIT" /\ x = P[k].at /\ AgreesBut(P[k], {})
    <3>1. wire = <<>> /\ DOMAIN open = {} /\ outSize = DefaultChunkSize
      BY <1>2, <2>2
    <3>2. x = Len(S)
      BY <1>1, <1>4, <3>1 DEF Underway
    <3>3. k = n
      <4>1. SUFFICES ASSUME k # n PROVE FALSE
        OBVIOUS
      <4>2. Follows(S, C[k], P[k], P[k + 1])
        BY <1>3, <4>1, ExplainsParts, Zenon
      <4>3. S \in Seq(Byte)
        BY <1>3, ExplainsParts, Zenon
      <4>4. P[k].at < Len(S)
        BY <4>2, <4>3, FollowsBefore
      <4>5. Len(S) \in Nat
        BY <4>3
      <4>. QED
        BY <2>2, <3>2, <4>4, <4>5
    <3>. QED
      BY <1>3, <2>2, <3>1, <3>3, Zenon DEF PeerIs
  <2>3. CASE /\ handshakeState = "COMP" /\ k # n
             /\ \E o \in Nat : x = P[k].at + o /\ InChunk(C[k], P[k], o)
    <3>1. parserState = "INIT"
      BY <1>2, <2>3
    <3>2. \A c, p, o : ~InChunk(c, p, o)
      BY <3>1 DEF InChunk, InBasicHeader, InMessageHeader, InExtendedTimestamp, InPayload
    <3>. QED
      BY <2>3, <3>2
  <2>. QED
    BY <1>4, <2>1, <2>2, <2>3, Zenon DEF Reached
<1>6. received = P[i].sent /\ inChunkSize = DefaultChunkSize
      /\ \A y \in DOMAIN inPackets : inPackets[y].bytes = 0
  BY <1>5 DEF AgreesBut
<1>7. received \in Seq(Contents)
  BY <1>3, <1>6, ExplainsParts, PrefixTyped, Zenon
<1>8. PICK Q, D : /\ Segment(Handshake, Q, D, 1) /\ Opening(Q[1])
                  /\ Q[1].open = <<>> /\ Q[1].last = <<>> /\ Q[1].size = DefaultChunkSize
                  /\ Q[1].sent = received
  BY <1>7, NewConnection, Zenon
<1>9. PeerIs(Q[1])'
  BY <1>1, <1>8, Zenon DEF PeerIs
<1>10. Underway(Handshake, 0)'
  <2>1. Handshake \in Seq(Byte)
    BY <1>8, Zenon DEF Segment
  <2>. QED
    BY <1>1, <2>1 DEF Underway
<1>11. AgreesBut(Q[1], {})'
  <2>1. DOMAIN Q[1].last = {}
    BY <1>8
  <2>2. inPackets' = inPackets /\ inChunkSize' = Q[1].size /\ received' = Q[1].sent
    BY <1>1, <1>6, <1>8, Zenon
  <2>. QED
    BY <1>6, <2>1, <2>2 DEF AgreesBut
<1>12. Reached(Q, D, 1, 1, 0)'
  BY <1>1, <1>5, <1>11 DEF Reached, Shaking
<1>13. Explains(Handshake, Q, D, 1)'
  <2>1. 1 \in 1..1 /\ 0 \in Nat
    OBVIOUS
  <2>. QED
    BY <1>8, <1>9, <1>10, <1>12, <2>1, Zenon DEF Explains
<1>14. Values'
  BY <1>1, Zenon DEF Values, PacketsOK
<1>. QED
  BY <1>13, <1>14, Zenon DEF ParserInv

-----------------------------------------------------------------------------
(* The peer writes                                                             *)

\* The steps of the peer leave the parser as it is.
ParserStays ==
  UNCHANGED <<data, handshakeState, handshakeBytes, parserState, parserBuffer, parserBasicBytes,
              channel, inPackets, inChunkSize, received>>

\* The chunks D between the num places Q, the first of which is p, are what the peer
\* writes behind the bytes S.
Written(S, p, bytes, Q, D, num) ==
  bytes \in Seq(Byte) /\ Segment(S \o bytes, Q, D, num) /\ Q[1] = p

LEMMA PeerWrites ==
  ASSUME NEW S, NEW P, NEW C, NEW n, Explains(S, P, C, n), Values, ParserStays,
         NEW bytes, NEW Q, NEW D, NEW num, Written(S, P[n], bytes, Q, D, num),
         wire' = wire \o bytes, PeerIs(Q[num])', begun' \in 0..MaxMessages
  PROVE  ParserInv'
<1>1. Segment(S, P, C, n) /\ Opening(P[1]) /\ PeerIs(P[n])
  BY Zenon DEF Explains
<1>2. PICK k \in 1..n, x \in Nat : Underway(S, x) /\ Reached(P, C, n, k, x)
  BY Zenon DEF Explains
<1>3. bytes \in Seq(Byte) /\ Segment(S \o bytes, Q, D, num) /\ Q[1] = P[n]
  BY Zenon DEF Written
<1>4. PICK T : T = S \o bytes /\ Segment(T, Q, D, num)
  BY <1>3, Zenon
<1>5. Underway(T, x)' /\ Extends(S, T)
  <2>1. data' = data
    BY DEF ParserStays
  <2>. QED
    BY <1>2, <1>3, <1>4, <2>1, Grows
<1>6. PICK R, E, l : /\ Segment(T, R, E, l) /\ R[l] = Q[num] /\ n <= l
                     /\ \A i \in 1..n : R[i] = P[i] /\ (i # n => E[i] = C[i])
  <2>1. Segment(S, P, C, n) /\ Extends(S, T) /\ Segment(T, Q, D, num) /\ Q[1] = P[n]
    BY <1>1, <1>3, <1>4, <1>5, Zenon
  <2>. QED
    BY <2>1, SegmentsJoin
<1>7. /\ 1 \in 1..n /\ k \in 1..l /\ R[1] = P[1] /\ R[k] = P[k]
      /\ k # n => k # l /\ E[k] = C[k]
  <2>1. 1 \in 1..n /\ n \in Nat
    BY <1>1, ExplainsParts
  <2>2. l \in Nat
    BY <1>6, ExplainsParts
  <2>3. k \in 1..l /\ (k # n => k # l)
    BY <1>6, <2>1, <2>2
  <2>. QED
    BY <1>6, <2>1, <2>3, Zenon
<1>8. Reached(P, C, n, k, x)'
  BY <1>2, ReachedStays DEF ParserStays
<1>9. Reached(R, E, l, k, x)'
  BY <1>7, <1>8, Zenon DEF Reached
<1>10. Opening(R[1]) /\ PeerIs(R[l])'
  BY <1>1, <1>6, <1>7, Zenon
<1>11. Explains(T, R, E, l)'
  BY <1>5, <1>6, <1>7, <1>9, <1>10, Zenon DEF Explains
<1>12. Values'
  BY Zenon DEF Values, PacketsOK, ParserStays
<1>. QED
  BY <1>11, <1>12, Zenon DEF ParserInv

IsChunk(c, m, fmt, t, from) ==
  c.message = m /\ c.fmt = fmt /\ c.timestamp = t /\ c.from = from

LEMMA ChunkExists ==
  ASSUME NEW m \in Messages, NEW fmt \in 0..3, NEW t \in 0..MaxClock, NEW size \in Nat \ {0},
         NEW from \in 0..Len(m.payload)
  PROVE  \E c : /\ IsChunk(c, m, fmt, t, from) /\ ChunkOK(c, size)
                /\ ChunkBytes(c, size) = Chunk(m, m.cid, fmt, t, from, size)
<1>1. m.cid \in ChannelIds /\ m.payload \in Seq(Byte) /\ Writable(m) /\ Len(m.payload) \in Nat
  BY MessageProperties
<1>2. PICK b, part : b = Chunk(m, m.cid, fmt, t, from, size) /\ part = PartOf(m, from, size)
  OBVIOUS
<1>3. /\ PartOf(m, from, size) \in 0..size
      /\ \E bl, hl, el \in Nat :
           LaidOut(Chunk(m, m.cid, fmt, t, from, size), m, m.cid, fmt, t, from,
                   PartOf(m, from, size), bl, hl, el)
  BY <1>1, ChunkProperties
<1>4. PICK bl \in Nat, hl \in Nat, el \in Nat : LaidOut(b, m, m.cid, fmt, t, from, part, bl, hl, el)
  BY <1>2, <1>3, Zenon
<1>5. part \in Nat
  BY <1>2, <1>3
<1>6. PICK c : c = [message |-> m, fmt |-> fmt, timestamp |-> t, from |-> from, part |-> part,
                    bl |-> bl, hl |-> hl, el |-> el]
  OBVIOUS
<1>7. /\ c.message = m /\ c.fmt = fmt /\ c.timestamp = t /\ c.from = from /\ c.part = part
      /\ c.bl = bl /\ c.hl = hl /\ c.el = el
  BY <1>6
<1>8. ChunkBytes(c, size) = b
  BY <1>2, <1>7, Zenon DEF ChunkBytes
<1>9. ChunkOK(c, size)
  BY <1>2, <1>4, <1>5, <1>7, <1>8, Zenon DEF ChunkOK
<1>. QED
  BY <1>2, <1>7, <1>8, <1>9, Zenon DEF IsChunk

\* The bytes b behind S
LEMMA HoldsBehind ==
  ASSUME NEW S \in Seq(Byte), NEW at, at = Len(S), NEW b \in Seq(Byte)
  PROVE  HoldsAt(S \o b, at, b) /\ S \o b \in Seq(Byte) /\ Len(S \o b) = at + Len(b)
<1>1. PICK T : T = S \o b
  OBVIOUS
<1>2. PICK o \in Nat, n \in Nat : o = Len(S) /\ n = Len(b)
  OBVIOUS
<1>3. /\ T \in Seq(Byte) /\ Len(T) = o + n
      /\ \A h \in 1..n, i \in Nat : i = o + h => T[i] = b[h]
  BY <1>1, <1>2, Joined
<1>4. at = o /\ o + n <= o + n
  BY <1>2
<1>5. HoldsAt(T, at, b)
  BY <1>2, <1>3, <1>4, Zenon DEF HoldsAt
<1>. QED
  BY <1>1, <1>2, <1>3, <1>4, <1>5, Zenon

LEMMA OneChunk ==
  ASSUME NEW S \in Seq(Byte), NEW p, PlaceOK(p), p.sent \in Seq(Contents), p.at = Len(S),
         NEW c, ChunkOK(c, p.size), NEW q, Moves(c, p, q)
  PROVE  \E Q, D : Written(S, p, ChunkBytes(c, p.size), Q, D, 2) /\ Q[2] = q
<1>1. PICK b : b = ChunkBytes(c, p.size)
  OBVIOUS
<1>2. /\ b \in Seq(Byte) /\ Len(b) = c.el + c.part /\ c.el \in Nat /\ c.part \in Nat
      /\ c.message \in Messages
  BY <1>1, ChunkLengths
<1>3. PICK T : T = S \o b
  OBVIOUS
<1>4. HoldsAt(T, p.at, b) /\ T \in Seq(Byte) /\ Len(T) = p.at + Len(b)
  BY <1>2, <1>3, HoldsBehind
<1>5. Follows(T, c, p, q)
  BY <1>1, <1>4, Zenon DEF Follows
<1>6. q.at = Len(T)
  <2>1. PICK a \in Nat, e \in Nat, t \in Nat : a = p.at /\ e = c.el /\ t = c.part
    BY <1>2 DEF PlaceOK
  <2>2. (a + e) + t = a + (e + t)
    OBVIOUS
  <2>3. q.at = (p.at + c.el) + c.part
    BY Zenon DEF Moves
  <2>. QED
    BY <1>2, <1>4, <2>1, <2>2, <2>3, Zenon
<1>7. PlaceOK(q)
  BY PlaceFollows
<1>8. Prefix(p.sent, q.sent)
  BY <1>2, MovesOn
<1>9. Prefix(q.sent, q.sent)
  BY <1>8, PrefixTyped, PrefixReflexive
<1>10. PICK Q : Q = [i \in {1, 2} |-> IF i = 1 THEN p ELSE q]
  OBVIOUS
<1>11. PICK D : D = [i \in {1} |-> c]
  OBVIOUS
<1>12. Q[1] = p /\ Q[2] = q
  BY <1>10
<1>13. D[1] = c
  BY <1>11
<1>14. Segment(T, Q, D, 2)
  <2>1. 2 \in Nat \ {0} /\ \A i \in 1..2 : i = 1 \/ i = 2
    OBVIOUS
  <2>2. \A i, j \in 1..2 : j = i + 1 => i = 1 /\ j = 2
    OBVIOUS
  <2>3. \A h \in 1..2 : PlaceOK(Q[h]) /\ Prefix(Q[h].sent, Q[2].sent)
    BY <1>7, <1>8, <1>9, <1>12, <2>1, Zenon
  <2>4. \A i, j \in 1..2 : j = i + 1 => Follows(T, D[i], Q[i], Q[j])
    BY <1>5, <1>12, <1>13, <2>2, Zenon
  <2>. QED
    BY <1>4, <1>6, <1>12, <2>1, <2>3, <2>4, Zenon DEF Segment
<1>15. Written(S, p, b, Q, D, 2)
  BY <1>2, <1>3, <1>12, <1>14, Zenon DEF Written
<1>. QED
  BY <1>1, <1>12, <1>15, Zenon

\* What the peer is at
LEMMA PeerPlace ==
  ASSUME NEW S, NEW P, NEW C, NEW n, Explains(S, P, C, n)
  PROVE  /\ S \in Seq(Byte) /\ PlaceOK(P[n]) /\ P[n].sent \in Seq(Contents) /\ P[n].at = Len(S)
         /\ PeerIs(P[n]) /\ outSize \in Nat \ {0}
<1>1. Segment(S, P, C, n) /\ PeerIs(P[n])
  BY Zenon DEF Explains
<1>2. S \in Seq(Byte) /\ PlaceOK(P[n]) /\ Prefix(P[n].sent, P[n].sent) /\ P[n].at = Len(S)
  BY <1>1, ExplainsParts, Zenon
<1>3. P[n].sent \in Seq(Contents)
  BY <1>2, PrefixTyped
<1>. QED
  BY <1>1, <1>2, <1>3 DEF PlaceOK, PeerIs

\* Writing c takes the peer from p to the place it is at then.
PeerBehind(c, p, q) ==
  /\ q.at = p.at + c.el + c.part /\ q.open = open' /\ q.last = last'
  /\ q.size = outSize' /\ q.sent = sent'

MovesPeer(c, p) == \A q : PeerBehind(c, p, q) => Moves(c, p, q)

\* One chunk takes the peer to a place that follows its last one.
LEMMA PeerMoves ==
  ASSUME NEW S, NEW P, NEW C, NEW n, Explains(S, P, C, n), Values, ParserStays,
         NEW c, ChunkOK(c, outSize), wire' = wire \o ChunkBytes(c, outSize),
         begun' \in 0..MaxMessages, MovesPeer(c, P[n])
  PROVE  ParserInv'
<1>1. /\ S \in Seq(Byte) /\ PlaceOK(P[n]) /\ P[n].sent \in Seq(Contents) /\ P[n].at = Len(S)
      /\ PeerIs(P[n])
  BY PeerPlace
<1>2. PICK p : p = P[n]
  OBVIOUS
<1>3. PICK q : q = [at |-> p.at + c.el + c.part, open |-> open', last |-> last',
                    size |-> outSize', sent |-> sent']
  OBVIOUS
<1>4. /\ q.at = p.at + c.el + c.part /\ q.open = open' /\ q.last = last'
      /\ q.size = outSize' /\ q.sent = sent'
  BY <1>3
<1>5. Moves(c, p, q)
  BY <1>2, <1>4, Zenon DEF MovesPeer, PeerBehind
<1>6. p.size = outSize
  BY <1>1, <1>2, Zenon DEF PeerIs
<1>7. /\ PlaceOK(p) /\ p.sent \in Seq(Contents) /\ p.at = Len(S) /\ ChunkOK(c, p.size)
  BY <1>1, <1>2, <1>6, Zenon
<1>8. PICK Q, D : Written(S, p, ChunkBytes(c, p.size), Q, D, 2) /\ Q[2] = q
  BY <1>1, <1>5, <1>7, OneChunk
<1>9. PeerIs(Q[2])'
  BY <1>4, <1>8, Zenon DEF PeerIs
<1>10. Written(S, P[n], ChunkBytes(c, outSize), Q, D, 2)
  BY <1>2, <1>6, <1>8, Zenon
<1>. QED
  BY <1>9, <1>10, PeerWrites

\* The end of a message, or of a part of it, is what the parser takes it for.
LEMMA PeerEnds ==
  ASSUME NEW p, PeerIs(p), NEW c, NEW m \in Messages, c.message = m, Completes(m),
         NEW q, q.open = open', q.size = outSize', q.sent = sent',
         DOMAIN open' = DOMAIN open \ {m.cid},
         \A x \in DOMAIN open' : open'[x] = open[x]
  PROVE  Ends(c, p, q)
<1>1. p.open = open /\ p.size = outSize /\ p.sent = sent
  BY DEF PeerIs
<1>2. /\ sent' = IF m.clock > MaxClock THEN sent ELSE Append(sent, Content(m))
      /\ outSize' = IF m.type = SET_PACKET_SIZE THEN ReadUInt32BE(m.payload) ELSE outSize
  BY Zenon DEF Completes
<1>3. DOMAIN q.open = DOMAIN p.open \ {m.cid} /\ \A x \in DOMAIN q.open : q.open[x] = p.open[x]
  BY <1>1, Zenon
<1>4. q.sent = IF m.clock > MaxClock THEN p.sent ELSE Append(p.sent, Content(m))
  BY <1>1, <1>2, Zenon
<1>5. q.size = IF m.type = SET_PACKET_SIZE THEN ReadUInt32BE(m.payload) ELSE p.size
  BY <1>1, <1>2, Zenon
<1>. QED
  BY <1>3, <1>4, <1>5, Zenon DEF Ends

LEMMA BeginStep ==
  ASSUME NEW S, NEW P, NEW C, NEW n, Explains(S, P, C, n), Values, BeginMessage
  PROVE  ParserInv'
<1>1. PICK m \in Messages, fmt \in 0..3 :
        /\ Begin(m) /\ MayUse(fmt, m)
        /\ LET timestamp == TimestampField(m, fmt)
           IN  /\ Write(Chunk(m, m.cid, fmt, timestamp, 0, outSize))
               /\ last' = Put(last, m.cid, [message |-> m, timestamp |-> timestamp])
               /\ IF Len(m.payload) <= outSize
                    THEN Completes(m) /\ UNCHANGED open
                    ELSE /\ open' = Put(open, m.cid, [message |-> m, from |-> outSize])
                         /\ UNCHANGED <<sent, outSize>>
        /\ UNCHANGED <<data, handshakeVars, parserState, headerVars, inPackets, inChunkSize,
                       received, running>>
  BY DEF BeginMessage
<1>2. PICK t : t = TimestampField(m, fmt)
  OBVIOUS
<1>3. PICK cid : cid = m.cid
  OBVIOUS
<1>4. /\ wire' = wire \o Chunk(m, cid, fmt, t, 0, outSize)
      /\ last' = Put(last, cid, [message |-> m, timestamp |-> t])
      /\ Len(m.payload) <= outSize => Completes(m) /\ open' = open
      /\ ~(Len(m.payload) <= outSize) =>
           /\ open' = Put(open, cid, [message |-> m, from |-> outSize])
           /\ sent' = sent /\ outSize' = outSize
  BY <1>1, <1>2, <1>3 DEF Write
<1>5. ParserStays
  BY <1>1 DEF ParserStays, handshakeVars, headerVars
<1>6. /\ cid \notin DOMAIN open /\ begun < MaxMessages /\ begun' = begun + 1
      /\ m.type = SET_PACKET_SIZE => DOMAIN open = {}
      /\ \A x \in DOMAIN open : open[x].message.type # SET_PACKET_SIZE
  BY <1>1, <1>3, Zenon DEF Begin
<1>7. begun' \in 0..MaxMessages
  BY <1>6, SizesAssumption DEF Values
<1>8. /\ m.cid \in ChannelIds /\ m.clock \in Nat /\ Len(m.payload) \in Nat /\ 0 \in 0..Len(m.payload)
  BY MessageProperties
<1>9. /\ fmt = 0 => t = m.clock /\ m.clock <= MaxClock
      /\ fmt # 0 => /\ cid \in DOMAIN last /\ t = m.clock - last[cid].message.clock
                    /\ t \in 0..MaxClock
                    /\ m.stream_id = last[cid].message.stream_id
                    /\ fmt >= 2 => /\ m.type = last[cid].message.type
                                   /\ Len(m.payload) = Len(last[cid].message.payload)
                    /\ fmt = 3 => t = last[cid].timestamp
  BY <1>1, <1>2, <1>3 DEF MayUse, TimestampField
<1>10. t \in 0..MaxClock
  BY <1>8, <1>9, TimestampProperties, SMTT(30)
<1>11. /\ PeerIs(P[n]) /\ outSize \in Nat \ {0} /\ PlaceOK(P[n])
  BY PeerPlace
<1>12. PICK c : /\ IsChunk(c, m, fmt, t, 0) /\ ChunkOK(c, outSize)
                /\ ChunkBytes(c, outSize) = Chunk(m, m.cid, fmt, t, 0, outSize)
  BY <1>8, <1>10, <1>11, ChunkExists
<1>13. c.message = m /\ c.fmt = fmt /\ c.timestamp = t /\ c.from = 0
  BY <1>12, Zenon DEF IsChunk
<1>14. wire' = wire \o ChunkBytes(c, outSize)
  BY <1>3, <1>4, <1>12, Zenon
<1>15. PICK p : p = P[n] /\ p.open = open /\ p.last = last /\ p.size = outSize /\ p.sent = sent
  BY <1>11, Zenon DEF PeerIs
<1>16. ASSUME NEW q, PeerBehind(c, P[n], q)
       PROVE  Moves(c, P[n], q)
  <2>0. /\ q.at = p.at + c.el + c.part /\ q.open = open' /\ q.last = last'
        /\ q.size = outSize' /\ q.sent = sent'
    BY <1>16, <1>15, Zenon DEF PeerBehind
  <2>1. /\ DOMAIN last' = DOMAIN last \cup {cid}
        /\ \A x \in DOMAIN last \ {cid} : last'[x] = last[x]
        /\ last'[cid].message = m /\ last'[cid].timestamp = t
    BY <1>4 DEF Put
  <2>2. Starts(c, p, q)
    <3>1. c.fmt # 0 => cid \in DOMAIN p.last /\ Inherits(c, p.last[cid])
      BY <1>9, <1>13, <1>15, Zenon DEF Inherits
    <3>2. c.fmt = 0 => c.timestamp = c.message.clock
      BY <1>9, <1>13, Zenon
    <3>3. /\ c.from = 0 /\ cid \notin DOMAIN p.open /\ c.message.cid = cid
          /\ c.message.type = SET_PACKET_SIZE => DOMAIN p.open = {}
          /\ \A x \in DOMAIN p.open : p.open[x].message.type # SET_PACKET_SIZE
      BY <1>3, <1>6, <1>13, <1>15, Zenon
    <3>4. /\ DOMAIN q.last = DOMAIN p.last \cup {cid}
          /\ \A x \in DOMAIN p.last \ {cid} : q.last[x] = p.last[x]
          /\ q.last[cid].message = c.message /\ q.last[cid].timestamp = c.timestamp
      BY <1>13, <1>15, <2>0, <2>1, Zenon
    <3>. QED
      BY <3>1, <3>2, <3>3, <3>4, Zenon DEF Starts
  <2>3. c.from + p.size = outSize
    BY <1>11, <1>13, <1>15
  <2>4. CASE Len(m.payload) <= outSize
    <3>1. DOMAIN open' = DOMAIN open \ {m.cid} /\ \A x \in DOMAIN open' : open'[x] = open[x]
      BY <1>3, <1>4, <1>6, <2>4
    <3>2. PeerIs(p) /\ c.message = m /\ Completes(m)
      BY <1>4, <1>11, <1>13, <1>15, <2>4, Zenon
    <3>3. Ends(c, p, q)
      BY <2>0, <3>1, <3>2, PeerEnds
    <3>. QED
      BY <1>13, <1>15, <2>0, <2>2, <2>3, <2>4, <3>3, Zenon DEF Moves
  <2>5. CASE ~(Len(m.payload) <= outSize)
    <3>1. open' = Put(open, cid, [message |-> m, from |-> outSize])
          /\ sent' = sent /\ outSize' = outSize
      BY <1>4, <2>5, Zenon
    <3>2. /\ DOMAIN open' = DOMAIN open \cup {cid}
          /\ \A x \in DOMAIN open \ {cid} : open'[x] = open[x]
          /\ open'[cid] = [message |-> m, from |-> outSize]
      BY <3>1 DEF Put
    <3>3. q.sent = p.sent /\ q.size = p.size
      BY <1>15, <2>0, <3>1, Zenon
    <3>4. /\ DOMAIN q.open = DOMAIN p.open \cup {cid}
          /\ \A x \in DOMAIN p.open \ {cid} : q.open[x] = p.open[x]
      BY <1>15, <2>0, <3>2, Zenon
    <3>5. q.open[cid] = [message |-> c.message, from |-> c.from + p.size]
      BY <1>13, <2>0, <2>3, <3>2, Zenon
    <3>6. Leaves(c, p, q)
      BY <1>3, <1>13, <3>3, <3>4, <3>5, Zenon DEF Leaves
    <3>. QED
      BY <1>13, <1>15, <2>0, <2>2, <2>3, <2>5, <3>6, Zenon DEF Moves
  <2>. QED
    BY <2>4, <2>5
<1>17. MovesPeer(c, P[n])
  BY <1>16, Zenon DEF MovesPeer
<1>18. ChunkOK(c, outSize)
  BY <1>12
<1>. QED
  BY <1>5, <1>7, <1>14, <1>17, <1>18, PeerMoves

LEMMA ContinueStep ==
  ASSUME NEW S, NEW P, NEW C, NEW n, Explains(S, P, C, n), Values, ContinueMessage
  PROVE  ParserInv'
<1>1. PICK cid \in DOMAIN open :
        /\ Write(Chunk(open[cid].message, cid, 3, last[cid].timestamp, open[cid].from, outSize))
        /\ IF Len(open[cid].message.payload) <= open[cid].from + outSize
             THEN Completes(open[cid].message) /\ open' = Without(open, cid)
             ELSE /\ open' = [open EXCEPT ![cid].from = open[cid].from + outSize]
                  /\ UNCHANGED <<sent, outSize>>
        /\ UNCHANGED <<last, begun, data, handshakeVars, parserState, headerVars,
                       inPackets, inChunkSize, received, running>>
  BY DEF ContinueMessage
<1>2. PICK m, from, t : m = open[cid].message /\ from = open[cid].from /\ t = last[cid].timestamp
  OBVIOUS
<1>3. /\ PeerIs(P[n]) /\ outSize \in Nat \ {0} /\ PlaceOK(P[n])
  BY PeerPlace
<1>4. PICK p : p = P[n] /\ p.open = open /\ p.last = last /\ p.size = outSize /\ p.sent = sent
               /\ PlaceOK(p)
  BY <1>3, Zenon DEF PeerIs
<1>5. /\ cid \in DOMAIN last /\ open[cid] \in [message : Messages, from : Nat \ {0}]
      /\ open[cid].message = last[cid].message /\ last[cid].message.cid = cid
      /\ from < Len(last[cid].message.payload) /\ t \in 0..MaxClock
  BY <1>2, <1>4, Zenon DEF PlaceOK
<1>6. m \in Messages /\ from \in Nat /\ m.cid = cid /\ from < Len(m.payload)
      /\ open[cid] = [message |-> m, from |-> from]
  BY <1>2, <1>5
<1>7. /\ wire' = wire \o Chunk(m, m.cid, 3, t, from, outSize)
      /\ Len(m.payload) <= from + outSize => Completes(m) /\ open' = Without(open, cid)
      /\ ~(Len(m.payload) <= from + outSize) =>
           /\ open' = [open EXCEPT ![cid].from = from + outSize]
           /\ sent' = sent /\ outSize' = outSize
      /\ last' = last /\ begun' = begun
  BY <1>1, <1>2, <1>6 DEF Write
<1>8. ParserStays
  BY <1>1 DEF ParserStays, handshakeVars, headerVars
<1>9. begun' \in 0..MaxMessages
  BY <1>7, Zenon DEF Values
<1>10. from \in 0..Len(m.payload)
  BY <1>6, MessageProperties
<1>11. PICK c : /\ IsChunk(c, m, 3, t, from) /\ ChunkOK(c, outSize)
                /\ ChunkBytes(c, outSize) = Chunk(m, m.cid, 3, t, from, outSize)
  <2>1. 3 \in 0..3
    OBVIOUS
  <2>. QED
    BY <1>3, <1>5, <1>6, <1>10, <2>1, ChunkExists
<1>12. c.message = m /\ c.fmt = 3 /\ c.timestamp = t /\ c.from = from
  BY <1>11, Zenon DEF IsChunk
<1>13. wire' = wire \o ChunkBytes(c, outSize)
  BY <1>7, <1>11, Zenon
<1>14. ASSUME NEW q, PeerBehind(c, P[n], q)
       PROVE  Moves(c, P[n], q)
  <2>0. /\ q.at = p.at + c.el + c.part /\ q.open = open' /\ q.last = last'
        /\ q.size = outSize' /\ q.sent = sent'
    BY <1>14, <1>4, Zenon DEF PeerBehind
  <2>1. Continues(c, p, q)
    BY <1>2, <1>4, <1>6, <1>7, <1>12, <2>0, ZenonT(40) DEF Continues
  <2>2. c.from + p.size = from + outSize
    BY <1>4, <1>12, Zenon
  <2>3. CASE Len(m.payload) <= from + outSize
    <3>1. DOMAIN open' = DOMAIN open \ {m.cid} /\ \A x \in DOMAIN open' : open'[x] = open[x]
      BY <1>6, <1>7, <2>3 DEF Without
    <3>2. PeerIs(p) /\ c.message = m /\ Completes(m)
      BY <1>3, <1>4, <1>7, <1>12, <2>3, Zenon
    <3>3. Ends(c, p, q)
      BY <1>6, <2>0, <3>1, <3>2, PeerEnds
    <3>. QED
      BY <1>4, <1>12, <2>0, <2>1, <2>2, <2>3, <3>3, Zenon DEF Moves
  <2>4. CASE ~(Len(m.payload) <= from + outSize)
    <3>1. open' = [open EXCEPT ![cid].from = from + outSize]
          /\ sent' = sent /\ outSize' = outSize
      BY <1>7, <2>4, Zenon
    <3>2. /\ DOMAIN open' = DOMAIN open \cup {cid}
          /\ \A x \in DOMAIN open \ {cid} : open'[x] = open[x]
          /\ open'[cid] = [message |-> m, from |-> from + outSize]
      <4>1. PICK v, r, s : v = from + outSize /\ r = [message |-> m, from |-> v] /\ s = open[cid]
        OBVIOUS
      <4>2. s = [message |-> m, from |-> from]
        BY <1>6, <4>1, Zenon
      <4>3. [s EXCEPT !.from = v] = r
        BY <4>1, <4>2
      <4>4. open' = [open EXCEPT ![cid] = [s EXCEPT !.from = v]]
        BY <3>1, <4>1
      <4>5. open' = [open EXCEPT ![cid] = r]
        BY <4>3, <4>4, Zenon
      <4>. QED
        BY <4>1, <4>5
    <3>3. q.sent = p.sent /\ q.size = p.size
      BY <1>4, <2>0, <3>1, Zenon
    <3>4. /\ DOMAIN q.open = DOMAIN p.open \cup {cid}
          /\ \A x \in DOMAIN p.open \ {cid} : q.open[x] = p.open[x]
      BY <1>4, <2>0, <3>2, Zenon
    <3>5. q.open[cid] = [message |-> c.message, from |-> c.from + p.size]
      BY <1>12, <2>0, <2>2, <3>2, Zenon
    <3>6. Leaves(c, p, q)
      BY <1>6, <1>12, <3>3, <3>4, <3>5, Zenon DEF Leaves
    <3>. QED
      BY <1>4, <1>12, <2>0, <2>1, <2>2, <2>4, <3>6, Zenon DEF Moves
  <2>. QED
    BY <2>3, <2>4
<1>15. MovesPeer(c, P[n])
  BY <1>14, Zenon DEF MovesPeer
<1>16. ChunkOK(c, outSize)
  BY <1>11
<1>. QED
  BY <1>8, <1>9, <1>13, <1>15, <1>16, PeerMoves

-----------------------------------------------------------------------------
(* createChunks                                                                *)

\* A payload of that length makes N chunks.
Cut(length, size, N) ==
  /\ (N - 1) * size < length /\ length <= (N - 1) * size + size
  /\ (length + size - 1) \div size = N

LEMMA CutExists ==
  ASSUME NEW length \in Nat \ {0}, NEW size \in Nat \ {0}
  PROVE  \E N \in Nat \ {0} : Cut(length, size, N)
<1>1. PICK k \in Nat : k = length - 1
  OBVIOUS
<1>2. PICK q \in Nat, r \in 0..(size - 1) : k = size * q + r
  <2>1. k \div size \in Nat /\ k % size \in 0..(size - 1) /\ k = size * (k \div size) + (k % size)
    BY DivisionProperties
  <2>. QED
    BY <2>1, Zenon
<1>3. PICK N \in Nat \ {0} : N = q + 1
  OBVIOUS
<1>4. size * q = (N - 1) * size /\ (N - 1) * size \in Nat
  <2>1. N - 1 = q
    BY <1>3
  <2>2. \A a, b \in Nat : a * b = b * a /\ a * b \in Nat
    OBVIOUS
  <2>3. q * size = size * q /\ q * size \in Nat
    BY <2>2
  <2>. QED
    BY <2>1, <2>3, Zenon
<1>5. (N - 1) * size < length /\ length <= (N - 1) * size + size
  <2>1. PICK a \in Nat : a = (N - 1) * size
    BY <1>4
  <2>2. k = a + r
    BY <1>2, <1>4, <2>1, Zenon
  <2>3. a < length /\ length <= a + size
    BY <1>1, <2>2
  <2>. QED
    BY <2>1, <2>3, Zenon
<1>6. (length + size - 1) \div size = N
  <2>1. PICK n \in Nat : n = length + size - 1
    OBVIOUS
  <2>2. size * N = size * q + size
    BY <1>3
  <2>3. PICK a \in Nat, b \in Nat : a = size * q /\ b = size * N /\ b = a + size
    BY <1>4, <2>2
  <2>4. k = a + r
    BY <1>2, <2>3, Zenon
  <2>5. n = b + r
    BY <1>1, <2>1, <2>3, <2>4
  <2>6. n = size * N + r
    BY <2>3, <2>5, Zenon
  <2>7. N \in Nat
    OBVIOUS
  <2>8. n \div size = N
    BY <2>6, <2>7, QuotientUnique
  <2>. QED
    BY <2>1, <2>8, Zenon
<1>. QED
  BY <1>5, <1>6, Zenon DEF Cut

LEMMA ProductOrder ==
  ASSUME NEW a \in Nat, NEW b \in Nat, NEW s \in Nat, a <= b
  PROVE  a * s <= b * s /\ a * s \in Nat /\ (a + 1) * s = a * s + s
<1>1. PICK d \in Nat : b = a + d
  <2>1. b - a \in Nat /\ b = a + (b - a)
    OBVIOUS
  <2>. QED
    BY <2>1, Zenon
<1>2. (a + d) * s = a * s + d * s /\ a * s \in Nat /\ d * s \in Nat
  OBVIOUS
<1>3. (a + 1) * s = a * s + s
  OBVIOUS
<1>. QED
  BY <1>1, <1>2, <1>3

\* Where chunk j of them begins
LEMMA CutAt ==
  ASSUME NEW length \in Nat \ {0}, NEW size \in Nat \ {0}, NEW N \in Nat \ {0}, Cut(length, size, N),
         NEW j \in 1..N
  PROVE  /\ (j - 1) * size \in Nat /\ (j - 1) * size < length
         /\ j # N => (j - 1) * size + size < length /\ (j - 1) * size + size = ((j + 1) - 1) * size
         /\ j = N => ~((j - 1) * size + size < length)
<1>1. (N - 1) * size < length /\ length <= (N - 1) * size + size
  BY Zenon DEF Cut
<1>2. PICK a \in Nat, b \in Nat : a = j - 1 /\ b = N - 1 /\ a <= b
  OBVIOUS
<1>3. a * size <= b * size /\ a * size \in Nat /\ (a + 1) * size = a * size + size
  BY <1>2, ProductOrder
<1>4. b * size \in Nat /\ b * size < length /\ length <= b * size + size
  <2>1. b <= b /\ size \in Nat
    OBVIOUS
  <2>2. b * size \in Nat
    BY <2>1, ProductOrder
  <2>. QED
    BY <1>1, <1>2, <2>2, Zenon
<1>5. a * size < length
  <2>1. PICK x \in Nat, y \in Nat : x = a * size /\ y = b * size
    BY <1>3, <1>4
  <2>2. x <= y /\ y < length
    BY <1>3, <1>4, <2>1, Zenon
  <2>3. x < length
    BY <2>2
  <2>. QED
    BY <2>1, <2>3, Zenon
<1>6. (j + 1) - 1 = a + 1
  BY <1>2
<1>7. ASSUME j # N PROVE a * size + size < length /\ a * size + size = ((j + 1) - 1) * size
  <2>1. PICK d \in Nat : d = a + 1 /\ d <= b
    BY <1>2, <1>7
  <2>2. d * size <= b * size /\ d * size \in Nat
    BY <2>1, ProductOrder
  <2>3. PICK x \in Nat, y \in Nat : x = d * size /\ y = b * size
    BY <1>4, <2>2
  <2>4. x <= y /\ y < length
    BY <1>4, <2>2, <2>3, Zenon
  <2>5. x < length
    BY <2>4
  <2>. QED
    BY <1>3, <1>6, <2>1, <2>3, <2>5, Zenon
<1>8. ASSUME j = N PROVE ~(a * size + size < length)
  <2>1. a = b
    BY <1>2, <1>8
  <2>2. PICK y \in Nat : y = b * size
    BY <1>4
  <2>3. length <= y + size
    BY <1>4, <2>2, Zenon
  <2>4. ~(y + size < length)
    BY <2>3
  <2>. QED
    BY <2>1, <2>2, <2>4, Zenon
<1>. QED
  BY <1>2, <1>3, <1>5, <1>7, <1>8, Zenon

\* The offset of chunk j in what createChunks writes, and the length of its header
Far(j, extended, size) == IF j = 1 THEN 0 ELSE 11 + (j - 1) * (1 + extended + size)
HeaderOf(j, extended) == IF j = 1 THEN 12 + extended ELSE 1 + extended

LEMMA FarNext ==
  ASSUME NEW length \in Nat \ {0}, NEW size \in Nat \ {0}, NEW N \in Nat \ {0}, Cut(length, size, N),
         NEW extended \in Nat, NEW j \in 1..N
  PROVE  /\ Far(j, extended, size) \in Nat
         /\ j # N => Far(j, extended, size) + HeaderOf(j, extended) + size = Far(j + 1, extended, size)
         /\ j = N => Far(j, extended, size) + HeaderOf(j, extended) + (length - (j - 1) * size)
                       = BytesWritten(length, 12 + extended, extended, size)
<1>1. PICK d \in Nat : d = 1 + extended + size
  OBVIOUS
<1>2. PICK a \in Nat : a = j - 1
  OBVIOUS
<1>3. a * d \in Nat /\ (a + 1) * d = a * d + d
  <2>1. a <= a
    OBVIOUS
  <2>. QED
    BY <2>1, ProductOrder
<1>4. Far(j, extended, size) = (IF j = 1 THEN 0 ELSE 11 + a * d)
  BY <1>1, <1>2, Zenon DEF Far
<1>5. Far(j, extended, size) \in Nat
  BY <1>3, <1>4
<1>6. ASSUME j # N
      PROVE Far(j, extended, size) + HeaderOf(j, extended) + size = Far(j + 1, extended, size)
  <2>1. j + 1 # 1 /\ (j + 1) - 1 = a + 1
    BY <1>2
  <2>2. Far(j + 1, extended, size) = 11 + (a + 1) * d
    BY <1>1, <2>1, Zenon DEF Far
  <2>3. PICK x \in Nat : x = a * d /\ (a + 1) * d = x + d
    BY <1>3
  <2>4. CASE j = 1
    <3>1. a = 0
      BY <1>2, <2>4
    <3>2. x = 0
      BY <2>3, <3>1
    <3>3. 0 + (12 + extended) + size = 11 + (x + d)
      BY <1>1, <3>2
    <3>. QED
      BY <1>4, <2>2, <2>3, <2>4, <3>3, Zenon DEF HeaderOf
  <2>5. CASE j # 1
    <3>1. (11 + x) + (1 + extended) + size = 11 + (x + d)
      BY <1>1
    <3>. QED
      BY <1>4, <2>2, <2>3, <2>5, <3>1, Zenon DEF HeaderOf
  <2>. QED
    BY <2>4, <2>5
<1>7. ASSUME j = N
      PROVE  Far(j, extended, size) + HeaderOf(j, extended) + (length - (j - 1) * size)
               = BytesWritten(length, 12 + extended, extended, size)
  <2>1. (length + size - 1) \div size = N
    BY Zenon DEF Cut
  <2>2. N - 1 = a
    BY <1>2, <1>7
  <2>3. BytesWritten(length, 12 + extended, extended, size)
          = (12 + extended) + length + a * (1 + extended)
    BY <2>1, <2>2, Zenon DEF BytesWritten
  <2>4. PICK e \in Nat : e = 1 + extended
    OBVIOUS
  <2>5. a * d = a * e + a * size /\ a * e \in Nat /\ a * size \in Nat
    <3>1. d = e + size
      BY <1>1, <2>4
    <3>2. a * (e + size) = a * e + a * size /\ a * e \in Nat /\ a * size \in Nat
      OBVIOUS
    <3>. QED
      BY <3>1, <3>2, Zenon
  <2>6. PICK x \in Nat, y \in Nat, z \in Nat : x = a * d /\ y = a * e /\ z = a * size /\ x = y + z
    BY <1>3, <2>5
  <2>7. BytesWritten(length, 12 + extended, extended, size) = (12 + extended) + length + y
    BY <2>3, <2>4, <2>6, Zenon
  <2>8. length - (j - 1) * size = length - z
    BY <1>2, <2>6, Zenon
  <2>9. CASE j = 1
    <3>1. a = 0
      BY <1>2, <2>9
    <3>2. y = 0 /\ z = 0
      BY <2>6, <3>1
    <3>3. 0 + (12 + extended) + (length - z) = (12 + extended) + length + y
      BY <3>2
    <3>. QED
      BY <1>4, <2>7, <2>8, <2>9, <3>3, Zenon DEF HeaderOf
  <2>10. CASE j # 1
    <3>1. (11 + x) + (1 + extended) + (length - z) = (12 + extended) + length + y
      BY <2>6
    <3>. QED
      BY <1>4, <2>6, <2>7, <2>8, <2>10, <3>1, Zenon DEF HeaderOf
  <2>. QED
    BY <2>9, <2>10
<1>. QED
  BY <1>5, <1>6, <1>7

\* A message that createChunks takes and the peer can send
Creatable(m) ==
  /\ m \in Messages /\ m.cid = ChannelOf(m.type) /\ m.clock \in 0..MaxClock
  /\ Len(m.payload) \in Nat \ {0}

LEMMA DirectChannels ==
  ASSUME NEW m, Creatable(m)
  PROVE  /\ m.cid \in ChannelIds /\ m.type # SET_PACKET_SIZE
         /\ Len(BasicHeader(0, m.cid)) = 1 /\ Len(BasicHeader(3, m.cid)) = 1
<1>1. m \in Messages /\ m.cid = ChannelOf(m.type)
  BY Zenon DEF Creatable
<1>2. m.cid \in ChannelIds
  BY <1>1, MessageProperties
<1>3. m.cid # 0
  BY <1>2, DirectProperties DEF ChannelIds
<1>4. m.cid \in {3, 4, 5, 6}
  BY <1>1, <1>3 DEF ChannelOf, DATA_EXTENDED, COMMAND_EXTENDED
<1>5. m.type # SET_PACKET_SIZE
  BY <1>1, <1>3 DEF ChannelOf, SET_PACKET_SIZE, AUDIO, VIDEO, DATA, COMMAND,
                     DATA_EXTENDED, COMMAND_EXTENDED
<1>6. B \in Nat /\ B >= 32 /\ Direct \in Nat /\ Direct >= 8
  BY BaseAssumption, DirectProperties DEF Direct
<1>7. ~(m.cid >= Direct) /\ ~(m.cid >= Direct + (B - 1))
  BY <1>4, <1>6
<1>8. ASSUME NEW fmt PROVE Len(BasicHeader(fmt, m.cid)) = 1
  BY <1>7 DEF BasicHeader
<1>. QED
  BY <1>2, <1>5, <1>8

FormatOf(j) == IF j = 1 THEN 0 ELSE 3

\* Chunk j of the message
Piece(m, j, size) == Chunk(m, m.cid, FormatOf(j), m.clock, (j - 1) * size, size)

\* Its properties, with the length of its timestamp extension
IsPiece(c, m, j, size, extended) ==
  /\ IsChunk(c, m, FormatOf(j), m.clock, (j - 1) * size) /\ ChunkOK(c, size)
  /\ ChunkBytes(c, size) = Piece(m, j, size)
  /\ c.el = HeaderOf(j, extended) /\ c.part = PartOf(m, (j - 1) * size, size)
  /\ Piece(m, j, size) \in Seq(Byte) /\ Len(Piece(m, j, size)) = HeaderOf(j, extended) + c.part

LEMMA PieceExists ==
  ASSUME NEW m, Creatable(m), NEW size \in Nat \ {0}, NEW j \in Nat \ {0},
         (j - 1) * size \in 0..Len(m.payload),
         NEW extended, extended = Len(ExtendedTimestamp(m.clock))
  PROVE  \E c : IsPiece(c, m, j, size, extended)
<1>1. m \in Messages /\ m.clock \in 0..MaxClock
  BY Zenon DEF Creatable
<1>2. PICK fmt \in 0..3, from \in 0..Len(m.payload) : fmt = FormatOf(j) /\ from = (j - 1) * size
  BY DEF FormatOf
<1>3. PICK c : /\ IsChunk(c, m, fmt, m.clock, from) /\ ChunkOK(c, size)
               /\ ChunkBytes(c, size) = Chunk(m, m.cid, fmt, m.clock, from, size)
  BY <1>1, ChunkExists
<1>4. ChunkBytes(c, size) = Piece(m, j, size)
  BY <1>2, <1>3, Zenon DEF Piece
<1>5. c.message = m /\ c.fmt = fmt /\ c.timestamp = m.clock /\ c.from = from
  BY <1>3, Zenon DEF IsChunk
<1>6. c.part = PartOf(m, from, size)
  BY <1>3, <1>5, Zenon DEF ChunkOK
<1>7. /\ c.bl = Len(BasicHeader(fmt, m.cid)) /\ c.hl = c.bl + rtmpHeaderSize[fmt]
      /\ c.el = c.hl + extended
      /\ ChunkBytes(c, size) \in Seq(Byte) /\ Len(ChunkBytes(c, size)) = c.el + c.part
  BY <1>3, <1>5, Zenon DEF ChunkOK, LaidOut
<1>8. extended \in Nat
  <2>1. c.hl \in Nat /\ c.el \in c.hl..(c.hl + 4)
    BY <1>3, ChunkLengths
  <2>2. ExtendedTimestamp(m.clock) \in Seq(Byte)
    BY <1>1, ExtendedTimestampProperties, TimestampProperties
  <2>. QED
    BY <2>2
<1>9. c.el = HeaderOf(j, extended)
  <2>1. rtmpHeaderSize[0] = 11 /\ rtmpHeaderSize[3] = 0
    BY DEF rtmpHeaderSize
  <2>2. Len(BasicHeader(0, m.cid)) = 1 /\ Len(BasicHeader(3, m.cid)) = 1
    BY DirectChannels
  <2>3. CASE j = 1
    <3>1. fmt = 0
      BY <1>2, <2>3, Zenon DEF FormatOf
    <3>2. c.el = (1 + 11) + extended
      BY <1>7, <2>1, <2>2, <3>1, Zenon
    <3>3. (1 + 11) + extended = 12 + extended
      BY <1>8
    <3>. QED
      BY <2>3, <3>2, <3>3, Zenon DEF HeaderOf
  <2>4. CASE j # 1
    <3>1. fmt = 3
      BY <1>2, <2>4, Zenon DEF FormatOf
    <3>2. c.el = (1 + 0) + extended
      BY <1>7, <2>1, <2>2, <3>1, Zenon
    <3>3. (1 + 0) + extended = 1 + extended
      BY <1>8
    <3>. QED
      BY <2>4, <3>2, <3>3, Zenon DEF HeaderOf
  <2>. QED
    BY <2>3, <2>4
<1>10. Piece(m, j, size) \in Seq(Byte) /\ Len(Piece(m, j, size)) = HeaderOf(j, extended) + c.part
  BY <1>4, <1>7, <1>9, Zenon
<1>. QED
  BY <1>2, <1>3, <1>4, <1>6, <1>9, <1>10, Zenon DEF IsPiece

\* Byte x of the chunk that starts with byte k * size of the payload, as createChunks
\* writes it
ByteOf(m, k, x, size) ==
  IF k * size < Len(m.payload) /\ x <= Len(Chunk(m, m.cid, 3, m.clock, k * size, size))
    THEN Chunk(m, m.cid, 3, m.clock, k * size, size)[x] ELSE 0

\* bytes is length long and begins with first; at regular distances follow the others.
Created(bytes, m, size, first, distance, length) ==
  /\ DOMAIN bytes = 1..length /\ bytes = [i \in 1..length |-> bytes[i]]
  /\ \A i \in 1..length : i <= Len(first) => bytes[i] = first[i]
  /\ \A i \in 1..length : ~(i <= Len(first)) =>
       bytes[i] = ByteOf(m, ((i - Len(first) - 1) \div distance) + 1,
                            ((i - Len(first) - 1) % distance) + 1, size)

LEMMA createChunksCreates ==
  ASSUME NEW m, Creatable(m), NEW size \in Nat \ {0},
         NEW extended \in Nat, extended = Len(ExtendedTimestamp(m.clock))
  PROVE  Created(createChunks(m, size), m, size, Chunk(m, m.cid, 0, m.clock, 0, size),
                 1 + extended + size, BufferLength(Len(m.payload), 12 + extended, extended, size))
<1>. DEFINE cid == ChannelOf(m.type)
            ext == Len(ExtendedTimestamp(m.clock))
            header == Len(BasicHeader(0, cid)) + rtmpHeaderSize[0] + ext
            first == Chunk(m, cid, 0, m.clock, 0, size)
            distance == Len(BasicHeader(3, cid)) + ext + size
            length == BufferLength(Len(m.payload), header, ext, size)
            bytes == createChunks(m, size)
<1>1. m.cid = cid
  BY Zenon DEF Creatable
<1>2. bytes = [i \in 1..length |->
         IF i <= Len(first) THEN first[i]
         ELSE ByteOf(m, ((i - Len(first) - 1) \div distance) + 1,
                        ((i - Len(first) - 1) % distance) + 1, size)]
  BY <1>1, Zenon DEF createChunks, ByteOf
<1>3. header = 12 + extended /\ distance = 1 + extended + size
  <2>1. Len(BasicHeader(0, cid)) = 1 /\ Len(BasicHeader(3, cid)) = 1
    BY <1>1, DirectChannels, Zenon
  <2>2. rtmpHeaderSize[0] = 11
    BY DEF rtmpHeaderSize
  <2>3. header = (1 + 11) + extended /\ distance = 1 + extended + size
    BY <2>1, <2>2, Zenon
  <2>4. (1 + 11) + extended = 12 + extended
    OBVIOUS
  <2>. QED
    BY <2>3, <2>4, Zenon
<1>4. ext = extended
  OBVIOUS
<1>. HIDE DEF cid, ext, header, first, distance, length, bytes
<1>5. Created(bytes, m, size, first, distance, length)
  <2>1. DOMAIN bytes = 1..length /\ bytes = [i \in 1..length |-> bytes[i]]
    BY <1>2
  <2>2. ASSUME NEW i \in 1..length, i <= Len(first) PROVE bytes[i] = first[i]
    BY <1>2, <2>2
  <2>3. ASSUME NEW i \in 1..length, ~(i <= Len(first))
        PROVE  bytes[i] = ByteOf(m, ((i - Len(first) - 1) \div distance) + 1,
                                    ((i - Len(first) - 1) % distance) + 1, size)
    BY <1>2, <2>3
  <2>. QED
    BY <2>1, <2>2, <2>3, Zenon DEF Created
<1>. QED
  BY <1>1, <1>3, <1>4, <1>5, Zenon DEF bytes, first, length

\* All of the chunk is within what createChunks writes.
LEMMA FarEnds ==
  ASSUME NEW length \in Nat \ {0}, NEW size \in Nat \ {0}, NEW N \in Nat \ {0}, Cut(length, size, N),
         NEW extended \in Nat, NEW j \in 1..N,
         NEW part \in Nat, part = IF (j - 1) * size + size < length THEN size ELSE length - (j - 1) * size
  PROVE  Far(j, extended, size) + HeaderOf(j, extended) + part
           <= BytesWritten(length, 12 + extended, extended, size)
<1>1. PICK f \in Nat, h \in Nat : f = Far(j, extended, size) /\ h = HeaderOf(j, extended)
  <2>1. Far(j, extended, size) \in Nat
    BY FarNext, Zenon
  <2>2. HeaderOf(j, extended) \in Nat
    BY DEF HeaderOf
  <2>. QED
    BY <2>1, <2>2, Zenon
<1>2. CASE j = N
  <2>1. part = length - (j - 1) * size
    BY <1>2, CutAt, Zenon
  <2>2. Far(j, extended, size) + HeaderOf(j, extended) + (length - (j - 1) * size)
          = BytesWritten(length, 12 + extended, extended, size)
    BY <1>2, FarNext
  <2>3. f + h + part = BytesWritten(length, 12 + extended, extended, size)
    BY <1>1, <2>1, <2>2, Zenon
  <2>4. f + h + part <= f + h + part
    OBVIOUS
  <2>. QED
    BY <1>1, <2>3, <2>4, Zenon
<1>3. CASE j # N
  <2>1. part = size
    BY <1>3, CutAt, Zenon
  <2>2. f + h + part = Far(j + 1, extended, size)
    <3>1. Far(j, extended, size) + HeaderOf(j, extended) + size = Far(j + 1, extended, size)
      BY <1>3, FarNext
    <3>. QED
      BY <1>1, <2>1, <3>1, Zenon
  <2>3. PICK d \in Nat, a \in Nat, b \in Nat :
          d = 1 + extended + size /\ a = (j + 1) - 1 /\ b = N - 1 /\ a <= b
    BY <1>3
  <2>4. a * d <= b * d /\ a * d \in Nat
    BY <2>3, ProductOrder
  <2>5. b * d \in Nat
    OBVIOUS
  <2>6. j + 1 # 1 /\ N # 1
    BY <1>3
  <2>7. Far(j + 1, extended, size) = 11 + a * d /\ Far(N, extended, size) = 11 + b * d
    BY <2>3, <2>6, Zenon DEF Far
  <2>8. PICK x \in Nat, y \in Nat : x = a * d /\ y = b * d /\ x <= y
    BY <2>4, <2>5
  <2>9. /\ Far(N, extended, size) + HeaderOf(N, extended) + (length - (N - 1) * size)
              = BytesWritten(length, 12 + extended, extended, size)
        /\ (N - 1) * size \in Nat /\ (N - 1) * size < length
    <3>1. N \in 1..N
      OBVIOUS
    <3>2. (N - 1) * size \in Nat /\ (N - 1) * size < length
      BY <3>1, CutAt, Zenon
    <3>3. Far(N, extended, size) + HeaderOf(N, extended) + (length - (N - 1) * size)
            = BytesWritten(length, 12 + extended, extended, size)
      BY <3>1, FarNext
    <3>. QED
      BY <3>2, <3>3
  <2>10. PICK k \in Nat : k = length - (N - 1) * size
    BY <2>9
  <2>11. HeaderOf(N, extended) = 1 + extended
    BY <2>6, Zenon DEF HeaderOf
  <2>12. (11 + y) + (1 + extended) + k = BytesWritten(length, 12 + extended, extended, size)
    BY <2>7, <2>8, <2>9, <2>10, <2>11, Zenon
  <2>13. 11 + x <= (11 + y) + (1 + extended) + k
    BY <2>8
  <2>. QED
    BY <1>1, <2>2, <2>7, <2>8, <2>12, <2>13, Zenon
<1>. QED
  BY <1>2, <1>3

LEMMA PieceIs ==
  ASSUME NEW m, NEW size \in Nat
  PROVE  /\ Piece(m, 1, size) = Chunk(m, m.cid, 0, m.clock, 0, size)
         /\ \A k \in Nat \ {0} : Piece(m, k + 1, size) = Chunk(m, m.cid, 3, m.clock, k * size, size)
<1>1. (1 - 1) * size = 0
  OBVIOUS
<1>2. FormatOf(1) = 0
  BY Zenon DEF FormatOf
<1>3. Piece(m, 1, size) = Chunk(m, m.cid, 0, m.clock, 0, size)
  BY <1>1, <1>2, Zenon DEF Piece
<1>4. ASSUME NEW k \in Nat \ {0}
      PROVE  Piece(m, k + 1, size) = Chunk(m, m.cid, 3, m.clock, k * size, size)
  <2>1. (k + 1) - 1 = k /\ k + 1 # 1
    OBVIOUS
  <2>2. FormatOf(k + 1) = 3
    BY <2>1, Zenon DEF FormatOf
  <2>. QED
    BY <2>1, <2>2, Zenon DEF Piece
<1>. QED
  BY <1>3, <1>4

LEMMA ByteOfIsByte ==
  ASSUME NEW m, Creatable(m), NEW size \in Nat \ {0}, NEW k \in Nat \ {0}, NEW x \in Nat \ {0}
  PROVE  ByteOf(m, k, x, size) \in Byte
<1>1. 0 \in Byte
  BY BaseProperties DEF Byte
<1>2. PICK b : b = Chunk(m, m.cid, 3, m.clock, k * size, size)
  OBVIOUS
<1>3. ASSUME k * size < Len(m.payload), x <= Len(b) PROVE b[x] \in Byte
  <2>1. PICK extended : extended = Len(ExtendedTimestamp(m.clock))
    OBVIOUS
  <2>2. PICK j \in Nat \ {0} : j = k + 1 /\ j - 1 = k
    OBVIOUS
  <2>3. k * size \in Nat
    OBVIOUS
  <2>4. Len(m.payload) \in Nat
    BY Zenon DEF Creatable
  <2>5. k * size \in 0..Len(m.payload)
    <3>1. PICK a \in Nat, l \in Nat : a = k * size /\ l = Len(m.payload)
      BY <2>3, <2>4
    <3>2. a < l
      BY <1>3, <3>1, Zenon
    <3>3. a \in 0..l
      BY <3>2
    <3>. QED
      BY <3>1, <3>3, Zenon
  <2>6. (j - 1) * size \in 0..Len(m.payload)
    BY <2>2, <2>5, Zenon
  <2>7. PICK c : IsPiece(c, m, j, size, extended)
    BY <2>1, <2>6, PieceExists
  <2>8. Piece(m, j, size) \in Seq(Byte)
    BY <2>7, Zenon DEF IsPiece
  <2>9. Piece(m, j, size) = b
    <3>1. size \in Nat
      OBVIOUS
    <3>. QED
      BY <1>2, <2>2, <3>1, PieceIs, Zenon
  <2>10. b \in Seq(Byte) /\ x \in 1..Len(b)
    BY <1>3, <2>8, <2>9
  <2>. QED
    BY <2>10
<1>. QED
  BY <1>1, <1>2, <1>3, Zenon DEF ByteOf

\* bytes holds the N chunks of m one after the other.
PiecesIn(bytes, m, size, N, extended) ==
  /\ bytes \in Seq(Byte) /\ Len(bytes) = BytesWritten(Len(m.payload), 12 + extended, extended, size)
  /\ \A j \in 1..N : HoldsAt(bytes, Far(j, extended, size), Piece(m, j, size))

BehindFirst(h, j, d, i) == h = (11 + (j - 1) * d) + i

\* Byte i of chunk j, from the second one on
LEMMA PieceByte ==
  ASSUME NEW d \in Nat \ {0}, NEW j \in Nat, j # 0, j # 1, NEW i \in 1..d,
         NEW h \in Nat, BehindFirst(h, j, d, i)
  PROVE  /\ ~(h <= 11 + d)
         /\ ((h - (11 + d) - 1) \div d) + 1 = j - 1 /\ ((h - (11 + d) - 1) % d) + 1 = i
<1>1. PICK q \in Nat, r \in 0..(d - 1) : q = j - 2 /\ r = i - 1
  OBVIOUS
<1>2. (j - 1) * d = d * q + d /\ d * q \in Nat
  <2>1. j - 1 = q + 1
    BY <1>1
  <2>2. (q + 1) * d = d * q + d /\ d * q \in Nat
    OBVIOUS
  <2>. QED
    BY <2>1, <2>2, Zenon
<1>3. PICK x \in Nat : x = d * q /\ (j - 1) * d = x + d
  BY <1>2
<1>4. h = (11 + (x + d)) + i
  BY <1>3, Zenon DEF BehindFirst
<1>5. ~(h <= 11 + d) /\ h - (11 + d) - 1 = x + r /\ x + r \in Nat
  BY <1>1, <1>4
<1>6. PICK n \in Nat : n = h - (11 + d) - 1 /\ n = d * q + r
  BY <1>3, <1>5, Zenon
<1>7. n \div d = q /\ n % d = r
  <2>1. n = d * q + r
    BY <1>6
  <2>. QED
    BY <2>1, QuotientUnique, RemainderUnique
<1>8. q + 1 = j - 1 /\ r + 1 = i
  BY <1>1
<1>. QED
  BY <1>5, <1>6, <1>7, <1>8, Zenon

\* createChunks writes the whole message, chunk by chunk.
LEMMA PiecesWritten ==
  ASSUME NEW m, Creatable(m), NEW size \in Nat \ {0}, NEW N \in Nat \ {0},
         Cut(Len(m.payload), size, N),
         NEW extended \in Nat, extended = Len(ExtendedTimestamp(m.clock))
  PROVE  PiecesIn(createChunks(m, size), m, size, N, extended)
<1>1. PICK length \in Nat \ {0} : length = Len(m.payload) /\ Cut(length, size, N)
  BY Zenon DEF Creatable
<1>2. PICK d \in Nat \ {0} : d = 1 + extended + size
  OBVIOUS
<1>3. PICK total : total = BytesWritten(length, 12 + extended, extended, size)
  OBVIOUS
<1>4. PICK bytes, first : /\ bytes = createChunks(m, size) /\ first = Piece(m, 1, size)
                          /\ Created(bytes, m, size, first, d, total)
  <2>1. BufferLength(length, 12 + extended, extended, size)
          = BytesWritten(length, 12 + extended, extended, size)
    <3>1. 12 + extended \in Nat
      OBVIOUS
    <3>. QED
      BY <3>1, ChunksFillTheirBuffer, Zenon
  <2>2. Created(createChunks(m, size), m, size, Chunk(m, m.cid, 0, m.clock, 0, size),
                1 + extended + size, BufferLength(Len(m.payload), 12 + extended, extended, size))
    BY createChunksCreates
  <2>3. Piece(m, 1, size) = Chunk(m, m.cid, 0, m.clock, 0, size)
    BY PieceIs
  <2>. QED
    BY <1>1, <1>2, <1>3, <2>1, <2>2, <2>3, Zenon
<1>5. ASSUME NEW j \in 1..N
      PROVE  /\ Piece(m, j, size) \in Seq(Byte) /\ Far(j, extended, size) \in Nat
             /\ \E part \in Nat :
                  /\ Len(Piece(m, j, size)) = HeaderOf(j, extended) + part
                  /\ part = IF (j - 1) * size + size < length THEN size ELSE length - (j - 1) * size
                  /\ Far(j, extended, size) + Len(Piece(m, j, size)) <= total
  <2>1. (j - 1) * size \in Nat /\ (j - 1) * size < length
    BY <1>1, CutAt, Zenon
  <2>2. (j - 1) * size \in 0..Len(m.payload)
    <3>1. (j - 1) * size \in 0..length
      <4>1. PICK a \in Nat : a = (j - 1) * size
        BY <2>1
      <4>2. a < length
        BY <2>1, <4>1, Zenon
      <4>3. a \in 0..length
        BY <4>2
      <4>. QED
        BY <4>1, <4>3, Zenon
    <3>. QED
      BY <1>1, <3>1, Zenon
  <2>3. j \in Nat \ {0}
    OBVIOUS
  <2>4. PICK c : IsPiece(c, m, j, size, extended)
    BY <2>2, <2>3, PieceExists
  <2>5. /\ Piece(m, j, size) \in Seq(Byte)
        /\ Len(Piece(m, j, size)) = HeaderOf(j, extended) + c.part
        /\ c.part = PartOf(m, (j - 1) * size, size) /\ ChunkOK(c, size)
    BY <2>4, Zenon DEF IsPiece
  <2>6. PICK part \in Nat :
          /\ part = c.part
          /\ part = IF (j - 1) * size + size < length THEN size ELSE length - (j - 1) * size
    BY <1>1, <2>5, Zenon DEF PartOf, ChunkOK
  <2>7. PICK f \in Nat, h \in Nat : f = Far(j, extended, size) /\ h = HeaderOf(j, extended)
    <3>1. Far(j, extended, size) \in Nat
      BY <1>1, FarNext, Zenon
    <3>2. HeaderOf(j, extended) \in Nat
      BY DEF HeaderOf
    <3>. QED
      BY <3>1, <3>2, Zenon
  <2>8. Far(j, extended, size) + HeaderOf(j, extended) + part <= total
    BY <1>1, <1>3, <2>6, FarEnds, Zenon
  <2>9. (f + h) + part = f + (h + part)
    OBVIOUS
  <2>10. Far(j, extended, size) + Len(Piece(m, j, size)) <= total
    BY <2>5, <2>6, <2>7, <2>8, <2>9, Zenon
  <2>. QED
    BY <2>5, <2>6, <2>7, <2>10, Zenon
<1>6. first \in Seq(Byte)
  <2>1. 1 \in 1..N
    OBVIOUS
  <2>. QED
    BY <1>4, <1>5, <2>1, Zenon
<1>7. total \in Nat
  <2>1. 1 \in 1..N
    OBVIOUS
  <2>2. (length + size - 1) \div size = N
    BY <1>1, Zenon DEF Cut
  <2>3. total = (12 + extended) + length + (N - 1) * (1 + extended)
    BY <1>3, <2>2, Zenon DEF BytesWritten
  <2>4. PICK a \in Nat, b \in Nat : a = N - 1 /\ b = 1 + extended
    OBVIOUS
  <2>5. a * b \in Nat
    OBVIOUS
  <2>6. total = (12 + extended) + length + a * b
    BY <2>3, <2>4, Zenon
  <2>. QED
    BY <2>5, <2>6
<1>8. /\ DOMAIN bytes = 1..total /\ bytes = [i \in 1..total |-> bytes[i]]
      /\ \A i \in 1..total : i <= Len(first) => bytes[i] = first[i]
      /\ \A i \in 1..total : ~(i <= Len(first)) =>
           bytes[i] = ByteOf(m, ((i - Len(first) - 1) \div d) + 1, ((i - Len(first) - 1) % d) + 1, size)
  BY <1>4, Zenon DEF Created
<1>9. ASSUME NEW i \in 1..total PROVE bytes[i] \in Byte
  <2>1. CASE i <= Len(first)
    <3>1. i \in 1..Len(first)
      BY <1>6, <2>1
    <3>2. first[i] \in Byte
      BY <1>6, <3>1
    <3>. QED
      BY <1>8, <2>1, <3>2, Zenon
  <2>2. CASE ~(i <= Len(first))
    <3>1. PICK n \in Nat : n = i - Len(first) - 1
      <4>1. PICK l \in Nat : l = Len(first)
        BY <1>6
      <4>2. ~(i <= l)
        BY <2>2, <4>1, Zenon
      <4>3. i - l - 1 \in Nat
        BY <1>7, <4>2
      <4>. QED
        BY <4>1, <4>3, Zenon
    <3>2. n \div d \in Nat /\ n % d \in 0..(d - 1)
      BY DivisionProperties
    <3>3. (n \div d) + 1 \in Nat \ {0} /\ (n % d) + 1 \in Nat \ {0}
      BY <3>2
    <3>4. ByteOf(m, (n \div d) + 1, (n % d) + 1, size) \in Byte
      BY <3>3, ByteOfIsByte
    <3>5. bytes[i] = ByteOf(m, (n \div d) + 1, (n % d) + 1, size)
      BY <1>8, <2>2, <3>1, Zenon
    <3>. QED
      BY <3>4, <3>5, Zenon
  <2>. QED
    BY <2>1, <2>2
<1>10. bytes \in Seq(Byte) /\ Len(bytes) = total
  <2>1. PICK g : g = [i \in 1..total |-> bytes[i]]
    OBVIOUS
  <2>2. g \in Seq(Byte) /\ Len(g) = total
    BY <1>7, <1>9, <2>1
  <2>. QED
    BY <1>8, <2>1, <2>2, Zenon
<1>11. ASSUME NEW j \in 1..N PROVE HoldsAt(bytes, Far(j, extended, size), Piece(m, j, size))
  <2>1. PICK part \in Nat, f \in Nat, b \in Seq(Byte) :
          /\ b = Piece(m, j, size) /\ f = Far(j, extended, size)
          /\ Len(b) = HeaderOf(j, extended) + part
          /\ part = IF (j - 1) * size + size < length THEN size ELSE length - (j - 1) * size
          /\ f + Len(b) <= total
    BY <1>5, Zenon
  <2>2. PICK w \in Nat : w = Len(b) /\ f + w <= total
    BY <2>1
  <2>3. part <= size
    <3>1. (j - 1) * size \in Nat
      BY <1>1, CutAt, Zenon
    <3>2. PICK a \in Nat : a = (j - 1) * size
      BY <3>1
    <3>3. part = IF a + size < length THEN size ELSE length - a
      BY <2>1, <3>2, Zenon
    <3>. QED
      BY <3>3
  <2>4. ASSUME NEW i \in 1..w, NEW h \in Nat, h = f + i PROVE bytes[h] = b[i]
    <3>1. h \in 1..total
      BY <1>7, <2>2, <2>4
    <3>2. CASE j = 1
      <4>1. f = 0
        BY <2>1, <3>2, Zenon DEF Far
      <4>2. b = first
        BY <1>4, <2>1, <3>2, Zenon
      <4>3. h = i
        BY <2>4, <4>1
      <4>4. i <= Len(first)
        <5>1. i <= w
          OBVIOUS
        <5>. QED
          BY <2>2, <4>2, <5>1, Zenon
      <4>. QED
        BY <1>8, <3>1, <4>2, <4>3, <4>4, Zenon
    <3>3. CASE j # 1
      <4>1. f = 11 + (j - 1) * d
        BY <1>2, <2>1, <3>3, Zenon DEF Far
      <4>2. HeaderOf(j, extended) = 1 + extended
        BY <3>3, Zenon DEF HeaderOf
      <4>3. w = (1 + extended) + part
        BY <2>1, <2>2, <4>2, Zenon
      <4>4. i \in 1..d
        BY <1>2, <2>3, <4>3
      <4>5. Len(first) = 11 + d
        <5>1. 1 \in 1..N /\ 1 # N
          BY <3>3
        <5>2. (1 - 1) * size + size < length
          BY <1>1, <5>1, CutAt, Zenon
        <5>3. Len(first) = HeaderOf(1, extended) + size
          BY <1>4, <1>5, <5>1, <5>2, Zenon
        <5>4. HeaderOf(1, extended) = 12 + extended
          BY Zenon DEF HeaderOf
        <5>5. (12 + extended) + size = 11 + d
          BY <1>2
        <5>. QED
          BY <5>3, <5>4, <5>5, Zenon
      <4>6. /\ ~(h <= 11 + d)
            /\ ((h - (11 + d) - 1) \div d) + 1 = j - 1 /\ ((h - (11 + d) - 1) % d) + 1 = i
        <5>1. BehindFirst(h, j, d, i)
          BY <2>4, <4>1, Zenon DEF BehindFirst
        <5>2. j \in Nat /\ j # 0
          OBVIOUS
        <5>. QED
          BY <3>3, <4>4, <5>1, <5>2, PieceByte
      <4>7. bytes[h] = ByteOf(m, j - 1, i, size)
        BY <1>8, <3>1, <4>5, <4>6, Zenon
      <4>8. PICK k \in Nat \ {0} : k = j - 1 /\ k + 1 = j
        BY <3>3
      <4>9. b = Chunk(m, m.cid, 3, m.clock, k * size, size)
        <5>1. size \in Nat
          OBVIOUS
        <5>. QED
          BY <2>1, <4>8, <5>1, PieceIs, Zenon
      <4>10. k * size < Len(m.payload)
        <5>1. (j - 1) * size < length
          BY <1>1, CutAt, Zenon
        <5>. QED
          BY <1>1, <4>8, <5>1, Zenon
      <4>11. i <= Len(b)
        <5>1. i <= w
          OBVIOUS
        <5>. QED
          BY <2>2, <5>1, Zenon
      <4>. QED
        BY <4>7, <4>8, <4>9, <4>10, <4>11, Zenon DEF ByteOf
    <3>. QED
      BY <3>2, <3>3
  <2>. QED
    BY <1>10, <2>1, <2>2, <2>4, Zenon DEF HoldsAt
<1>. QED
  BY <1>1, <1>3, <1>4, <1>10, <1>11, Zenon DEF PiecesIn

\* Before m is written: its channel is free, and the chunk size is not about to change.
Fresh(p, m) ==
  /\ Creatable(m) /\ m.cid \notin DOMAIN p.open
  /\ \A x \in DOMAIN p.open : p.open[x].message.type # SET_PACKET_SIZE

\* l is what p.last becomes with m.
NewLast(p, m, l) ==
  /\ DOMAIN l = DOMAIN p.last \cup {m.cid}
  /\ \A x \in DOMAIN p.last \ {m.cid} : l[x] = p.last[x]
  /\ l[m.cid].message = m /\ l[m.cid].timestamp = m.clock

\* The place before chunk j of m, from the second one on
Midway(p, m, l, j, extended, r) ==
  /\ r.at = p.at + Far(j, extended, p.size) /\ r.size = p.size /\ r.sent = p.sent
  /\ DOMAIN r.open = DOMAIN p.open \cup {m.cid}
  /\ \A x \in DOMAIN p.open : r.open[x] = p.open[x]
  /\ r.open[m.cid] = [message |-> m, from |-> (j - 1) * p.size]
  /\ r.last = l

\* The place behind m
AllSent(p, m, bytes, q) ==
  /\ q.at = p.at + Len(bytes) /\ NewLast(p, m, q.last)
  /\ DOMAIN q.open = DOMAIN p.open /\ \A x \in DOMAIN p.open : q.open[x] = p.open[x]
  /\ q.sent = Append(p.sent, Content(m)) /\ q.size = p.size

LEMMA MidwayExists ==
  ASSUME NEW p, NEW m, Fresh(p, m), NEW l, NEW j, NEW extended
  PROVE  \E r : Midway(p, m, l, j, extended, r)
<1>1. PICK o, e : /\ e = [message |-> m, from |-> (j - 1) * p.size]
                  /\ o = [x \in DOMAIN p.open \cup {m.cid} |-> IF x = m.cid THEN e ELSE p.open[x]]
  OBVIOUS
<1>2. m.cid \notin DOMAIN p.open
  BY Zenon DEF Fresh
<1>3. /\ DOMAIN o = DOMAIN p.open \cup {m.cid} /\ o[m.cid] = e
      /\ \A x \in DOMAIN p.open : o[x] = p.open[x]
  BY <1>1, <1>2
<1>4. PICK at : at = p.at + Far(j, extended, p.size)
  OBVIOUS
<1>5. PICK r : r = [at |-> at, open |-> o, last |-> l, size |-> p.size, sent |-> p.sent]
  OBVIOUS
<1>6. r.at = at /\ r.open = o /\ r.last = l /\ r.size = p.size /\ r.sent = p.sent
  BY <1>5
<1>. QED
  BY <1>1, <1>3, <1>4, <1>6, Zenon DEF Midway

\* ... and is again a place.
LEMMA MidwayOK ==
  ASSUME NEW p, PlaceOK(p), NEW m, Fresh(p, m), NEW l, NewLast(p, m, l),
         NEW j, NEW extended, NEW r, Midway(p, m, l, j, extended, r), r.at \in Nat,
         (j - 1) * p.size \in Nat \ {0}, (j - 1) * p.size < Len(m.payload),
         ((j - 1) * p.size) % p.size = 0
  PROVE  PlaceOK(r)
<1>1. m \in Messages /\ m.clock \in 0..MaxClock /\ m.type # SET_PACKET_SIZE
  <2>1. Creatable(m)
    BY Zenon DEF Fresh
  <2>. QED
    BY <2>1, DirectChannels, Zenon DEF Creatable
<1>2. /\ r.size = p.size /\ DOMAIN r.open = DOMAIN p.open \cup {m.cid}
      /\ \A x \in DOMAIN p.open : r.open[x] = p.open[x]
      /\ r.open[m.cid] = [message |-> m, from |-> (j - 1) * p.size]
      /\ r.last = l
  BY Zenon DEF Midway
<1>3. /\ DOMAIN l = DOMAIN p.last \cup {m.cid}
      /\ \A x \in DOMAIN p.last \ {m.cid} : l[x] = p.last[x]
      /\ l[m.cid].message = m /\ l[m.cid].timestamp = m.clock
  BY Zenon DEF NewLast
<1>4. p.size \in Nat \ {0}
  BY DEF PlaceOK
<1>5. ASSUME NEW x \in DOMAIN r.last
      PROVE  /\ r.last[x].message \in Messages /\ r.last[x].message.cid = x
             /\ r.last[x].timestamp \in 0..MaxClock
  <2>1. CASE x = m.cid
    BY <1>1, <1>2, <1>3, <2>1, Zenon
  <2>2. CASE x # m.cid
    <3>1. x \in DOMAIN p.last \ {m.cid}
      BY <1>2, <1>3, <2>2
    <3>2. r.last[x] = p.last[x] /\ x \in DOMAIN p.last
      BY <1>2, <1>3, <3>1
    <3>. QED
      BY <3>2, Zenon DEF PlaceOK
  <2>. QED
    BY <2>1, <2>2
<1>6. ASSUME NEW x \in DOMAIN r.open
      PROVE  /\ x \in DOMAIN r.last
             /\ r.open[x] \in [message : Messages, from : Nat \ {0}]
             /\ r.open[x].message = r.last[x].message
             /\ r.open[x].from < Len(r.last[x].message.payload)
             /\ r.open[x].from % r.size = 0
             /\ r.last[x].message.type = SET_PACKET_SIZE => DOMAIN r.open = {x}
  <2>1. CASE x = m.cid
    <3>1. PICK f \in Nat \ {0} : f = (j - 1) * p.size
      OBVIOUS
    <3>2. r.open[x] = [message |-> m, from |-> f]
      BY <1>2, <2>1, <3>1, Zenon
    <3>3. r.open[x] \in [message : Messages, from : Nat \ {0}] /\ r.open[x].message = m
          /\ r.open[x].from = f
      BY <1>1, <3>2
    <3>4. x \in DOMAIN r.last /\ r.last[x].message = m
      BY <1>2, <1>3, <2>1
    <3>5. f < Len(m.payload) /\ f % r.size = 0
      BY <1>2, <3>1, Zenon
    <3>. QED
      BY <1>1, <3>3, <3>4, <3>5, Zenon
  <2>2. CASE x # m.cid
    <3>1. x \in DOMAIN p.open
      BY <1>2, <2>2
    <3>2. r.open[x] = p.open[x] /\ p.open[x].message.type # SET_PACKET_SIZE
      BY <1>2, <3>1, Zenon DEF Fresh
    <3>3. /\ x \in DOMAIN p.last /\ p.open[x] \in [message : Messages, from : Nat \ {0}]
          /\ p.open[x].message = p.last[x].message
          /\ p.open[x].from < Len(p.last[x].message.payload) /\ p.open[x].from % p.size = 0
      BY <3>1, Zenon DEF PlaceOK
    <3>4. x \in DOMAIN r.last /\ r.last[x] = p.last[x]
      <4>1. x \in DOMAIN p.last \ {m.cid} /\ x \in DOMAIN l
        BY <1>3, <2>2, <3>3
      <4>. QED
        BY <1>2, <1>3, <4>1, Zenon
    <3>. QED
      BY <1>2, <3>2, <3>3, <3>4, Zenon
  <2>. QED
    BY <2>1, <2>2
<1>. QED
  BY <1>2, <1>4, <1>5, <1>6, Zenon DEF PlaceOK

\* What the chunks of m do to the places
LEMMA FirstPieceStarts ==
  ASSUME NEW p, NEW m, Fresh(p, m), NEW c, IsChunk(c, m, 0, m.clock, 0),
         NEW q, NewLast(p, m, q.last)
  PROVE  Starts(c, p, q)
<1>1. c.message = m /\ c.fmt = 0 /\ c.timestamp = m.clock /\ c.from = 0
  BY Zenon DEF IsChunk
<1>2. m.cid \notin DOMAIN p.open /\ \A x \in DOMAIN p.open : p.open[x].message.type # SET_PACKET_SIZE
  BY Zenon DEF Fresh
<1>3. m.type # SET_PACKET_SIZE
  <2>1. Creatable(m)
    BY Zenon DEF Fresh
  <2>. QED
    BY <2>1, DirectChannels, Zenon
<1>4. /\ DOMAIN q.last = DOMAIN p.last \cup {m.cid}
      /\ \A x \in DOMAIN p.last \ {m.cid} : q.last[x] = p.last[x]
      /\ q.last[m.cid].message = m /\ q.last[m.cid].timestamp = m.clock
  BY Zenon DEF NewLast
<1>. QED
  BY <1>1, <1>2, <1>3, <1>4, Zenon DEF Starts

LEMMA FurtherPieceContinues ==
  ASSUME NEW p, NEW m, NEW l, NewLast(p, m, l), NEW j, NEW extended,
         NEW r, Midway(p, m, l, j, extended, r),
         NEW c, IsChunk(c, m, 3, m.clock, (j - 1) * p.size), NEW q, q.last = l
  PROVE  Continues(c, r, q)
<1>1. c.message = m /\ c.fmt = 3 /\ c.timestamp = m.clock /\ c.from = (j - 1) * p.size
  BY Zenon DEF IsChunk
<1>2. DOMAIN r.open = DOMAIN p.open \cup {m.cid} /\ r.last = l
      /\ r.open[m.cid] = [message |-> m, from |-> (j - 1) * p.size]
  BY Zenon DEF Midway
<1>3. m.cid \in DOMAIN r.open
  BY <1>2
<1>4. r.open[m.cid].message = m /\ r.open[m.cid].from = (j - 1) * p.size
  BY <1>2
<1>5. l[m.cid].timestamp = m.clock
  BY Zenon DEF NewLast
<1>. QED
  BY <1>1, <1>2, <1>3, <1>4, <1>5, Zenon DEF Continues

\* r is p or between the chunks of m.
Since(p, m, r) ==
  /\ r.size = p.size /\ r.sent = p.sent
  /\ DOMAIN p.open \subseteq DOMAIN r.open /\ DOMAIN r.open \subseteq DOMAIN p.open \cup {m.cid}
  /\ \A x \in DOMAIN p.open : r.open[x] = p.open[x]

LEMMA PieceLeaves ==
  ASSUME NEW p, NEW m, Fresh(p, m), NEW r, Since(p, m, r), NEW l, NEW j, NEW extended,
         NEW s, Midway(p, m, l, j, extended, s),
         NEW c, c.message = m, c.from + r.size = (j - 1) * p.size
  PROVE  Leaves(c, r, s)
<1>1. /\ s.size = p.size /\ s.sent = p.sent /\ DOMAIN s.open = DOMAIN p.open \cup {m.cid}
      /\ \A x \in DOMAIN p.open : s.open[x] = p.open[x]
      /\ s.open[m.cid] = [message |-> m, from |-> (j - 1) * p.size]
  BY Zenon DEF Midway
<1>2. /\ r.size = p.size /\ r.sent = p.sent
      /\ DOMAIN p.open \subseteq DOMAIN r.open /\ DOMAIN r.open \subseteq DOMAIN p.open \cup {m.cid}
      /\ \A x \in DOMAIN p.open : r.open[x] = p.open[x]
  BY Zenon DEF Since
<1>3. DOMAIN s.open = DOMAIN r.open \cup {m.cid}
  BY <1>1, <1>2
<1>4. ASSUME NEW x \in DOMAIN r.open \ {m.cid} PROVE s.open[x] = r.open[x]
  <2>1. x \in DOMAIN p.open
    BY <1>2
  <2>. QED
    BY <1>1, <1>2, <2>1, Zenon
<1>. QED
  BY <1>1, <1>2, <1>3, <1>4, Zenon DEF Leaves

LEMMA PieceEnds ==
  ASSUME NEW p, NEW m, Fresh(p, m), NEW r, Since(p, m, r), NEW bytes, NEW q, AllSent(p, m, bytes, q),
         NEW c, c.message = m
  PROVE  Ends(c, r, q)
<1>1. /\ DOMAIN q.open = DOMAIN p.open /\ \A x \in DOMAIN p.open : q.open[x] = p.open[x]
      /\ q.sent = Append(p.sent, Content(m)) /\ q.size = p.size
  BY Zenon DEF AllSent
<1>2. /\ r.size = p.size /\ r.sent = p.sent
      /\ DOMAIN p.open \subseteq DOMAIN r.open /\ DOMAIN r.open \subseteq DOMAIN p.open \cup {m.cid}
      /\ \A x \in DOMAIN p.open : r.open[x] = p.open[x]
  BY Zenon DEF Since
<1>3. m.cid \notin DOMAIN p.open /\ Creatable(m)
  BY Zenon DEF Fresh
<1>4. m.type # SET_PACKET_SIZE /\ ~(m.clock > MaxClock)
  <2>1. m.clock \in 0..MaxClock
    BY <1>3, Zenon DEF Creatable
  <2>2. ~(m.clock > MaxClock)
    BY <2>1, TimestampProperties
  <2>. QED
    BY <1>3, <2>2, DirectChannels, Zenon
<1>5. DOMAIN q.open = DOMAIN r.open \ {m.cid}
  BY <1>1, <1>2, <1>3
<1>6. \A x \in DOMAIN q.open : q.open[x] = r.open[x]
  BY <1>1, <1>2, Zenon
<1>. QED
  BY <1>1, <1>2, <1>4, <1>5, <1>6, Zenon DEF Ends

LEMMA HoldsWithin ==
  ASSUME NEW T, NEW a, NEW b, HoldsAt(T, a, b), NEW e, NEW c, HoldsAt(b, e, c),
         NEW k, k = a + e, Len(T) \in Nat
  PROVE  HoldsAt(T, k, c) /\ k \in Nat
<1>1. /\ a \in Nat /\ b \in Seq(Byte) /\ e \in Nat /\ c \in Seq(Byte)
      /\ a + Len(b) <= Len(T) /\ e + Len(c) <= Len(b)
  BY Zenon DEF HoldsAt
<1>2. PICK x \in Nat, y \in Nat, z \in Nat : x = Len(T) /\ y = Len(b) /\ z = Len(c)
  BY <1>1
<1>3. a + y <= x /\ e + z <= y
  BY <1>1, <1>2, Zenon
<1>4. k \in Nat /\ k + z <= x
  BY <1>1, <1>3
<1>5. ASSUME NEW i \in 1..z, NEW j \in Nat, j = k + i PROVE T[j] = c[i]
  <2>1. PICK h \in Nat : h = e + i
    BY <1>1
  <2>2. h \in 1..y
    BY <1>1, <1>3, <2>1
  <2>3. j = a + h
    BY <1>1, <1>5, <2>1
  <2>4. T[j] = b[h]
    BY <1>2, <2>2, <2>3, Zenon DEF HoldsAt
  <2>5. b[h] = c[i]
    BY <1>2, <2>1, Zenon DEF HoldsAt
  <2>. QED
    BY <2>4, <2>5, Zenon
<1>. QED
  BY <1>1, <1>2, <1>4, <1>5, Zenon DEF HoldsAt

\* The peer is at the end of S and writes m as createChunks makes it.
Creates(S, p, m, bytes) == p.at = Len(S) /\ bytes = createChunks(m, p.size)

\* createChunks takes the peer behind the message, from place to place.
LEMMA ManyChunks ==
  ASSUME NEW S \in Seq(Byte), NEW p, PlaceOK(p), p.sent \in Seq(Contents),
         NEW m, Fresh(p, m), NEW bytes, Creates(S, p, m, bytes), NEW q, AllSent(p, m, bytes, q)
  PROVE  \E Q, D, num : Written(S, p, bytes, Q, D, num) /\ Q[num] = q
<1>0. p.at = Len(S) /\ bytes = createChunks(m, p.size)
  BY Zenon DEF Creates
<1>1. PICK size \in Nat \ {0} : size = p.size
  BY DEF PlaceOK
<1>2. PICK length \in Nat \ {0} : length = Len(m.payload)
  BY Zenon DEF Fresh, Creatable
<1>3. Creatable(m) /\ m \in Messages
  BY Zenon DEF Fresh, Creatable
<1>4. PICK extended \in Nat : extended = Len(ExtendedTimestamp(m.clock))
  <2>1. ExtendedTimestamp(m.clock) \in Seq(Byte)
    BY <1>3, ExtendedTimestampProperties, Zenon DEF Creatable
  <2>. QED
    BY <2>1
<1>5. PICK N \in Nat \ {0} : Cut(length, size, N)
  BY CutExists
<1>6. PICK l : l = q.last /\ NewLast(p, m, l)
  BY Zenon DEF AllSent
<1>7. PiecesIn(bytes, m, size, N, extended)
  <2>1. Cut(Len(m.payload), size, N)
    BY <1>2, <1>5, Zenon
  <2>2. PiecesIn(createChunks(m, size), m, size, N, extended)
    BY <1>3, <1>4, <2>1, PiecesWritten
  <2>. QED
    BY <1>0, <1>1, <2>2, Zenon
<1>8. /\ bytes \in Seq(Byte) /\ Len(bytes) = BytesWritten(length, 12 + extended, extended, size)
      /\ \A j \in 1..N : HoldsAt(bytes, Far(j, extended, size), Piece(m, j, size))
  BY <1>2, <1>7, Zenon DEF PiecesIn
<1>9. PICK T : T = S \o bytes
  OBVIOUS
<1>10. HoldsAt(T, p.at, bytes) /\ T \in Seq(Byte) /\ Len(T) = p.at + Len(bytes) /\ Len(T) \in Nat
  <2>1. HoldsAt(T, p.at, bytes) /\ T \in Seq(Byte) /\ Len(T) = p.at + Len(bytes)
    BY <1>0, <1>8, <1>9, HoldsBehind
  <2>. QED
    BY <2>1
<1>11. PICK D : \A j \in 1..N : IsPiece(D[j], m, j, size, extended)
  <2>1. ASSUME NEW j \in 1..N PROVE \E c : IsPiece(c, m, j, size, extended)
    <3>1. (j - 1) * size \in Nat /\ (j - 1) * size < length
      BY <1>5, CutAt, Zenon
    <3>2. PICK a \in Nat : a = (j - 1) * size
      BY <3>1
    <3>3. a < length
      BY <3>1, <3>2, Zenon
    <3>4. a \in 0..length
      BY <3>3
    <3>5. (j - 1) * size \in 0..Len(m.payload)
      BY <1>2, <3>2, <3>4, Zenon
    <3>6. j \in Nat \ {0}
      OBVIOUS
    <3>. QED
      BY <1>3, <1>4, <3>5, <3>6, PieceExists
  <2>2. PICK D : D = [j \in 1..N |-> CHOOSE c : IsPiece(c, m, j, size, extended)]
    OBVIOUS
  <2>3. ASSUME NEW j \in 1..N PROVE IsPiece(D[j], m, j, size, extended)
    <3>1. D[j] = CHOOSE c : IsPiece(c, m, j, size, extended)
      BY <2>2
    <3>. QED
      BY <2>1, <3>1, Zenon
  <2>. QED
    BY <2>3
<1>12. PICK num \in Nat \ {0} : num = N + 1
  OBVIOUS
<1>13. PICK Q : /\ Q[1] = p /\ Q[num] = q
                /\ \A j \in 1..N : j # 1 => Midway(p, m, l, j, extended, Q[j])
  <2>1. \A j \in 1..N : \E r : Midway(p, m, l, j, extended, r)
    BY MidwayExists
  <2>2. PICK Q : Q = [j \in 1..num |-> IF j = 1 THEN p ELSE IF j = num THEN q
                                       ELSE CHOOSE r : Midway(p, m, l, j, extended, r)]
    OBVIOUS
  <2>3. Q[1] = p /\ Q[num] = q
    BY <1>12, <2>2
  <2>4. ASSUME NEW j \in 1..N, j # 1 PROVE Midway(p, m, l, j, extended, Q[j])
    <3>1. j \in 1..num /\ j # num
      BY <1>12
    <3>2. Q[j] = CHOOSE r : Midway(p, m, l, j, extended, r)
      BY <2>2, <2>4, <3>1
    <3>. QED
      BY <2>1, <3>2, Zenon
  <2>. QED
    BY <2>3, <2>4
<1>14. ASSUME NEW j \in 1..N
       PROVE  /\ Since(p, m, Q[j]) /\ Q[j].at = p.at + Far(j, extended, size) /\ Q[j].size = size
              /\ HoldsAt(T, Q[j].at, Piece(m, j, size)) /\ Q[j].at \in Nat
              /\ PlaceOK(Q[j])
  <2>1. HoldsAt(bytes, Far(j, extended, size), Piece(m, j, size)) /\ Far(j, extended, size) \in Nat
    BY <1>8, Zenon DEF HoldsAt
  <2>2. Since(p, m, Q[j]) /\ Q[j].at = p.at + Far(j, extended, size) /\ Q[j].size = size
    <3>1. CASE j = 1
      <4>1. Far(j, extended, size) = 0
        BY <3>1, Zenon DEF Far
      <4>2. p.at + 0 = p.at
        BY DEF PlaceOK
      <4>3. Q[j] = p
        BY <1>13, <3>1
      <4>4. Since(p, m, p)
        BY DEF Since
      <4>. QED
        BY <1>1, <4>1, <4>2, <4>3, <4>4, Zenon
    <3>2. CASE j # 1
      <4>1. Midway(p, m, l, j, extended, Q[j])
        BY <1>13, <3>2
      <4>2. /\ Q[j].at = p.at + Far(j, extended, p.size) /\ Q[j].size = p.size /\ Q[j].sent = p.sent
            /\ DOMAIN Q[j].open = DOMAIN p.open \cup {m.cid}
            /\ \A x \in DOMAIN p.open : Q[j].open[x] = p.open[x]
        BY <4>1, Zenon DEF Midway
      <4>3. Since(p, m, Q[j])
        BY <4>2 DEF Since
      <4>. QED
        BY <1>1, <4>2, <4>3, Zenon
    <3>. QED
      BY <3>1, <3>2
  <2>3. HoldsAt(T, Q[j].at, Piece(m, j, size)) /\ Q[j].at \in Nat
    BY <1>10, <2>1, <2>2, HoldsWithin
  <2>4. PlaceOK(Q[j])
    <3>1. CASE j = 1
      BY <1>13, <3>1
    <3>2. CASE j # 1
      <4>1. Midway(p, m, l, j, extended, Q[j])
        BY <1>13, <3>2
      <4>2. (j - 1) * size \in Nat /\ (j - 1) * size < length
        BY <1>5, CutAt, Zenon
      <4>3. PICK a \in Nat \ {0}, n \in Nat \ {0} : a = j - 1 /\ n = a * size
        <5>1. j - 1 \in Nat \ {0}
          BY <3>2
        <5>2. \A a, s \in Nat \ {0} : a * s \in Nat \ {0}
          OBVIOUS
        <5>. QED
          BY <5>1, <5>2
      <4>4. n % size = 0
        <5>1. n = size * a + 0
          BY <4>3
        <5>2. 0 \in 0..(size - 1)
          OBVIOUS
        <5>. QED
          BY <5>1, <5>2, RemainderUnique
      <4>5. /\ (j - 1) * p.size \in Nat \ {0} /\ (j - 1) * p.size < Len(m.payload)
            /\ ((j - 1) * p.size) % p.size = 0
        BY <1>1, <1>2, <4>2, <4>3, <4>4, Zenon
      <4>. QED
        BY <1>6, <2>3, <4>1, <4>5, MidwayOK
    <3>. QED
      BY <3>1, <3>2
  <2>. QED
    BY <2>2, <2>3, <2>4
<1>15. ASSUME NEW j \in 1..N, NEW k \in 1..num, k = j + 1 PROVE Moves(D[j], Q[j], Q[k])
  <2>1. PICK c, r, s : c = D[j] /\ r = Q[j] /\ s = Q[k]
    OBVIOUS
  <2>2. /\ IsChunk(c, m, FormatOf(j), m.clock, (j - 1) * size) /\ ChunkOK(c, size)
        /\ c.el = HeaderOf(j, extended) /\ c.part = PartOf(m, (j - 1) * size, size)
    BY <1>11, <2>1, Zenon DEF IsPiece
  <2>3. c.message = m /\ c.from = (j - 1) * size
    BY <2>2, Zenon DEF IsChunk
  <2>4. Since(p, m, r) /\ r.at = p.at + Far(j, extended, size) /\ r.size = size
    BY <1>14, <2>1, Zenon
  <2>5. s.last = l /\ NewLast(p, m, s.last)
    <3>1. CASE k = num
      BY <1>6, <1>13, <2>1, <3>1, Zenon
    <3>2. CASE k # num
      <4>1. k \in 1..N /\ k # 1
        BY <1>12, <1>15, <3>2
      <4>2. Midway(p, m, l, k, extended, s)
        BY <1>13, <2>1, <4>1, Zenon
      <4>. QED
        BY <1>6, <4>2, Zenon DEF Midway
    <3>. QED
      BY <3>1, <3>2
  <2>6. Starts(c, r, s) \/ Continues(c, r, s)
    <3>1. CASE j = 1
      <4>1. FormatOf(j) = 0 /\ (j - 1) * size = 0
        BY <3>1 DEF FormatOf
      <4>2. r = p
        BY <1>13, <2>1, <3>1
      <4>3. IsChunk(c, m, 0, m.clock, 0)
        BY <2>2, <4>1, Zenon
      <4>4. Starts(c, p, s)
        BY <2>5, <4>3, FirstPieceStarts
      <4>. QED
        BY <4>2, <4>4, Zenon
    <3>2. CASE j # 1
      <4>1. FormatOf(j) = 3
        BY <3>2, Zenon DEF FormatOf
      <4>2. Midway(p, m, l, j, extended, r)
        BY <1>13, <2>1, <3>2, Zenon
      <4>3. IsChunk(c, m, 3, m.clock, (j - 1) * p.size)
        BY <1>1, <2>2, <4>1, Zenon
      <4>4. Continues(c, r, s)
        BY <1>6, <2>5, <4>2, <4>3, FurtherPieceContinues
      <4>. QED
        BY <4>4
    <3>. QED
      BY <3>1, <3>2
  <2>7. /\ (j - 1) * size \in Nat /\ (j - 1) * size < length
        /\ j # N => (j - 1) * size + size < length /\ (j - 1) * size + size = ((j + 1) - 1) * size
        /\ j = N => ~((j - 1) * size + size < length)
    BY <1>5, CutAt, Zenon
  <2>8. PICK a \in Nat : a = (j - 1) * size
    BY <2>7
  <2>9. c.from + r.size = a + size
    BY <2>3, <2>4, <2>8, Zenon
  <2>10. c.part = IF a + size < length THEN size ELSE length - a
    BY <1>2, <2>2, <2>8, Zenon DEF PartOf
  <2>11. PICK f \in Nat, h \in Nat, o \in Nat :
           f = Far(j, extended, size) /\ h = HeaderOf(j, extended) /\ o = p.at
    <3>1. Far(j, extended, size) \in Nat
      BY <1>5, FarNext, Zenon
    <3>2. HeaderOf(j, extended) \in Nat
      BY DEF HeaderOf
    <3>3. p.at \in Nat
      BY DEF PlaceOK
    <3>. QED
      BY <3>1, <3>2, <3>3, Zenon
  <2>12. r.at = o + f /\ c.el = h
    BY <2>2, <2>4, <2>11, Zenon
  <2>13. CASE j # N
    <3>1. a + size < length /\ c.part = size /\ a + size = ((j + 1) - 1) * size
      BY <2>7, <2>8, <2>10, <2>13, Zenon
    <3>2. k \in 1..N /\ k # 1
      BY <1>15, <2>13
    <3>3. Midway(p, m, l, k, extended, s)
      BY <1>13, <2>1, <3>2, Zenon
    <3>4. c.from + r.size = (k - 1) * p.size
      BY <1>1, <1>15, <2>9, <3>1, Zenon
    <3>5. Leaves(c, r, s)
      BY <2>3, <2>4, <3>3, <3>4, PieceLeaves
    <3>6. ~(Len(m.payload) <= c.from + r.size)
      <4>1. ~(length <= a + size)
        BY <3>1
      <4>. QED
        BY <1>2, <2>9, <4>1, Zenon
    <3>7. s.at = r.at + c.el + c.part
      <4>1. Far(j, extended, size) + HeaderOf(j, extended) + size = Far(j + 1, extended, size)
        BY <1>5, <2>13, FarNext
      <4>2. s.at = p.at + Far(j + 1, extended, size)
        BY <1>1, <1>15, <3>3, Zenon DEF Midway
      <4>3. s.at = o + (f + h + size)
        BY <2>11, <4>1, <4>2, Zenon
      <4>4. o + (f + h + size) = (o + f) + h + size
        OBVIOUS
      <4>. QED
        BY <2>12, <3>1, <4>3, <4>4, Zenon
    <3>. QED
      BY <2>1, <2>3, <2>6, <3>5, <3>6, <3>7, Zenon DEF Moves
  <2>14. CASE j = N
    <3>1. ~(a + size < length) /\ c.part = length - a /\ a < length
      BY <2>7, <2>8, <2>10, <2>14, Zenon
    <3>2. s = q
      BY <1>12, <1>13, <1>15, <2>1, <2>14
    <3>3. Ends(c, r, q)
      BY <2>3, <2>4, PieceEnds
    <3>4. Len(m.payload) <= c.from + r.size
      <4>1. length <= a + size
        BY <3>1
      <4>. QED
        BY <1>2, <2>9, <4>1, Zenon
    <3>5. s.at = r.at + c.el + c.part
      <4>1. Far(j, extended, size) + HeaderOf(j, extended) + (length - (j - 1) * size)
              = BytesWritten(length, 12 + extended, extended, size)
        BY <1>5, <2>14, FarNext
      <4>2. q.at = p.at + Len(bytes)
        BY Zenon DEF AllSent
      <4>3. PICK z \in Nat : z = length - a
        BY <3>1
      <4>4. q.at = o + (f + h + z)
        BY <1>8, <2>8, <2>11, <4>1, <4>2, <4>3, Zenon
      <4>5. o + (f + h + z) = (o + f) + h + z
        OBVIOUS
      <4>. QED
        BY <2>12, <3>1, <3>2, <4>3, <4>4, <4>5, Zenon
    <3>. QED
      BY <2>1, <2>3, <2>6, <3>2, <3>3, <3>4, <3>5, Zenon DEF Moves
  <2>. QED
    BY <2>13, <2>14
<1>16. ASSUME NEW j \in 1..num, NEW k \in 1..num, k = j + 1
       PROVE  j \in 1..N /\ Follows(T, D[j], Q[j], Q[k])
  <2>1. j \in 1..N
    BY <1>12, <1>16
  <2>2. Moves(D[j], Q[j], Q[k])
    BY <1>15, <1>16, <2>1
  <2>3. ChunkOK(D[j], size) /\ ChunkBytes(D[j], size) = Piece(m, j, size)
    BY <1>11, <2>1, Zenon DEF IsPiece
  <2>4. HoldsAt(T, Q[j].at, Piece(m, j, size)) /\ Q[j].size = size
    BY <1>14, <2>1, Zenon
  <2>. QED
    BY <2>1, <2>2, <2>3, <2>4, Zenon DEF Follows
<1>17. PlaceOK(q)
  <2>1. N \in 1..N /\ N \in 1..num /\ num \in 1..num /\ num = N + 1
    BY <1>12
  <2>2. Moves(D[N], Q[N], q) /\ PlaceOK(Q[N]) /\ Q[N].size = size /\ ChunkOK(D[N], size)
    BY <1>11, <1>13, <1>14, <1>15, <2>1, Zenon DEF IsPiece
  <2>3. ChunkOK(D[N], Q[N].size)
    BY <2>2, Zenon
  <2>. QED
    BY <2>2, <2>3, PlaceFollows
<1>18. Prefix(p.sent, q.sent) /\ Prefix(q.sent, q.sent)
  <2>1. Prefix(p.sent, Append(p.sent, Content(m)))
    BY <1>3, PrefixOfMore
  <2>2. Prefix(p.sent, q.sent)
    BY <2>1, Zenon DEF AllSent
  <2>. QED
    BY <2>2, PrefixTyped, PrefixReflexive
<1>19. ASSUME NEW j \in 1..num PROVE PlaceOK(Q[j]) /\ Prefix(Q[j].sent, Q[num].sent)
  <2>1. CASE j = num
    BY <1>13, <1>17, <1>18, <2>1, Zenon
  <2>2. CASE j # num
    <3>1. j \in 1..N
      BY <1>12, <2>2
    <3>2. PlaceOK(Q[j]) /\ Since(p, m, Q[j])
      BY <1>14, <3>1, Zenon
    <3>3. Q[j].sent = p.sent
      BY <3>2, Zenon DEF Since
    <3>. QED
      BY <1>13, <1>18, <3>2, <3>3, Zenon
  <2>. QED
    BY <2>1, <2>2
<1>20. Q[num].at = Len(T)
  BY <1>10, <1>13, Zenon DEF AllSent
<1>21. Segment(T, Q, D, num)
  BY <1>10, <1>16, <1>19, <1>20, Zenon DEF Segment
<1>22. Written(S, p, bytes, Q, D, num)
  BY <1>8, <1>9, <1>13, <1>21, Zenon DEF Written
<1>. QED
  BY <1>13, <1>22, Zenon

LEMMA SendStep ==
  ASSUME NEW S, NEW P, NEW C, NEW n, Explains(S, P, C, n), Values, SendChunks
  PROVE  ParserInv'
<1>1. PICK m \in Messages :
        /\ m.cid = ChannelOf(m.type) /\ m.payload # <<>> /\ m.clock <= MaxClock
        /\ Begin(m)
        /\ Write(createChunks(m, outSize))
        /\ last' = Put(last, m.cid, [message |-> m, timestamp |-> m.clock])
        /\ Completes(m)
        /\ UNCHANGED <<open, data, handshakeVars, parserState, headerVars, inPackets, inChunkSize,
                       received, running>>
  BY DEF SendChunks
<1>2. PICK bytes : bytes = createChunks(m, outSize) /\ wire' = wire \o bytes
  BY <1>1 DEF Write
<1>3. ParserStays /\ open' = open
  BY <1>1 DEF ParserStays, handshakeVars, headerVars
<1>4. /\ m.cid \notin DOMAIN open /\ begun < MaxMessages /\ begun' = begun + 1
      /\ \A x \in DOMAIN open : open[x].message.type # SET_PACKET_SIZE
  BY <1>1, Zenon DEF Begin
<1>5. begun' \in 0..MaxMessages
  BY <1>4, SizesAssumption DEF Values
<1>6. Creatable(m)
  <2>1. m.payload \in Seq(Byte) /\ m.clock \in Nat
    BY MessageProperties
  <2>2. Len(m.payload) \in Nat \ {0}
    BY <1>1, <2>1
  <2>3. m.clock \in 0..MaxClock
    BY <1>1, <2>1, TimestampProperties, SMTT(30)
  <2>. QED
    BY <1>1, <2>2, <2>3, Zenon DEF Creatable
<1>7. m.type # SET_PACKET_SIZE /\ ~(m.clock > MaxClock)
  <2>1. m.type # SET_PACKET_SIZE
    BY <1>6, DirectChannels
  <2>2. m.clock \in Nat /\ MaxClock \in Nat
    BY MessageProperties, TimestampProperties
  <2>. QED
    BY <1>1, <2>1, <2>2
<1>8. sent' = Append(sent, Content(m)) /\ outSize' = outSize
  <2>1. Completes(m)
    BY <1>1
  <2>. QED
    BY <1>7, <2>1, Zenon DEF Completes
<1>9. /\ S \in Seq(Byte) /\ PlaceOK(P[n]) /\ P[n].sent \in Seq(Contents) /\ P[n].at = Len(S)
      /\ PeerIs(P[n])
  BY PeerPlace
<1>10. PICK p : /\ p = P[n] /\ p.open = open /\ p.last = last /\ p.size = outSize /\ p.sent = sent
                /\ PlaceOK(p) /\ p.sent \in Seq(Contents) /\ p.at = Len(S)
  BY <1>9, Zenon DEF PeerIs
<1>11. PICK q : q = [at |-> p.at + Len(bytes), open |-> open', last |-> last', size |-> outSize',
                     sent |-> sent']
  OBVIOUS
<1>12. /\ q.at = p.at + Len(bytes) /\ q.open = open' /\ q.last = last' /\ q.size = outSize'
       /\ q.sent = sent'
  BY <1>11
<1>13. Fresh(p, m)
  BY <1>4, <1>6, <1>10, Zenon DEF Fresh
<1>14. NewLast(p, m, q.last)
  <2>1. /\ DOMAIN last' = DOMAIN last \cup {m.cid}
        /\ \A x \in DOMAIN last \ {m.cid} : last'[x] = last[x]
        /\ last'[m.cid].message = m /\ last'[m.cid].timestamp = m.clock
    BY <1>1 DEF Put
  <2>. QED
    BY <1>10, <1>12, <2>1, Zenon DEF NewLast
<1>15. AllSent(p, m, bytes, q)
  BY <1>3, <1>8, <1>10, <1>12, <1>14, Zenon DEF AllSent
<1>16. bytes = createChunks(m, p.size)
  BY <1>2, <1>10, Zenon
<1>17. PICK Q, D, num : Written(S, p, bytes, Q, D, num) /\ Q[num] = q
  <2>1. S \in Seq(Byte) /\ PlaceOK(p) /\ p.sent \in Seq(Contents)
    BY <1>9, <1>10, Zenon
  <2>2. Creates(S, p, m, bytes)
    BY <1>10, <1>16, Zenon DEF Creates
  <2>. QED
    BY <2>1, <2>2, <1>13, <1>15, ManyChunks
<1>18. PeerIs(Q[num])'
  BY <1>12, <1>17, Zenon DEF PeerIs
<1>19. Written(S, P[n], bytes, Q, D, num)
  BY <1>10, <1>17, Zenon
<1>20. wire' = wire \o bytes
  BY <1>2
<1>. QED
  BY <1>3, <1>5, <1>18, <1>19, <1>20, PeerWrites

-----------------------------------------------------------------------------
(* The theorems                                                                *)

LEMMA Inductive ==
  ASSUME LostAnywhere = FALSE, ParserInv, [Next]_vars, running' = TRUE
  PROVE  ParserInv'
<1>1. Values
  BY Zenon DEF ParserInv
<1>2. PICK S, P, C, n : Explains(S, P, C, n)
  BY Zenon DEF ParserInv
<1>3. CASE BeginMessage
  BY <1>1, <1>2, <1>3, BeginStep
<1>4. CASE ContinueMessage
  BY <1>1, <1>2, <1>4, ContinueStep
<1>5. CASE SendChunks
  BY <1>1, <1>2, <1>5, SendStep
<1>6. CASE LostConnection
  BY <1>1, <1>2, <1>6, LostStep, Zenon
<1>7. CASE Feed
  <2>1. Explains(S, P, C, n)'
    BY <1>2, <1>7, FeedStep
  <2>2. UNCHANGED <<begun, handshakeBytes, parserBuffer, parserBasicBytes, inPackets>>
    BY <1>7 DEF Feed, handshakeVars, headerVars
  <2>3. Values'
    BY <1>1, <2>2, Zenon DEF Values, PacketsOK
  <2>. QED
    BY <2>1, <2>3, Zenon DEF ParserInv
<1>8. CASE ReadVersion
  <2>1. Explains(S, P, C, n)'
    BY <1>2, <1>8, VersionStep
  <2>2. UNCHANGED <<begun, parserBuffer, parserBasicBytes, inPackets>> /\ handshakeBytes' = 0
    BY <1>8 DEF ReadVersion, peerVars, headerVars
  <2>3. handshakeBytes' \in 0..(HandshakeSize - 1)
    BY <2>2, SizesAssumption
  <2>4. Values'
    BY <1>1, <2>2, <2>3, Zenon DEF Values, PacketsOK
  <2>. QED
    BY <2>1, <2>4, Zenon DEF ParserInv
<1>9. ASSUME NEW state, NEW next, ReadSignature(state, next),
             <<state, next>> \in {<<"BEGIN", "CONT">>, <<"CONT", "COMP">>}
      PROVE  ParserInv'
  <2>1. Explains(S, P, C, n)' /\ handshakeBytes' \in 0..(HandshakeSize - 1)
    BY <1>1, <1>2, <1>9, SignatureStep
  <2>2. UNCHANGED <<begun, parserBuffer, parserBasicBytes, inPackets>>
    BY <1>9 DEF ReadSignature, peerVars, headerVars
  <2>3. Values'
    BY <1>1, <2>1, <2>2, Zenon DEF Values, PacketsOK
  <2>. QED
    BY <2>1, <2>3, Zenon DEF ParserInv
<1>10. CASE ReadSignature("BEGIN", "CONT")
  <2>1. <<"BEGIN", "CONT">> \in {<<"BEGIN", "CONT">>, <<"CONT", "COMP">>}
    OBVIOUS
  <2>. QED
    BY <1>9, <1>10, <2>1, Zenon
<1>11. CASE ReadSignature("CONT", "COMP")
  <2>1. <<"CONT", "COMP">> \in {<<"BEGIN", "CONT">>, <<"CONT", "COMP">>}
    OBVIOUS
  <2>. QED
    BY <1>9, <1>11, <2>1, Zenon
<1>12. CASE ChunkRead
  <2>1. Explains(S, P, C, n)' /\ Values'
    BY <1>1, <1>2, <1>12, ChunkReadStep
  <2>. QED
    BY <2>1, Zenon DEF ParserInv
<1>13. CASE UNCHANGED vars
  <2>1. PeerStays /\ wire' = wire /\ data' = data /\ begun' = begun
        /\ UNCHANGED <<handshakeState, handshakeBytes, parserState, parserBuffer, parserBasicBytes,
                       channel, inPackets, inChunkSize, received>>
    BY <1>13 DEF vars, peerVars, handshakeVars, headerVars, PeerStays
  <2>2. Segment(S, P, C, n) /\ Opening(P[1]) /\ PeerIs(P[n])
    BY <1>2, Zenon DEF Explains
  <2>3. PICK k \in 1..n, x \in Nat : Underway(S, x) /\ Reached(P, C, n, k, x)
    BY <1>2, Zenon DEF Explains
  <2>4. Underway(S, x)'
    BY <2>1, <2>3 DEF Underway
  <2>5. Reached(P, C, n, k, x)'
    BY <2>1, <2>3, ReachedStays
  <2>6. PeerIs(P[n])'
    BY <2>1, <2>2, Zenon DEF PeerIs, PeerStays
  <2>7. Explains(S, P, C, n)'
    BY <2>2, <2>3, <2>4, <2>5, <2>6, Zenon DEF Explains
  <2>8. Values'
    BY <1>1, <2>1, Zenon DEF Values, PacketsOK
  <2>. QED
    BY <2>7, <2>8, Zenon DEF ParserInv
<1>. QED
  BY <1>3, <1>4, <1>5, <1>6, <1>7, <1>8, <1>10, <1>11, <1>12, <1>13, Zenon
     DEF Next, Peer, Parse, ChunkRead

\* A packet that is not complete has less than its length.
LEMMA PacketFits ==
  ASSUME NEW p, PlaceOK(p), NEW busy, AgreesBut(p, busy), PacketsOK,
         NEW x \in DOMAIN inPackets, \A cid \in busy : x # Key(cid)
  PROVE  inPackets[x].bytes \in 0..inPackets[x].length
<1>1. PICK packet \in Packets : packet = inPackets[x]
  BY Zenon DEF PacketsOK
<1>2. packet.bytes \in Nat /\ packet.length \in Nat
  BY DEF Packets
<1>3. CASE packet.bytes = 0
  BY <1>1, <1>2, <1>3
<1>4. CASE packet.bytes # 0
  <2>1. PICK cid \in DOMAIN p.open \cup busy : x = Key(cid)
    BY <1>1, <1>4, Zenon DEF AgreesBut
  <2>2. cid \in DOMAIN p.open /\ cid \notin busy
    BY <2>1
  <2>3. /\ cid \in DOMAIN p.last /\ p.open[cid].from < Len(p.last[cid].message.payload)
    BY <2>2, Zenon DEF PlaceOK
  <2>4. Knows(p, cid)
    BY <2>2, <2>3 DEF AgreesBut
  <2>5. packet.length = Len(p.last[cid].message.payload) /\ packet.bytes = p.open[cid].from
    BY <1>1, <2>1, <2>2, <2>4, Zenon DEF Knows, Filled, From
  <2>6. packet.bytes < packet.length
    BY <2>3, <2>5, Zenon
  <2>. QED
    BY <1>1, <1>2, <2>6
<1>. QED
  BY <1>3, <1>4

LEMMA BusyPacketFits ==
  ASSUME NEW p, PlaceOK(p), NEW c, ChunkOK(c, p.size), HeaderIs(c, p), PacketsOK,
         NEW part \in 0..c.part, Filled(inPackets[channel], c.message, c.from + part),
         NEW x \in DOMAIN inPackets
  PROVE  inPackets[x].bytes \in 0..inPackets[x].length
<1>1. /\ channel = Key(c.message.cid) /\ HasHeader(inPackets[channel], c)
      /\ AgreesBut(p, {c.message.cid})
  BY Zenon DEF HeaderIs
<1>2. CASE x = channel
  <2>1. PICK size \in Nat \ {0}, length \in Nat, from \in Nat, l \in Nat :
          /\ size = p.size /\ length = Len(c.message.payload) /\ from = c.from /\ l = c.part
          /\ from <= length /\ l = PartOf(c.message, from, size)
    <3>1. /\ c.message \in Messages /\ c.from \in 0..Len(c.message.payload) /\ c.part \in Nat
          /\ c.part = PartOf(c.message, c.from, p.size)
      BY Zenon DEF ChunkOK
    <3>2. Len(c.message.payload) \in Nat
      BY <3>1, MessageProperties
    <3>3. c.from \in Nat /\ c.from <= Len(c.message.payload)
      BY <3>1, <3>2
    <3>4. p.size \in Nat \ {0}
      BY Zenon DEF PlaceOK
    <3>. QED
      BY <3>1, <3>2, <3>3, <3>4, Zenon
  <2>2. from + l <= length
    <3>1. l = IF from + size < length THEN size ELSE length - from
      BY <2>1, Zenon DEF PartOf
    <3>. QED
      BY <3>1
  <2>3. PICK y \in Nat : y = part /\ y <= l
    BY <2>1
  <2>4. inPackets[x].bytes = from + y /\ inPackets[x].length = length
    BY <1>1, <1>2, <2>1, <2>3, Zenon DEF Filled, HasHeader
  <2>5. from + y \in 0..length
    BY <2>2, <2>3
  <2>. QED
    BY <2>4, <2>5, Zenon
<1>3. CASE x # channel
  BY <1>1, <1>3, PacketFits
<1>. QED
  BY <1>2, <1>3

LEMMA PacketsFit ==
  ASSUME NEW S, NEW P, NEW C, NEW n, Segment(S, P, C, n), NEW k \in 1..n, NEW x,
         Reached(P, C, n, k, x), PacketsOK, NEW y \in DOMAIN inPackets
  PROVE  inPackets[y].bytes \in 0..inPackets[y].length
<1>1. PlaceOK(P[k]) /\ (k # n => Follows(S, C[k], P[k], P[k + 1]))
  BY ExplainsParts, Zenon
<1>2. CASE AgreesBut(P[k], {})
  <2>1. PICK p, busy : p = P[k] /\ busy = {} /\ PlaceOK(p) /\ AgreesBut(p, busy)
    BY <1>1, <1>2, Zenon
  <2>2. \A cid \in busy : y # Key(cid)
    BY <2>1
  <2>3. PlaceOK(p) /\ AgreesBut(p, busy)
    BY <2>1
  <2>. QED
    BY <2>2, <2>3, PacketFits
<1>3. CASE k # n /\ \E o \in Nat : InChunk(C[k], P[k], o)
  <2>1. PICK c, p, o : c = C[k] /\ p = P[k] /\ InChunk(c, p, o)
    BY <1>3, Zenon
  <2>2. PlaceOK(p) /\ ChunkOK(c, p.size)
    BY <1>1, <1>3, <2>1, Zenon DEF Follows
  <2>3. CASE InBasicHeader(c, p, o) \/ InMessageHeader(c, p, o)
    <3>1. AgreesBut(p, {})
      BY <2>3, Zenon DEF InBasicHeader, InMessageHeader
    <3>. QED
      BY <2>2, <3>1, PacketFits
  <2>4. CASE InExtendedTimestamp(c, p, o)
    <3>1. HeaderIs(c, p) /\ Filled(inPackets[channel], c.message, c.from)
      BY <2>4, Zenon DEF InExtendedTimestamp
    <3>2. c.part \in Nat /\ c.from \in Nat
      <4>1. c.message \in Messages /\ c.from \in 0..Len(c.message.payload) /\ c.part \in Nat
        BY <2>2, Zenon DEF ChunkOK
      <4>. QED
        BY <4>1, MessageProperties
    <3>3. 0 \in 0..c.part /\ c.from + 0 = c.from
      BY <3>2
    <3>4. Filled(inPackets[channel], c.message, c.from + 0)
      BY <3>1, <3>3, Zenon
    <3>. QED
      BY <2>2, <3>1, <3>3, <3>4, BusyPacketFits
  <2>5. CASE InPayload(c, p, o)
    <3>1. PICK z \in 0..c.part : HeaderIs(c, p) /\ Filled(inPackets[channel], c.message, c.from + z)
      BY <2>5, Zenon DEF InPayload
    <3>. QED
      BY <2>2, <3>1, BusyPacketFits
  <2>. QED
    BY <2>1, <2>3, <2>4, <2>5, Zenon DEF InChunk
<1>. QED
  BY <1>2, <1>3, Zenon DEF Reached

LEMMA StatesTyped ==
  ASSUME NEW P, NEW C, NEW n, NEW k, NEW x, Reached(P, C, n, k, x)
  PROVE  /\ handshakeState \in {"UNINIT", "BEGIN", "CONT", "COMP"}
         /\ parserState \in {"INIT", "BASIC_HEADER", "MESSAGE_HEADER", "EXTENDED_TIMESTAMP", "PAYLOAD"}
         /\ parserState \in {"EXTENDED_TIMESTAMP", "PAYLOAD"} => channel \in DOMAIN inPackets
<1>1. CASE parserState = "INIT"
  <2>1. handshakeState \in {"UNINIT", "BEGIN", "CONT", "COMP"}
    BY DEF Reached, Shaking
  <2>. QED
    BY <1>1, <2>1
<1>2. CASE handshakeState = "COMP" /\ \E c, p, o : InChunk(c, p, o)
  <2>1. PICK c, p, o : InChunk(c, p, o)
    BY <1>2
  <2>2. HeaderIs(c, p) => channel \in DOMAIN inPackets
    BY DEF HeaderIs
  <2>. QED
    BY <1>2, <2>1, <2>2 DEF InChunk, InBasicHeader, InMessageHeader, InExtendedTimestamp, InPayload
<1>. QED
  BY <1>1, <1>2 DEF Reached, Shaking

LEMMA InvTyped ==
  ASSUME ParserInv
  PROVE  TypeOK
<1>1. PICK S, P, C, n : Explains(S, P, C, n)
  BY Zenon DEF ParserInv
<1>2. /\ begun \in 0..MaxMessages /\ handshakeBytes \in 0..(HandshakeSize - 1)
      /\ parserBuffer \in Seq(Byte) /\ Len(parserBuffer) <= 18 /\ parserBasicBytes \in 0..3
      /\ PacketsOK
  BY Zenon DEF ParserInv, Values
<1>3. Segment(S, P, C, n)
  BY <1>1, Zenon DEF Explains
<1>4. PICK k \in 1..n, x \in Nat : Underway(S, x) /\ Reached(P, C, n, k, x)
  BY <1>1, Zenon DEF Explains
<1>5. wire \in Seq(Byte) /\ data \in Seq(Byte)
  BY <1>4, Zenon DEF Underway
<1>6. PlaceOK(P[n]) /\ PeerIs(P[n]) /\ outSize \in Nat \ {0}
  BY <1>1, PeerPlace
<1>7. \A cid \in DOMAIN open : open[cid].message \in Messages
  <2>1. \A cid \in DOMAIN open : cid \in DOMAIN last /\ open[cid].message = last[cid].message
                                 /\ last[cid].message \in Messages
    BY <1>6, Zenon DEF PlaceOK, PeerIs
  <2>. QED
    BY <2>1, Zenon
<1>8. inChunkSize \in Nat \ {0}
  <2>1. PlaceOK(P[k])
    BY <1>3, ExplainsParts, Zenon
  <2>2. inChunkSize = P[k].size
    <3>1. \A c, p, o : InChunk(c, p, o) => inChunkSize = p.size
      BY DEF InChunk, InBasicHeader, InMessageHeader, InExtendedTimestamp, InPayload, HeaderIs,
             AgreesBut
    <3>2. \A p, busy : AgreesBut(p, busy) => inChunkSize = p.size
      BY DEF AgreesBut
    <3>. QED
      BY <1>4, <3>1, <3>2, Zenon DEF Reached
  <2>. QED
    BY <2>1, <2>2, Zenon DEF PlaceOK
<1>9. /\ handshakeState \in {"UNINIT", "BEGIN", "CONT", "COMP"}
      /\ parserState \in {"INIT", "BASIC_HEADER", "MESSAGE_HEADER", "EXTENDED_TIMESTAMP", "PAYLOAD"}
      /\ parserState \in {"EXTENDED_TIMESTAMP", "PAYLOAD"} => channel \in DOMAIN inPackets
  BY <1>4, StatesTyped
<1>10. ASSUME NEW cid \in DOMAIN inPackets
       PROVE  /\ inPackets[cid].bytes \in 0..inPackets[cid].length
              /\ inPackets[cid].payload \in Seq(Byte)
  <2>1. inPackets[cid].bytes \in 0..inPackets[cid].length
    BY <1>2, <1>3, <1>4, PacketsFit, Zenon
  <2>2. inPackets[cid] \in Packets
    BY <1>2, Zenon DEF PacketsOK
  <2>3. inPackets[cid].payload \in Seq(Byte)
    BY <2>2 DEF Packets
  <2>. QED
    BY <2>1, <2>3
<1>11. Len(parserBuffer) <= MAX_CHUNK_HEADER
  BY <1>2, Zenon DEF MAX_CHUNK_HEADER
<1>. QED
  BY <1>2, <1>5, <1>6, <1>7, <1>8, <1>9, <1>10, <1>11, Zenon DEF TypeOK

LEMMA InvReads ==
  ASSUME ParserInv
  PROVE  ReadsWhatWasSent
<1>1. PICK S, P, C, n : Explains(S, P, C, n)
  BY Zenon DEF ParserInv
<1>2. Segment(S, P, C, n) /\ PeerIs(P[n])
  BY <1>1, Zenon DEF Explains
<1>3. PICK k \in 1..n, x \in Nat : Underway(S, x) /\ Reached(P, C, n, k, x)
  BY <1>1, Zenon DEF Explains
<1>4. received = P[k].sent
  <2>1. \A c, p, o : InChunk(c, p, o) => received = p.sent
    BY DEF InChunk, InBasicHeader, InMessageHeader, InExtendedTimestamp, InPayload, HeaderIs,
           AgreesBut
  <2>2. \A p, busy : AgreesBut(p, busy) => received = p.sent
    BY DEF AgreesBut
  <2>. QED
    BY <1>3, <2>1, <2>2, Zenon DEF Reached
<1>5. Prefix(received, sent)
  <2>1. Prefix(P[k].sent, P[n].sent)
    BY <1>2, ExplainsParts, Zenon
  <2>. QED
    BY <1>2, <1>4, <2>1, Zenon DEF PeerIs
<1>. QED
  BY <1>5, PrefixIsPrefix, Zenon DEF ReadsWhatWasSent

\* S ends o bytes behind p.
EndsBehind(S, p, o) == p.at + o = Len(S)

\* c is all there is of an empty message, and S ends with it.
EndsEmpty(S, c, p, q) ==
  /\ q.at = Len(S) /\ c.message \in Messages /\ c.message.payload = <<>>
  /\ q.size = p.size /\ (q.sent = p.sent \/ q.sent = Append(p.sent, Content(c.message)))

\* A chunk in which no byte is left is the last one, and its message is empty.
LEMMA ChunkUsed ==
  ASSUME NEW S \in Seq(Byte), NEW c, NEW p, PlaceOK(p), NEW q, Follows(S, c, p, q),
         NEW o \in Nat, InChunk(c, p, o), EndsBehind(S, p, o)
  PROVE  EndsEmpty(S, c, p, q)
<1>1. ChunkOK(c, p.size) /\ Moves(c, p, q) /\ HoldsAt(S, p.at, ChunkBytes(c, p.size))
  BY Zenon DEF Follows
<1>2. /\ c.bl \in Nat /\ c.hl \in Nat /\ c.el \in Nat /\ c.part \in Nat
      /\ c.bl <= c.hl /\ c.hl <= c.el /\ c.message \in Messages
      /\ Len(ChunkBytes(c, p.size)) = c.el + c.part
  BY <1>1, ChunkLengths, Zenon
<1>3. PICK at \in Nat, el \in Nat, part \in Nat, end \in Nat :
        /\ at = p.at /\ el = c.el /\ part = c.part /\ end = Len(S) /\ at + (el + part) <= end
        /\ at + o = end
  <2>1. p.at \in Nat /\ p.at + Len(ChunkBytes(c, p.size)) <= Len(S)
    BY <1>1, Zenon DEF HoldsAt
  <2>2. Len(S) \in Nat
    OBVIOUS
  <2>. QED
    BY <1>2, <2>1, <2>2, Zenon DEF EndsBehind
<1>4. PICK bl \in Nat, hl \in Nat : bl = c.bl /\ hl = c.hl /\ bl <= hl /\ hl <= el
  BY <1>2, <1>3, Zenon
<1>5. bl <= hl /\ hl <= el /\ at + (el + part) <= end /\ at + o = end
  BY <1>3, <1>4
<1>6. o <= el \/ \E x \in Nat : o = el + x /\ x < part
  <2>1. CASE InBasicHeader(c, p, o)
    <3>1. o \in 1..bl
      BY <1>4, <2>1, Zenon DEF InBasicHeader
    <3>. QED
      BY <1>5, <3>1
  <2>2. CASE InMessageHeader(c, p, o)
    <3>1. o \in bl..hl
      BY <1>4, <2>2, Zenon DEF InMessageHeader
    <3>. QED
      BY <1>5, <3>1
  <2>3. CASE InExtendedTimestamp(c, p, o)
    <3>1. o \in hl..el
      BY <1>3, <1>4, <2>3, Zenon DEF InExtendedTimestamp
    <3>. QED
      BY <1>5, <3>1
  <2>4. CASE InPayload(c, p, o)
    <3>1. PICK x \in 0..c.part : o = c.el + x /\ (x < c.part \/ c.part = 0)
      BY <2>4, Zenon DEF InPayload
    <3>2. x \in Nat /\ (c.part = 0 => x = 0)
      BY <1>2, <3>1
    <3>3. PICK y \in Nat : y = x /\ o = el + y /\ (y < part \/ part = 0) /\ (part = 0 => y = 0)
      BY <1>3, <3>1, <3>2, Zenon
    <3>. QED
      BY <3>3
  <2>. QED
    BY <2>1, <2>2, <2>3, <2>4, Zenon DEF InChunk
<1>7. part = 0 /\ at + el + part = end
  BY <1>6, <1>5
<1>8. q.at = Len(S)
  <2>1. q.at = p.at + c.el + c.part
    BY <1>1, Zenon DEF Moves
  <2>. QED
    BY <1>3, <1>7, <2>1, Zenon
<1>9. PICK m : m = c.message /\ m \in Messages
  BY <1>2
<1>10. PICK size \in Nat \ {0}, length \in Nat, from \in Nat :
        /\ size = p.size /\ length = Len(m.payload) /\ from = c.from
        /\ from <= length /\ PartOf(m, from, size) = 0
  <2>1. c.from \in 0..Len(m.payload) /\ PartOf(m, c.from, p.size) = 0
    BY <1>1, <1>3, <1>7, <1>9, Zenon DEF ChunkOK
  <2>2. p.size \in Nat \ {0} /\ Len(m.payload) \in Nat
    BY <1>9, MessageProperties DEF PlaceOK
  <2>3. c.from \in Nat /\ c.from <= Len(m.payload)
    BY <2>1, <2>2
  <2>. QED
    BY <2>1, <2>2, <2>3, Zenon
<1>11. from = length
  <2>1. 0 = IF from + size < length THEN size ELSE length - from
    BY <1>10, Zenon DEF PartOf
  <2>2. from <= length
    BY <1>10
  <2>. QED
    BY <2>1, <2>2
<1>12. ~Continues(c, p, q)
  <2>1. SUFFICES ASSUME Continues(c, p, q) PROVE FALSE
    OBVIOUS
  <2>2. m.cid \in DOMAIN p.open /\ p.open[m.cid].message = m /\ p.open[m.cid].from = from
    BY <1>9, <1>10, <2>1, Zenon DEF Continues
  <2>3. from < Len(m.payload)
    BY <2>2, Zenon DEF PlaceOK
  <2>4. from < length
    BY <1>10, <2>3, Zenon
  <2>. QED
    BY <1>11, <2>4
<1>13. from = 0
  <2>1. Starts(c, p, q)
    BY <1>1, <1>12, Zenon DEF Moves
  <2>. QED
    BY <1>10, <2>1, Zenon DEF Starts
<1>14. m.payload = <<>>
  <2>1. Len(m.payload) = 0
    BY <1>10, <1>11, <1>13, Zenon
  <2>2. m.payload \in Seq(Byte)
    BY <1>9, MessageProperties
  <2>. QED
    BY <2>1, <2>2
<1>15. Ends(c, p, q)
  <2>1. length <= from + size
    BY <1>11
  <2>2. Len(c.message.payload) <= c.from + p.size
    BY <1>9, <1>10, <2>1, Zenon
  <2>. QED
    BY <1>1, <2>2, Zenon DEF Moves
<1>16. q.size = p.size
  <2>1. m.type # SET_PACKET_SIZE
    <3>1. SUFFICES ASSUME m.type = SET_PACKET_SIZE PROVE FALSE
      OBVIOUS
    <3>2. Len(m.payload) = 4
      BY <1>9, <3>1, ChunkSizeSet
    <3>. QED
      BY <1>14, <3>2
  <2>. QED
    BY <1>9, <1>15, <2>1, Zenon DEF Ends
<1>17. q.sent = p.sent \/ q.sent = Append(p.sent, Content(m))
  BY <1>9, <1>15, Zenon DEF Ends
<1>. QED
  BY <1>8, <1>9, <1>14, <1>16, <1>17, Zenon DEF EndsEmpty

\* When all bytes are used, nothing but an empty message is left.
LEMMA UsedUp ==
  ASSUME ParserInv, data = <<>>, wire = <<>>
  PROVE  /\ received \in Seq(Contents) /\ inChunkSize = outSize
         /\ \/ received = sent
            \/ \E m \in Messages : m.payload = <<>> /\ sent = Append(received, Content(m))
<1>1. PICK S, P, C, n : Explains(S, P, C, n)
  BY Zenon DEF ParserInv
<1>2. Segment(S, P, C, n) /\ PeerIs(P[n]) /\ Opening(P[1])
  BY <1>1, Zenon DEF Explains
<1>3. PICK k \in 1..n, x \in Nat : Underway(S, x) /\ Reached(P, C, n, k, x)
  BY <1>1, Zenon DEF Explains
<1>4. x = Len(S) /\ S \in Seq(Byte)
  BY <1>3 DEF Underway
<1>5. /\ PlaceOK(P[k]) /\ P[k].sent \in Seq(Contents) /\ P[n].at = Len(S)
      /\ k # n => k + 1 \in 1..n /\ Follows(S, C[k], P[k], P[k + 1])
  BY <1>2, ExplainsParts, PrefixTyped, Zenon
<1>6. ASSUME NEW i \in 1..n, ~(P[i].at < Len(S)) PROVE i = n
  <2>1. SUFFICES ASSUME i # n PROVE FALSE
    OBVIOUS
  <2>2. Follows(S, C[i], P[i], P[i + 1])
    BY <1>2, <2>1, ExplainsParts, Zenon
  <2>. QED
    BY <1>4, <1>6, <2>2, FollowsBefore, Zenon
<1>7. ~(Len(S) < Len(S)) /\ Len(S) \in Nat
  BY <1>4
<1>8. CASE k = 1 /\ Shaking(x)
  <2>1. PICK h \in Nat, b \in Nat : h = HandshakeSize /\ b = handshakeBytes /\ b < h
    <3>1. HandshakeSize \in Nat \ {0} /\ handshakeBytes \in 0..(HandshakeSize - 1)
      BY SizesAssumption, Zenon DEF ParserInv, Values
    <3>2. HandshakeSize \in Nat /\ handshakeBytes \in Nat /\ handshakeBytes < HandshakeSize
      BY <3>1
    <3>. QED
      BY <3>2, Zenon
  <2>2. x = 0 \/ x = 1 + b \/ x = 1 + h + b
    BY <1>8, <2>1, Zenon DEF Shaking
  <2>3. x < 2 * h + 1
    BY <2>1, <2>2
  <2>4. P[1].at = 2 * h + 1
    BY <1>2, <2>1, Zenon DEF Opening
  <2>5. 1 \in 1..n
    BY <1>2, ExplainsParts, Zenon
  <2>6. Len(S) < P[1].at
    BY <1>4, <2>3, <2>4, Zenon
  <2>7. ~(P[1].at < Len(S)) /\ P[1].at # Len(S)
    BY <1>7, <2>4, <2>6
  <2>8. P[1].at = Len(S)
    BY <1>5, <1>6, <2>5, <2>7, Zenon
  <2>. QED
    BY <2>7, <2>8
<1>9. CASE x = P[k].at /\ AgreesBut(P[k], {})
  <2>1. k = n
    BY <1>4, <1>6, <1>7, <1>9, Zenon
  <2>2. received = P[k].sent /\ inChunkSize = P[k].size
    BY <1>9, Zenon DEF AgreesBut
  <2>. QED
    BY <1>2, <1>5, <2>1, <2>2, Zenon DEF PeerIs
<1>10. CASE k # n /\ \E o \in Nat : x = P[k].at + o /\ InChunk(C[k], P[k], o)
  <2>1. PICK o \in Nat : x = P[k].at + o /\ InChunk(C[k], P[k], o)
    BY <1>10
  <2>2. PICK c, p, q : c = C[k] /\ p = P[k] /\ q = P[k + 1]
    OBVIOUS
  <2>3. PlaceOK(p) /\ Follows(S, c, p, q) /\ InChunk(c, p, o) /\ EndsBehind(S, p, o)
    BY <1>4, <1>5, <1>10, <2>1, <2>2, Zenon DEF EndsBehind
  <2>4. /\ q.at = Len(S) /\ c.message \in Messages /\ c.message.payload = <<>>
        /\ q.size = p.size /\ (q.sent = p.sent \/ q.sent = Append(p.sent, Content(c.message)))
    <3>1. S \in Seq(Byte)
      BY <1>4
    <3>2. EndsEmpty(S, c, p, q)
      BY <2>3, <3>1, ChunkUsed
    <3>. QED
      BY <3>2, Zenon DEF EndsEmpty
  <2>5. q = P[n]
    <3>1. k + 1 \in 1..n /\ ~(P[k + 1].at < Len(S))
      BY <1>5, <1>7, <1>10, <2>2, <2>4, Zenon
    <3>2. k + 1 = n
      BY <1>6, <3>1, Zenon
    <3>. QED
      BY <2>2, <3>2, Zenon
  <2>6. received = p.sent /\ inChunkSize = p.size
    BY <2>3 DEF InChunk, InBasicHeader, InMessageHeader, InExtendedTimestamp, InPayload, HeaderIs,
                AgreesBut
  <2>7. inChunkSize = outSize /\ received \in Seq(Contents)
    BY <1>2, <1>5, <2>2, <2>4, <2>5, <2>6, Zenon DEF PeerIs
  <2>8. received = sent \/ sent = Append(received, Content(c.message))
    BY <1>2, <2>4, <2>5, <2>6, Zenon DEF PeerIs
  <2>. QED
    BY <2>4, <2>7, <2>8, Zenon
<1>. QED
  BY <1>3, <1>8, <1>9, <1>10, Zenon DEF Reached

LEMMA InvHeldBack ==
  ASSUME ParserInv
  PROVE  NothingHeldBack /\ ChunkSizesAgree
<1>1. ASSUME data = <<>>, wire = <<>>, received # sent
      PROVE  received = Front(sent) /\ sent[Len(sent)].payload = <<>>
  <2>1. received \in Seq(Contents)
    BY <1>1, UsedUp, Zenon
  <2>2. PICK m \in Messages : m.payload = <<>> /\ sent = Append(received, Content(m))
    BY <1>1, UsedUp, Zenon
  <2>3. PICK e \in Contents : e = Content(m) /\ e.payload = <<>>
    BY <2>2 DEF Contents, Content
  <2>4. sent = Append(received, e)
    BY <2>2, <2>3, Zenon
  <2>5. Front(sent) = received /\ sent[Len(sent)] = e
    <3>1. PICK s \in Seq(Contents) : s = received
      BY <2>1
    <3>2. Front(Append(s, e)) = SubSeq(Append(s, e), 1, Len(Append(s, e)) - 1)
      BY DEF Front
    <3>3. Append(s, e)[Len(Append(s, e))] = e /\ Len(Append(s, e)) - 1 = Len(s)
      OBVIOUS
    <3>4. SubSeq(Append(s, e), 1, Len(s)) = s
      OBVIOUS
    <3>. QED
      BY <2>4, <3>1, <3>2, <3>3, <3>4, Zenon
  <2>. QED
    BY <2>3, <2>5, Zenon
<1>2. ASSUME data = <<>>, wire = <<>>
      PROVE  inChunkSize = outSize
  BY <1>2, UsedUp, Zenon
<1>. QED
  BY <1>1, <1>2, Zenon DEF NothingHeldBack, ChunkSizesAgree

-----------------------------------------------------------------------------
(* A handler that throws                                                       *)

\* What is left to say of a process that has ended
Stopped == TypeOK /\ ReadsWhatWasSent

RunInv ==
  \/ running = TRUE /\ ParserInv
  \/ running = FALSE /\ Stopped

\* The peer and the parser wait for a process that has ended.
LEMMA StoppedStays ==
  ASSUME running = FALSE, [Next]_vars
  PROVE  UNCHANGED vars
<1>1. ~BeginMessage /\ ~ContinueMessage /\ ~SendChunks
  BY DEF BeginMessage, ContinueMessage, SendChunks, Write
<1>2. ~LostConnection /\ ~Feed /\ ~ReadVersion
  BY DEF LostConnection, Feed, ReadVersion
<1>3. ASSUME NEW state, NEW next, ReadSignature(state, next) PROVE FALSE
  BY <1>3 DEF ReadSignature
<1>4. ~ReadFirstByte /\ ~ReadBasicHeader /\ ~ReadMessageHeader /\ ~ReadExtendedTimestamp
      /\ ~ReadPayload
  BY DEF ReadFirstByte, ReadBasicHeader, ReadMessageHeader, ReadExtendedTimestamp, ReadPayload,
         Reading
<1>. QED
  BY <1>1, <1>2, <1>3, <1>4, Zenon DEF Next, Peer, Parse

\* Only a message that is read completely ends it.
LEMMA EndsInPayload ==
  ASSUME running = TRUE, [Next]_vars
  PROVE  running' = TRUE \/ (ReadPayload /\ running' = FALSE)
<1>1. CASE UNCHANGED vars
  BY <1>1 DEF vars
<1>2. CASE Peer
  <2>1. running' = running
    BY <1>2 DEF Peer, BeginMessage, ContinueMessage, SendChunks, LostConnection
  <2>. QED
    BY <2>1
<1>3. CASE Feed
  BY <1>3 DEF Feed
<1>4. CASE Parse /\ ~ReadPayload
  <2>1. running' = running
    BY <1>4 DEF Parse, ReadVersion, ReadSignature, ReadFirstByte, ReadBasicHeader,
                ReadMessageHeader, ReadExtendedTimestamp
  <2>. QED
    BY <2>1
<1>5. CASE ReadPayload
  <2>1. running' = FALSE \/ running' = running
    <3>1. PICK b, packet :
            IF b THEN Handle(packet) ELSE UNCHANGED <<received, inChunkSize, running>>
      BY <1>5, Zenon DEF ReadPayload
    <3>. QED
      BY <3>1, Zenon DEF Handle
  <2>. QED
    BY <1>5, <2>1
<1>. QED
  BY <1>1, <1>2, <1>3, <1>4, <1>5 DEF Next

\* What the last step of the process leaves
LEMMA ThrowStep ==
  ASSUME ParserInv, ReadPayload, running = TRUE, running' = FALSE
  PROVE  Stopped'
<1>1. TypeOK /\ ReadsWhatWasSent
  BY InvTyped, InvReads
<1>2. PICK packet, filled, n :
        /\ packet = inPackets[channel]
        /\ n = Least(Least(inChunkSize - (packet.bytes % inChunkSize), packet.length - packet.bytes),
                     Len(data))
        /\ filled = [packet EXCEPT !.payload = SubSeq(packet.payload, 1, packet.bytes) \o SubSeq(data, 1, n),
                                   !.bytes = IF packet.bytes + n >= packet.length THEN 0 ELSE packet.bytes + n]
        /\ Use(n) /\ inPackets' = [inPackets EXCEPT ![channel] = filled]
        /\ parserState' = (IF packet.bytes + n >= packet.length \/ (packet.bytes + n) % inChunkSize = 0
                             THEN "INIT" ELSE parserState)
        /\ IF packet.bytes + n >= packet.length THEN Handle(filled)
                                                ELSE UNCHANGED <<received, inChunkSize, running>>
  BY DEF ReadPayload
<1>3. /\ parserState = "PAYLOAD"
      /\ UNCHANGED <<wire, open, last, outSize, begun, sent, handshakeState, handshakeBytes,
                     parserBuffer, parserBasicBytes, channel>>
  BY DEF ReadPayload, Reading, peerVars, handshakeVars, headerVars
<1>4. packet.bytes + n >= packet.length /\ Handle(filled)
  BY <1>2
<1>5. UNCHANGED <<received, inChunkSize>>
  <2>1. running' # running
    OBVIOUS
  <2>. QED
    BY <1>4, <2>1, Zenon DEF Handle
<1>6. parserState' = "INIT"
  BY <1>2, <1>4
<1>7. packet \in Packets /\ channel \in DOMAIN inPackets /\ packet.bytes \in 0..Len(packet.payload)
  <2>1. channel \in DOMAIN inPackets
    BY <1>1, <1>3 DEF TypeOK
  <2>2. packet \in Packets
    BY <1>2, <2>1, Zenon DEF ParserInv, Values, PacketsOK
  <2>3. PICK c, p, o : InPayload(c, p, o)
    <3>1. PICK P, C, n1, k, x : Reached(P, C, n1, k, x)
      BY Zenon DEF ParserInv, Explains
    <3>2. \E c, p, o : InChunk(c, p, o)
      BY <1>3, <3>1 DEF Reached, Shaking
    <3>3. PICK c, p, o : InChunk(c, p, o)
      BY <3>2
    <3>4. InPayload(c, p, o)
      BY <1>3, <3>3 DEF InChunk, InBasicHeader, InMessageHeader, InExtendedTimestamp
    <3>. QED
      BY <3>4
  <2>4. PICK m, count : Filled(packet, m, count)
    BY <1>2, <2>3, Zenon DEF InPayload
  <2>. QED
    BY <2>1, <2>2, <2>4, Zenon DEF Filled
<1>8. packet.bytes \in Nat /\ packet.length \in Nat /\ packet.payload \in Seq(Byte)
      /\ packet.bytes <= packet.length
  <2>1. packet.bytes \in 0..packet.length
    BY <1>1, <1>2, <1>7, Zenon DEF TypeOK
  <2>2. packet.length \in Nat /\ packet.payload \in Seq(Byte)
    BY <1>7 DEF Packets
  <2>. QED
    BY <2>1, <2>2
<1>9. data \in Seq(Byte) /\ inChunkSize \in Nat \ {0}
  BY <1>1, Zenon DEF TypeOK
<1>10. n \in 0..Len(data)
  <2>1. PICK r \in Nat, size \in Nat : size = inChunkSize /\ r = packet.bytes % size /\ r < size
    BY <1>8, <1>9, DivisionProperties
  <2>2. PICK l \in Nat, d \in Nat : l = Len(data) /\ d = packet.length - packet.bytes
    BY <1>8, <1>9
  <2>3. n = Least(Least(size - r, d), l)
    BY <1>2, <2>1, <2>2, Zenon
  <2>4. n \in 0..l
    BY <2>1, <2>3 DEF Least
  <2>. QED
    BY <2>2, <2>4, Zenon
<1>11. data' \in Seq(Byte) /\ SubSeq(data, 1, n) \in Seq(Byte)
  BY <1>2, <1>9, <1>10 DEF Use
<1>12. filled.bytes = 0 /\ filled.length = packet.length /\ filled.payload \in Seq(Byte)
  <2>1. SubSeq(packet.payload, 1, packet.bytes) \in Seq(Byte)
    BY <1>7, <1>8
  <2>2. PICK w \in Seq(Byte) : w = SubSeq(packet.payload, 1, packet.bytes) \o SubSeq(data, 1, n)
    <3>1. PICK u \in Seq(Byte), v \in Seq(Byte) :
            u = SubSeq(packet.payload, 1, packet.bytes) /\ v = SubSeq(data, 1, n)
      BY <1>11, <2>1, Zenon
    <3>2. u \o v \in Seq(Byte)
      OBVIOUS
    <3>. QED
      BY <3>1, <3>2, Zenon
  <2>3. filled = [packet EXCEPT !.payload = w, !.bytes = 0]
    BY <1>2, <1>4, <2>2, Zenon
  <2>. QED
    BY <1>7, <2>2, <2>3 DEF Packets
<1>13. ASSUME NEW cid \in DOMAIN inPackets'
       PROVE  /\ inPackets'[cid].bytes \in 0..inPackets'[cid].length
              /\ inPackets'[cid].payload \in Seq(Byte)
  <2>1. cid \in DOMAIN inPackets
    BY <1>2, <1>13
  <2>2. CASE cid = channel
    <3>1. inPackets'[cid] = filled
      BY <1>2, <1>7, <2>2
    <3>2. 0 \in 0..packet.length
      BY <1>8
    <3>. QED
      BY <1>12, <3>1, <3>2, Zenon
  <2>3. CASE cid # channel
    <3>1. inPackets'[cid] = inPackets[cid]
      BY <1>2, <2>1, <2>3
    <3>. QED
      BY <1>1, <2>1, <3>1, Zenon DEF TypeOK
  <2>. QED
    BY <2>2, <2>3
<1>14. TypeOK'
  BY <1>1, <1>3, <1>5, <1>6, <1>11, <1>13, Zenon DEF TypeOK
<1>15. ReadsWhatWasSent'
  BY <1>1, <1>3, <1>5, Zenon DEF ReadsWhatWasSent
<1>. QED
  BY <1>14, <1>15, Zenon DEF Stopped

\* Whatever the parser did is explained by chunks that the peer wrote, as long as
\* no handler throws.
THEOREM ParserInvariant ==
  ASSUME LostAnywhere = FALSE
  PROVE  Spec => []RunInv
<1>1. Init => RunInv
  <2>1. Init => running = TRUE
    BY DEF Init
  <2>. QED
    BY <2>1, InitExplained, Zenon DEF RunInv
<1>2. ASSUME RunInv, [Next]_vars
      PROVE  RunInv'
  <2>1. CASE running = TRUE /\ ParserInv
    <3>1. CASE running' = TRUE
      BY <1>2, <2>1, <3>1, Inductive, Zenon DEF RunInv
    <3>2. CASE ReadPayload /\ running' = FALSE
      BY <2>1, <3>2, ThrowStep, Zenon DEF RunInv
    <3>. QED
      BY <1>2, <2>1, <3>1, <3>2, EndsInPayload, Zenon
  <2>2. CASE running = FALSE /\ Stopped
    <3>1. UNCHANGED vars
      BY <1>2, <2>2, StoppedStays, Zenon
    <3>2. running' = running /\ (TypeOK <=> TypeOK') /\ (ReadsWhatWasSent <=> ReadsWhatWasSent')
      BY <3>1 DEF vars, peerVars, handshakeVars, headerVars, TypeOK, ReadsWhatWasSent
    <3>. QED
      BY <2>2, <3>2, Zenon DEF RunInv, Stopped
  <2>. QED
    BY <1>2, <2>1, <2>2, Zenon DEF RunInv
<1>. QED
  BY <1>1, <1>2, PTL DEF Spec

\* The variables keep their types, no header exceeds parserBuffer, and no payload
\* the length its header named (chunkRead).
THEOREM TypeCorrect ==
  ASSUME LostAnywhere = FALSE
  PROVE  Spec => []TypeOK
<1>1. Spec => []RunInv
  BY ParserInvariant, Zenon
<1>2. RunInv => TypeOK
  BY InvTyped, Zenon DEF RunInv, Stopped
<1>. QED
  BY <1>1, <1>2, PTL

\* Whatever formats, channels and chunk sizes the peer uses, and wherever the network
\* cuts its bytes, what packetHandler hands on is what was sent, in the order in which
\* the messages were completed. Connections are lost only in the handshake, or with
\* nothing in progress and the first chunk size (LostConnection).
THEOREM MessagesAreRead ==
  ASSUME LostAnywhere = FALSE
  PROVE  Spec => []ReadsWhatWasSent
<1>1. Spec => []RunInv
  BY ParserInvariant, Zenon
<1>2. RunInv => ReadsWhatWasSent
  BY InvReads, Zenon DEF RunInv, Stopped
<1>. QED
  BY <1>1, <1>2, PTL

\* A call of feed() that returns leaves nothing that it could handle, but for an
\* empty message that comes last.
THEOREM NothingIsHeldBack ==
  ASSUME LostAnywhere = FALSE
  PROVE  Spec => []NothingHeldBack
<1>1. Spec => []RunInv
  BY ParserInvariant, Zenon
<1>2. RunInv => NothingHeldBack
  <2>1. CASE running = TRUE
    BY <2>1, InvHeldBack, Zenon DEF RunInv
  <2>2. CASE running = FALSE
    BY <2>2 DEF NothingHeldBack
  <2>. QED
    BY <2>1, <2>2, Zenon DEF RunInv
<1>. QED
  BY <1>1, <1>2, PTL

\* With all read and no exception, the parser cuts chunks where the peer does (SET_PACKET_SIZE).
THEOREM ChunkSizesAreAgreed ==
  ASSUME LostAnywhere = FALSE
  PROVE  Spec => []ChunkSizesAgree
<1>1. Spec => []RunInv
  BY ParserInvariant, Zenon
<1>2. RunInv => ChunkSizesAgree
  <2>1. CASE running = TRUE
    BY <2>1, InvHeldBack, Zenon DEF RunInv
  <2>2. CASE running = FALSE
    BY <2>2 DEF ChunkSizesAgree
  <2>. QED
    BY <2>1, <2>2, Zenon DEF RunInv
<1>. QED
  BY <1>1, <1>2, PTL

=============================================================================
