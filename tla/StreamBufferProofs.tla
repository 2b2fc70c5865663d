------------------------- MODULE StreamBufferProofs -------------------------
(***************************************************************************)
(* StreamBuffer keeps the stream in order and implements StreamLog, for    *)
(* any packets, delays, bounds and clock, one that is set back included;   *)
(* and with a regular encoder, and time that goes forward, its window is   *)
(* always one that can be decoded.                                         *)
(***************************************************************************)
EXTENDS StreamBuffer, StreamChunksProofs

\* The inductive invariant.  That both queues are suffixes of the stream is
\* not inductive alone: a rewind compares ids, so the ids must number the
\* chunks, and the window must be empty before its first key frame, or the
\* chunks pushed meanwhile would be missing from it.
IInv ==
  /\ TypeOK
  /\ Numbered(log)
  /\ StoredInOrder
  /\ ~isDelayBufferActive => delayBuffer = <<>>

-----------------------------------------------------------------------------
\* A push appends one chunk to the log and the queue, and the window is a
\* suffix of what it was with the chunk appended.
LEMMA PushStep ==
  ASSUME IInv, NEW p \in Packets, PushToBuffer(p.codec, p.flags, p.len)
  PROVE  /\ IInv'
         /\ \E c \in ChunkData : log' = Append(log, c)
         /\ Len(log') = Len(log) + 1
         /\ Len(buffer') = Len(buffer) + 1
         /\ Len(delayBuffer') <= Len(delayBuffer) + 1
         /\ readyChunks' = <<>> /\ state' = state
<1>. DEFINE c == [id |-> CURRENT_ID, time |-> now, len |-> p.len,
                  keyFrame |-> StartsKeyFrame(CURRENT_ID, p.codec, p.flags, lastFlags)]
            w == IF isDelayBufferActive \/ c.keyFrame
                   THEN Append(delayBuffer, c) ELSE delayBuffer
            I == {i \in 1..Len(w) : IsTrimPoint(w, i) /\ now - w[i].time <= delay}
<1>1. p \in [codec : STRING, flags : STRING, len : 1..MaxLen]
  BY PacketsAssumption
<1>2. Len(log) \in Nat /\ Len(buffer) \in Nat /\ Len(delayBuffer) \in Nat
  BY LenProperties DEF IInv, TypeOK
<1>3. c \in ChunkData
  BY <1>1, <1>2, BoundsAssumption
     DEF PushToBuffer, ChunkData, CURRENT_ID, IInv, TypeOK, StartsKeyFrame
<1>4. /\ log' = Append(log, c)
      /\ buffer' = Append(buffer, c)
      /\ totalLength' = totalLength + p.len
      /\ isDelayBufferActive' = (isDelayBufferActive \/ c.keyFrame)
      /\ delayBuffer' = (IF state = "REWIND" THEN w ELSE Trimmed(w, now, delay))
      /\ lastFlags' = p.flags
      /\ readyChunks' = <<>>
      /\ UNCHANGED <<state, delay, now>>
  BY DEF PushToBuffer
<1>5. c.keyFrame \in BOOLEAN /\ c.id = Len(log)
  BY DEF StartsKeyFrame, CURRENT_ID
<1>. HIDE DEF c
<1>6. /\ log' \in Seq(ChunkData) /\ buffer' \in Seq(ChunkData)
      /\ Len(log') = Len(log) + 1 /\ Len(buffer') = Len(buffer) + 1
      /\ \A i \in 1..Len(log) : log'[i] = log[i]
      /\ log'[Len(log) + 1] = c
  BY <1>3, <1>4, AppendProperties DEF IInv, TypeOK
<1>7. IsSuffixOf(buffer', log')
  BY <1>3, <1>4, AppendSuffix DEF IInv, TypeOK, StoredInOrder
<1>8. w \in Seq(ChunkData) /\ IsSuffixOf(w, log') /\ Len(w) <= Len(delayBuffer) + 1
  <2>1. CASE isDelayBufferActive \/ c.keyFrame
    <3>1. w = Append(delayBuffer, c)
      BY <2>1
    <3>2. IsSuffixOf(Append(delayBuffer, c), Append(log, c))
      BY <1>3, AppendSuffix DEF IInv, TypeOK, StoredInOrder
    <3>3. Append(delayBuffer, c) \in Seq(ChunkData) /\ Len(Append(delayBuffer, c)) = Len(delayBuffer) + 1
      BY <1>3, AppendProperties DEF IInv, TypeOK
    <3>. QED
      BY <1>2, <1>4, <3>1, <3>2, <3>3
  <2>2. CASE ~(isDelayBufferActive \/ c.keyFrame)
    <3>1. w = <<>>
      BY <2>2 DEF IInv
    <3>. HIDE DEF w
    <3>2. w \in Seq(ChunkData) /\ Len(w) = 0
      BY <3>1, EmptySeq
    <3>. QED
      BY <1>2, <1>6, <3>2 DEF IsSuffixOf
  <2>. QED
    BY <2>1, <2>2
<1>9. ~(isDelayBufferActive \/ c.keyFrame) => w = <<>>
  BY DEF IInv
<1>. HIDE DEF w
<1>10. /\ delayBuffer' \in Seq(ChunkData) /\ IsSuffixOf(delayBuffer', log')
       /\ IsSuffixOf(delayBuffer', w)
  <2>1. CASE state = "REWIND"
    <3>1. IsSuffixOf(w, w)
      <4>1. Len(w) \in Nat
        BY <1>8, LenProperties
      <4>. QED
        BY <4>1 DEF IsSuffixOf
    <3>. QED
      BY <1>4, <1>8, <2>1, <3>1
  <2>2. CASE state # "REWIND"
    <3>1. delayBuffer' = FromFirst(w, I)
      BY <1>4, <2>2 DEF Trimmed
    <3>2. I \in SUBSET (1..Len(w))
      OBVIOUS
    <3>. HIDE DEF I
    <3>. QED
      BY <1>6, <1>8, <3>1, <3>2, SuffixOfSuffix
  <2>. QED
    BY <2>1, <2>2
<1>11. Len(delayBuffer') <= Len(delayBuffer) + 1
  <2>1. Len(delayBuffer') \in Nat /\ Len(w) \in Nat
    BY <1>8, <1>10, LenProperties
  <2>. QED
    BY <1>2, <1>8, <1>10, <2>1 DEF IsSuffixOf
<1>12. Numbered(log')
  BY <1>2, <1>5, <1>6 DEF Numbered, IInv
<1>13. ~isDelayBufferActive' => delayBuffer' = <<>>
  <2>1. SUFFICES ASSUME ~isDelayBufferActive' PROVE delayBuffer' = <<>>
    OBVIOUS
  <2>2. w = <<>>
    BY <1>4, <1>9, <2>1
  <2>3. Len(delayBuffer') = 0
    <3>1. Len(delayBuffer') \in Nat
      BY <1>10, LenProperties
    <3>. QED
      BY <1>10, <2>2, <3>1 DEF IsSuffixOf
  <2>. QED
    BY <1>10, <2>3, EmptySeq
<1>14. TypeOK'
  BY <1>1, <1>4, <1>5, <1>6, <1>10 DEF TypeOK, IInv
<1>. QED
  BY <1>3, <1>4, <1>6, <1>7, <1>10, <1>11, <1>12, <1>13, <1>14 DEF IInv, StoredInOrder

-----------------------------------------------------------------------------
\* A tick on a queue that is a suffix of the log plays what comes first in
\* it, and all of it in REALTIME.
LEMMA RelayStep ==
  ASSUME IInv, NEW queue \in Seq(ChunkData), IsSuffixOf(queue, log),
         NEW bytes \in Int, NEW mode \in States, RelayReady(queue, bytes, mode)
  PROVE  /\ IInv'
         /\ log' = log /\ delayBuffer' = delayBuffer /\ state' = mode
         /\ Len(buffer') \in 0..Len(queue)
         /\ readyChunks' = SubSeq(log, Len(log) - Len(queue) + 1, Len(log) - Len(buffer'))
         /\ mode = "REALTIME" => Len(buffer') = 0
<1>. DEFINE rest == NotReady(queue, mode, now, delay)
            I == {i \in 1..Len(queue) : mode # "REALTIME" /\ now - queue[i].time <= delay}
            ready == SubSeq(queue, 1, Len(queue) - Len(rest))
<1>1. /\ buffer' = rest
      /\ readyChunks' = ready
      /\ totalLength' = bytes - Bytes(ready)
      /\ state' = mode
      /\ UNCHANGED <<log, delayBuffer, isDelayBufferActive, lastFlags, delay, now>>
  BY DEF RelayReady
<1>2. rest = FromFirst(queue, I)
  BY DEF NotReady
<1>3. I \in SUBSET (1..Len(queue))
  OBVIOUS
<1>4. mode = "REALTIME" => I = {}
  OBVIOUS
<1>. HIDE DEF I, rest
<1>5. /\ rest \in Seq(ChunkData)
      /\ IsSuffixOf(rest, queue)
      /\ IsSuffixOf(rest, log)
  BY <1>2, <1>3, SuffixOfSuffix DEF IInv, TypeOK
<1>6. Len(rest) \in Nat /\ Len(queue) \in Nat /\ Len(log) \in Nat
  BY <1>5, LenProperties DEF IInv, TypeOK
<1>7. Len(rest) <= Len(queue) /\ Len(queue) <= Len(log)
  BY <1>5 DEF IsSuffixOf
<1>8. /\ ready \in Seq(ChunkData)
      /\ Len(ready) = Len(queue) - Len(rest)
      /\ \A i \in 1..(Len(queue) - Len(rest)) : ready[i] = queue[i]
  BY <1>5, PrefixProperties
<1>9. Bytes(ready) \in Nat
  BY <1>8, BytesType
<1>. HIDE DEF ready
<1>10. TypeOK'
  <2>1. totalLength' \in Int
    BY <1>1, <1>9
  <2>2. /\ log' \in Seq(ChunkData) /\ buffer' \in Seq(ChunkData)
        /\ delayBuffer' \in Seq(ChunkData) /\ readyChunks' \in Seq(ChunkData)
    BY <1>1, <1>5, <1>8 DEF TypeOK, IInv
  <2>3. isDelayBufferActive' \in BOOLEAN
    BY <1>1 DEF TypeOK, IInv
  <2>4. /\ lastFlags' \in {"undefined"} \cup {p.flags : p \in Packets}
        /\ state' \in States
        /\ delay' \in Delays /\ now' \in 0..MaxTime
    BY <1>1 DEF TypeOK, IInv
  <2>. QED
    BY <2>1, <2>2, <2>3, <2>4 DEF TypeOK
<1>11. IInv'
  BY <1>1, <1>5, <1>10 DEF IInv, StoredInOrder, Numbered, IsSuffixOf
<1>12. readyChunks' = SubSeq(log, Len(log) - Len(queue) + 1, Len(log) - Len(buffer'))
  <2>. DEFINE m == Len(log) - Len(queue) + 1
              n == Len(log) - Len(rest)
  <2>1. m \in 1..(Len(log) + 1) /\ n \in 0..Len(log) /\ n - m + 1 = Len(queue) - Len(rest)
    BY <1>6, <1>7
  <2>2. \A i \in m..n : log[i] \in ChunkData
    <3>1. \A i \in m..n : i \in 1..Len(log)
      BY <1>6, <2>1
    <3>. QED
      BY <3>1, ElementOfSeq DEF IInv, TypeOK
  <2>3. m \in Int /\ n \in Int
    BY <2>1
  <2>. HIDE DEF m, n
  <2>4. /\ SubSeq(log, m, n) \in Seq(ChunkData)
        /\ Len(SubSeq(log, m, n)) = IF m <= n THEN n - m + 1 ELSE 0
        /\ \A i \in 1..(n - m + 1) : SubSeq(log, m, n)[i] = log[m + i - 1]
    BY <2>2, <2>3, SubSeqProperties
  <2>5. Len(SubSeq(log, m, n)) = Len(ready)
    BY <1>6, <1>7, <1>8, <2>1, <2>4
  <2>6. ASSUME NEW i \in 1..Len(ready)
        PROVE  ready[i] = SubSeq(log, m, n)[i]
    <3>1. i \in 1..Len(queue) /\ i \in 1..(n - m + 1)
      BY <1>6, <1>7, <1>8, <2>1
    <3>2. queue[i] = log[Len(log) - Len(queue) + i]
      BY <3>1 DEF IsSuffixOf
    <3>3. m + i - 1 = Len(log) - Len(queue) + i
      BY <1>6 DEF m
    <3>. QED
      BY <1>8, <2>1, <2>4, <3>1, <3>2, <3>3
  <2>7. ready = SubSeq(log, m, n)
    BY <1>8, <2>4, <2>5, <2>6, SeqEqual
  <2>. QED
    BY <1>1, <2>7 DEF m, n
<1>13. mode = "REALTIME" => Len(buffer') = 0
  <2>1. SUFFICES ASSUME mode = "REALTIME" PROVE Len(buffer') = 0
    OBVIOUS
  <2>2. FromFirst(queue, {}) = <<>>
    BY DEF FromFirst, IsLeast
  <2>. QED
    BY <1>1, <1>2, <1>4, <2>1, <2>2, EmptySeq
<1>. QED
  BY <1>1, <1>6, <1>7, <1>11, <1>12, <1>13

-----------------------------------------------------------------------------
\* The other steps leave the stream alone.
LEMMA QuietStep ==
  ASSUME IInv, UNCHANGED streamVars, readyChunks' = <<>>,
         state' \in States, delay' \in Delays, now' \in 0..MaxTime
  PROVE  IInv'
<1>1. /\ log' = log /\ buffer' = buffer /\ delayBuffer' = delayBuffer
      /\ totalLength' = totalLength /\ lastFlags' = lastFlags
      /\ isDelayBufferActive' = isDelayBufferActive
  BY DEF streamVars
<1>2. <<>> \in Seq(ChunkData)
  BY EmptySeq
<1>3. TypeOK'
  BY <1>1, <1>2 DEF TypeOK, IInv
<1>. QED
  BY <1>1, <1>3 DEF IInv, StoredInOrder, Numbered, IsSuffixOf

\* A step that is neither a push nor a tick is quiet.
LEMMA EnvironmentStep ==
  ASSUME IInv,
         ActivateDelay \/ DeactivateDelay \/ SetDelay \/ AdvanceClock \/ SetClockBack
  PROVE  /\ UNCHANGED streamVars
         /\ readyChunks' = <<>>
         /\ state' = state \/ state' \in {"REWIND", "FORWARD"}
         /\ IInv'
<1>1. /\ UNCHANGED streamVars
      /\ readyChunks' = <<>>
      /\ state' = state \/ state' \in {"REWIND", "FORWARD"}
  BY DEF ActivateDelay, DeactivateDelay, SetDelay, AdvanceClock, SetClockBack
<1>2. state' \in States
  BY <1>1 DEF States, IInv, TypeOK
<1>3. delay' \in Delays
  BY DEF ActivateDelay, DeactivateDelay, SetDelay, AdvanceClock, SetClockBack, IInv, TypeOK
<1>4. now' \in 0..MaxTime
  BY BoundsAssumption
     DEF ActivateDelay, DeactivateDelay, SetDelay, AdvanceClock, SetClockBack, IInv, TypeOK
<1>. QED
  BY <1>1, <1>2, <1>3, <1>4, QuietStep

\* What a tick plays, as the abstract specification sees it: a stretch of
\* the log from where the queue started, which is where the relay was, or
\* further back at a rewind, or further on at a forward.
LEMMA TickStep ==
  ASSUME IInv, CheckChunks
  PROVE  /\ IInv'
         /\ Log!Continue \/ Log!Rewind \/ Log!Forward
<1>. DEFINE longer == IF Len(delayBuffer) > Len(buffer) THEN delayBuffer ELSE buffer
<1>1. /\ Len(log) \in Nat /\ Len(buffer) \in Nat /\ Len(delayBuffer) \in Nat
      /\ Len(buffer) <= Len(log) /\ Len(delayBuffer) <= Len(log)
  BY LenProperties DEF IInv, TypeOK, StoredInOrder, IsSuffixOf
<1>2. CASE ServeRewind
  <2>1. Rewound(buffer, delayBuffer) = longer
    BY RewoundIsTheLonger DEF IInv, TypeOK, StoredInOrder
  <2>2. longer \in Seq(ChunkData) /\ IsSuffixOf(longer, log)
    BY DEF IInv, TypeOK, StoredInOrder
  <2>3. PICK n \in Nat : n = Bytes(Pick(delayBuffer, Missing(buffer, delayBuffer)))
    <3>1. /\ Missing(buffer, delayBuffer) = 1..Surplus(buffer, delayBuffer)
          /\ Surplus(buffer, delayBuffer) \in 0..Len(delayBuffer)
      BY MissingIsPrefix DEF IInv, TypeOK, StoredInOrder
    <3>2. Pick(delayBuffer, Missing(buffer, delayBuffer))
            = SubSeq(delayBuffer, 1, Surplus(buffer, delayBuffer))
      BY <3>1, PickPrefix DEF IInv, TypeOK
    <3>3. PICK k \in 0..Len(delayBuffer) : k = Surplus(buffer, delayBuffer)
      BY <3>1
    <3>4. \A i \in 1..k : delayBuffer[i] \in ChunkData
      BY <1>1, ElementOfSeq DEF IInv, TypeOK
    <3>5. SubSeq(delayBuffer, 1, k) \in Seq(ChunkData)
      BY <1>1, <3>4, SubSeqProperties
    <3>. QED
      BY <3>2, <3>3, <3>5, BytesType
  <2>4. totalLength + n \in Int
    BY DEF IInv, TypeOK
  <2>5. RelayReady(longer, totalLength + n, "DELAY")
    BY <1>2, <2>1, <2>3 DEF ServeRewind
  <2>. HIDE DEF longer
  <2>6. /\ IInv'
        /\ log' = log /\ delayBuffer' = delayBuffer /\ state' = "DELAY"
        /\ Len(buffer') \in 0..Len(longer)
        /\ readyChunks' = SubSeq(log, Len(log) - Len(longer) + 1, Len(log) - Len(buffer'))
    BY <2>2, <2>4, <2>5, RelayStep DEF States
  <2>7. Len(log) - Len(longer)
          = IF Len(log) - Len(delayBuffer) < Len(log) - Len(buffer)
              THEN Len(log) - Len(delayBuffer) ELSE Len(log) - Len(buffer)
    <3>1. CASE Len(delayBuffer) > Len(buffer)
      BY <1>1, <3>1 DEF longer
    <3>2. CASE ~(Len(delayBuffer) > Len(buffer))
      BY <1>1, <3>2 DEF longer
    <3>. QED
      BY <3>1, <3>2
  <2>8. Len(log) - Len(buffer') \in (Len(log) - Len(longer))..Len(log)
    <3>1. Len(longer) \in Nat
      BY <2>2, LenProperties
    <3>. QED
      BY <1>1, <2>6, <3>1
  <2>9. Log!Play(Len(log) - Len(longer))
    BY <2>6, <2>8 DEF Log!Play
  <2>10. Log!Rewind
    BY <1>2, <2>6, <2>7, <2>9 DEF Log!Rewind, ServeRewind
  <2>. QED
    BY <2>6, <2>10
<1>3. CASE ServeForward
  <2>. DEFINE queue == Forwarded(buffer)
              I == {i \in 1..Len(buffer) : buffer[i].keyFrame /\ buffer[Len(buffer)].keyFrame}
  <2>1. queue = FromFirst(buffer, I) /\ I \in SUBSET (1..Len(buffer))
    BY DEF Forwarded
  <2>2. RelayReady(queue, Bytes(queue), "REALTIME")
    BY <1>3 DEF ServeForward
  <2>. HIDE DEF queue, I
  <2>3. /\ queue \in Seq(ChunkData)
        /\ IsSuffixOf(queue, buffer)
        /\ IsSuffixOf(queue, log)
    BY <2>1, SuffixOfSuffix DEF IInv, TypeOK, StoredInOrder
  <2>4. Bytes(queue) \in Int
    BY <2>3, BytesType
  <2>5. /\ IInv'
        /\ log' = log /\ delayBuffer' = delayBuffer /\ state' = "REALTIME"
        /\ Len(buffer') \in 0..Len(queue)
        /\ readyChunks' = SubSeq(log, Len(log) - Len(queue) + 1, Len(log) - Len(buffer'))
        /\ Len(buffer') = 0
    BY <2>2, <2>3, <2>4, RelayStep DEF States
  <2>6. Len(queue) \in Nat /\ Len(queue) <= Len(buffer)
    BY <2>3, LenProperties DEF IsSuffixOf
  <2>7. Len(log) - Len(queue) \in (Len(log) - Len(buffer))..Len(log)
    BY <1>1, <2>6
  <2>8. Len(log) - Len(buffer') \in (Len(log) - Len(queue))..Len(log)
    BY <1>1, <2>5, <2>6
  <2>9. Log!Play(Len(log) - Len(queue))
    BY <2>5, <2>8 DEF Log!Play
  <2>10. Len(log') - Len(buffer') = Len(log)
    BY <1>1, <2>5
  <2>11. state = "FORWARD"
    BY <1>3 DEF ServeForward
  <2>12. Log!Forward
    BY <2>5, <2>7, <2>9, <2>10, <2>11 DEF Log!Forward
  <2>. QED
    BY <2>5, <2>12
<1>4. CASE Relay
  <2>1. RelayReady(buffer, totalLength, state) /\ state \in {"DELAY", "REALTIME"}
    BY <1>4 DEF Relay
  <2>2. /\ buffer \in Seq(ChunkData) /\ IsSuffixOf(buffer, log)
        /\ totalLength \in Int /\ state \in States
    BY DEF IInv, TypeOK, StoredInOrder
  <2>3. /\ IInv'
        /\ log' = log /\ delayBuffer' = delayBuffer /\ state' = state
        /\ Len(buffer') \in 0..Len(buffer)
        /\ readyChunks' = SubSeq(log, Len(log) - Len(buffer) + 1, Len(log) - Len(buffer'))
        /\ state = "REALTIME" => Len(buffer') = 0
    BY <2>1, <2>2, RelayStep
  <2>4. Len(log) - Len(buffer') \in (Len(log) - Len(buffer))..Len(log)
    BY <1>1, <2>3
  <2>5. Log!Play(Len(log) - Len(buffer))
    BY <2>3, <2>4 DEF Log!Play
  <2>6. state = "REALTIME" => Len(log') - Len(buffer') = Len(log)
    BY <1>1, <2>3
  <2>7. Log!Continue
    BY <2>1, <2>3, <2>5, <2>6 DEF Log!Continue
  <2>. QED
    BY <2>3, <2>7
<1>. QED
  BY <1>2, <1>3, <1>4 DEF CheckChunks

-----------------------------------------------------------------------------
\* The invariant is inductive.
LEMMA InitIInv == Init => IInv
<1>. SUFFICES ASSUME Init PROVE IInv
  OBVIOUS
<1>1. <<>> \in Seq(ChunkData) /\ Len(<<>>) = 0
  BY EmptySeq
<1>2. TypeOK
  <2>1. now \in 0..MaxTime /\ totalLength \in Int
    BY BoundsAssumption DEF Init
  <2>2. /\ log \in Seq(ChunkData) /\ buffer \in Seq(ChunkData)
        /\ delayBuffer \in Seq(ChunkData) /\ readyChunks \in Seq(ChunkData)
    BY <1>1 DEF Init
  <2>3. isDelayBufferActive \in BOOLEAN /\ delay \in Delays
    BY DEF Init
  <2>4. state \in States
    BY DEF Init, States
  <2>5. lastFlags \in {"undefined"} \cup {p.flags : p \in Packets}
    BY DEF Init
  <2>. QED
    BY <2>1, <2>2, <2>3, <2>4, <2>5 DEF TypeOK
<1>. QED
  BY <1>1, <1>2 DEF Init, IInv, StoredInOrder, Numbered, IsSuffixOf

LEMMA NextIInv == IInv /\ [Next]_vars => IInv'
<1>. SUFFICES ASSUME IInv, [Next]_vars PROVE IInv'
  OBVIOUS
<1>1. ASSUME NEW p \in Packets, PushToBuffer(p.codec, p.flags, p.len) PROVE IInv'
  BY <1>1, PushStep
<1>2. CASE CheckChunks
  BY <1>2, TickStep
<1>3. CASE ActivateDelay \/ DeactivateDelay \/ SetDelay \/ AdvanceClock \/ SetClockBack
  BY <1>3, EnvironmentStep
<1>4. CASE UNCHANGED vars
  BY <1>4 DEF vars, streamVars, IInv, TypeOK, StoredInOrder, Numbered, IsSuffixOf
<1>. QED
  BY <1>1, <1>2, <1>3, <1>4 DEF Next, Push

\* In every reachable state of src/streamBuffer.js the invariant holds.
THEOREM InvariantHolds == Spec => []IInv
<1>. QED
  BY InitIInv, NextIInv, PTL DEF Spec

\* Every variable keeps its type, totalLength included.
THEOREM TypeCorrect == Spec => []TypeOK
<1>1. IInv => TypeOK
  BY DEF IInv
<1>. QED
  BY <1>1, InvariantHolds, PTL

\* buffer and delayBuffer always hold the newest chunks of the stream,
\* complete, in order and once each, whatever the clock does.
THEOREM StreamStaysInOrder == Spec => []StoredInOrder
<1>1. IInv => StoredInOrder
  BY DEF IInv
<1>. QED
  BY <1>1, InvariantHolds, PTL

-----------------------------------------------------------------------------
\* Every behaviour of the delay buffer is one that StreamLog allows: it plays
\* contiguous stretches of the stream, goes back only for a rewind and no
\* further than its window, and skips only for a forward.
THEOREM StreamBufferImplementsStreamLog == Spec => ImplementsStreamLog
<1>1. Init => Log!Init
  <2>1. Len(<<>>) = 0
    OBVIOUS
  <2>. QED
    BY <2>1 DEF Init, Log!Init
<1>2. IInv /\ [Next]_vars => [Log!Next]_(Log!vars)
  <2>. SUFFICES ASSUME IInv, [Next]_vars PROVE [Log!Next]_(Log!vars)
    OBVIOUS
  <2>0. /\ Len(log) \in Nat /\ Len(buffer) \in Nat /\ Len(delayBuffer) \in Nat
    BY LenProperties DEF IInv, TypeOK
  <2>1. ASSUME NEW p \in Packets, PushToBuffer(p.codec, p.flags, p.len)
        PROVE  Log!Next
    <3>1. /\ IInv'
          /\ \E c \in ChunkData : log' = Append(log, c)
          /\ Len(log') = Len(log) + 1
          /\ Len(buffer') = Len(buffer) + 1
          /\ Len(delayBuffer') <= Len(delayBuffer) + 1
          /\ readyChunks' = <<>> /\ state' = state
      BY <2>1, PushStep
    <3>2. Len(delayBuffer') \in Nat
      <4>1. delayBuffer' \in Seq(ChunkData)
        BY <3>1 DEF IInv, TypeOK
      <4>. QED
        BY <4>1, LenProperties
    <3>3. PICK c \in ChunkData : log' = Append(log, c)
      BY <3>1
    <3>4. Len(log') - Len(delayBuffer') \in (Len(log) - Len(delayBuffer))..Len(log')
      BY <2>0, <3>1, <3>2
    <3>5. Len(log') - Len(buffer') = Len(log) - Len(buffer)
      BY <2>0, <3>1
    <3>6. Log!Receive(c)
      BY <3>1, <3>3, <3>4, <3>5 DEF Log!Receive
    <3>. QED
      BY <3>6 DEF Log!Next
  <2>2. CASE CheckChunks
    BY <2>2, TickStep DEF Log!Next
  <2>3. CASE ActivateDelay \/ DeactivateDelay \/ SetDelay \/ AdvanceClock \/ SetClockBack
    <3>1. /\ UNCHANGED streamVars
          /\ readyChunks' = <<>>
          /\ state' = state \/ state' \in {"REWIND", "FORWARD"}
      BY <2>3, EnvironmentStep
    <3>2. log' = log /\ buffer' = buffer /\ delayBuffer' = delayBuffer
      BY <3>1 DEF streamVars
    <3>3. Log!Request \/ Log!Quiet
      BY <3>1, <3>2 DEF Log!Request, Log!Quiet
    <3>. QED
      BY <3>3 DEF Log!Next
  <2>4. CASE UNCHANGED vars
    BY <2>4 DEF vars, streamVars, Log!vars
  <2>. QED
    BY <2>1, <2>2, <2>3, <2>4 DEF Next, Push
<1>. QED
  BY <1>1, <1>2, InvariantHolds, PTL DEF Spec, ImplementsStreamLog, Log!Spec

-----------------------------------------------------------------------------
(* The byte count.                                                         *)

\* Of a queue that is relayed, the bytes of what is left remain.
LEMMA RelayCount ==
  ASSUME NEW queue \in Seq(ChunkData), NEW mode, RelayReady(queue, Bytes(queue), mode)
  PROVE  TotalLengthIsBytes'
<1>. DEFINE rest == NotReady(queue, mode, now, delay)
            I == {i \in 1..Len(queue) : mode # "REALTIME" /\ now - queue[i].time <= delay}
            k == Len(queue) - Len(rest)
            ready == SubSeq(queue, 1, k)
<1>1. buffer' = rest /\ totalLength' = Bytes(queue) - Bytes(ready)
  BY DEF RelayReady
<1>2. rest = FromFirst(queue, I) /\ I \in SUBSET (1..Len(queue))
  BY DEF NotReady
<1>. HIDE DEF I, rest
<1>3. PICK m \in 0..Len(queue) : /\ rest = SubSeq(queue, m + 1, Len(queue))
                                 /\ rest \in Seq(ChunkData) /\ Len(rest) = Len(queue) - m
  <2>1. PICK h \in 1..(Len(queue) + 1) : rest = SubSeq(queue, h, Len(queue))
    BY <1>2, FromFirstIsSuffix
  <2>2. /\ SubSeq(queue, h, Len(queue)) \in Seq(ChunkData)
        /\ Len(SubSeq(queue, h, Len(queue))) = Len(queue) - h + 1
    BY SuffixProperties
  <2>3. Len(queue) \in Nat
    BY LenProperties
  <2>4. PICK m \in 0..Len(queue) : h = m + 1 /\ Len(queue) - h + 1 = Len(queue) - m
    <3>. DEFINE m == h - 1
    <3>1. m \in 0..Len(queue) /\ h = m + 1 /\ Len(queue) - h + 1 = Len(queue) - m
      BY <2>3
    <3>. QED
      BY <3>1
  <2>. QED
    BY <2>1, <2>2, <2>4
<1>4. Len(queue) \in Nat /\ m \in Int /\ k = m
  <2>1. Len(queue) \in Nat
    BY LenProperties
  <2>. QED
    BY <1>3, <2>1
<1>5. ready = SubSeq(queue, 1, m)
  BY <1>4
<1>. HIDE DEF ready, k
<1>6. queue = ready \o rest
  <2>1. /\ 1 \in 1..Len(queue) + 1 /\ m \in 1 - 1..Len(queue)
        /\ Len(queue) \in m..Len(queue)
    BY <1>4
  <2>2. SubSeq(queue, 1, m) \o SubSeq(queue, m + 1, Len(queue)) = SubSeq(queue, 1, Len(queue))
    BY <2>1, ConcatAdjacentSubSeq
  <2>3. SubSeq(queue, 1, Len(queue)) = queue
    BY SubSeqFull
  <2>. QED
    BY <1>3, <1>5, <2>2, <2>3
<1>7. ready \in Seq(ChunkData) /\ rest \in Seq(ChunkData)
  <2>1. \A i \in 1..m : queue[i] \in ChunkData
    BY <1>4, ElementOfSeq
  <2>2. SubSeq(queue, 1, m) \in Seq(ChunkData)
    BY <1>4, <2>1, SubSeqProperties
  <2>. QED
    BY <1>3, <1>5, <2>2
<1>8. Bytes(queue) = Bytes(ready) + Bytes(rest) /\ Bytes(ready) \in Nat /\ Bytes(rest) \in Nat
  BY <1>6, <1>7, BytesOfConcat, BytesType
<1>9. totalLength' = Bytes(rest)
  BY <1>1, <1>8
<1>. QED
  BY <1>1, <1>9 DEF TotalLengthIsBytes

LEMMA PushCount ==
  ASSUME IInv, TotalLengthIsBytes, NEW p \in Packets, PushToBuffer(p.codec, p.flags, p.len)
  PROVE  TotalLengthIsBytes'
<1>. DEFINE c == [id |-> CURRENT_ID, time |-> now, len |-> p.len,
                  keyFrame |-> StartsKeyFrame(CURRENT_ID, p.codec, p.flags, lastFlags)]
<1>1. buffer' = Append(buffer, c) /\ totalLength' = totalLength + p.len /\ c.len = p.len
  BY DEF PushToBuffer
<1>2. c.len \in 1..MaxLen
  BY <1>1, PacketsAssumption
<1>. HIDE DEF c
<1>3. buffer \in Seq(ChunkData \cup {c}) /\ c \in ChunkData \cup {c}
  <2>1. buffer \in Seq(ChunkData)
    BY DEF IInv, TypeOK
  <2>. QED
    BY <2>1, SeqMonotonic
<1>4. buffer' = buffer \o <<c>> /\ <<c>> \in Seq(ChunkData \cup {c})
  BY <1>1, <1>3, AppendIsConcat
<1>5. Bytes(buffer') = Bytes(buffer) + Bytes(<<c>>) /\ Bytes(<<c>>) = c.len
  BY <1>2, <1>3, <1>4, BytesOfConcat, BytesOfOne
<1>. QED
  BY <1>1, <1>5 DEF TotalLengthIsBytes

LEMMA TickCount ==
  ASSUME IInv, TotalLengthIsBytes, CheckChunks
  PROVE  TotalLengthIsBytes'
<1>1. /\ buffer \in Seq(ChunkData) /\ delayBuffer \in Seq(ChunkData) /\ totalLength = Bytes(buffer)
      /\ IsSuffixOf(buffer, log) /\ IsSuffixOf(delayBuffer, log)
  BY DEF IInv, TypeOK, StoredInOrder, TotalLengthIsBytes
<1>2. CASE ServeRewind
  <2>. DEFINE back == Pick(delayBuffer, Missing(buffer, delayBuffer))
  <2>1. back \in Seq(ChunkData)
    <3>1. /\ Missing(buffer, delayBuffer) = 1..Surplus(buffer, delayBuffer)
          /\ Surplus(buffer, delayBuffer) \in 0..Len(delayBuffer)
      BY MissingIsPrefix DEF IInv, TypeOK, StoredInOrder
    <3>2. PICK k \in 0..Len(delayBuffer) : k = Surplus(buffer, delayBuffer)
      BY <3>1
    <3>3. back = SubSeq(delayBuffer, 1, k)
      BY <1>1, <3>1, <3>2, PickPrefix
    <3>4. Len(delayBuffer) \in Nat
      BY <1>1, LenProperties
    <3>5. \A i \in 1..k : delayBuffer[i] \in ChunkData
      BY <1>1, <3>4, ElementOfSeq
    <3>6. SubSeq(delayBuffer, 1, k) \in Seq(ChunkData)
      BY <3>4, <3>5, SubSeqProperties
    <3>. QED
      BY <3>3, <3>6
  <2>2. Rewound(buffer, delayBuffer) = back \o buffer
    BY DEF Rewound
  <2>3. RelayReady(Rewound(buffer, delayBuffer), totalLength + Bytes(back), "DELAY")
    BY <1>2 DEF ServeRewind
  <2>. HIDE DEF back
  <2>4. back \o buffer \in Seq(ChunkData)
    BY <1>1, <2>1, ConcatProperties
  <2>5. Bytes(back \o buffer) = totalLength + Bytes(back)
    <3>1. Bytes(back) \in Nat /\ Bytes(buffer) \in Nat
      BY <1>1, <2>1, BytesType
    <3>2. Bytes(back \o buffer) = Bytes(back) + Bytes(buffer)
      BY <1>1, <2>1, BytesOfConcat
    <3>. QED
      BY <1>1, <3>1, <3>2
  <2>6. RelayReady(back \o buffer, Bytes(back \o buffer), "DELAY")
    BY <2>2, <2>3, <2>5
  <2>. QED
    BY <2>4, <2>6, RelayCount
<1>3. CASE ServeForward
  <2>. DEFINE queue == Forwarded(buffer)
              I == {i \in 1..Len(buffer) : buffer[i].keyFrame /\ buffer[Len(buffer)].keyFrame}
  <2>1. queue = FromFirst(buffer, I) /\ I \in SUBSET (1..Len(buffer))
    BY DEF Forwarded
  <2>2. RelayReady(queue, Bytes(queue), "REALTIME")
    BY <1>3 DEF ServeForward
  <2>. HIDE DEF queue, I
  <2>3. queue \in Seq(ChunkData)
    BY <1>1, <2>1, FromFirstIsSuffix, SuffixProperties
  <2>. QED
    BY <2>2, <2>3, RelayCount
<1>4. CASE Relay
  <2>1. RelayReady(buffer, Bytes(buffer), state)
    BY <1>1, <1>4 DEF Relay
  <2>. QED
    BY <1>1, <2>1, RelayCount
<1>. QED
  BY <1>2, <1>3, <1>4 DEF CheckChunks

\* A push, a tick, a rewind and a forward each keep the count of the bytes
\* right in a way of their own, and together for ever.
THEOREM TotalLengthStaysExact == Spec => []TotalLengthIsBytes
<1>1. Init => TotalLengthIsBytes
  <2>. SUFFICES ASSUME Init PROVE TotalLengthIsBytes
    OBVIOUS
  <2>1. buffer = <<>> /\ totalLength = 0
    BY DEF Init
  <2>2. (1..Len(<<>>)) \X (1..MaxLen) = {}
    BY EmptySeq
  <2>3. Cells(<<>>) = {}
    BY <2>2 DEF Cells
  <2>4. Bytes(<<>>) = 0
    BY <2>3, FS_EmptySet DEF Bytes, Cells
  <2>. QED
    BY <2>1, <2>4 DEF TotalLengthIsBytes
<1>2. IInv /\ TotalLengthIsBytes /\ [Next]_vars => TotalLengthIsBytes'
  <2>. SUFFICES ASSUME IInv, TotalLengthIsBytes, [Next]_vars PROVE TotalLengthIsBytes'
    OBVIOUS
  <2>1. ASSUME NEW p \in Packets, PushToBuffer(p.codec, p.flags, p.len) PROVE TotalLengthIsBytes'
    BY <2>1, PushCount
  <2>2. CASE CheckChunks
    BY <2>2, TickCount
  <2>3. CASE ActivateDelay \/ DeactivateDelay \/ SetDelay \/ AdvanceClock \/ SetClockBack
             \/ UNCHANGED vars
    <3>1. buffer' = buffer /\ totalLength' = totalLength
      BY <2>3 DEF ActivateDelay, DeactivateDelay, SetDelay, AdvanceClock, SetClockBack,
                  vars, streamVars
    <3>. QED
      BY <3>1 DEF TotalLengthIsBytes
  <2>. QED
    BY <2>1, <2>2, <2>3 DEF Next, Push
<1>. QED
  BY <1>1, <1>2, InvariantHolds, PTL DEF Spec

-----------------------------------------------------------------------------
(* The window of a rewind.                                                 *)

\* The inductive invariant for a regular encoder, when time goes forward: a
\* key frame is never the first chunk, nor next to another; once there was
\* one, the window starts at one; and those that the window lacks are older
\* than the delay.
GroupInv ==
  /\ Len(log) > 0 /\ log[Len(log)].keyFrame => lastFlags = "KEY_FRAME"
  /\ \A i \in 1..Len(log) : log[i].keyFrame => i > 1 /\ ~log[i - 1].keyFrame
  /\ ~isDelayBufferActive => \A i \in 1..Len(log) : ~log[i].keyFrame
  /\ isDelayBufferActive => Len(delayBuffer) > 0 /\ delayBuffer[1].keyFrame
  /\ \A i \in 1..(Len(log) - Len(delayBuffer)) : log[i].keyFrame => now - log[i].time > delay

\* The log after a push, and the window before it is trimmed.
LEMMA PushedLog ==
  ASSUME IInv, GroupInv, NEW p \in Packets, PushToBuffer(p.codec, p.flags, p.len),
         NEW c \in ChunkData,
         c = [id |-> CURRENT_ID, time |-> now, len |-> p.len,
              keyFrame |-> StartsKeyFrame(CURRENT_ID, p.codec, p.flags, lastFlags)]
  PROVE  /\ log' = Append(log, c) /\ log' \in Seq(ChunkData)
         /\ Len(log) \in Nat /\ Len(log') = Len(log) + 1
         /\ \A i \in 1..Len(log) : log'[i] = log[i]
         /\ log'[Len(log) + 1] = c /\ c.time = now
         /\ lastFlags' = p.flags
         /\ c.keyFrame => p.flags = "KEY_FRAME"
         /\ \A i \in 1..Len(log') : log'[i].keyFrame => i > 1 /\ ~log'[i - 1].keyFrame
<1>1. /\ log' = Append(log, c) /\ lastFlags' = p.flags
  BY DEF PushToBuffer
<1>2. /\ log' \in Seq(ChunkData) /\ Len(log') = Len(log) + 1
      /\ \A i \in 1..Len(log) : log'[i] = log[i]
      /\ log'[Len(log) + 1] = c
  BY <1>1, AppendProperties DEF IInv, TypeOK
<1>3. Len(log) \in Nat
  BY LenProperties DEF IInv, TypeOK
<1>4. c.keyFrame => /\ p.flags = "KEY_FRAME" /\ Len(log) > 0 /\ lastFlags # "KEY_FRAME"
  BY DEF StartsKeyFrame, CURRENT_ID
<1>5. c.time = now
  OBVIOUS
<1>6. ASSUME NEW i \in 1..Len(log'), log'[i].keyFrame
      PROVE  i > 1 /\ ~log'[i - 1].keyFrame
  <2>1. CASE i \in 1..Len(log)
    <3>1. log[i].keyFrame
      BY <1>2, <1>6, <2>1
    <3>2. i > 1 /\ ~log[i - 1].keyFrame
      BY <2>1, <3>1 DEF GroupInv
    <3>3. i - 1 \in 1..Len(log)
      BY <1>3, <2>1, <3>2
    <3>. QED
      BY <1>2, <3>2, <3>3
  <2>2. CASE i = Len(log) + 1
    <3>1. Len(log) > 0 /\ lastFlags # "KEY_FRAME"
      BY <1>2, <1>4, <1>6, <2>2
    <3>2. ~log[Len(log)].keyFrame
      BY <3>1 DEF GroupInv
    <3>3. Len(log) \in 1..Len(log) /\ i - 1 = Len(log) /\ i > 1
      BY <1>3, <2>2, <3>1
    <3>. QED
      BY <1>2, <3>2, <3>3
  <2>. QED
    BY <1>2, <1>3, <2>1, <2>2
<1>. QED
  BY <1>1, <1>2, <1>3, <1>4, <1>5, <1>6

\* A push trims the window to the oldest key frame that is not older than the
\* delay: there always is one.
LEMMA PushGroups ==
  ASSUME IInv, GroupInv, NEW p \in Packets, PushToBuffer(p.codec, p.flags, p.len),
         KeyInterval <= delay, KeyFrameEvery(KeyInterval)
  PROVE  /\ GroupInv'
         /\ state # "REWIND" => delayBuffer' = FromFirst(log', FreshKeyFrames(log'))
<1>. DEFINE c == [id |-> CURRENT_ID, time |-> now, len |-> p.len,
                  keyFrame |-> StartsKeyFrame(CURRENT_ID, p.codec, p.flags, lastFlags)]
            active == isDelayBufferActive \/ c.keyFrame
            w == IF active THEN Append(delayBuffer, c) ELSE delayBuffer
            Keys == {i \in 1..Len(w) : w[i].keyFrame /\ now - w[i].time <= delay}
            d == Len(log') - Len(w)
<1>1. /\ isDelayBufferActive' = active
      /\ delayBuffer' = (IF state = "REWIND" THEN w ELSE Trimmed(w, now, delay))
      /\ now' = now /\ delay' = delay
  BY DEF PushToBuffer
<1>2. c \in ChunkData
  <2>1. p \in [codec : STRING, flags : STRING, len : 1..MaxLen]
    BY PacketsAssumption
  <2>2. Len(log) \in Nat
    BY LenProperties DEF IInv, TypeOK
  <2>. QED
    BY <2>1, <2>2, BoundsAssumption
       DEF PushToBuffer, ChunkData, CURRENT_ID, IInv, TypeOK, StartsKeyFrame
<1>3. /\ log' = Append(log, c) /\ log' \in Seq(ChunkData)
      /\ Len(log) \in Nat /\ Len(log') = Len(log) + 1
      /\ \A i \in 1..Len(log) : log'[i] = log[i]
      /\ log'[Len(log) + 1] = c /\ c.time = now
      /\ lastFlags' = p.flags
      /\ c.keyFrame => p.flags = "KEY_FRAME"
      /\ \A i \in 1..Len(log') : log'[i].keyFrame => i > 1 /\ ~log'[i - 1].keyFrame
  BY <1>2, PushedLog
<1>4. now \in Nat /\ delay \in Nat /\ KeyInterval \in Nat /\ isDelayBufferActive \in BOOLEAN
  BY KeyIntervalAssumption, DelaysAssumption, BoundsAssumption DEF IInv, TypeOK
<1>5. /\ delayBuffer \in Seq(ChunkData) /\ Len(delayBuffer) \in Nat
      /\ IsSuffixOf(delayBuffer, log) /\ Len(delayBuffer) <= Len(log)
  BY LenProperties DEF IInv, TypeOK, StoredInOrder, IsSuffixOf
<1>. HIDE DEF c
<1>6. \A i \in 1..(Len(log) - Len(delayBuffer)) :
        log'[i].keyFrame => now - log'[i].time > delay
  <2>. SUFFICES ASSUME NEW i \in 1..(Len(log) - Len(delayBuffer)), log'[i].keyFrame
                PROVE  now - log'[i].time > delay
    OBVIOUS
  <2>1. i \in 1..Len(log) /\ log'[i] = log[i]
    BY <1>3, <1>5
  <2>. QED
    BY <2>1 DEF GroupInv
<1>7. CASE ~active
  <2>1. ~isDelayBufferActive /\ ~c.keyFrame /\ delayBuffer = <<>> /\ w = <<>>
    BY <1>7 DEF IInv
  <2>2. \A i \in 1..Len(log') : ~log'[i].keyFrame
    <3>1. \A i \in 1..Len(log) : ~log[i].keyFrame
      BY <2>1 DEF GroupInv
    <3>. QED
      BY <1>3, <2>1, <3>1
  <2>3. \A now_, delay_ : Trimmed(<<>>, now_, delay_) = <<>>
    <3>1. Len(<<>>) = 0
      BY EmptySeq
    <3>. QED
      BY <3>1 DEF Trimmed, FromFirst
  <2>4. delayBuffer' = <<>>
    BY <1>1, <2>1, <2>3
  <2>5. FromFirst(log', FreshKeyFrames(log')) = <<>>
    <3>1. FreshKeyFrames(log') = {}
      BY <2>2 DEF FreshKeyFrames
    <3>. QED
      BY <3>1 DEF FromFirst
  <2>6. Len(delayBuffer') = 0
    BY <2>4, EmptySeq
  <2>7. \A i \in 1..(Len(log') - Len(delayBuffer')) : i \in 1..Len(log')
    BY <1>3, <2>6
  <2>8. GroupInv'
    BY <1>1, <1>3, <1>7, <2>2, <2>7 DEF GroupInv
  <2>. QED
    BY <2>4, <2>5, <2>8
<1>8. CASE active
  <2>1. /\ w = Append(delayBuffer, c)
        /\ w \in Seq(ChunkData) /\ Len(w) = Len(delayBuffer) + 1
        /\ IsSuffixOf(w, log')
    <3>1. w = Append(delayBuffer, c)
      BY <1>8
    <3>. QED
      BY <1>2, <1>3, <1>5, <3>1, AppendProperties, AppendSuffix DEF IInv, TypeOK
  <2>2. w[1].keyFrame
    <3>1. CASE isDelayBufferActive
      <4>1. Len(delayBuffer) > 0 /\ delayBuffer[1].keyFrame
        BY <3>1 DEF GroupInv
      <4>2. 1 \in 1..Len(delayBuffer)
        BY <1>5, <4>1
      <4>3. w[1] = delayBuffer[1]
        BY <1>2, <1>5, <2>1, <4>2, AppendProperties
      <4>. QED
        BY <4>1, <4>3
    <3>2. CASE ~isDelayBufferActive
      <4>1. delayBuffer = <<>> /\ c.keyFrame
        BY <1>8, <3>2 DEF IInv
      <4>2. Len(delayBuffer) = 0 /\ w[Len(delayBuffer) + 1] = c
        BY <1>2, <1>5, <2>1, <4>1, EmptySeq, AppendProperties
      <4>. QED
        BY <4>1, <4>2
    <3>. QED
      BY <1>4, <3>1, <3>2
  <2>. HIDE DEF w
  <2>3. /\ Len(w) \in Nat /\ Len(w) > 0 /\ Len(log') \in Nat
        /\ d \in Nat /\ d = Len(log) - Len(delayBuffer) /\ d + Len(w) = Len(log')
        /\ Len(log') - Len(w) = d
    BY <1>3, <1>5, <2>1
  <2>. HIDE DEF d
  <2>4. \A i \in 1..Len(w) : d + i \in 1..Len(log') /\ w[i] = log'[d + i]
    <3>1. \A i \in 1..Len(w) : w[i] = log'[d + i]
      BY <2>1, <2>3 DEF IsSuffixOf
    <3>. QED
      BY <2>3, <3>1
  <2>5. \A i \in 2..Len(w) : ~(w[i].keyFrame /\ w[i - 1].keyFrame)
    <3>. SUFFICES ASSUME NEW i \in 2..Len(w), w[i].keyFrame, w[i - 1].keyFrame PROVE FALSE
      OBVIOUS
    <3>1. i \in 1..Len(w) /\ i - 1 \in 1..Len(w)
      BY <2>3
    <3>2. d + i \in 1..Len(log') /\ w[i] = log'[d + i] /\ w[i - 1] = log'[d + (i - 1)]
      BY <2>4, <3>1
    <3>3. d + (i - 1) = (d + i) - 1
      BY <2>3
    <3>. QED
      BY <1>3, <3>2, <3>3
  <2>6. Trimmed(w, now, delay) = FromFirst(w, Keys)
    BY <2>1, <2>2, <2>3, <2>5, TrimmedToKeyFrame
  <2>7. Keys \in SUBSET (1..Len(w))
    OBVIOUS
  <2>8. \A i \in 1..Len(log') : i \in FreshKeyFrames(log') <=> i - d \in Keys
    <3>. SUFFICES ASSUME NEW i \in 1..Len(log')
                  PROVE  i \in FreshKeyFrames(log') <=> i - d \in Keys
      OBVIOUS
    <3>1. CASE i <= d
      <4>1. i \in 1..(Len(log) - Len(delayBuffer)) /\ i - d \notin 1..Len(w)
        BY <1>3, <2>3, <3>1
      <4>2. log'[i].keyFrame => now - log'[i].time > delay
        BY <1>6, <4>1
      <4>3. log'[i].time \in Nat
        <5>1. log'[i] \in ChunkData
          BY <1>3, ElementOfSeq
        <5>. QED
          BY <5>1, BoundsAssumption DEF ChunkData
      <4>4. i \notin FreshKeyFrames(log')
        BY <1>4, <4>2, <4>3 DEF FreshKeyFrames
      <4>. QED
        BY <2>7, <4>1, <4>4
    <3>2. CASE i > d
      <4>1. PICK k \in 1..Len(w) : k = i - d
        <5>1. i - d \in 1..Len(w)
          BY <2>3, <3>2
        <5>. QED
          BY <5>1
      <4>2. d + k = i
        BY <2>3, <4>1
      <4>3. w[k] = log'[i]
        BY <2>4, <4>2
      <4>. QED
        BY <4>1, <4>3 DEF FreshKeyFrames
    <3>. QED
      BY <2>3, <3>1, <3>2
  <2>9. FromFirst(log', FreshKeyFrames(log')) = FromFirst(w, Keys)
    <3>1. FreshKeyFrames(log') \in SUBSET (1..Len(log'))
      BY DEF FreshKeyFrames
    <3>. HIDE DEF Keys
    <3>2. PICK J \in SUBSET (1..Len(log')) : J = FreshKeyFrames(log')
      BY <3>1
    <3>3. \A i \in 1..Len(log') : i \in J <=> i - (Len(log') - Len(w)) \in Keys
      BY <2>3, <2>8, <3>2
    <3>4. PICK t \in Seq(ChunkData), v \in Seq(ChunkData) : t = log' /\ v = w
      BY <1>3, <2>1
    <3>5. PICK I \in SUBSET (1..Len(v)) : I = Keys
      BY <2>7, <3>4
    <3>6. J \in SUBSET (1..Len(t)) /\ IsSuffixOf(v, t)
      BY <2>1, <3>4
    <3>7. \A i \in 1..Len(t) : i \in J <=> i - (Len(t) - Len(v)) \in I
      BY <3>3, <3>4, <3>5
    <3>8. FromFirst(t, J) = FromFirst(v, I)
      BY <3>6, <3>7, FromFirstOfSuffix
    <3>. QED
      BY <3>2, <3>4, <3>5, <3>8
  <2>10. Keys # {}
    <3>1. \E i \in 1..Len(log') : log'[i].keyFrame /\ now - log'[i].time <= delay
      <4>1. CASE c.keyFrame
        <5>1. Len(log) + 1 \in 1..Len(log') /\ now - c.time = 0
          BY <1>3, <1>4
        <5>. QED
          BY <1>3, <1>4, <4>1, <5>1
      <4>2. CASE ~c.keyFrame
        <5>1. log' # log /\ log'[Len(log')] = c
          BY <1>3
        <5>2. PICK q \in 1..Len(log) : log[q].keyFrame
          <6>1. isDelayBufferActive
            BY <1>8, <4>2
          <6>2. Len(delayBuffer) > 0 /\ delayBuffer[1].keyFrame
            BY <6>1 DEF GroupInv
          <6>3. PICK q \in 1..Len(log) : q = Len(log) - Len(delayBuffer) + 1
            <7>1. Len(log) - Len(delayBuffer) + 1 \in 1..Len(log)
              BY <1>3, <1>5, <6>2
            <7>. QED
              BY <7>1
          <6>4. 1 \in 1..Len(delayBuffer)
            BY <1>5, <6>2
          <6>5. delayBuffer[1] = log[q]
            BY <1>5, <6>3, <6>4 DEF IsSuffixOf
          <6>. QED
            BY <6>2, <6>5
        <5>3. {i \in 1..Len(log) : log[i].keyFrame} # {}
          BY <5>2
        <5>4. PICK i \in 1..Len(log) : log[i].keyFrame /\ c.time - log[i].time < KeyInterval
          BY <4>2, <5>1, <5>3 DEF KeyFrameEvery
        <5>5. i \in 1..Len(log') /\ log'[i] = log[i]
          BY <1>3
        <5>6. log[i].time \in Nat
          <6>1. log[i] \in ChunkData
            BY ElementOfSeq DEF IInv, TypeOK
          <6>. QED
            BY <6>1, BoundsAssumption DEF ChunkData
        <5>. QED
          BY <1>3, <1>4, <5>4, <5>5, <5>6
      <4>. QED
        BY <4>1, <4>2
    <3>2. PICK i \in 1..Len(log') : i \in FreshKeyFrames(log')
      BY <3>1 DEF FreshKeyFrames
    <3>. QED
      BY <2>8, <3>2
  <2>11. PICK k \in Keys : IsLeast(k, Keys)
    BY <2>3, <2>7, <2>10, LeastExists
  <2>. HIDE DEF Keys
  <2>12. k \in 1..Len(w) /\ w[k].keyFrame
    BY <2>11 DEF Keys
  <2>13. /\ FromFirst(w, Keys) = SubSeq(w, k, Len(w))
         /\ Len(SubSeq(w, k, Len(w))) = Len(w) - k + 1
         /\ SubSeq(w, k, Len(w))[1] = w[k]
    <3>1. k \in 1..(Len(w) + 1) /\ 1 \in 1..(Len(w) - k + 1) /\ k - 1 + 1 = k
      BY <2>3, <2>12
    <3>2. FromFirst(w, Keys) = SubSeq(w, k, Len(w))
      BY <2>1, <2>7, <2>11, FromFirstAt
    <3>3. /\ Len(SubSeq(w, k, Len(w))) = Len(w) - k + 1
          /\ \A i \in 1..(Len(w) - k + 1) : SubSeq(w, k, Len(w))[i] = w[k - 1 + i]
      BY <2>1, <3>1, SuffixProperties
    <3>. QED
      BY <3>1, <3>2, <3>3
  <2>14. /\ Len(delayBuffer') > 0 /\ delayBuffer'[1].keyFrame
         /\ \A i \in 1..(Len(log') - Len(delayBuffer')) :
              log'[i].keyFrame => now - log'[i].time > delay
    <3>1. CASE state = "REWIND"
      <4>1. delayBuffer' = w
        BY <1>1, <3>1
      <4>2. Len(log') - Len(w) = Len(log) - Len(delayBuffer)
        BY <2>3
      <4>. QED
        BY <1>6, <2>2, <2>3, <4>1, <4>2
    <3>2. CASE state # "REWIND"
      <4>1. delayBuffer' = SubSeq(w, k, Len(w))
        BY <1>1, <2>6, <2>13, <3>2
      <4>2. Len(log') - Len(delayBuffer') = d + k - 1 /\ Len(delayBuffer') > 0
        BY <2>3, <2>12, <2>13, <4>1
      <4>3. ASSUME NEW i \in 1..(d + k - 1), log'[i].keyFrame
            PROVE  now - log'[i].time > delay
        <5>1. i \in 1..Len(log')
          BY <2>3, <2>4, <2>12
        <5>2. i \notin FreshKeyFrames(log')
          <6>1. i - d \notin Keys
            <7>1. ~(k <= i - d) /\ i - d \in Int
              BY <2>3, <2>12
            <7>. QED
              BY <2>11, <7>1 DEF IsLeast
          <6>. QED
            BY <2>8, <5>1, <6>1
        <5>3. log'[i].time \in Nat
          <6>1. log'[i] \in ChunkData
            BY <1>3, <5>1, ElementOfSeq
          <6>. QED
            BY <6>1, BoundsAssumption DEF ChunkData
        <5>. QED
          BY <1>4, <4>3, <5>1, <5>2, <5>3 DEF FreshKeyFrames
      <4>. QED
        BY <2>12, <2>13, <4>1, <4>2, <4>3
    <3>. QED
      BY <3>1, <3>2
  <2>15. Len(log') > 0 /\ log'[Len(log')].keyFrame => lastFlags' = "KEY_FRAME"
    BY <1>3
  <2>16. isDelayBufferActive'
    BY <1>1, <1>8
  <2>17. GroupInv'
    BY <1>1, <1>3, <2>14, <2>15, <2>16 DEF GroupInv
  <2>18. state # "REWIND" => delayBuffer' = FromFirst(log', FreshKeyFrames(log'))
    BY <1>1, <2>6, <2>9
  <2>. QED
    BY <2>17, <2>18
<1>. QED
  BY <1>7, <1>8

\* What a rewind resumes at is the head of the window.
LEMMA RewindGroups ==
  ASSUME IInv, GroupInv, ServeRewind, Len(buffer') + Len(readyChunks') > Len(buffer)
  PROVE  log[Len(log) - Len(buffer') - Len(readyChunks') + 1].keyFrame
<1>. DEFINE longer == IF Len(delayBuffer) > Len(buffer) THEN delayBuffer ELSE buffer
            rest == NotReady(longer, "DELAY", now, delay)
            I == {i \in 1..Len(longer) : "DELAY" # "REALTIME" /\ now - longer[i].time <= delay}
<1>1. /\ buffer \in Seq(ChunkData) /\ delayBuffer \in Seq(ChunkData)
      /\ Len(buffer) \in Nat /\ Len(delayBuffer) \in Nat /\ Len(log) \in Nat
      /\ Len(delayBuffer) <= Len(log)
      /\ isDelayBufferActive \in BOOLEAN
  BY LenProperties DEF IInv, TypeOK, StoredInOrder, IsSuffixOf
<1>2. Rewound(buffer, delayBuffer) = longer
  BY RewoundIsTheLonger DEF IInv, TypeOK, StoredInOrder
<1>3. longer \in Seq(ChunkData)
  BY <1>1
<1>4. buffer' = rest /\ readyChunks' = SubSeq(longer, 1, Len(longer) - Len(rest))
  BY <1>2 DEF ServeRewind, RelayReady
<1>5. rest = FromFirst(longer, I) /\ I \in SUBSET (1..Len(longer))
  BY DEF NotReady
<1>. HIDE DEF rest, I
<1>6. PICK l \in Seq(ChunkData) : l = longer
  BY <1>3
<1>7. rest \in Seq(ChunkData) /\ IsSuffixOf(rest, longer)
  <2>1. IsSuffixOf(l, l)
    <3>1. Len(l) \in Nat
      BY LenProperties
    <3>. QED
      BY <3>1 DEF IsSuffixOf
  <2>. HIDE DEF longer
  <2>. QED
    BY <1>3, <1>5, <1>6, <2>1, SuffixOfSuffix
<1>. HIDE DEF longer
<1>8. Len(readyChunks') = Len(longer) - Len(rest) /\ Len(rest) \in Nat /\ Len(longer) \in Nat
  BY <1>3, <1>4, <1>7, PrefixProperties, LenProperties
<1>9. Len(buffer') + Len(readyChunks') = Len(longer)
  BY <1>4, <1>8
<1>10. longer = delayBuffer /\ Len(delayBuffer) > Len(buffer)
  <2>1. Len(longer) > Len(buffer)
    BY <1>9
  <2>. QED
    BY <1>1, <2>1 DEF longer
<1>11. isDelayBufferActive
  <2>1. Len(delayBuffer) # 0
    BY <1>1, <1>10
  <2>2. ~isDelayBufferActive => Len(delayBuffer) = 0
    BY EmptySeq DEF IInv
  <2>. QED
    BY <1>1, <2>1, <2>2
<1>12. delayBuffer[1].keyFrame /\ 1 \in 1..Len(delayBuffer)
  BY <1>1, <1>10, <1>11 DEF GroupInv
<1>13. delayBuffer[1] = log[Len(log) - Len(delayBuffer) + 1]
  BY <1>12 DEF IInv, StoredInOrder, IsSuffixOf
<1>14. Len(log) - Len(buffer') - Len(readyChunks') + 1 = Len(log) - Len(delayBuffer) + 1
  <2>1. Len(buffer') \in Nat /\ Len(readyChunks') \in Int
    BY <1>4, <1>8
  <2>. QED
    BY <1>1, <1>9, <1>10, <2>1
<1>. QED
  BY <1>12, <1>13, <1>14

\* The other steps leave log and window alone; time only makes chunks older,
\* and a lower delay more of them too old.
LEMMA KeepGroups ==
  ASSUME IInv, GroupInv, UNCHANGED <<log, delayBuffer, isDelayBufferActive, lastFlags>>,
         now' \in Nat, now <= now', delay' \in Nat, delay' <= delay
  PROVE  GroupInv'
<1>1. now \in Nat /\ delay \in Nat
  BY DelaysAssumption, BoundsAssumption DEF IInv, TypeOK
<1>2. \A i \in 1..(Len(log) - Len(delayBuffer)) : log[i].keyFrame => now' - log[i].time > delay'
  <2>. SUFFICES ASSUME NEW i \in 1..(Len(log) - Len(delayBuffer)), log[i].keyFrame
                PROVE  now' - log[i].time > delay'
    OBVIOUS
  <2>1. Len(log) \in Nat /\ Len(delayBuffer) \in Nat
    BY LenProperties DEF IInv, TypeOK
  <2>2. i \in 1..Len(log)
    BY <2>1
  <2>3. log[i] \in ChunkData
    BY <2>2, ElementOfSeq DEF IInv, TypeOK
  <2>4. log[i].time \in Nat
    BY <2>3, BoundsAssumption DEF ChunkData
  <2>5. now - log[i].time > delay
    BY DEF GroupInv
  <2>. QED
    BY <1>1, <2>4, <2>5
<1>. QED
  BY <1>2 DEF GroupInv

LEMMA GroupStep ==
  ASSUME ~ClockMayStepBack, \A d \in Delays : KeyInterval <= d,
         IInv, GroupInv, [RegularNext]_vars
  PROVE  /\ GroupInv'
         /\ log' # log /\ state # "REWIND"
              => delayBuffer' = FromFirst(log', FreshKeyFrames(log'))
         /\ state = "REWIND" /\ state' = "DELAY"
              /\ Len(buffer') + Len(readyChunks') > Len(buffer)
              => log[Len(log) - Len(buffer') - Len(readyChunks') + 1].keyFrame
<1>1. now \in Nat /\ delay \in Nat /\ KeyInterval <= delay
  BY DelaysAssumption, BoundsAssumption DEF IInv, TypeOK
<1>2. IInv'
  BY NextIInv DEF RegularNext
<1>3. now' \in Nat /\ delay' \in Nat
  <2>1. now' \in 0..MaxTime /\ delay' \in Delays
    BY <1>2 DEF IInv, TypeOK
  <2>. QED
    BY <2>1, DelaysAssumption, BoundsAssumption
<1>4. CASE \E p \in Packets : PushToBuffer(p.codec, p.flags, p.len) /\ KeyFrameEvery(KeyInterval)
  <2>1. PICK p \in Packets : PushToBuffer(p.codec, p.flags, p.len) /\ KeyFrameEvery(KeyInterval)
    BY <1>4
  <2>2. GroupInv' /\ (state # "REWIND" => delayBuffer' = FromFirst(log', FreshKeyFrames(log')))
    BY <1>1, <2>1, PushGroups
  <2>3. state' = state
    BY <2>1 DEF PushToBuffer
  <2>. QED
    BY <2>2, <2>3
<1>5. CASE CheckChunks
  <2>1. UNCHANGED <<log, delayBuffer, isDelayBufferActive, lastFlags, now, delay>>
    BY <1>5 DEF CheckChunks, ServeRewind, ServeForward, Relay, RelayReady
  <2>2. GroupInv'
    BY <1>1, <2>1, KeepGroups
  <2>3. state = "REWIND" => ServeRewind
    BY <1>5 DEF CheckChunks, ServeForward, Relay
  <2>. QED
    BY <2>1, <2>2, <2>3, RewindGroups
<1>6. CASE /\ ActivateDelay \/ DeactivateDelay \/ SetDelay \/ AdvanceClock \/ UNCHANGED vars
           /\ delay' <= delay
  <2>1. UNCHANGED <<log, delayBuffer, isDelayBufferActive, lastFlags>>
        /\ ~(state = "REWIND" /\ state' = "DELAY")
    BY <1>6 DEF ActivateDelay, DeactivateDelay, SetDelay, AdvanceClock, vars, streamVars
  <2>2. now <= now'
    BY <1>1, <1>6 DEF ActivateDelay, DeactivateDelay, SetDelay, AdvanceClock, vars
  <2>3. GroupInv'
    BY <1>3, <1>6, <2>1, <2>2, KeepGroups
  <2>. QED
    BY <2>1, <2>3
<1>7. ~SetClockBack
  BY DEF SetClockBack
<1>8. UNCHANGED vars => delay' <= delay
  BY <1>1 DEF vars
<1>. QED
  BY <1>4, <1>5, <1>6, <1>7, <1>8 DEF RegularNext, Next, Push

LEMMA GroupInvariant ==
  ASSUME ~ClockMayStepBack, \A d \in Delays : KeyInterval <= d
  PROVE  RegularSpec => [](IInv /\ GroupInv)
<1>1. Init => IInv /\ GroupInv
  <2>. SUFFICES ASSUME Init PROVE GroupInv
    BY InitIInv
  <2>1. log = <<>> /\ delayBuffer = <<>> /\ Len(<<>>) = 0 /\ isDelayBufferActive = FALSE
    BY EmptySeq DEF Init
  <2>. QED
    BY <2>1 DEF GroupInv
<1>2. IInv /\ GroupInv /\ [RegularNext]_vars => IInv' /\ GroupInv'
  BY GroupStep, NextIInv DEF RegularNext
<1>. QED
  BY <1>1, <1>2, PTL DEF RegularSpec, RegularNext

\* When an encoder starts groups of pictures no further apart than every
\* delay, and time goes forward, the window starts at a key frame.
THEOREM WindowStartsAtKeyFrames ==
  ASSUME ~ClockMayStepBack, \A d \in Delays : KeyInterval <= d
  PROVE  RegularSpec => []WindowStartsAtKeyFrame
<1>1. IInv /\ GroupInv => WindowStartsAtKeyFrame
  BY DEF IInv, TypeOK, GroupInv, WindowStartsAtKeyFrame
<1>. QED
  BY <1>1, GroupInvariant, PTL

\* Under the same conditions, a rewind resumes at a key frame.
THEOREM RewindsResumeAtKeyFrames ==
  ASSUME ~ClockMayStepBack, \A d \in Delays : KeyInterval <= d
  PROVE  RegularSpec => RewindResumesAtKeyFrame
<1>. DEFINE A == state = "REWIND" /\ state' = "DELAY"
                   /\ Len(buffer') + Len(readyChunks') > Len(buffer)
                   => log[Len(log) - Len(buffer') - Len(readyChunks') + 1].keyFrame
<1>1. IInv /\ GroupInv /\ [RegularNext]_vars => [A]_vars
  BY GroupStep
<1>. QED
  BY <1>1, GroupInvariant, PTL DEF RegularSpec, RegularNext, RewindResumesAtKeyFrame

\* And a push leaves in the window what FreshKeyFrames says, of all the
\* stream had.
THEOREM WindowStaysExact ==
  ASSUME ~ClockMayStepBack, \A d \in Delays : KeyInterval <= d
  PROVE  RegularSpec => WindowIsExact
<1>. DEFINE A == log' # log /\ state # "REWIND"
                   => delayBuffer' = FromFirst(log', FreshKeyFrames(log'))
<1>1. IInv /\ GroupInv /\ [RegularNext]_vars => [A]_vars
  BY GroupStep
<1>. QED
  BY <1>1, GroupInvariant, PTL DEF RegularSpec, RegularNext, WindowIsExact
=============================================================================
