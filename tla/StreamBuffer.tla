---------------------------- MODULE StreamBuffer ----------------------------
(***************************************************************************)
(* One connection's StreamBuffer (src/streamBuffer.js), the timer tick     *)
(* that drains it (connections/connection.js) and the API requests that    *)
(* write the shared configuration it reads (api/apiServer.js, config.js).  *)
(* The event loop runs one handler at a time, so each handler is one       *)
(* action.                                                                 *)
(***************************************************************************)
EXTENDS StreamChunks

CONSTANTS
  Packets,          \* the kinds of chunk, [codec, flags, len], that arrive
  Delays,           \* the values STREAM_DELAY_MS is given
  KeyInterval,      \* how far apart RegularSpec's encoder starts key frames
  ClockMayStepBack, \* whether Date.now() can return less than it did before
  MaxChunks,        \* bound: chunks pushed in a behaviour
  PushHorizon,      \* bound: no chunk arrives after this time
  MaxTime           \* bound: the last time on the clock

ASSUME PacketsAssumption == Packets \subseteq [codec : STRING, flags : STRING, len : 1..MaxLen]
ASSUME DelaysAssumption == Delays \subseteq Nat /\ Delays # {}
ASSUME KeyIntervalAssumption == KeyInterval \in Nat
ASSUME BoundsAssumption ==
  /\ MaxChunks \in Nat /\ PushHorizon \in Nat /\ MaxTime \in Nat
  /\ ClockMayStepBack \in BOOLEAN

VARIABLES
  log,              \* history: every chunk pushed; CURRENT_ID counts them
  buffer,           \* chunks waiting to be relayed
  totalLength,      \* their bytes, as the code accounts for them
  delayBuffer,      \* the rolling window that a rewind replays
  isDelayBufferActive,
  lastFlags,
  readyChunks,      \* what the last step handed to the remote
  state,            \* config.state, the request of the API included
  delay,            \* config.STREAM_DELAY_MS
  now               \* Date.now()

streamVars == <<log, buffer, totalLength, delayBuffer, isDelayBufferActive, lastFlags>>
vars == <<streamVars, readyChunks, state, delay, now>>

States == {"REALTIME", "REWIND", "DELAY", "FORWARD"}

ChunkData ==
  [id : 0..(MaxChunks - 1), time : 0..MaxTime, keyFrame : BOOLEAN, len : 1..MaxLen]

\* this.CURRENT_ID is incremented by every push and by nothing else.
CURRENT_ID == Len(log)

TypeOK ==
  /\ log \in Seq(ChunkData)
  /\ buffer \in Seq(ChunkData)
  /\ totalLength \in Int
  /\ delayBuffer \in Seq(ChunkData)
  /\ isDelayBufferActive \in BOOLEAN
  /\ lastFlags \in {"undefined"} \cup {p.flags : p \in Packets}
  /\ readyChunks \in Seq(ChunkData)
  /\ state \in States
  /\ delay \in Delays
  /\ now \in 0..MaxTime

Init ==
  /\ log = <<>>
  /\ buffer = <<>>
  /\ totalLength = 0
  /\ delayBuffer = <<>>
  /\ isDelayBufferActive = FALSE
  /\ lastFlags = "undefined"
  /\ readyChunks = <<>>
  /\ state = "REALTIME"
  /\ delay \in Delays
  /\ now = 0

-----------------------------------------------------------------------------
\* Variant with a defect: the window does not wait for a key frame to begin.
PushToBufferAtOnce(codec, flags, len) ==
  LET chunk  == [id |-> CURRENT_ID, time |-> now, len |-> len,
                 keyFrame |-> StartsKeyFrame(CURRENT_ID, codec, flags, lastFlags)]
      window == Append(delayBuffer, chunk)
  IN  /\ CURRENT_ID < MaxChunks
      /\ now <= PushHorizon
      /\ log' = Append(log, chunk)
      /\ buffer' = Append(buffer, chunk)
      /\ totalLength' = totalLength + len
      /\ isDelayBufferActive' = TRUE
      /\ delayBuffer' = IF state = "REWIND" THEN window ELSE Trimmed(window, now, delay)
      /\ lastFlags' = flags
      /\ readyChunks' = <<>>
      /\ UNCHANGED <<state, delay, now>>

\* pushToBuffer(chunk, codec, flags), updateDelayBuffer included.
PushToBuffer(codec, flags, len) ==
  LET chunk  == [id |-> CURRENT_ID, time |-> now, len |-> len,
                 keyFrame |-> StartsKeyFrame(CURRENT_ID, codec, flags, lastFlags)]
      active == isDelayBufferActive \/ chunk.keyFrame
      window == IF active THEN Append(delayBuffer, chunk) ELSE delayBuffer
  IN  /\ CURRENT_ID < MaxChunks
      /\ now <= PushHorizon
      /\ log' = Append(log, chunk)
      /\ buffer' = Append(buffer, chunk)
      /\ totalLength' = totalLength + len
      /\ isDelayBufferActive' = active
      /\ delayBuffer' = IF state = "REWIND" THEN window ELSE Trimmed(window, now, delay)
      /\ lastFlags' = flags
      /\ readyChunks' = <<>>
      /\ UNCHANGED <<state, delay, now>>

\* The end of popReadyChunks, for a queue of `bytes' bytes in mode `mode'.
RelayReady(queue, bytes, mode) ==
  LET rest  == NotReady(queue, mode, now, delay)
      ready == SubSeq(queue, 1, Len(queue) - Len(rest))
  IN  /\ buffer' = rest
      /\ readyChunks' = ready
      /\ totalLength' = bytes - Bytes(ready)
      /\ state' = mode
      /\ UNCHANGED <<log, delayBuffer, isDelayBufferActive, lastFlags, delay, now>>

\* Variant of ServeRewind with a defect: the bytes put back are not counted.
ServeRewindUncounted ==
  /\ state = "REWIND"
  /\ RelayReady(Rewound(buffer, delayBuffer), totalLength, "DELAY")

\* checkChunks, the timer callback, calls popReadyChunks and sends what it
\* returns; the first tick after a request serves the request.
ServeRewind ==
  /\ state = "REWIND"
  /\ RelayReady(Rewound(buffer, delayBuffer),
                totalLength + Bytes(Pick(delayBuffer, Missing(buffer, delayBuffer))),
                "DELAY")

ServeForward ==
  /\ state = "FORWARD"
  /\ RelayReady(Forwarded(buffer), Bytes(Forwarded(buffer)), "REALTIME")

Relay ==
  /\ state \in {"DELAY", "REALTIME"}
  /\ RelayReady(buffer, totalLength, state)

CheckChunks == ServeRewind \/ ServeForward \/ Relay

-----------------------------------------------------------------------------
\* Variant with a defect: a mode that does not exist.
ActivateDelayMisspelt ==
  /\ state' = "REWINDING"
  /\ readyChunks' = <<>>
  /\ UNCHANGED <<streamVars, delay, now>>

\* GET /activate-delay and GET /deactivate-delay.
ActivateDelay ==
  /\ state' = "REWIND"
  /\ readyChunks' = <<>>
  /\ UNCHANGED <<streamVars, delay, now>>

DeactivateDelay ==
  /\ state' = "FORWARD"
  /\ readyChunks' = <<>>
  /\ UNCHANGED <<streamVars, delay, now>>

\* GET /set-delay?ms=...
SetDelay ==
  /\ delay' \in Delays
  /\ readyChunks' = <<>>
  /\ UNCHANGED <<streamVars, state, now>>

\* Date.now() follows the wall clock, which may be set back.
AdvanceClock ==
  /\ now < MaxTime
  /\ now' = now + 1
  /\ readyChunks' = <<>>
  /\ UNCHANGED <<streamVars, state, delay>>

SetClockBack ==
  /\ ClockMayStepBack
  /\ now > 0
  /\ now' = now - 1
  /\ readyChunks' = <<>>
  /\ UNCHANGED <<streamVars, state, delay>>

Push == \E p \in Packets : PushToBuffer(p.codec, p.flags, p.len)

Next ==
  \/ Push
  \/ CheckChunks
  \/ ActivateDelay
  \/ DeactivateDelay
  \/ SetDelay
  \/ AdvanceClock
  \/ SetClockBack

Spec == Init /\ [][Next]_vars

-----------------------------------------------------------------------------
\* Both queues hold the newest chunks of the stream, complete and in order:
\* whatever was relayed, trimmed, rewound or skipped before, no chunk is
\* missing in the middle, held twice or out of place.
StoredInOrder == IsSuffixOf(buffer, log) /\ IsSuffixOf(delayBuffer, log)

\* The byte count is that of the queue, though a push, a tick, a rewind and
\* a forward each adjust it in a way of their own.
TotalLengthIsBytes == totalLength = Bytes(buffer)

\* The stream sees what StreamLog allows.
Log == INSTANCE StreamLog WITH
         Chunk  <- ChunkData,
         relay  <- Len(log) - Len(buffer),
         window <- Len(log) - Len(delayBuffer),
         out    <- readyChunks

ImplementsStreamLog == Log!Spec

-----------------------------------------------------------------------------
\* An encoder that starts a group of pictures at least every KeyInterval:
\* a chunk that is no key frame arrives less than that after one that is.
\* Before its first key frame the stream is not constrained.
KeyFrameEvery(interval) ==
  log' # log =>
    LET chunk == log'[Len(log')]
        keys  == {i \in 1..Len(log) : log[i].keyFrame}
    IN  chunk.keyFrame \/ keys = {}
          \/ \E i \in keys : chunk.time - log[i].time < interval

\* With such an encoder, and a delay that is only lowered: a window cannot
\* be what it was trimmed for a shorter delay before.
RegularNext == Next /\ KeyFrameEvery(KeyInterval) /\ delay' <= delay
RegularSpec == Init /\ [][RegularNext]_vars

\* The window a rewind replays starts at a key frame, so that the replay can
\* be decoded: the doc comment of updateDelayBuffer promises it.
WindowStartsAtKeyFrame == delayBuffer # <<>> => delayBuffer[1].keyFrame

\* A rewind that moves the relay back resumes it at a key frame.
RewindResumesAtKeyFrame ==
  [][state = "REWIND" /\ state' = "DELAY" /\ Len(buffer') + Len(readyChunks') > Len(buffer)
       => log[Len(log) - Len(buffer') - Len(readyChunks') + 1].keyFrame]_vars

\* Once a chunk has arrived, the window is everything from the oldest key
\* frame that is not older than the delay, of all the stream had: neither a
\* group of pictures too many nor one too few is trimmed.  (While a rewind
\* is pending nothing is trimmed.)
FreshKeyFrames(chunks) == {i \in 1..Len(chunks) : chunks[i].keyFrame /\ now - chunks[i].time <= delay}
WindowIsExact ==
  [][log' # log /\ state # "REWIND" => delayBuffer' = FromFirst(log', FreshKeyFrames(log'))]_vars

-----------------------------------------------------------------------------
(* Statements of the repository that the code does not keep.               *)

\* "Only keep chunks associated with the most recent key frame", the comment
\* in handleForwarding: what a forward plays is the last group of pictures.
MostRecentGroup(queue) ==
  LET keys == {i \in 1..Len(queue) : queue[i].keyFrame}
  IN  Suffix(queue, CHOOSE i \in keys : \A j \in keys : j <= i)
ForwardKeepsMostRecentGroup ==
  [][state = "FORWARD" /\ state' = "REALTIME" /\ (\E i \in 1..Len(buffer) : buffer[i].keyFrame)
       => readyChunks' = MostRecentGroup(buffer)]_vars
=============================================================================
