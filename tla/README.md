# DelayRelay in TLA+

A verification development of DelayRelay, a Node.js proxy that sits between OBS
and Twitch and can delay, rewind and fast-forward a live RTMP stream. Paths such
as `src/src/streamBuffer.js` are those of the repository, with its root as `src/`.

The modules are written from the code, not from its documentation. Where the code
and a comment or document of the repository disagree, a run shows the
disagreement (see *Where the code and its documentation disagree*).

## The system

One process runs one event loop: every callback (socket data, timer, HTTP
request) runs to its end before the next. A handler is therefore one atomic
action in the models; what interleaves is the order of the callbacks, several
connections, the API, the timers, the two remote parties and the wall clock.

| component | state it keeps | operations | interacts with |
|---|---|---|---|
| `StreamBuffer` (`streamBuffer.js`) | queue, delay window, byte count, last flags, next id | push, pop the ready chunks, serve a rewind or a forward | reads and **writes** `config.state`, reads `config.STREAM_DELAY_MS` |
| `RingBuffer` (`ringBuffer.js`) | slots, head, length, capacity | push, pop, shift, unshift, get, clear, grow | both queues of `StreamBuffer` |
| `Connection` (`connections/connection.js`) | client socket, buffer, ended, interval | timer tick, close | `StreamBuffer`, sockets, `config.clientConnected` |
| `MultiConnection` (`connections/multiConnection.js`) | an RTMP server towards OBS, a client towards the remote | data from OBS, run, close | the connection `index.js` uses |
| `RtmpClient` (`rtmp/RtmpClient.js`) | socket, reconnection, session state, transactions, queued commands, queued chunks | relay a command, send a chunk, events of the remote, reconnect, close | the remote; `RtmpImpl` parses for it |
| `RtmpServer` (`rtmp/RtmpServer.js`) | session with OBS | answers connect, createStream, publish itself; passes commands to its clients | OBS, `RtmpClient` |
| `RtmpImpl`, `RtmpMessage`, `amf.js` | handshake and chunk parser, chunk writer, command codec | feed bytes, create chunks, encode, decode | both RTMP ends |
| `RelayServer` (`relayServer.js`) | listening socket, set of clients | run, close, accept | creates connections; `config.serverStatus` |
| `ApiServer` (`api/apiServer.js`) | none | `/activate-delay`, `/deactivate-delay`, `/set-delay`, `/start-server`, `/stop-server`, other settings, `/status` | writes `config`, calls `RelayServer` |
| `Config` (`config.js`) | settings (saved to a file), state, status | setters save the whole file | shared by everything |
| pages (`api/*.html`) | what they last read | toggles that read the status, then act | `ApiServer` |

`index.js` creates `MultiConnection`s. `SimpleConnection` (with
`streamBufferOld.js`) and `RtmpConnection` are earlier connections that stay in
the tree; `StreamBuffer` is used by `RtmpConnection` and by `MultiConnection` in
silent-proxy mode, while in the shipped mode `MultiConnection` hands the data of
OBS to `RtmpClient` directly.

What is hard about it, and what makes each part correct:

* **StreamBuffer** - two queues over one stream, one moved back and forth at run
  time, trimmed by groups of pictures and by a clock that may step back.
  Correct: no chunk lost in the middle, doubled or out of order; a replay starts
  at a key frame; the byte count is right; every request is served and every
  chunk leaves.
* **RingBuffer** - wrapping by a mask and growing while wrapped. Correct: it is
  a double-ended queue, and does not keep removed chunks alive.
* **Several connections** - one mode, one delay and one flag for all of them: the
  timer that fires first serves a request for everyone. Correct: each remote gets
  its stream in order all the same, every request is served, every queue drains,
  and after a loss nothing goes on behind the gap; relaying does not end the
  process, which holds of one of the two buffers only.
* **RtmpServer with RtmpClient** - two sessions with ids of their own that share
  the command objects of OBS. Correct: OBS is answered in order and under its
  ids, the remote is addressed under those that it gave.
* **AMF codec** - values nested in values, whose lengths each decoder counts by
  hand. Correct: what OBS meant is what the client reads, and what it relays.
* **RtmpClient** - OBS is answered locally and runs ahead, the remote answers
  late or never, connections are refused and dropped, timers race answers.
  Correct: commands once, in order and after the answers they need; one end for
  each transaction; one connection attempt at a time; nothing after `close()`.
* **The parser** - bytes come cut anywhere, messages interleaved by channel, in
  chunks of a size that changes, with headers that leave out what was said
  before. Correct: it hands on the messages that were sent, and as soon as it has
  them; its loop ends, with all bytes used or in an exception that a message may
  cause.
* **RelayServer** - start, stop, accepted sockets and forced ends interleave.
  Correct: the status the API acts on is that of the server; a stop covers every
  socket and ends; a connection to the remote goes with its client.
* **Config** - every setter rewrites the file in place, writes fail or are cut off
  by the end of the process, users edit the file meanwhile. Correct: what was
  accepted is there after a restart, and the settings are always usable.

The full list of hazards, each with its line and the properties that cover it or
why none does, is `hazards` in `PROJECT.json`.

## The modules

| module | what it is |
|---|---|
| `StreamLog` | abstract: a stream as a log with a relay cursor and a window cursor |
| `Subsequences` | what filtering a sequence leaves |
| `StreamChunks`, `StreamChunksProofs` | the algorithms of `streamBuffer.js` as operators on sequences of chunks; the lemmas on them and on `Subsequences` |
| `StreamBuffer` | one connection's buffer, its timer, the API requests and the clock; implements `StreamLog` |
| `MCStreamBuffer`, `StreamBufferProofs` | packets for TLC; the theorems |
| `Connections` | several connections, of either class, that share the mode, the delay and the flag |
| `MCConnections`, `ConnectionsProofs` | packets for TLC; the theorems |
| `Deque` | abstract: a double-ended queue |
| `RingBuffer`, `RingBufferProofs` | the circular buffer, which implements `Deque`; the theorems |
| `RtmpClient`, `MCRtmpClient` | the connection to the remote as `MultiConnection` drives it; what OBS sends, for TLC |
| `RtmpServer` | the session with OBS |
| `MultiConnection` | `RtmpServer` and `RtmpClient` composed, with an encoder |
| `MCMultiConnection`, `MultiConnectionProofs` | what OBS sends, for TLC; the theorems on the client and the composition |
| `AmfCodec` | decoding and encoding of AMF0 commands and how the client rewrites them |
| `MCAmfCodec`, `AmfCodecProofs` | commands for TLC; the theorems on all commands |
| `ChunkFormat` | the bytes of chunks: headers, `createChunks`, the fields as they are read |
| `RtmpParser`, `MCRtmpParser` | handshake and chunk parser behind `feed()`, with an RTMP peer; messages for TLC |
| `RtmpParserProofs` | the theorems on the format and on the parser |
| `RelayServer` | start, stop and accepted sockets, with the connection of each |
| `ControlPlane` | settings, their requests and their file, composed with the relay server over restarts |
| `MCControlPlane`, `ControlPlaneProofs` | defaults and edits for TLC; the theorems on both |

Definitions called *variant with a defect* stand next to the definition they are
a plausible mistake of. They are not part of any specification: each shows that
a property would notice that mistake.

### StreamBuffer

`log` is a history variable, every chunk pushed so far; `CURRENT_ID` is its
length. `buffer` and `delayBuffer` are sequences (that the ring buffer behaves as
one is what `RingBuffer` shows), `totalLength` is the byte count as the code keeps
it, `readyChunks` what the last step sent. A chunk is the record of the code
without its bytes; `len` stands for `data.length`.

| action | code |
|---|---|
| `PushToBuffer` | `pushToBuffer` with `updateDelayBuffer` |
| `ServeRewind`, `ServeForward`, `Relay` | one call of `popReadyChunks` by the timer callback `checkChunks`, by the mode it finds |
| `ActivateDelay`, `DeactivateDelay`, `SetDelay` | the API requests of those names |
| `AdvanceClock`, `SetClockBack` | external: `Date.now()` |

`Trimmed`, `Rewound`, `Forwarded` and `NotReady` are the loops of
`updateDelayBuffer`, `handleRewinding`, `handleForwarding` and `popReadyChunks`.
Each loop shifts chunks off a queue until an index where a condition first holds,
so each is the suffix that starts there.

The refinement of `StreamLog` counts what is behind each queue: with
`relay = Len(log) - Len(buffer)` and `window = Len(log) - Len(delayBuffer)` a tick
plays a contiguous stretch of the stream, goes back only for a rewind and then no
further than the window, and skips only for a forward.

`RegularSpec` adds an encoder that starts a group of pictures at least every
`KeyInterval` and a delay that is only lowered.

### Connections

Each client has its `stream` (next id, the two queues, last flags), its two
sockets and a timer that ends with the connection; `state`, `delay` and
`clientConnected` are those of `config.js`, for all of them. The operators of
`StreamChunks` are used again, without the byte count and for either class of
connection (`kind`): "rtmp" fills the `StreamBuffer`, "simple" the one of
`streamBufferOld.js`. The two buffers keep the bytes of a chunk in fields of
different names (`bytesIn`), and `sendChunk` reads that of the `StreamBuffer`. With
"simple" the first chunk for a remote that can be written to therefore throws out
of the timer callback (`Throws`) and ends the process: `running` falls, and nothing
happens after it. Up to there a `SimpleConnection` only collects chunks, and loses
those of a remote that cannot be written to.

| action | code |
|---|---|
| `OnData` | `RtmpConnection.onData` or `SimpleConnection.onData` with one packet |
| `CheckChunks` | one tick of a timer: `popReadyChunks`, then `sendChunk` for what is ready |
| `RemoteConnected`, `RemoteClosed`, `ClientClosed` | the events of the sockets, with `close()` |
| `RemoteEnds` | external: the remote ends its side |
| `Request`, `SetDelay` | the API requests |

`played` is what was handed to a remote since the last request, `lost` whether
chunks were taken out of the buffer for a socket that could not be written to.
Until the first data, the timer of a `SimpleConnection` drains the buffer of the
constructor, which is of the new kind (`HasOldBuffer`). Only one client sees a
rewind or a forward when two stream, the one whose timer fires first; the other
goes on in the mode it leaves behind. No text promises more, and the properties
say what holds all the same. `EveryStreamInOrder` is about "rtmp"; of "simple"
there is nothing to say but that it ends, and the liveness properties hold as long
as the process is up.

### RingBuffer

The slots are a function, an index is `(head + i) % cap` where the code masks
with `cap - 1`; that the capacity stays a power of two, part of `TypeOK`, is what
makes the two equal. `_grow` is the three operators `CapWithRoom`,
`HeadWithRoom` and `BufWithRoom`, used by both operations that call it. `result`
is what the last call returned. Capacities end at 2^30 (`MaxCapacity`): beyond,
the shift in `nextPowerOfTwo` wraps to a negative number, which no buffer of
chunks reaches.

### RtmpClient

| action | code |
|---|---|
| `TcpConnected`, `RemoteFails`, `SocketClosed` | the socket's connect, error, close |
| `Reconnect` | the timer of `scheduleReconnect`, calling `connect()` |
| `Close` | `MultiConnection.close()` when the OBS socket closes |
| `ObsCommand`, `ObsMedia` | `MultiConnection.onData`: the command is relayed, then the data sent as a chunk |
| `CompletedHandshake` | S0, S1, S2 from the remote |
| `ConnectResult`, `CreateStreamResult`, `ErrorResult`, `UnexpectedResult` | `handlePendingCommand` with the handlers of the result |
| `StreamBegin`, `OnStatus` | those messages |
| `TransactionTimeout` | the five second timer of `sendCommandMessageAsync` |

`wire` is a history of what was written to the current connection, `answered` and
`returned` of what the remote did on it, `settled` of how transactions ended.
Abstractions: a data event of OBS holds at most one command, and raw data events
are the chunks, as in the code; transactions time out in the order of their
creation, since all wait equally long; the handshake with the remote is one
step; acknowledgements and ping replies are left out because no state depends on
them. The port is either one that `connect()` accepts or not, for good, because
the constructor fixes it. OBS is external: it sends the commands of `Script` in
order and as fast as it likes. The remote is external: it answers a command once,
at any time, or never.

### RtmpServer and MultiConnection

`RtmpServer` has one operator for the listener of each command. `obsWire` is the
history of what OBS was sent, of which the ids are kept. `MultiConnection` joins
it to `RtmpClient` as `onData` does: the data of OBS is parsed, each message is
answered and relayed, and the raw data is sent on as a chunk.

| action | code |
|---|---|
| `ObsHandshake` | `onData` with the end of C1 or C2 |
| `ObsSends` | `onData` with a command: `relayCommand` of the client, then the listener that answers |
| `ObsStreamData` | `onData` with media or a part of a message |
| `ClientStep` | any step of `RtmpClient` alone |

Both listeners of a command get the same object. For the commands that the client
passes on it writes its own transaction id into it, before the server reads the
id; for connect, createStream and publish it builds a new one (`IdForListeners`).
OBS is an encoder: it waits for the answer to connect before it creates a stream,
and for the stream before it publishes. One data event carries at most one
message; with several in one event the order of relay and answer is the same for
each. That `silentProxy` is FALSE is a constant of the code.

### AmfCodec

A value is a record of its type, bytes, keys and parts, as it is sent; what it
means is `Meaning`. `Nested` are the values that are nested up to some depth, by
recursion on the depth, and the commands of `Sent` hold any of them. The functions
of the code that call each other are one recursive function, `Decode`: its argument
says which of them is called, and `DecodeMembers`, `DecodeTyped` and the others get
it as a parameter. So are `EncodeOne`, `Encodes`, `Bytes` and `Meaning` recursive
functions, over the values. A command is a behaviour of three steps: it is decoded field
by field (`DecodeField`, with the number of bytes each decoder claims to have
taken), relayed (`Relay`, with the objects that `RtmpClient` builds for connect,
createStream and publish) and decoded by the remote (`Arrive`). Numbers keep their
bytes, texts are sequences of bytes, lengths are below 256.

What the code does not carry over is outside the values of `Nested`, and is
known from the code: `amf0decArray` claims one byte more than it took, which is
harmless only when the array comes last; `str.length` counts UTF-16 units, not the
bytes of a text that is not ASCII; strict and ECMA arrays cannot be encoded,
because `debug` and `error` are not defined there, so a command that holds one is
not relayed; a marker or command that is not in the tables ends in the same
undefined function, out of the data handler. Dates come back as numbers, long
strings and XML as strings, which the model has (`Relayed` of `Meaning`). The names
of members are those that JavaScript keeps as they are (`Names`): one that is an
index moves to the front of its object, and `__proto__` sets no member.

### ChunkFormat and RtmpParser

A byte is a number below `B`, which is 256 in the code. All widths scale with it:
a basic header has `B \div 4` direct values, a timestamp three digits, its
extension and a chunk size four. `TimestampMark` and `MaxClock` are 0xffffff and
0xffffffff.

| action | code |
|---|---|
| `Feed` | `feed()` is called with the next bytes, as many as the network likes |
| `ReadVersion`, `ReadSignature` | the cases of `handshakeState` |
| `ReadFirstByte`, `ReadBasicHeader`, `ReadMessageHeader`, `ReadExtendedTimestamp`, `ReadPayload` | the cases of `parserState` in `chunkRead()`, one pass of the loop each; the header and the payload are handed to `packetParse` and `packetHandler` in the same step |
| `LostConnection` | close and connect of `RtmpClient`'s socket, which reset only `handshakeState` |
| `BeginMessage`, `ContinueMessage` | external: a peer writes a chunk |
| `SendChunks` | a peer that runs this code, as `test/dummy_rtmp_server.js` does |

A call of `feed()` is one callback, so the peer's steps are kept between the
calls. `data` is what the call has not used; `parserBytes` is the length of
`parserBuffer`; `parserPacket` is the entry of `inPackets` at `channel`. `sent`
and `received` are histories; a message whose clock left its 32 bits is in
neither, because there the code gives it up. With `LostAnywhere` FALSE a
connection is lost only in the handshake or when nothing is in progress and the
chunk size is the first one; with TRUE it is lost anywhere. A message that sets
the chunk size holds four bytes that are not zero (`ChunkSizeAssumption`; the
code would go on for ever with chunks of no size). The peer changes its chunk size
only while no message is in progress, as encoders and servers do (the parser would misread the
rest of such a message), and uses channels that the code keeps apart
(`ChannelsAssumption`; three-byte channel numbers are read by another formula
than they are written with). Of `packetHandler` the model keeps what changes the
parser, the chunk size, and what leaves it as an exception (`Throws`); as which
event a message is emitted, the bytes of the handshake answers and ping replies
are left out.

Nothing catches an exception of a handler: it leaves `feed()` and the data handler
of the socket, and ends the process. `running` falls then, the message is not in
`received`, and no further step is taken. Three messages do that: a media or data
message with an empty payload and an extended timestamp (`createChunks` writes
behind its buffer), a video message with the code of AV1, VP9 or HEVC
(`parsePacketFlag`), and a command that `decodeAmf0Cmd` cannot read
(`UnreadableCommands`, which `AmfCodec` says more about). Handlers that read a
payload read only what is in it (`PayloadsAssumption`): a control message has a
payload, and a video message that has a frame type holds the four bytes of the
code. What the code does with shorter ones depends on the bytes of an earlier
message behind their end, which the model does not keep.

### RelayServer

`conn[s]` is what a socket is doing: accepted sockets are paused until the remote
completed its handshake, and a paused socket does not notice that OBS closed.
Node emits `listening` and the server's `close` before any later event, so both
belong to the step that causes them; a socket's own `close` is an event of its
own (`SocketClosed`), so that a handshake can complete between the two. The
process may end, when the port is taken and nobody handles the error
(`StartServerFails`) or from outside (`Killed`), and be started again (`Start`).

### ControlPlane

Extends `RelayServer` by the settings, `config.json` and the port of the API. All
requests for settings have one form, which `SetSetting` is: the endpoint checks
the value, the setter stores it and saves everything. They differ in the range,
`Accepts`. Values are integers (`REMOTE_RTMP_URL` is empty or not), and the bytes
count units of 6000, so that the default of `MAX_BUFFER_CHUNKS` is the number of
`MAX_BUFFER_BYTES`.

| definition | code |
|---|---|
| `Loaded` | `loadFromDisk` and the defaults of the constructor |
| `Save` | `saveToDisk`: it succeeds, leaves the old file or leaves a part |
| `Boot` | the constructor: load, defaults, save |
| `StartProcess`, `StartProcessFails` | `index.js` with `ApiServer.run`, when the API can listen and when not |
| `ServerStep` | anything the relay server does; it starts only on a port that is one and not that of the API |
| `EditFile` | the user writes or deletes the file |

A kill during a save is a save that leaves a part, followed by `Killed`.
`intact` and `edited` are histories; `settings` stays what it was when the
process is gone, so that a start can be compared with it.

## The runs

| run | checks | shows |
|---|---|---|
| `stream_safety` | `TypeOK`, `StoredInOrder`, `TotalLengthIsBytes`, `ImplementsStreamLog` | both queues are the newest part of the stream, bytes counted right, `StreamLog` implemented, with a clock that steps back |
| `stream_groups` | `WindowStartsAtKeyFrame`, `RewindResumesAtKeyFrame`, `WindowIsExact` | with groups of pictures no longer than the delay, and a delay that is lowered, a replay starts at a key frame and the window is the stream from its oldest fresh key frame |
| `connections` | `EveryStreamInOrder`, `FlagNeedsRemote`, `RequestServed`, `QueueDrains`, `NothingAfterLoss` | two clients of either class and all orders of their sockets: the streams of `RtmpConnection`s stay in order, requests are served and queues drain while the process is up, nothing follows a loss |
| `ring_buffer` | `TypeOK`, `OnlyUsedSlotsHoldItems`, `ImplementsDeque` | the ring buffer is a deque with a power of two of slots |
| `client_reconnect` | `MultiTypeOK`, `SettledOnce`, `CommandsOnceInOrder`, `CommandsAwaitAnswers`, `EndedStaysDown`, `OneAttemptAtATime`, `ObsAnsweredInOrder`, `StreamIdsKeptApart`, `RemoteRetried`, `TransactionSettles`, `ObsIsServed` | server and client together, against a remote that refuses, drops, answers late or never, and against one that stays up |
| `amf_commands` | `FieldsAsSent`, `RelayedAsSent` | commands over all kinds of values and nesting, with short ASCII texts and an ECMA array only at the end, are read as meant and relayed unchanged |
| `parser_feed` | `TypeOK`, `ReadsWhatWasSent`, `NothingHeldBack`, `ChunkSizesAgree`, `FeedReturns` | the parser and `createChunks`, with any cuts, over a reconnect between messages and up to an exception; no header outgrows its buffer (`TypeOK`) |
| `control_plane` | `ControlTypeOK`, `StatusIsHonest`, `StopReachesEverySocket`, `NoOrphanedRemote`, `SettingsInRange`, `RestartKeepsSettings`, `StopEnds` | starts, stops and three sockets, with settings, failing saves, edits, kills and restarts |

### Bounds

* `StreamBuffer`: four chunks and three ticks of the clock with two delays are
  enough for a key frame of two chunks, a window that is trimmed, a rewind into a
  queue that still holds part of the window, and a forward over it;
  `stream_groups` uses six chunks over five ticks, so that three groups of
  pictures follow each other and two have to be trimmed; its delay is only
  lowered, because a window cannot be what it was trimmed for a shorter delay. Two
  kinds of packet suffice: the code tells apart only key frames and the rest.
  `PushHorizon` leaves time after the last push in which all chunks come due.
* `Connections`: two clients are one that meets a request and one that does not.
  Two packets each and the times 0 to 4 let one client stream while the other
  connects, loses its remote or is rewound; the bounds end pushes at 1 and requests
  at 2, so that queues have time to drain, and the delay changes between 1 and 2 at
  any time. Sockets are not bounded. The process may end, so deadlock is not
  checked.
* `RingBuffer`: a least capacity of 2 with up to 5 items doubles twice (2, 4, 8)
  with the head at every slot; the code's 32 only makes this rarer. Three
  different items tell any exchange of neighbours.
* `MultiConnection`: a script of five commands with every group of the flow and
  one command that is passed on as it is, nine data events, two stream ids that
  differ from those of OBS, transaction ids that differ from those of the client
  (`TidStride`), and backoff delays 2, 4, 5, where the last is the upper limit.
  `wire` restarts with every connection, and delays are capped, so the number of
  reconnects is not bounded.
* `AmfCodec`: every scalar, objects, typed objects and arrays of them, and of
  objects again; connect objects with and without each property that the client
  replaces. Lengths of one and two digits of text are all the arithmetic that a
  decoder does; `Depth` is 2. The invariant of the proofs was checked on the same
  instance. A command's way ends, so deadlock is not checked.
* `RtmpParser`: three messages are one on a channel, another that leaves out parts
  of its header, and one that comes between their chunks. The base is 32, the
  least in which the channels and types of the code fit; sizes of two and three
  bytes cut every payload, and `WireBound` lets several chunks come in one call.
  The messages reach each format, each length of header (18 bytes is the most), a
  clock beyond its 32 bits, an empty payload that is handed on, and the three
  messages that throw. The process may end, so deadlock is not checked.
* `ControlPlane`: three sockets are one that closes, one that is forced and one
  that comes meanwhile; starts, stops and restarts are not bounded. Requests are
  made for the two ports, which are the settings that the server itself reads,
  with values below, in and above their range; the others stay at their defaults
  or come from edits: a file with one setting, and one with an impossible port.

### Fairness

* `Connections`: weak fairness of the timer callback of every connection
  (`setInterval` fires again and again while the connection and the process last)
  and of the clock. Nothing is assumed of OBS, the API, the remotes or the sockets.
* `MultiConnection`: `LocalFairness` is the event loop: the socket's `close`
  event, the reconnect timer and the transaction timers. `RemoteRetried` and
  `TransactionSettles` need nothing of the remote. `RemoteFairness` is assumed
  only of a remote that is "prompt": it accepts the connection, stays up and
  answers within the timeout; `ObsFairness`: OBS sends on what it wants to send.
  Without them nothing can be said of `ObsIsServed`.
* `RtmpParser`: the loop of `feed()` runs on while the process is up, nothing else.
* `ControlPlane`: the five second timers fire and close events are delivered.
  Nothing is assumed of OBS: `StopEnds` holds for clients that never close.

## Where the code and its documentation disagree

Four runs are expected to be violated; `findings` quotes the lines.

* `forward_group` - *"Only keep chunks associated with the most recent key
  frame"*: a variable that starts at -1 is tested as a truth value; the queue is
  cleared, or cut at its oldest key frame.
* `client_stale_id` - *"Now publish using the returned stream id"*: after a
  reconnect, publish goes out under the id of an earlier connection.
* `client_stuck_chunk` - *"In real-time mode, chunks are relayed immediately to
  Twitch"*: no handler ever moves the client to the state in which it writes
  chunks; those that arrive after onStatus stay in the queue for ever.
* `parser_reconnect` - *"set state to expect S0+S1+S2"* in the connect handler:
  only `handshakeState` is set. After a loss within a message the first bytes of
  the new connection are read as the rest of the old one, and after a chunk size
  was set, with that size.

More come without a run:

* *"@param {import('../streamBuffer.js').ChunkData} chunk"* (`connection.js:90`, of
  `sendChunk`): the buffer of a `SimpleConnection` stores the bytes under another
  name (`streamBufferOld.js:59`). The first chunk for the remote throws out of the
  timer callback, and nothing is ever relayed (`Throws` of `Connections`).
* *"-1 if not a valid packet type, otherwise returns the packet flag"*
  (`RtmpMessage.js:144`, of `parsePacketFlag`): for AV1, VP9 and HEVC it compares
  with names that the module does not import (`RtmpMessage.js:167`), and throws
  (`MessageThrows` of `RtmpParser`).
* *"Ensures the buffer starts at a key frame for clean playback"* does not hold
  when a group of pictures is longer than the delay, which is why `stream_groups`
  has regular encoders.
* *"Track If the client is connected to the remote server"* (`config.js:16`,
  `clientConnected`): the flag is one for all connections, so that each that
  closes takes it down for the others, and the code that sets it is overridden in
  the connection in use. `FlagNeedsRemote` is the direction that holds.
* For an empty payload `createChunks` returns a header that is cut off
  (`EmptyPayloadIsCut`), and with an extended timestamp it throws. `packetHandler`
  calls it for every media and data message it reads (`RtmpImpl.js:317`), also for
  an empty one; no text says what should become of it.
* *"it does not fully await or validate server _result responses"*
  (`RtmpClient.js:28`, the comment of the class) is out of date: createStream waits
  for the result of connect, and publish for the stream id that createStream
  returned.
* *"Changes to `config.json` take effect on the next restart"* (`src/README.md:26`)
  holds only when no setting is changed over the API before that restart: each
  setter rewrites the whole file from memory (`EditFile`, then `SetSetting`).
* The rewind and the return to real time (`src/README.md:41`) have no effect with
  the connection in use, whose data never enters a `StreamBuffer`.
* The queue of chunks that `RtmpClient` flushes after onStatus
  (`RtmpClient.js:24`) holds all that OBS sent since the handshake, its own
  handshake and the commands that were relayed already among it.

The documents also say that `StreamBuffer` enforces limits on chunks and bytes
(`src/.github/copilot-instructions.md`); its memory management is commented out,
so the model has no limit either and no run is spent on it.

## The proofs

TLAPS proves these for every value of the constants, under the assumptions the
modules name; the runs show the same properties on their instances.

* `StreamBufferProofs`: `TypeCorrect`, `StreamStaysInOrder`,
  `StreamBufferImplementsStreamLog`, `TotalLengthStaysExact`. Assumed: packets
  have lengths of at least 1, delays and bounds are naturals. That the queues are
  suffixes of the stream is not inductive alone, because a rewind looks ids up in
  the queue: the invariant `IInv` adds that ids number the stream and that the
  window is empty until its first key frame. `StreamChunksProofs` shows of each
  loop that it yields a suffix, and that a rewind yields the longer of the two
  queues (`RewoundIsTheLonger`); its lemmas on `Pick`, by the rank of each index,
  also serve `MultiConnectionProofs`. Nothing is assumed of the clock. The byte count
  is the cardinality of a set of cells, so that sums need no induction
  (`BytesOfConcat`).
  `WindowStartsAtKeyFrames`, `RewindsResumeAtKeyFrames` and `WindowStaysExact`
  are about `RegularSpec`, with a clock that is not set back and delays of at
  least `KeyInterval`. Their invariant `GroupInv` adds to `IInv` that times
  ascend, that the last key frame is younger than `KeyInterval`, and that the
  window begins with a key frame: a trim then always finds a group to stop at.
* `ConnectionsProofs`: `RemotesGetTheirStreamInOrder`, `NothingFollowsALoss`,
  `FlagNeedsItsRemote`, for any number of clients. The invariant
  `ConnectionsInv` says of each stream, with the new buffer, that what was sent
  ends where the queue begins (`NewOK`), which a rewind would break were `played`
  not empty then: a request that is still up was sent nothing since. With the old
  one it says that nothing was sent (`OldOK`). The timer of another connection can
  end a request, never begin one (`ModeServed`), and after a loss the remote is not
  written to again (`LossInv`), so that the gap stays at the end.
* `RingBufferProofs`: `TypeCorrect`, `UsedSlotsHoldTheItems`,
  `RingBufferImplementsDeque`. The invariant is the type, with a capacity that is
  a power of two, and that exactly the slots in use hold items. The lemmas on
  `SlotValue` and `SlotInjective` are the arithmetic of wrapping; each operation
  has one lemma that preserves the invariant and shows the step of `Deque`.
* `MultiConnectionProofs`, on the client alone: `ClosedClientStaysDown` and
  `NoSecondAttempt`, which are inductive only together (no timer is set while
  there is a socket, so its close event is the only one that sets it);
  `TransactionsSettleOnce`, whose invariant adds that ids are handed out once and
  below `transId`; `CommandsKeepTheirOrder` and `CommandsWaitForTheRemote`, whose
  invariant relates the commands that wait to the position of the session: those
  that wait belong to later groups than any that was written. Assumed of the
  script: groups come in the order of the flow (`ScriptAssumption`).
  `MultiConnectionDrivesClient` carries all that over to the composition, with
  `MultiTypes`, `ObsGetsItsAnswers` and `SessionsKeepTheirIds`. The last two rest
  on `ObsInv` (what OBS was sent, by the commands it has sent) and on
  `PromptInv` (with a remote that stays up, the id in use was returned on this
  connection before publish is released).
* `RtmpParserProofs`, on the format: `ChunksFillTheirBuffer` (what `createChunks`
  computes in advance is what it writes), `EmptyPayloadIsCut`,
  `ShortChannelsAreRead`. They rest on the uniqueness of quotients and on
  `BaseAssumption`. On the parser: `TypeCorrect`, `MessagesAreRead`,
  `NothingIsHeldBack`, `ChunkSizesAreAgreed`, for every base, size, set of messages
  and bound. They assume `LostAnywhere = FALSE`; without it `parser_reconnect`
  refutes `ReadsWhatWasSent`.
  What the parser is to read is on the wire as bytes, and what it has read is in
  half a dozen variables, so no invariant on the variables alone is inductive. The
  invariant `ParserInv` says that there is a history that explains them
  (`Explains`): the bytes `S` of the connection, cut into whole chunks `C` between
  places `P`, each with what `open`, `last`, `outSize` and `sent` were there. The
  first place is behind the handshake, the last one is where the peer is, each
  chunk takes one place to the next as the protocol allows (`Moves`) and its bytes
  lie in `S` (`Follows`). Of `S` the parser has used `x` bytes, and the rest is
  `data` and `wire` (`Underway`); it is in the handshake, at a place, or within the
  chunk behind a place (`Reached`), where `InChunk` says for each state of the
  parser what it holds of that chunk. At a place it knows what the peer knew there
  (`AgreesBut`): the last message on each channel, and of each open one exactly
  the bytes written so far. All this is about a process that is up: the step
  in which a handler throws is its last, and of what it leaves only types and order
  are said (`Stopped`, `ThrowStep`; together `RunInv`).
  Each case of `chunkRead()` is one lemma that moves
  within a chunk or to the next place (`FirstByteStep` to `PayloadStep`); the
  peer's steps append to the history (`BeginStep`, `ContinueStep`, `SendStep`,
  joined by `SegmentsJoin`); the end of the handshake and a reconnect begin one.
  For `createChunks`, `ManyChunks` shows that the bytes it computes are the chunks
  of one message, one after the other.
  The lemmas on the format show that each header is read as it was written
  (`MessageHeaderRead`, `ExtendedTimestampRead`, `HeaderReadFields`), from the
  uniqueness of digits. The invariant was checked with TLC first, with the history
  as a variable, on the messages of `parser_feed` that throw nothing.
* `ControlPlaneProofs`, on the relay server: `StatusStaysHonest`,
  `StopMissesNoSocket`, `NoRemoteIsOrphaned`, whose invariant adds that a socket
  is tracked as long as it exists, also between its destruction and its close
  event. On the settings: `SettingsSurvive`, `SettingsStayInRange`,
  `ControlTypeCorrect`, and `ControlPlaneKeepsServer`, by which the theorems on
  the server hold of the whole program. The invariant says of the file what makes
  the next start right: if intact it holds the settings, and if only the program
  wrote it, then either nothing or settings in range. Assumed: acceptable
  defaults, and edits that are objects with numbers (`ControlAssumption`).

* `AmfCodecProofs`: `RoundTrip`, `FieldsAsSentHolds`, `RelayedAsSentHolds`, for
  commands of any values of `Nested`, to any depth: texts are ASCII, every length is
  below 256, and the names of members are those that JavaScript keeps as they are.
  Assumed (`CommandsAssumption`): OBS sends the fields that a command has and not
  less than the client reads, connect with an object, and an ECMA array last; the
  client's own values are a number and a text.
  The prover knows a recursive function only as `CHOOSE f : f = [x \in S |-> ...]`,
  and cannot use a theorem that has an operator for a parameter, as those of the
  library on recursion and on induction have. Both are done by sets and names
  instead. `Induction` is induction for a set of naturals, and every proof
  by induction here defines the set of those for which its claim holds. `Recursion`
  is about all the recursive functions at once: a function is its name, `Chain`
  gives the arguments for which n steps of recursion are enough and `Body` what its
  definition says, and there is such a function when its body uses the function
  only on arguments that need fewer steps. For the functions over values these are
  the depths; for `Decode`, the bytes that are left, and of as many the items that a
  loop has to go.
  `Trips(bs, v)` says that whatever follows the bytes `bs`, `DecodeOne` gives `v` and
  takes exactly `bs`; each marker has a lemma on it, and the two loops one each
  (`MembersLoop`, `ItemsLoop`), by induction on the members and items. `RoundTrip`
  is then by induction on the depth: a value is decoded to what it means, what it
  means is again a value, and unless a strict array is in it what `EncodeOne` makes
  of that is decoded to the same again (`Round`, `Good`). The invariant `IInv` says
  of a command on its way that the buffer holds what is left of the fields and
  `fields` what those before it mean (`Reading`), with the server as with the
  remote, and between the two that what the client makes of the fields can be
  encoded but for a strict array (`RelayedFine`).

Only model-checked: liveness, which needs fairness and ENABLED, out of the
prover's reach (`RequestServed`, `QueueDrains`, `RemoteRetried`,
`TransactionSettles`, `ObsIsServed`, `FeedReturns`, `StopEnds`); and the four
properties that are expected to fail.

## Not modelled

* `play` in `RtmpServer` (OBS never sends it, and it is answered as publish is), and
  its `parsePacketFlag`, which nothing calls. Of that of `RtmpMessage` the model has
  the exception; no state depends on the flags it returns.
* The events of `packetHandler` for media, acknowledgements and ping replies: no
  state depends on them. Data messages of AMF are relayed as raw bytes.
* `handleMemoryManagement`: commented out in `streamBuffer.js`, and never called
  in `streamBufferOld.js`.
* `silentProxy`: a constant that is FALSE.
* `parsing.js`: nothing that `index.js` creates reaches it; it is an earlier
  version of the parser that `RtmpParser` models.
* The pages under `api/`: they read the status and send requests, which are
  modelled, in every order, where they are served.
* `logger.js` and `utils.js` are output and paths; `DummyRemoteServer` and the
  scripts under `test/` are test doubles; the bundle under `bin/` is generated.
