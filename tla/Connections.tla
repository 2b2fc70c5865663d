----------------------------- MODULE Connections -----------------------------
(***************************************************************************)
(* Several clients at once: each has a Connection (connections/            *)
(* connection.js) with a buffer, a timer and a socket to the remote of its *)
(* own, and they share the mode, the delay and the flag clientConnected of *)
(* config.js.  `kind' is the class of connection that the RelayServer is   *)
(* given: "rtmp" fills the StreamBuffer of streamBuffer.js (rtmpConnection *)
(* .js), "simple" that of streamBufferOld.js (simpleConnection.js), whose  *)
(* chunks sendChunk cannot write: the first one it has to write ends the   *)
(* process.                                                                *)
(***************************************************************************)
EXTENDS StreamChunks

CONSTANTS
  Clients,
  Kinds,            \* the classes of connection, of {"rtmp", "simple"}
  Packets,          \* what each client sends, a sequence of [codec, flags]
  Delays,           \* the values STREAM_DELAY_MS is given
  PushHorizon,      \* bound: no chunk arrives after this time
  RequestHorizon,   \* bound: nor a request
  MaxTime           \* bound: the last time on the clock

ASSUME KindsAssumption == Kinds \subseteq {"rtmp", "simple"} /\ Kinds # {}
ASSUME PacketsAssumption == Packets \in Seq([codec : STRING, flags : STRING])
ASSUME TimesAssumption ==
  /\ Delays \subseteq Nat \ {0} /\ Delays # {}
  /\ PushHorizon \in Nat /\ RequestHorizon \in Nat /\ MaxTime \in Nat

VARIABLES
  kind,             \* rigid: the class of every connection
  stream,           \* per client: CURRENT_ID, the two queues, lastFlags
  played,           \* history: ids handed to the remote since the last request
  lost,             \* history: whether chunks were dropped unsent
  ended,            \* per client: Connection.ended, which stops the timer
  clientOpen,       \* per client: its socket has not closed yet
  remote,           \* per client: the socket to the remote
  clientConnected,  \* config.clientConnected
  state,            \* config.state
  delay,            \* config.STREAM_DELAY_MS
  now,              \* Date.now()
  running           \* the process has not ended by an exception

configVars == <<clientConnected, state, delay>>
socketVars == <<ended, clientOpen, remote, clientConnected>>
vars == <<kind, running, stream, played, lost, socketVars, state, delay, now>>

NewBuffer ==
  [id |-> 0, queue |-> <<>>, window |-> <<>>, active |-> FALSE, lastFlags |-> "undefined"]

Init ==
  /\ kind \in Kinds
  /\ stream = [c \in Clients |-> NewBuffer]
  /\ played = [c \in Clients |-> <<>>]
  /\ lost = [c \in Clients |-> FALSE]
  /\ ended = [c \in Clients |-> FALSE]
  /\ clientOpen = [c \in Clients |-> TRUE]
  /\ remote = [c \in Clients |-> "connecting"]
  /\ clientConnected = FALSE
  /\ state = "REALTIME"
  /\ delay \in Delays
  /\ now = 0
  /\ running = TRUE

-----------------------------------------------------------------------------
\* SimpleConnection.onData creates the old buffer with the first data; until
\* then its timer drains the empty buffer of the constructor.
HasOldBuffer(s) == kind = "simple" /\ s.id > 0

\* pushToBuffer of streamBufferOld.js: what is queued is not in the window. The
\* record keeps its bytes as `chunk', where the ChunkData of streamBuffer.js
\* has `data'.
PushedOld(s) ==
  [s EXCEPT !.id = @ + 1,
            !.queue = Append(@, [id |-> s.id, time |-> now, keyFrame |-> FALSE,
                                 bytesIn |-> "chunk"])]

\* pushToBuffer of streamBuffer.js.
PushedNew(s, p) ==
  LET chunk  == [id |-> s.id, time |-> now,
                 keyFrame |-> StartsKeyFrame(s.id, p.codec, p.flags, s.lastFlags),
                 bytesIn |-> "data"]
      active == s.active \/ chunk.keyFrame
      window == IF active THEN Append(s.window, chunk) ELSE s.window
  IN  [id |-> s.id + 1, queue |-> Append(s.queue, chunk), active |-> active,
       window |-> IF state = "REWIND" THEN window ELSE Trimmed(window, now, delay),
       lastFlags |-> p.flags]

OnData(c) ==
  LET s == stream[c]
  IN  /\ running
      /\ ~ended[c]
      /\ s.id < Len(Packets) /\ now <= PushHorizon
      /\ stream' = [stream EXCEPT ![c] = IF kind = "simple" THEN PushedOld(s)
                                                            ELSE PushedNew(s, Packets[s.id + 1])]
      /\ UNCHANGED <<kind, running, played, lost, socketVars, state, delay, now>>

-----------------------------------------------------------------------------
\* What popReadyChunks makes of a buffer: its new queues, the mode it leaves
\* behind for everyone, and the chunks to send.
Aged(queue) == NotReady(queue, "DELAY", now, delay)
Taken(queue, rest) == SubSeq(queue, 1, Len(queue) - Len(rest))

\* streamBufferOld.js: the window holds what REALTIME has taken out, a rewind
\* takes that as it falls due, and a forward drops everything.
PopOld(s) ==
  CASE state = "FORWARD"  -> [queue |-> <<>>, window |-> <<>>, mode |-> "REALTIME", ready |-> <<>>]
    [] state = "REALTIME" -> [queue |-> <<>>, window |-> Aged(s.window \o s.queue),
                              mode |-> state, ready |-> s.queue]
    [] state = "DELAY"    -> [queue |-> Aged(s.queue), window |-> s.window,
                              mode |-> state, ready |-> Taken(s.queue, Aged(s.queue))]
    [] state = "REWIND"   -> [queue |-> s.queue, window |-> Aged(s.window),
                              mode |-> IF Aged(s.window) = <<>> THEN "DELAY" ELSE state,
                              ready |-> Taken(s.window, Aged(s.window))]

\* Variant with a defect: nothing is looked at while the queue is empty.
ModeIfQueued(queue) ==
  CASE queue = <<>>      -> state
    [] state = "REWIND"  -> "DELAY"
    [] state = "FORWARD" -> "REALTIME"
    [] OTHER             -> state

\* The mode that handleRewinding or handleForwarding leaves, for any queue.
ModeAfter(queue) ==
  CASE state = "REWIND"  -> "DELAY"
    [] state = "FORWARD" -> "REALTIME"
    [] OTHER             -> state

\* streamBuffer.js: the first tick serves the request, then relays.
PopNew(s) ==
  LET queue == CASE state = "REWIND"  -> Rewound(s.queue, s.window)
                 [] state = "FORWARD" -> Forwarded(s.queue)
                 [] OTHER             -> s.queue
      mode  == ModeAfter(s.queue)
      rest  == NotReady(queue, mode, now, delay)
  IN  [queue |-> rest, window |-> s.window, mode |-> mode, ready |-> Taken(queue, rest)]

\* Variant with a defect: a socket that still connects is not written to.
WritableOnceOpen(c) == remote[c] = "open"

\* remoteSocket.writable: data written while it connects is kept by the socket.
Writable(c) == remote[c] \in {"connecting", "open"}

\* sendChunk reads data.length to write a chunk, and nothing of one it skips:
\* an exception leaves the callback of the timer, which nothing catches.
Throws(c, ready) == Writable(c) /\ \E i \in 1..Len(ready) : ready[i].bytesIn # "data"

Popped(s) == IF HasOldBuffer(s) THEN PopOld(s) ELSE PopNew(s)
Ids(ready) == [i \in 1..Len(ready) |-> ready[i].id]

\* The timer of one connection; what sendChunk cannot write is gone. A buffer
\* holds chunks of one sort, so that an exception comes with the first.
CheckChunks(c) ==
  /\ running
  /\ ~ended[c]
  /\ \E popped \in {Popped(stream[c])} :
       /\ stream' = [stream EXCEPT ![c].queue = popped.queue, ![c].window = popped.window]
       /\ state' = popped.mode
       /\ running' = ~Throws(c, popped.ready)
       /\ played' = [played EXCEPT ![c] = IF Writable(c) /\ ~Throws(c, popped.ready)
                                            THEN @ \o Ids(popped.ready) ELSE @]
       /\ lost' = [lost EXCEPT ![c] = @ \/ (popped.ready # <<>> /\ ~Writable(c))]
  /\ UNCHANGED <<kind, socketVars, delay, now>>

-----------------------------------------------------------------------------
\* GET /activate-delay, /deactivate-delay and /set-delay.
Request(mode) ==
  /\ running
  /\ now <= RequestHorizon
  /\ state' = mode
  /\ played' = [c \in Clients |-> <<>>]
  /\ UNCHANGED <<kind, running, stream, lost, socketVars, delay, now>>

SetDelay ==
  /\ running
  /\ delay' \in Delays
  /\ UNCHANGED <<kind, running, stream, played, lost, socketVars, state, now>>

AdvanceClock ==
  /\ running
  /\ now < MaxTime
  /\ now' = now + 1
  /\ UNCHANGED <<kind, running, stream, played, lost, socketVars, state, delay>>

-----------------------------------------------------------------------------
\* Variant of Close with a defect: a connection that has ended is left alone.
CloseOnce(c) ==
  /\ ended' = [ended EXCEPT ![c] = TRUE]
  /\ stream' = [stream EXCEPT ![c] = NewBuffer]
  /\ played' = [played EXCEPT ![c] = <<>>]
  /\ clientConnected' = (IF ended[c] THEN clientConnected ELSE FALSE)

\* close(), in what it does besides ending the two sockets.  The buffer of
\* a connection that has ended is never read again.
Close(c) ==
  /\ ended' = [ended EXCEPT ![c] = TRUE]
  /\ stream' = [stream EXCEPT ![c] = NewBuffer]
  /\ played' = [played EXCEPT ![c] = <<>>]
  /\ clientConnected' = FALSE

\* The remote answers the connection; a close() before has ended the socket,
\* which closes once it has connected.
RemoteConnected(c) ==
  /\ running
  /\ remote[c] = "connecting"
  /\ remote' = [remote EXCEPT ![c] = IF ended[c] THEN "ending" ELSE "open"]
  /\ clientConnected' = TRUE
  /\ UNCHANGED <<kind, running, stream, played, lost, ended, clientOpen, state, delay, now>>

\* The remote ends its side: the socket is no longer writable, and closes
\* when what was written has left it.
RemoteEnds(c) ==
  /\ running
  /\ remote[c] = "open"
  /\ remote' = [remote EXCEPT ![c] = "ending"]
  /\ UNCHANGED <<kind, running, stream, played, lost, ended, clientOpen, configVars, now>>

\* The socket to the remote closes: refused, reset, or at its end.
RemoteClosed(c) ==
  /\ running
  /\ remote[c] # "closed"
  /\ remote' = [remote EXCEPT ![c] = "closed"]
  /\ Close(c)
  /\ UNCHANGED <<kind, running, lost, clientOpen, state, delay, now>>

\* The socket of the client closes, on its own or because close() ended it.
ClientClosed(c) ==
  /\ running
  /\ clientOpen[c]
  /\ clientOpen' = [clientOpen EXCEPT ![c] = FALSE]
  /\ remote' = [remote EXCEPT ![c] = IF @ = "open" THEN "ending" ELSE @]
  /\ Close(c)
  /\ UNCHANGED <<kind, running, lost, state, delay, now>>

-----------------------------------------------------------------------------
Next ==
  \/ \E c \in Clients :
       \/ OnData(c)
       \/ CheckChunks(c)
       \/ RemoteConnected(c)
       \/ RemoteEnds(c)
       \/ RemoteClosed(c)
       \/ ClientClosed(c)
  \/ \E mode \in {"REWIND", "FORWARD"} : Request(mode)
  \/ SetDelay
  \/ AdvanceClock

Spec == Init /\ [][Next]_vars

\* Time passes, and the timer of every connection fires, while the process is up.
Fairness == WF_vars(AdvanceClock) /\ \A c \in Clients : WF_vars(CheckChunks(c))

FairSpec == Spec /\ Fairness

-----------------------------------------------------------------------------
\* A request is served while a client is there and the process is up, whichever
\* timer meets it and whatever that client has in its buffer, and also if it has
\* nothing: the mode does not stay a request.
RequestServed ==
  (state \in {"REWIND", "FORWARD"})
    ~> (state \in {"DELAY", "REALTIME"} \/ ~running \/ \A c \in Clients : ended[c])

\* No chunk is held for ever, though the requests of all clients are taken
\* down by the timer of one and the delay changes meanwhile: when nothing arrives
\* any more, every queue is emptied, whatever was rewound into it, unless its
\* connection or the process ends.
QueueDrains ==
  \A c \in Clients :
    (stream[c].queue # <<>>) ~> (stream[c].queue = <<>> \/ ended[c] \/ ~running)

\* Between two requests every remote of an RtmpConnection receives the chunks of
\* its stream in their order, none twice and none left out (README.md, step 5),
\* also when another connection serves the request.
EveryStreamInOrder ==
  kind = "rtmp" =>
    \A c \in Clients : \A i \in 1..(Len(played[c]) - 1) : played[c][i + 1] = played[c][i] + 1

\* Chunks are only dropped at the end: once the remote could not be written
\* to, nothing is sent after what is missing.
NothingAfterLoss ==
  [][\A c \in Clients : lost[c] => Len(played'[c]) <= Len(played[c])]_vars

\* The flag is up only while some remote is connected, in every order of the
\* connects and closes of all sockets.
FlagNeedsRemote == clientConnected => \E c \in Clients : remote[c] \in {"open", "ending"}
=============================================================================
