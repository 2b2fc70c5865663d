------------------------------ MODULE RtmpClient ------------------------------
(***************************************************************************)
(* The connection to the remote (src/rtmp/RtmpClient.js) of one streaming  *)
(* client, as MultiConnection drives it: the socket and its reconnection,  *)
(* the commands that wait for the session to advance, the transactions     *)
(* that wait for an answer or a timeout, and the chunks that wait for the  *)
(* stream to be published.                                                 *)
(*                                                                         *)
(* OBS and the remote are external.  OBS sends the commands of Script, in  *)
(* order, as soon as it likes, because RtmpServer answers it locally.  The *)
(* remote answers a command it received once, at any time, or not at all.  *)
(***************************************************************************)
EXTENDS Subsequences

CONSTANTS
  Script,         \* the commands OBS sends
  StreamIds,      \* the ids the remote gives to streams
  MinDelay,       \* the first reconnectDelay
  MaxDelay,       \* and the longest
  Remotes,        \* what the remote may be, see the variable
  MaxData         \* bound: data events of the OBS socket

ASSUME StreamIdsAssumption == StreamIds \subseteq Nat \ {0}
ASSUME DelaysAssumption == MinDelay \in Nat /\ MaxDelay \in Nat /\ MinDelay <= MaxDelay
ASSUME RemotesAssumption == Remotes \subseteq {"prompt", "unreliable"}
ASSUME MaxDataAssumption == MaxData \in Nat

VARIABLES
  portValid,        \* rigid: whether connect() accepts the configured port
  remote,           \* rigid: a "prompt" remote stays up and answers in time,
                    \* an "unreliable" one refuses, drops or answers late
  socket,           \* remoteSocket
  reconnectTimer,   \* whether the timer is set
  reconnectDelay,
  ended,
  handshaken,       \* whether handshakeState is COMP for this connection
  state,
  streamId,
  createdStream,
  transId,
  pendingTrans,     \* the transactions whose 5 s timer is running
  pendingCommands,
  chunkQueue,
  resumed,          \* whether the OBS socket is read
  dataEvents,       \* history: the data events of the OBS socket so far
  commandsSent,     \* history: how much of Script OBS has sent
  wire,             \* history: what was written to the current connection
  answered,         \* history: transactions answered on this connection
  returned,         \* history: stream ids returned on this connection
  settled           \* history: how the transactions ended, in order

rigidVars == <<portValid, remote>>
socketVars == <<rigidVars, socket, reconnectTimer, reconnectDelay>>
sessionVars == <<handshaken, state, streamId, createdStream>>
transVars == <<transId, pendingTrans, settled>>
obsVars == <<resumed, dataEvents, commandsSent>>
remoteVars == <<answered, returned>>
vars == <<socketVars, ended, sessionVars, transVars, pendingCommands, chunkQueue,
          obsVars, remoteVars, wire>>

Flow == <<"handshake", "connect", "createStream", "publish", "stream">>

Commands == [handshake    |-> {},
             connect      |-> {"connect"},
             createStream |-> {"releaseStream", "FCPublish", "createStream"},
             publish      |-> {"publish"},
             stream       |-> {}]

\* The commands sent with sendCommandMessageAsync.
AsyncCommands == {"connect", "createStream", "publish"}

FlowCommands == UNION {Commands[Flow[i]] : i \in 1..Len(Flow)}
ScriptCommands == {Script[i] : i \in 1..Len(Script)}
Transaction == [cmd : ScriptCommands, tid : 1..Len(Script)]
Plains == {"C0C1", "C2", "setChunkSize", "chunk"}
Message == [cmd : ScriptCommands \cup Plains, tid : Nat, sid : Nat]

\* The part of the flow that a command belongs to; 0 if to none.
Part(cmd) == CASE cmd \in Commands.connect      -> 2
               [] cmd \in Commands.createStream -> 3
               [] cmd \in Commands.publish      -> 4
               [] OTHER                         -> 0

\* OBS goes through the flow from its beginning to its end, and creates one
\* stream, after it has announced it.
ASSUME ScriptAssumption ==
  /\ Script \in Seq(STRING)
  /\ \A i \in 1..Len(Script) : Script[i] \notin Plains
  /\ \A i, j \in 1..Len(Script) :
       i < j /\ Part(Script[i]) > 0 /\ Part(Script[j]) > 0 =>
         /\ Part(Script[i]) <= Part(Script[j])
         /\ Script[i] = "createStream" => Part(Script[j]) > 3

TypeOK ==
  /\ socket \in {"idle", "connecting", "open", "destroyed", "closed"}
  /\ portValid \in BOOLEAN /\ remote \in Remotes
  /\ reconnectTimer \in BOOLEAN
  /\ reconnectDelay \in MinDelay..MaxDelay
  /\ ended \in BOOLEAN
  /\ handshaken \in BOOLEAN
  /\ state \in {"handshake", "connect", "createStream", "publish"}
  /\ streamId \in {0} \cup StreamIds
  /\ createdStream \in BOOLEAN
  /\ transId \in 1..(Len(Script) + 1)
  /\ pendingTrans \subseteq Transaction
  /\ pendingCommands \in Seq(Transaction)
  /\ chunkQueue \in Seq(1..MaxData)
  /\ resumed \in BOOLEAN
  /\ dataEvents \in 0..MaxData
  /\ commandsSent \in 0..Len(Script)
  /\ wire \in Seq(Message)
  /\ answered \subseteq 1..Len(Script)
  /\ returned \subseteq StreamIds
  /\ settled \in Seq([tid : 1..Len(Script), resolved : BOOLEAN])

Shorter(m, n) == IF m < n THEN m ELSE n

\* Variant with a defect: no upper limit.
UncappedDelay == 2 * reconnectDelay

\* The exponential backoff.
NextDelay == Shorter(2 * reconnectDelay, MaxDelay)

\* The state in which MultiConnection.run() leaves a new client: connect()
\* was called, and has failed if the port is not one.
Init ==
  /\ portValid \in BOOLEAN /\ remote \in Remotes
  /\ socket = IF portValid THEN "connecting" ELSE "idle"
  /\ reconnectTimer = ~portValid
  /\ reconnectDelay = IF portValid THEN MinDelay ELSE Shorter(2 * MinDelay, MaxDelay)
  /\ ended = FALSE
  /\ handshaken = FALSE
  /\ state = "handshake"
  /\ streamId = 0
  /\ createdStream = FALSE
  /\ transId = 1
  /\ pendingTrans = {}
  /\ pendingCommands = <<>>
  /\ chunkQueue = <<>>
  /\ resumed = FALSE
  /\ dataEvents = 0
  /\ commandsSent = 0
  /\ wire = <<>>
  /\ answered = {}
  /\ returned = {}
  /\ settled = <<>>

-----------------------------------------------------------------------------
(* What several handlers do.                                               *)

\* write(): nothing is written to a destroyed socket; a connecting one keeps
\* what is written until it is open.
Write(messages) ==
  wire' = IF socket \in {"connecting", "open"} THEN wire \o messages ELSE wire

Plain(what) == [cmd |-> what, tid |-> 0, sid |-> 0]
CommandMessage(c) == [cmd |-> c.cmd, tid |-> c.tid, sid |-> streamId]
Chunk(n) == [cmd |-> "chunk", tid |-> n, sid |-> 0]

\* The indices of the pending commands that belong to a group.
Ready(group) == {i \in 1..Len(pendingCommands) : pendingCommands[i].cmd \in Commands[group]}

\* Variant with a defect: the commands that are sent stay in the queue.
SendReadyKeeping(group, first) ==
  LET ready == Pick(pendingCommands, Ready(group))
  IN  /\ UNCHANGED pendingCommands
      /\ Write(first \o [i \in 1..Len(ready) |-> CommandMessage(ready[i])])

\* Sends the pending commands of a group, after some other messages.
SendReady(group, first) ==
  LET ready == Pick(pendingCommands, Ready(group))
  IN  /\ pendingCommands' = Pick(pendingCommands, (1..Len(pendingCommands)) \ Ready(group))
      /\ Write(first \o [i \in 1..Len(ready) |-> CommandMessage(ready[i])])

\* Variant with a defect: a transaction is not forgotten.
SettleKeeping(p, resolved) ==
  /\ settled' = Append(settled, [tid |-> p.tid, resolved |-> resolved])
  /\ UNCHANGED <<pendingTrans, transId>>

\* resolve() or reject() of a pending transaction.
Settle(p, resolved) ==
  /\ pendingTrans' = pendingTrans \ {p}
  /\ settled' = Append(settled, [tid |-> p.tid, resolved |-> resolved])
  /\ UNCHANGED transId

\* Variant with a defect: a client that was closed reconnects.
ScheduleReconnectAlways ==
  /\ reconnectTimer' = TRUE
  /\ reconnectDelay' = IF reconnectTimer THEN reconnectDelay ELSE NextDelay

ScheduleReconnect ==
  IF ended \/ reconnectTimer
    THEN UNCHANGED <<reconnectTimer, reconnectDelay>>
    ELSE reconnectTimer' = TRUE /\ reconnectDelay' = NextDelay

-----------------------------------------------------------------------------
(* The socket to the remote.                                               *)

\* 'connect': the handshake begins.
TcpConnected ==
  /\ socket = "connecting"
  /\ socket' = "open"
  /\ reconnectDelay' = MinDelay
  /\ handshaken' = FALSE
  /\ Write(<<Plain("C0C1")>>)
  /\ UNCHANGED <<rigidVars, reconnectTimer, ended, state, streamId, createdStream,
                 transVars, pendingCommands, chunkQueue, obsVars, remoteVars>>

\* Variant with a defect: 'error' schedules a reconnect too.
RemoteFailsTwice ==
  /\ remote = "unreliable"
  /\ socket \in {"connecting", "open"}
  /\ socket' = "destroyed"
  /\ ScheduleReconnect
  /\ UNCHANGED <<rigidVars, ended, sessionVars, transVars, pendingCommands, chunkQueue,
                 obsVars, remoteVars, wire>>

\* The connection is refused or lost; 'error' is only logged.
RemoteFails ==
  /\ remote = "unreliable"
  /\ socket \in {"connecting", "open"}
  /\ socket' = "destroyed"
  /\ UNCHANGED <<rigidVars, reconnectTimer, reconnectDelay, ended, sessionVars, transVars,
                 pendingCommands, chunkQueue, obsVars, remoteVars, wire>>

\* Variant with a defect: the loss is only logged.
SocketClosedUnnoticed ==
  /\ socket = "destroyed"
  /\ socket' = "closed"
  /\ UNCHANGED <<rigidVars, reconnectTimer, reconnectDelay, ended, sessionVars, transVars,
                 pendingCommands, chunkQueue, obsVars, remoteVars, wire>>

\* 'close'
SocketClosed ==
  /\ socket = "destroyed"
  /\ socket' = "closed"
  /\ ScheduleReconnect
  /\ UNCHANGED <<rigidVars, ended, sessionVars, transVars, pendingCommands, chunkQueue,
                 obsVars, remoteVars, wire>>

\* The reconnect timer calls connect(), which throws if the port is not one.
Reconnect ==
  /\ reconnectTimer
  /\ IF portValid
       THEN /\ reconnectTimer' = FALSE
            /\ socket' = IF socket = "open" THEN socket ELSE "connecting"
            /\ wire' = <<>> /\ answered' = {} /\ returned' = {}
            /\ UNCHANGED reconnectDelay
       ELSE /\ reconnectTimer' = TRUE
            /\ reconnectDelay' = NextDelay
            /\ UNCHANGED <<socket, wire, answered, returned>>
  /\ UNCHANGED <<rigidVars, ended, sessionVars, transVars, pendingCommands, chunkQueue, obsVars>>

\* MultiConnection.close(), when the OBS socket was closed.
Close ==
  /\ ended' = TRUE
  /\ socket' = IF socket = "closed" THEN "closed" ELSE "destroyed"
  /\ reconnectTimer' = FALSE
  /\ UNCHANGED <<rigidVars, reconnectDelay, sessionVars, transVars, pendingCommands, chunkQueue,
                 obsVars, remoteVars, wire>>

-----------------------------------------------------------------------------
(* Data from OBS.                                                          *)

Position(s) == CHOOSE i \in 1..Len(Flow) : Flow[i] = s

\* Variant with a defect: the loop notices the state one command group late.
DelayedLate(cmd) == \E i \in (Position(state) + 2)..Len(Flow) : cmd \in Commands[Flow[i]]

\* handleCommandMessage: a command of a later part of the flow waits.
Delayed(cmd) == \E i \in (Position(state) + 1)..Len(Flow) : cmd \in Commands[Flow[i]]

\* sendChunk(): a chunk waits until the state is 'stream'.
SentAtOnce == IF state = "stream" THEN <<Chunk(dataEvents + 1)>> ELSE <<>>
Waiting == IF state = "stream" THEN chunkQueue ELSE Append(chunkQueue, dataEvents + 1)

\* onData of MultiConnection with the next command: RtmpServer relays the
\* command, then the data is sent on as a chunk.
ObsCommand ==
  /\ resumed /\ ~ended
  /\ commandsSent < Len(Script)
  /\ dataEvents < MaxData
  /\ LET c == [cmd |-> Script[commandsSent + 1], tid |-> transId]
     IN  /\ transId' = transId + 1
         /\ pendingTrans' = IF c.cmd \in AsyncCommands THEN pendingTrans \cup {c} ELSE pendingTrans
         /\ pendingCommands' =
              IF Delayed(c.cmd) THEN Append(pendingCommands, c) ELSE pendingCommands
         /\ Write((IF Delayed(c.cmd) THEN <<>> ELSE <<CommandMessage(c)>>) \o SentAtOnce)
  /\ chunkQueue' = Waiting
  /\ commandsSent' = commandsSent + 1
  /\ dataEvents' = dataEvents + 1
  /\ UNCHANGED <<socketVars, ended, sessionVars, settled, resumed, remoteVars>>

\* onData with media, or with a part of a message.
ObsMedia ==
  /\ resumed /\ ~ended
  /\ dataEvents < MaxData
  /\ Write(SentAtOnce)
  /\ chunkQueue' = Waiting
  /\ dataEvents' = dataEvents + 1
  /\ UNCHANGED <<socketVars, ended, sessionVars, transVars, pendingCommands, resumed,
                 commandsSent, remoteVars>>

-----------------------------------------------------------------------------
(* Data from the remote.                                                   *)

Listening == socket = "open" /\ handshaken

\* The messages on this connection that are still to be answered.
Unanswered == {m \in {wire[i] : i \in 1..Len(wire)} :
                 m.cmd \in ScriptCommands /\ m.tid \notin answered}

\* S0, S1 and S2 arrived: 'completedHandshake', for MultiConnection too.
CompletedHandshake ==
  /\ socket = "open" /\ ~handshaken
  /\ handshaken' = TRUE
  /\ SendReady("connect", <<Plain("C2"), Plain("setChunkSize")>>)
  /\ state' = "connect"
  /\ resumed' = TRUE
  /\ UNCHANGED <<socketVars, ended, streamId, createdStream, transVars, chunkQueue,
                 dataEvents, commandsSent, remoteVars>>

\* _result of connect, in time: 'cmd:_result:connect'.
ConnectResult ==
  /\ Listening
  /\ \E m \in Unanswered, p \in pendingTrans :
       /\ p.tid = m.tid /\ p.cmd = "connect"
       /\ answered' = answered \cup {m.tid}
       /\ Settle(p, TRUE)
  /\ SendReady("createStream", <<>>)
  /\ state' = "createStream"
  /\ UNCHANGED <<socketVars, ended, handshaken, streamId, createdStream, chunkQueue, obsVars,
                 returned>>

\* _result of createStream, in time: 'cmd:_result:createStream'.
CreateStreamResult ==
  /\ Listening
  /\ \E m \in Unanswered, p \in pendingTrans, sid \in StreamIds :
       /\ p.tid = m.tid /\ p.cmd = "createStream"
       /\ answered' = answered \cup {m.tid}
       /\ returned' = returned \cup {sid}
       /\ streamId' = sid
       /\ Settle(p, TRUE)
  /\ createdStream' = TRUE
  /\ UNCHANGED <<socketVars, ended, handshaken, state, pendingCommands, chunkQueue, obsVars, wire>>

\* _error in time: nobody handles the event of the transaction.
ErrorResult ==
  /\ Listening
  /\ remote = "unreliable"
  /\ \E m \in Unanswered, p \in pendingTrans :
       /\ p.tid = m.tid
       /\ answered' = answered \cup {m.tid}
       /\ Settle(p, FALSE)
  /\ UNCHANGED <<socketVars, ended, sessionVars, pendingCommands, chunkQueue, obsVars, returned, wire>>

\* An answer to a command that is not pending, or not any more: ignored.
UnexpectedResult ==
  /\ Listening
  /\ \E m \in Unanswered :
       /\ m.cmd # "publish"
       /\ \A p \in pendingTrans : p.tid # m.tid
       /\ answered' = answered \cup {m.tid}
  /\ UNCHANGED <<socketVars, ended, sessionVars, transVars, pendingCommands, chunkQueue, obsVars,
                 returned, wire>>

\* Variants with a defect: any streamBegin counts; the commands are left
\* where they are.
StreamBeginUnguarded ==
  /\ Listening
  /\ SendReady("publish", <<>>)
  /\ state' = "publish"
  /\ UNCHANGED <<socketVars, ended, handshaken, streamId, createdStream, transVars, chunkQueue,
                 obsVars, remoteVars>>
StreamBeginUnsent ==
  /\ Listening
  /\ createdStream
  /\ state' = "publish"
  /\ UNCHANGED <<socketVars, ended, handshaken, streamId, createdStream, transVars, chunkQueue,
                 pendingCommands, obsVars, remoteVars, wire>>

\* 'u:ctrl:streamBegin', which counts once a stream was created.
StreamBegin ==
  /\ Listening
  /\ createdStream
  /\ SendReady("publish", <<>>)
  /\ state' = "publish"
  /\ UNCHANGED <<socketVars, ended, handshaken, streamId, createdStream, transVars, chunkQueue,
                 obsVars, remoteVars>>

\* 'cmd:onStatus', with which the remote answers publish: the chunks that
\* wait are sent.
OnStatus ==
  /\ Listening
  /\ \E m \in Unanswered : m.cmd = "publish" /\ answered' = answered \cup {m.tid}
  /\ Write([i \in 1..Len(chunkQueue) |-> Chunk(chunkQueue[i])])
  /\ chunkQueue' = <<>>
  /\ UNCHANGED <<socketVars, ended, sessionVars, transVars, pendingCommands, obsVars, returned>>

\* The transaction whose timer fires next: all wait equally long.
Oldest(p) == p \in pendingTrans /\ \A q \in pendingTrans : p.tid <= q.tid

\* Variant with a defect: only connect is waited for no longer than that.
TransactionTimeoutOfConnect ==
  /\ \E p \in pendingTrans :
       /\ Oldest(p)
       /\ p.cmd = "connect"
       /\ Settle(p, FALSE)
  /\ UNCHANGED <<socketVars, ended, sessionVars, pendingCommands, chunkQueue, obsVars, remoteVars,
                 wire>>

\* The timer of sendCommandMessageAsync; close() does not clear it.  A prompt
\* remote, until then, has answered before: publish gets onStatus, no _result.
TransactionTimeout ==
  /\ \E p \in pendingTrans :
       /\ Oldest(p)
       /\ remote = "prompt" /\ ~ended => p.cmd = "publish"
       /\ Settle(p, FALSE)
  /\ UNCHANGED <<socketVars, ended, sessionVars, pendingCommands, chunkQueue, obsVars, remoteVars,
                 wire>>

-----------------------------------------------------------------------------
Next ==
  \/ TcpConnected \/ RemoteFails \/ SocketClosed \/ Reconnect \/ Close
  \/ ObsCommand \/ ObsMedia
  \/ CompletedHandshake \/ ConnectResult \/ CreateStreamResult \/ ErrorResult
  \/ UnexpectedResult \/ StreamBegin \/ OnStatus
  \/ TransactionTimeout

Spec == Init /\ [][Next]_vars

\* The event loop gets round to every event and timer.
LocalFairness ==
  /\ WF_vars(SocketClosed)
  /\ WF_vars(Reconnect)
  /\ WF_vars(TransactionTimeout)

\* A prompt remote accepts the connection and answers what it receives.
RemoteFairness ==
  /\ WF_vars(remote = "prompt" /\ TcpConnected)
  /\ WF_vars(remote = "prompt" /\ CompletedHandshake)
  /\ WF_vars(remote = "prompt" /\ ConnectResult)
  /\ WF_vars(remote = "prompt" /\ CreateStreamResult)
  /\ WF_vars(remote = "prompt" /\ StreamBegin)
  /\ WF_vars(remote = "prompt" /\ OnStatus)

FairSpec == Spec /\ LocalFairness /\ RemoteFairness

-----------------------------------------------------------------------------
\* A transaction ends once: an answer after the timeout, or on a connection
\* that was lost and replaced in between, does not end it again, and one that
\* has ended is not pending.
SettledOnce ==
  /\ \A i, j \in 1..Len(settled) : settled[i].tid = settled[j].tid => i = j
  /\ \A i \in 1..Len(settled) : \A p \in pendingTrans : p.tid # settled[i].tid

\* Whether sent at once, delayed and flushed, or delayed over a reconnect,
\* no command of the flow reaches the remote twice or before one that OBS
\* sent earlier, and none that waits was sent.
CommandsOnceInOrder ==
  LET Sent == {i \in 1..Len(wire) : wire[i].cmd \in FlowCommands}
  IN  /\ \A i, j \in Sent : i < j => wire[i].tid < wire[j].tid
      /\ \A i \in Sent, j \in 1..Len(pendingCommands) :
           wire[i].tid < pendingCommands[j].tid

\* A closed client stays down: the close event of its socket, which comes
\* after close(), does not bring the connection back.
EndedStaysDown == ended => ~reconnectTimer /\ socket \in {"destroyed", "closed"}

\* A reconnect is only scheduled when there is no connection and none is
\* being set up, so that there is never a second attempt.
OneAttemptAtATime == reconnectTimer => socket \in {"idle", "closed"}

Resolved(cmd) ==
  \E i \in 1..Len(settled) : settled[i].resolved /\ Script[settled[i].tid] = cmd

\* The commands that need the remote's application wait until it accepted
\* connect, and publish waits until it created a stream, be it on an earlier
\* connection: however far OBS ran ahead, and whatever was lost.
CommandsAwaitAnswers ==
  \A i \in 1..Len(wire) :
    /\ wire[i].cmd \in Commands.createStream => Resolved("connect")
    /\ wire[i].cmd \in Commands.publish => Resolved("createStream")

\* "Now publish using the returned stream id", the comment in sendPublish:
\* a stream is published under an id returned on the same connection.
PublishUsesReturnedStreamId ==
  \A i \in 1..Len(wire) : wire[i].cmd = "publish" => wire[i].sid \in returned

\* A lost remote is tried again unless the client is closed.
RemoteRetried == (socket = "closed" /\ ~ended) ~> (socket = "connecting" \/ ended)

\* "Resolves when a matching response is received, or rejects on _error
\* responses or when the timeout elapses": no transaction stays pending.
TransactionSettles ==
  \A t \in 1..Len(Script) :
    (\E p \in pendingTrans : p.tid = t) ~> (\A p \in pendingTrans : p.tid # t)

-----------------------------------------------------------------------------
\* "In real-time mode, chunks are relayed immediately to Twitch", README.md:
\* with a prompt remote, what OBS sends does not wait in the queue for ever.
ChunkRelayed ==
  \A n \in 1..MaxData :
    LET Queued == \E i \in 1..Len(chunkQueue) : chunkQueue[i] = n
    IN  (Queued /\ commandsSent = Len(Script) /\ remote = "prompt") ~> (ended \/ ~Queued)
=============================================================================
