--------------------------- MODULE MultiConnection ---------------------------
(***************************************************************************)
(* One streaming client of the proxy (connections/multiConnection.js): the *)
(* RtmpServer that answers OBS, joined to the RtmpClient that repeats what *)
(* OBS sends to the remote.  OBS, which is external, is here what an       *)
(* encoder is: it sends the handshake first, and waits for the answers it  *)
(* needs before it goes on.                                                *)
(***************************************************************************)
EXTENDS RtmpClient, RtmpServer

CONSTANT TidStride  \* OBS numbers its commands 1, 1 + TidStride, ...

ASSUME TidStrideAssumption == TidStride \in Nat \ {0}

multiVars == <<vars, serverVars>>

MultiTypeOK == TypeOK /\ ServerTypeOK

MultiInit == Init /\ ServerInit

-----------------------------------------------------------------------------
\* The transaction id that OBS gave to the k-th command of the script.
ObsTid(k) == 1 + (k - 1) * TidStride

\* What OBS knows from the answers: whether a command was answered, and the
\* ids it was given for streams.
ResultsOf(cmd) ==
  {i \in 1..Len(obsWire) : /\ obsWire[i].what = "_result"
                           /\ \E k \in 1..commandsSent :
                                Script[k] = cmd /\ obsWire[i].tid = ObsTid(k)}
ObsStreams == {obsWire[i].sid : i \in ResultsOf("createStream")}
ObsPublished == \E i \in 1..Len(obsWire) : obsWire[i].what = "onStatus"

\* OBS waits for the answer to connect before it creates a stream, and for
\* the stream before it publishes.
ObsReady(cmd) ==
  CASE cmd = "connect" -> TRUE
    [] cmd = "publish" -> ObsStreams # {}
    [] OTHER           -> ResultsOf("connect") # {}

\* The stream id in the header of a command from OBS.
ObsStreamId(cmd) == IF cmd \in {"publish", "deleteStream"} /\ ObsStreams # {}
                      THEN CHOOSE id \in ObsStreams : TRUE ELSE 0

\* Variant with a defect: every command is relayed with the object itself,
\* whose transaction id is then that of the client.
IdAfterRelay(cmd, k) == transId

\* relayCommand, the first listener, writes the transaction id of the client
\* into a command it passes on; for the three it builds anew it does not.
IdForListeners(cmd, k) == IF cmd \in AsyncCommands THEN ObsTid(k) ELSE transId

\* onData with the end of a message of the handshake of OBS: the bytes are
\* also sent on, as a chunk.
ObsHandshake == ObsMedia /\ ServerHandshakes

\* onData with the next command of OBS.
ObsSends ==
  LET k   == commandsSent + 1
      cmd == Script[k]
  IN  /\ commandsSent < Len(Script)
      /\ serverHandshake = "comp"
      /\ ObsReady(cmd)
      /\ ServerCommand(cmd, IdForListeners(cmd, k), ObsStreamId(cmd))
      /\ ObsCommand

\* onData with media, or with a part of a message.  The bound on data events
\* leaves room for those that OBS needs to publish.
ObsStillSends == (Len(Script) - commandsSent)
                   + CASE serverHandshake = "uninit" -> 2
                       [] serverHandshake = "cont"   -> 1
                       [] OTHER                      -> 0
ObsStreamData ==
  /\ dataEvents + ObsStillSends < MaxData
  /\ ObsMedia
  /\ UNCHANGED serverVars

FromObs == ObsHandshake \/ ObsSends \/ ObsStreamData

\* What the client does by itself or because of the remote.
ClientStep ==
  /\ \/ TcpConnected \/ RemoteFails \/ SocketClosed \/ Reconnect \/ Close
     \/ CompletedHandshake \/ ConnectResult \/ CreateStreamResult \/ ErrorResult
     \/ UnexpectedResult \/ StreamBegin \/ OnStatus
     \/ TransactionTimeout
  /\ UNCHANGED serverVars

MultiNext == ClientStep \/ FromObs

MultiSpec == MultiInit /\ [][MultiNext]_multiVars

\* OBS goes on with what it wants to send.
ObsFairness == WF_multiVars(ObsHandshake) /\ WF_multiVars(ObsSends)

MultiFairSpec == MultiSpec /\ LocalFairness /\ RemoteFairness /\ ObsFairness

-----------------------------------------------------------------------------
\* OBS's session is its own: connect and createStream are answered once
\* each, in the order they were sent and under the transaction ids of OBS,
\* though they were relayed under others before.
ObsAnsweredInOrder ==
  LET Results == {i \in 1..Len(obsWire) : obsWire[i].what = "_result"}
      Asked   == {k \in 1..commandsSent : Script[k] \in {"connect", "createStream"}}
  IN  /\ {obsWire[i].tid : i \in Results} = {ObsTid(k) : k \in Asked}
      /\ \A i, j \in Results : i < j => obsWire[i].tid < obsWire[j].tid

\* The stream ids of the two sessions are not mixed up: the remote is told
\* to publish under an id that it returned, if it stays up, and OBS that it
\* publishes under one that it was given.
StreamIdsKeptApart ==
  /\ remote = "prompt" => PublishUsesReturnedStreamId
  /\ \A i \in 1..Len(obsWire) : obsWire[i].what = "onStatus" => obsWire[i].sid \in ObsStreams

\* With a prompt remote, OBS gets to publish, and the remote is told so, in
\* spite of the two running through their sessions at different speeds.
ObsIsServed ==
  (remote = "prompt" /\ portValid)
    ~> (ended \/ (ObsPublished /\ \E i \in 1..Len(wire) : wire[i].cmd = "publish"))
=============================================================================
