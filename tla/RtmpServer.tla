------------------------------ MODULE RtmpServer ------------------------------
(***************************************************************************)
(* The side of the proxy that OBS talks to (src/rtmp/RtmpServer.js): it    *)
(* answers the handshake and the commands of OBS itself, at once, whatever *)
(* the remote does, with transaction and stream ids of OBS's own session.  *)
(* The payload of an answer is left out but for these ids.                 *)
(***************************************************************************)
EXTENDS Integers, Sequences

VARIABLES
  serverHandshake,  \* handshakeState of the RtmpServer
  streams,          \* the last stream id given to OBS
  serverStreamId,   \* streamId; 0, as it is written, while it is undefined
  obsWire           \* history: what was written to the OBS socket

serverVars == <<serverHandshake, streams, serverStreamId, obsWire>>

Answer == [what : {"S0S1S2", "windowAck", "peerBandwidth", "streamBegin", "setChunkSize",
                   "_result", "onStatus"},
           tid : Nat, sid : Nat]

ServerTypeOK ==
  /\ serverHandshake \in {"uninit", "cont", "comp"}
  /\ streams \in Nat
  /\ serverStreamId \in Nat
  /\ obsWire \in Seq(Answer)

ServerInit ==
  /\ serverHandshake = "uninit"
  /\ streams = 0
  /\ serverStreamId = 0
  /\ obsWire = <<>>

Respond(answers) == obsWire' = obsWire \o answers

Control(what) == [what |-> what, tid |-> 0, sid |-> 0]
StreamBeginOf(id) == [what |-> "streamBegin", tid |-> 0, sid |-> id]
Result(tid, info) == [what |-> "_result", tid |-> tid, sid |-> info]
Status(sid) == [what |-> "onStatus", tid |-> 0, sid |-> sid]

-----------------------------------------------------------------------------
\* feed() with the end of C1, and with the end of C2.
ServerHandshakes ==
  \/ /\ serverHandshake = "uninit"
     /\ serverHandshake' = "cont"
     /\ Respond(<<Control("S0S1S2")>>)
     /\ UNCHANGED <<streams, serverStreamId>>
  \/ /\ serverHandshake = "cont"
     /\ serverHandshake' = "comp"
     /\ UNCHANGED <<streams, serverStreamId, obsWire>>

OnConnect(tid) ==
  /\ Respond(<<Control("windowAck"), Control("peerBandwidth"), StreamBeginOf(serverStreamId),
               Control("setChunkSize"), Result(tid, 0)>>)
  /\ UNCHANGED <<serverHandshake, streams, serverStreamId>>

OnCreateStream(tid) ==
  /\ streams' = streams + 1
  /\ Respond(<<Result(tid, streams + 1), StreamBeginOf(serverStreamId)>>)
  /\ UNCHANGED <<serverHandshake, serverStreamId>>

\* sid is the stream id in the header of the message.
OnPublish(sid) ==
  /\ serverStreamId' = sid
  /\ Respond(<<Status(sid)>>)
  /\ UNCHANGED <<serverHandshake, streams>>

\* The listener of a command, given the transaction id it finds in it; a
\* command without a listener, and deleteStream, are not answered.
ServerCommand(cmd, tid, sid) ==
  CASE cmd = "connect"      -> OnConnect(tid)
    [] cmd = "createStream" -> OnCreateStream(tid)
    [] cmd = "publish"      -> OnPublish(sid)
    [] OTHER                -> UNCHANGED serverVars
=============================================================================
