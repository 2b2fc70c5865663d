------------------------ MODULE MultiConnectionProofs ------------------------
(***************************************************************************)
(* The client of one connection (RtmpClient): when it is closed it stays   *)
(* down, there is one connection attempt at a time, a transaction settles  *)
(* once, and the commands reach the remote in the order of OBS and not     *)
(* before it is ready for them.  All of that holds of the client as        *)
(* MultiConnection drives it, and the two sessions that the connection     *)
(* joins do not mix up their ids.  For any script, delays and remote.      *)
(*                                                                         *)
(* Of StreamChunksProofs only the lemmas on Pick are used here, and MaxLen *)
(* plays no part.                                                          *)
(***************************************************************************)
EXTENDS MultiConnection, StreamChunksProofs

-----------------------------------------------------------------------------
(* The connection.                                                         *)

\* The two facts need each other: no timer is set while there is a socket,
\* so that its close event is the only one that sets it.
ConnectionInv == EndedStaysDown /\ OneAttemptAtATime

LEMMA ConnectionStep == ConnectionInv /\ [Next]_vars => ConnectionInv'
<1>. SUFFICES ASSUME ConnectionInv, [Next]_vars PROVE ConnectionInv'
  OBVIOUS
<1>. USE DEF ConnectionInv, EndedStaysDown, OneAttemptAtATime
<1>1. CASE UNCHANGED <<socket, reconnectTimer, ended>>
  BY <1>1
<1>2. CASE TcpConnected
  BY <1>2 DEF TcpConnected
<1>3. CASE RemoteFails
  BY <1>3 DEF RemoteFails
<1>4. CASE SocketClosed
  BY <1>4 DEF SocketClosed, ScheduleReconnect
<1>5. CASE Reconnect
  BY <1>5 DEF Reconnect
<1>6. CASE Close
  BY <1>6 DEF Close
<1>7. CASE \/ ObsCommand \/ ObsMedia \/ CompletedHandshake \/ ConnectResult
           \/ CreateStreamResult \/ ErrorResult \/ UnexpectedResult \/ StreamBegin
           \/ OnStatus \/ TransactionTimeout \/ UNCHANGED vars
  <2>1. UNCHANGED <<socket, reconnectTimer, ended>>
    BY <1>7 DEF ObsCommand, ObsMedia, CompletedHandshake, ConnectResult, CreateStreamResult,
                ErrorResult, UnexpectedResult, StreamBegin, OnStatus, TransactionTimeout,
                vars, socketVars
  <2>. QED
    BY <1>1, <2>1
<1>. QED
  BY <1>2, <1>3, <1>4, <1>5, <1>6, <1>7 DEF Next

\* close() is final: no later event or timer of the client connects again.
THEOREM ClosedClientStaysDown == Spec => []EndedStaysDown
<1>1. Init => ConnectionInv
  BY DEF Init, ConnectionInv, EndedStaysDown, OneAttemptAtATime
<1>2. ConnectionInv => EndedStaysDown
  BY DEF ConnectionInv
<1>. QED
  BY <1>1, <1>2, ConnectionStep, PTL DEF Spec

\* A reconnect is scheduled only without a connection.
THEOREM NoSecondAttempt == Spec => []OneAttemptAtATime
<1>1. Init => ConnectionInv
  BY DEF Init, ConnectionInv, EndedStaysDown, OneAttemptAtATime
<1>2. ConnectionInv => OneAttemptAtATime
  BY DEF ConnectionInv
<1>. QED
  BY <1>1, <1>2, ConnectionStep, PTL DEF Spec

-----------------------------------------------------------------------------
(* The transactions.                                                       *)

\* Transaction ids are handed out once, to transactions that then are
\* pending or settled, but never both.
TransactionInv ==
  /\ transId \in Nat
  /\ \A p \in pendingTrans : p.tid \in Nat /\ p.tid < transId
  /\ \A p, q \in pendingTrans : p.tid = q.tid => p = q
  /\ settled \in Seq([tid : Nat, resolved : BOOLEAN])
  /\ \A i \in 1..Len(settled) : settled[i].tid < transId
  /\ SettledOnce

\* What ends a transaction ends one that is pending.
LEMMA SettleStep ==
  ASSUME TransactionInv, NEW p \in pendingTrans, NEW r \in BOOLEAN, Settle(p, r)
  PROVE  TransactionInv'
<1>. DEFINE end == [tid |-> p.tid, resolved |-> r]
            Ending == [tid : Nat, resolved : BOOLEAN]
<1>1. /\ pendingTrans' = pendingTrans \ {p}
      /\ settled' = Append(settled, end)
      /\ transId' = transId
  BY DEF Settle
<1>2. end \in Ending /\ end.tid = p.tid
  BY DEF TransactionInv
<1>3. settled \in Seq(Ending) /\ Len(settled) \in Nat
  BY LenProperties DEF TransactionInv
<1>. HIDE DEF end, Ending
<1>4. /\ settled' \in Seq(Ending)
      /\ Len(settled') = Len(settled) + 1
      /\ \A i \in 1..Len(settled) : settled'[i] = settled[i]
      /\ settled'[Len(settled) + 1] = end
  BY <1>1, <1>2, <1>3, AppendProperties
<1>5. 1..Len(settled') = 1..Len(settled) \cup {Len(settled) + 1}
  BY <1>3, <1>4
<1>6. \A i \in 1..Len(settled) : settled'[i].tid = settled[i].tid /\ settled[i].tid # p.tid
  BY <1>4 DEF TransactionInv, SettledOnce
<1>7. settled'[Len(settled) + 1].tid = p.tid
  BY <1>2, <1>4
<1>8. \A i \in 1..Len(settled') : settled'[i].tid < transId'
  BY <1>1, <1>5, <1>6, <1>7 DEF TransactionInv
<1>9. \A i, j \in 1..Len(settled') : settled'[i].tid = settled'[j].tid => i = j
  BY <1>5, <1>6, <1>7 DEF TransactionInv, SettledOnce
<1>10. \A i \in 1..Len(settled') : \A q \in pendingTrans' : q.tid # settled'[i].tid
  <2>1. \A q \in pendingTrans' : q \in pendingTrans /\ q.tid # p.tid
    BY <1>1 DEF TransactionInv
  <2>. QED
    BY <1>5, <1>6, <1>7, <2>1 DEF TransactionInv, SettledOnce
<1>11. /\ transId' \in Nat
       /\ \A q \in pendingTrans' : q.tid \in Nat /\ q.tid < transId'
       /\ \A q, t \in pendingTrans' : q.tid = t.tid => q = t
  BY <1>1 DEF TransactionInv
<1>. QED
  BY <1>4, <1>8, <1>9, <1>10, <1>11 DEF TransactionInv, SettledOnce, Ending

\* A command from OBS opens a transaction under a fresh id.
LEMMA ObsCommandStep ==
  ASSUME TransactionInv, ObsCommand
  PROVE  TransactionInv'
<1>. DEFINE c == [cmd |-> Script[commandsSent + 1], tid |-> transId]
<1>1. /\ transId' = transId + 1
      /\ pendingTrans' \subseteq pendingTrans \cup {c}
      /\ settled' = settled
  BY DEF ObsCommand
<1>2. c.tid = transId
  OBVIOUS
<1>. HIDE DEF c
<1>3. transId \in Nat
  BY DEF TransactionInv
<1>4. \A i \in 1..Len(settled) : settled[i].tid \in Nat /\ settled[i].tid < transId
  <2>1. settled \in [1..Len(settled) -> [tid : Nat, resolved : BOOLEAN]]
    BY LenProperties DEF TransactionInv
  <2>2. \A i \in 1..Len(settled) : settled[i].tid \in Nat
    BY <2>1
  <2>. QED
    BY <2>2 DEF TransactionInv
<1>5. \A p \in pendingTrans : p.tid \in Nat /\ p.tid < transId
  BY DEF TransactionInv
<1>6. \A p \in pendingTrans' : p = c \/ p \in pendingTrans
  BY <1>1
<1>7. \A p \in pendingTrans' : p.tid \in Nat /\ p.tid < transId'
  BY <1>1, <1>2, <1>3, <1>5, <1>6
<1>8. \A p, q \in pendingTrans' : p.tid = q.tid => p = q
  BY <1>2, <1>3, <1>5, <1>6 DEF TransactionInv
<1>9. \A i \in 1..Len(settled') : settled'[i].tid < transId'
  BY <1>1, <1>3, <1>4
<1>10. SettledOnce'
  <2>1. \A i \in 1..Len(settled) : c.tid # settled[i].tid
    BY <1>2, <1>3, <1>4
  <2>. QED
    BY <1>1, <1>6, <2>1 DEF TransactionInv, SettledOnce
<1>. QED
  BY <1>1, <1>3, <1>7, <1>8, <1>9, <1>10 DEF TransactionInv

LEMMA TransactionStep == TransactionInv /\ [Next]_vars => TransactionInv'
<1>. SUFFICES ASSUME TransactionInv, [Next]_vars PROVE TransactionInv'
  OBVIOUS
<1>1. CASE UNCHANGED transVars
  BY <1>1 DEF TransactionInv, SettledOnce, transVars
<1>2. CASE ObsCommand
  BY <1>2, ObsCommandStep
<1>3. CASE ConnectResult
  BY <1>3, SettleStep DEF ConnectResult
<1>4. CASE CreateStreamResult
  BY <1>4, SettleStep DEF CreateStreamResult
<1>5. CASE ErrorResult
  BY <1>5, SettleStep DEF ErrorResult
<1>6. CASE TransactionTimeout
  BY <1>6, SettleStep DEF TransactionTimeout
<1>7. CASE \/ TcpConnected \/ RemoteFails \/ SocketClosed \/ Reconnect \/ Close
           \/ ObsMedia \/ CompletedHandshake \/ UnexpectedResult \/ StreamBegin
           \/ OnStatus \/ UNCHANGED vars
  <2>1. UNCHANGED transVars
    BY <1>7 DEF TcpConnected, RemoteFails, SocketClosed, Reconnect, Close, ObsMedia,
                CompletedHandshake, UnexpectedResult, StreamBegin, OnStatus, vars
  <2>. QED
    BY <1>1, <2>1
<1>. QED
  BY <1>2, <1>3, <1>4, <1>5, <1>6, <1>7 DEF Next

\* An answer, a late answer, a lost connection and the timeout never end a
\* transaction twice.
THEOREM TransactionsSettleOnce == Spec => []SettledOnce
<1>1. Init => TransactionInv
  <2>. SUFFICES ASSUME Init PROVE TransactionInv
    OBVIOUS
  <2>1. transId = 1 /\ pendingTrans = {} /\ settled = <<>>
    BY DEF Init
  <2>2. <<>> \in Seq([tid : Nat, resolved : BOOLEAN]) /\ Len(<<>>) = 0
    BY EmptySeq
  <2>. QED
    BY <2>1, <2>2 DEF TransactionInv, SettledOnce
<1>2. TransactionInv => SettledOnce
  BY DEF TransactionInv
<1>. QED
  BY <1>1, <1>2, TransactionStep, PTL DEF Spec

-----------------------------------------------------------------------------
(* The parts of the flow, and the messages that are written.               *)

LEMMA FlowParts ==
  /\ Position("handshake") = 1 /\ Position("connect") = 2
  /\ Position("createStream") = 3 /\ Position("publish") = 4
  /\ Position("stream") = 5
<1>1. /\ Len(Flow) = 5
      /\ Flow[1] = "handshake" /\ Flow[2] = "connect" /\ Flow[3] = "createStream"
      /\ Flow[4] = "publish" /\ Flow[5] = "stream"
  BY DEF Flow
<1>2. \A i \in 1..Len(Flow) : i = 1 \/ i = 2 \/ i = 3 \/ i = 4 \/ i = 5
  BY <1>1
<1>. QED
  BY <1>1, <1>2 DEF Position

LEMMA PartOfCommand ==
  ASSUME NEW cmd
  PROVE  /\ Part(cmd) \in {0, 2, 3, 4}
         /\ Part(cmd) = 2 <=> cmd \in Commands["connect"]
         /\ Part(cmd) = 3 <=> cmd \in Commands["createStream"]
         /\ Part(cmd) = 4 <=> cmd \in Commands["publish"]
         /\ Commands["handshake"] = {} /\ Commands["stream"] = {}
         /\ Part(cmd) > 0 <=> cmd \in FlowCommands
         /\ cmd \in Plains => Part(cmd) = 0
         /\ Part("connect") = 2 /\ Part("createStream") = 3
<1>1. /\ Commands["connect"] = {"connect"} /\ Commands["publish"] = {"publish"}
      /\ Commands["createStream"] = {"releaseStream", "FCPublish", "createStream"}
      /\ Commands["handshake"] = {} /\ Commands["stream"] = {}
  BY DEF Commands
<1>2. /\ cmd \in Commands["connect"] => Part(cmd) = 2
      /\ cmd \in Commands["createStream"] => Part(cmd) = 3
      /\ cmd \in Commands["publish"] => Part(cmd) = 4
      /\ ~(\/ cmd \in Commands["connect"] \/ cmd \in Commands["createStream"]
           \/ cmd \in Commands["publish"]) => Part(cmd) = 0
      /\ Part("connect") = 2 /\ Part("createStream") = 3
  BY <1>1 DEF Part
<1>3. cmd \in FlowCommands <=> \/ cmd \in Commands["connect"]
                              \/ cmd \in Commands["createStream"]
                              \/ cmd \in Commands["publish"]
  <2>1. /\ Len(Flow) = 5
        /\ Flow[1] = "handshake" /\ Flow[2] = "connect" /\ Flow[3] = "createStream"
        /\ Flow[4] = "publish" /\ Flow[5] = "stream"
    BY DEF Flow
  <2>2. cmd \in FlowCommands <=> \E i \in 1..Len(Flow) : cmd \in Commands[Flow[i]]
    BY DEF FlowCommands
  <2>3. 1..Len(Flow) = {1, 2, 3, 4, 5}
    BY <2>1
  <2>. QED
    BY <1>1, <2>1, <2>2, <2>3
<1>4. cmd \in Plains => Part(cmd) = 0
  BY <1>1, <1>2 DEF Plains
<1>. QED
  BY <1>1, <1>2, <1>3, <1>4

\* A command waits when it belongs to a later part than the state.
LEMMA DelayedIsLater ==
  ASSUME NEW cmd, state \in {"handshake", "connect", "createStream", "publish"}
  PROVE  Delayed(cmd) <=> Part(cmd) > Position(state)
<1>1. /\ Len(Flow) = 5
      /\ Flow[1] = "handshake" /\ Flow[2] = "connect" /\ Flow[3] = "createStream"
      /\ Flow[4] = "publish" /\ Flow[5] = "stream"
  BY DEF Flow
<1>2. Position(state) \in 1..4
  BY FlowParts
<1>3. PICK p \in 1..4 : p = Position(state)
  BY <1>2
<1>4. Delayed(cmd) <=> \E i \in (p + 1)..5 : cmd \in Commands[Flow[i]]
  BY <1>1, <1>3 DEF Delayed
<1>5. /\ p = 1 => (p + 1)..5 = {2, 3, 4, 5}
      /\ p = 2 => (p + 1)..5 = {3, 4, 5}
      /\ p = 3 => (p + 1)..5 = {4, 5}
      /\ p = 4 => (p + 1)..5 = {5}
  OBVIOUS
<1>6. p = 1 \/ p = 2 \/ p = 3 \/ p = 4
  OBVIOUS
<1>. QED
  BY <1>1, <1>3, <1>4, <1>5, <1>6, PartOfCommand

LEMMA WrittenMessages ==
  ASSUME wire \in Seq(Message), NEW new \in Seq(Message), Write(new)
  PROVE  /\ wire' \in Seq(Message)
         /\ Len(wire) \in Nat /\ Len(wire') \in Nat
         /\ Len(wire) <= Len(wire')
         /\ \A i \in 1..Len(wire) : wire'[i] = wire[i]
         /\ \A i \in 1..Len(wire') :
              i > Len(wire) => i - Len(wire) \in 1..Len(new) /\ wire'[i] = new[i - Len(wire)]
<1>1. Len(wire) \in Nat /\ Len(new) \in Nat
  BY LenProperties
<1>2. CASE wire' = wire
  BY <1>1, <1>2
<1>3. CASE wire' = wire \o new
  <2>1. /\ wire' \in Seq(Message)
        /\ Len(wire') = Len(wire) + Len(new)
        /\ \A i \in 1..Len(wire) + Len(new) :
             wire'[i] = IF i <= Len(wire) THEN wire[i] ELSE new[i - Len(wire)]
    BY <1>3, ConcatProperties
  <2>2. \A i \in 1..Len(wire) : wire'[i] = wire[i]
    BY <1>1, <2>1
  <2>3. \A i \in 1..Len(wire') :
          i > Len(wire) => i - Len(wire) \in 1..Len(new) /\ wire'[i] = new[i - Len(wire)]
    BY <1>1, <2>1
  <2>. QED
    BY <1>1, <2>1, <2>2, <2>3
<1>. QED
  BY <1>2, <1>3 DEF Write

-----------------------------------------------------------------------------
(* The commands keep the order in which OBS sent them.                     *)

\* A command on the wire, or in the queue, is the one that OBS sent under
\* its transaction id; the queue is in the order of the ids, and what waits
\* belongs to a part of the flow that has not begun.
WrittenInv ==
  \A i \in 1..Len(wire) :
    wire[i].cmd \notin Plains =>
      wire[i].tid \in 1..(transId - 1) /\ Script[wire[i].tid] = wire[i].cmd

WaitingInv ==
  /\ \A j \in 1..Len(pendingCommands) :
       /\ pendingCommands[j].tid \in 1..(transId - 1)
       /\ Script[pendingCommands[j].tid] = pendingCommands[j].cmd
       /\ Part(pendingCommands[j].cmd) > Position(state)
  /\ \A j, k \in 1..Len(pendingCommands) :
       j < k => pendingCommands[j].tid < pendingCommands[k].tid

OrderInv == WrittenInv /\ WaitingInv /\ CommandsOnceInOrder

LEMMA FlowIsNotPlain ==
  ASSUME NEW cmd \in FlowCommands
  PROVE  cmd \notin Plains
BY PartOfCommand

LEMMA IntervalGrows ==
  ASSUME NEW m \in Nat, NEW n \in Nat, m <= n, NEW i \in 1..(m - 1)
  PROVE  i \in 1..(n - 1)
OBVIOUS

\* What the messages that are written, and the queue that is left, have to
\* satisfy.
LEMMA WriteKeepsOrder ==
  ASSUME TypeOK, OrderInv, NEW new \in Seq(Message), Write(new),
         transId' \in Nat, transId <= transId',
         \A n \in 1..Len(new) :
           new[n].cmd \notin Plains =>
             new[n].tid \in 1..(transId' - 1) /\ Script[new[n].tid] = new[n].cmd,
         \A m, n \in 1..Len(new) :
           m < n /\ new[m].cmd \in FlowCommands /\ new[n].cmd \in FlowCommands
             => new[m].tid < new[n].tid,
         \A i \in 1..Len(wire), n \in 1..Len(new) :
           wire[i].cmd \in FlowCommands /\ new[n].cmd \in FlowCommands
             => wire[i].tid < new[n].tid,
         \A i \in 1..Len(wire), j \in 1..Len(pendingCommands') :
           wire[i].cmd \in FlowCommands => wire[i].tid < pendingCommands'[j].tid,
         \A n \in 1..Len(new), j \in 1..Len(pendingCommands') :
           new[n].cmd \in FlowCommands => new[n].tid < pendingCommands'[j].tid
  PROVE  WrittenInv' /\ CommandsOnceInOrder'
<1>1. /\ wire \in Seq(Message) /\ transId \in Nat
  BY DEF TypeOK
<1>2. /\ wire' \in Seq(Message)
      /\ Len(wire) \in Nat /\ Len(wire') \in Nat
      /\ Len(wire) <= Len(wire')
      /\ \A i \in 1..Len(wire) : wire'[i] = wire[i]
      /\ \A i \in 1..Len(wire') :
           i > Len(wire) => i - Len(wire) \in 1..Len(new) /\ wire'[i] = new[i - Len(wire)]
  BY <1>1, WrittenMessages
<1>3. \A i \in 1..Len(wire') : i \in 1..Len(wire) \/ i > Len(wire)
  BY <1>2
<1>4. WrittenInv'
  <2>. SUFFICES ASSUME NEW i \in 1..Len(wire'), wire'[i].cmd \notin Plains
                PROVE  wire'[i].tid \in 1..(transId' - 1) /\ Script[wire'[i].tid] = wire'[i].cmd
    BY DEF WrittenInv
  <2>1. CASE i \in 1..Len(wire)
    <3>1. wire'[i] = wire[i]
      BY <1>2, <2>1
    <3>2. wire[i].tid \in 1..(transId - 1) /\ Script[wire[i].tid] = wire[i].cmd
      BY <2>1, <3>1 DEF OrderInv, WrittenInv
    <3>3. PICK t \in Nat : t = transId' /\ transId <= t
      OBVIOUS
    <3>4. \A n \in 1..(transId - 1) : n \in 1..(t - 1)
      BY <1>1, <3>3, IntervalGrows
    <3>. QED
      BY <3>1, <3>2, <3>3, <3>4
  <2>2. CASE i > Len(wire)
    <3>1. i - Len(wire) \in 1..Len(new) /\ wire'[i] = new[i - Len(wire)]
      BY <1>2, <2>2
    <3>. QED
      BY <3>1
  <2>. QED
    BY <1>3, <2>1, <2>2
<1>5. ASSUME NEW i \in 1..Len(wire'), NEW k \in 1..Len(wire'), i < k,
             wire'[i].cmd \in FlowCommands, wire'[k].cmd \in FlowCommands
      PROVE  wire'[i].tid < wire'[k].tid
  <2>1. CASE k \in 1..Len(wire)
    <3>1. i \in 1..Len(wire)
      BY <1>2, <1>5, <2>1
    <3>2. wire'[i] = wire[i] /\ wire'[k] = wire[k]
      BY <1>2, <2>1, <3>1
    <3>. QED
      BY <1>5, <2>1, <3>1, <3>2 DEF OrderInv, CommandsOnceInOrder
  <2>2. CASE k > Len(wire)
    <3>1. k - Len(wire) \in 1..Len(new) /\ wire'[k] = new[k - Len(wire)]
      BY <1>2, <2>2
    <3>2. CASE i \in 1..Len(wire)
      <4>1. wire'[i] = wire[i]
        BY <1>2, <3>2
      <4>. QED
        BY <1>5, <3>1, <3>2, <4>1
    <3>3. CASE i > Len(wire)
      <4>1. i - Len(wire) \in 1..Len(new) /\ wire'[i] = new[i - Len(wire)]
        BY <1>2, <3>3
      <4>2. i - Len(wire) < k - Len(wire)
        BY <1>2, <1>5
      <4>. QED
        BY <1>5, <3>1, <4>1, <4>2
    <3>. QED
      BY <1>3, <3>2, <3>3
  <2>. QED
    BY <1>3, <2>1, <2>2
<1>6. ASSUME NEW i \in 1..Len(wire'), NEW j \in 1..Len(pendingCommands'),
             wire'[i].cmd \in FlowCommands
      PROVE  wire'[i].tid < pendingCommands'[j].tid
  <2>1. CASE i \in 1..Len(wire)
    <3>1. wire'[i] = wire[i]
      BY <1>2, <2>1
    <3>. QED
      BY <1>6, <2>1, <3>1
  <2>2. CASE i > Len(wire)
    <3>1. i - Len(wire) \in 1..Len(new) /\ wire'[i] = new[i - Len(wire)]
      BY <1>2, <2>2
    <3>. QED
      BY <1>6, <3>1
  <2>. QED
    BY <1>3, <2>1, <2>2
<1>. QED
  BY <1>4, <1>5, <1>6 DEF CommandsOnceInOrder

\* The messages of the handshake, and chunks, do not count.
LEMMA PlainsKeepOrder ==
  ASSUME TypeOK, OrderInv, NEW new \in Seq(Message), Write(new),
         \A n \in 1..Len(new) : new[n].cmd \in Plains,
         UNCHANGED <<transId, pendingCommands, state>>
  PROVE  OrderInv'
<1>1. \A n \in 1..Len(new) : new[n].cmd \notin FlowCommands
  BY FlowIsNotPlain
<1>2. /\ transId' \in Nat /\ transId <= transId'
  BY DEF TypeOK
<1>3. \A i \in 1..Len(wire), j \in 1..Len(pendingCommands') :
        wire[i].cmd \in FlowCommands => wire[i].tid < pendingCommands'[j].tid
  BY DEF OrderInv, CommandsOnceInOrder
<1>4. WrittenInv' /\ CommandsOnceInOrder'
  BY <1>1, <1>2, <1>3, WriteKeepsOrder
<1>5. WaitingInv'
  BY DEF OrderInv, WaitingInv
<1>. QED
  BY <1>4, <1>5 DEF OrderInv

\* What sending a group of the queue leaves: nothing new waits, and only the
\* group is written.
Flushed(group) ==
  /\ OrderInv' /\ wire' \in Seq(Message)
  /\ pendingCommands' \in Seq(Transaction)
  /\ \A j \in 1..Len(pendingCommands') :
       \E k \in 1..Len(pendingCommands) : pendingCommands'[j] = pendingCommands[k]
  /\ \A i \in 1..Len(wire') :
       \/ i \in 1..Len(wire) /\ wire'[i] = wire[i]
       \/ wire'[i].cmd \in Plains
       \/ wire'[i].cmd \in Commands[group] /\ wire'[i].sid = streamId

\* A group whose part begins is sent, and none of an earlier part waits.
LEMMA FlushKeepsOrder ==
  ASSUME TypeOK, OrderInv, socket = "open",
         NEW group \in {"connect", "createStream", "publish"},
         NEW first \in Seq(Message), \A n \in 1..Len(first) : first[n].cmd \in Plains,
         \A j \in 1..Len(pendingCommands) :
           Part(pendingCommands[j].cmd) >= Position(group),
         SendReady(group, first), state' = group, UNCHANGED transId
  PROVE  Flushed(group)
<1>. DEFINE p == pendingCommands
            N == Len(pendingCommands)
            Kept == (1..N) \ Ready(group)
            ready == Pick(p, Ready(group))
            flushed == [i \in 1..Len(ready) |-> CommandMessage(ready[i])]
            new == first \o flushed
<1>1. /\ p \in Seq(Transaction) /\ wire \in Seq(Message) /\ transId \in Nat
      /\ streamId \in Nat
  BY StreamIdsAssumption DEF TypeOK
<1>2. N \in Nat /\ p \in [1..N -> Transaction]
  BY <1>1, LenProperties
<1>3. Position(group) \in 2..4 /\ group \in {"connect", "createStream", "publish"}
  BY FlowParts
<1>4. \A cmd : Part(cmd) \in 0..4 /\ (Part(cmd) = Position(group) <=> cmd \in Commands[group])
  BY FlowParts, PartOfCommand
<1>5. /\ p \in Seq(Transaction)
      /\ Ready(group) \in SUBSET (1..Len(p)) /\ Kept \in SUBSET (1..Len(p))
  BY <1>1 DEF Ready
<1>6. PICK at : PickedAt(p, Ready(group), at)
  BY <1>5, PickProperties
<1>7. ready \in Seq(Transaction) /\ Len(ready) = Cardinality(Ready(group)) /\ Len(ready) \in Nat
  BY <1>1, <1>5, PickProperties
<1>8. PICK kt : PickedAt(p, Kept, kt)
  BY <1>5, PickProperties
<1>9. Pick(p, Kept) \in Seq(Transaction) /\ Len(Pick(p, Kept)) = Cardinality(Kept)
  BY <1>1, <1>5, PickProperties
<1>10. pendingCommands' = Pick(p, Kept) /\ Write(new)
  BY DEF SendReady
<1>. HIDE DEF ready, Kept
<1>11. /\ flushed \in Seq(Message) /\ Len(flushed) = Len(ready)
       /\ \A n \in 1..Len(ready) : /\ flushed[n].cmd = ready[n].cmd /\ flushed[n].tid = ready[n].tid
                                   /\ flushed[n].sid = streamId
  <2>. DEFINE e(i) == CommandMessage(ready[i])
  <2>1. \A i \in 1..Len(ready) : e(i) \in Message
    <3>. SUFFICES ASSUME NEW i \in 1..Len(ready) PROVE e(i) \in Message
      OBVIOUS
    <3>1. ready[i] \in Transaction
      BY <1>7, ElementOfSeq
    <3>2. ready[i].cmd \in ScriptCommands /\ ready[i].tid \in Nat
      BY <3>1 DEF Transaction
    <3>. QED
      BY <1>1, <3>2 DEF CommandMessage, Message
  <2>2. \A i \in 1..Len(ready) : /\ e(i).cmd = ready[i].cmd /\ e(i).tid = ready[i].tid
                                /\ e(i).sid = streamId
    BY DEF CommandMessage
  <2>. HIDE DEF e
  <2>3. /\ [i \in 1..Len(ready) |-> e(i)] \in Seq(Message)
        /\ Len([i \in 1..Len(ready) |-> e(i)]) = Len(ready)
    BY <1>7, <2>1
  <2>4. flushed = [i \in 1..Len(ready) |-> e(i)]
    BY DEF e
  <2>. HIDE DEF flushed
  <2>. QED
    BY <2>2, <2>3, <2>4
<1>. HIDE DEF flushed
<1>12. Len(first) \in Nat
  BY LenProperties
<1>13. /\ new \in Seq(Message) /\ Len(new) \in Nat
       /\ Len(new) = Len(first) + Len(ready)
       /\ \A n \in 1..Len(new) :
            new[n] = IF n <= Len(first) THEN first[n] ELSE flushed[n - Len(first)]
  <2>1. /\ new \in Seq(Message)
        /\ Len(new) = Len(first) + Len(flushed)
        /\ \A n \in 1..Len(first) + Len(flushed) :
             new[n] = IF n <= Len(first) THEN first[n] ELSE flushed[n - Len(first)]
    BY <1>11, ConcatProperties
  <2>. QED
    BY <1>7, <1>11, <1>12, <2>1
<1>. HIDE DEF new
\* A command that is sent now.
<1>14. ASSUME NEW n \in 1..Len(new), new[n].cmd \notin Plains
       PROVE  /\ n - Len(first) \in 1..Len(ready)
              /\ at[n - Len(first)] \in 1..N
              /\ new[n].cmd = p[at[n - Len(first)]].cmd
              /\ new[n].tid = p[at[n - Len(first)]].tid
              /\ Part(new[n].cmd) = Position(group)
              /\ new[n].cmd \in Commands[group] /\ new[n].sid = streamId
  <2>1. ~(n <= Len(first))
    BY <1>12, <1>13, <1>14
  <2>2. n - Len(first) \in 1..Len(ready) /\ new[n] = flushed[n - Len(first)]
    BY <1>7, <1>12, <1>13, <2>1
  <2>3. PICK m \in 1..Len(ready) : m = n - Len(first)
    BY <2>2
  <2>4. at[m] \in Ready(group) /\ ready[m] = p[at[m]]
    BY <1>6, <1>7 DEF PickedAt, ready
  <2>5. new[n].cmd = p[at[m]].cmd /\ new[n].tid = p[at[m]].tid /\ new[n].sid = streamId
    BY <1>11, <2>2, <2>3, <2>4
  <2>6. at[m] \in 1..N /\ p[at[m]].cmd \in Commands[group]
    BY <2>4 DEF Ready
  <2>7. Part(new[n].cmd) = Position(group)
    BY <1>4, <2>5, <2>6
  <2>. QED
    BY <2>2, <2>3, <2>5, <2>6, <2>7
\* A command that goes on waiting.
<1>15. ASSUME NEW j \in 1..Len(pendingCommands')
       PROVE  /\ j \in 1..Cardinality(Kept)
              /\ kt[j] \in 1..N /\ pendingCommands'[j] = p[kt[j]]
              /\ Part(p[kt[j]].cmd) > Position(group)
  <2>1. /\ j \in 1..Cardinality(Kept) /\ kt[j] \in Kept
        /\ pendingCommands'[j] = p[kt[j]]
    BY <1>8, <1>9, <1>10 DEF PickedAt
  <2>2. kt[j] \in 1..N /\ p[kt[j]].cmd \notin Commands[group]
    BY <2>1 DEF Kept, Ready
  <2>3. /\ Part(p[kt[j]].cmd) # Position(group)
        /\ Part(p[kt[j]].cmd) >= Position(group)
    BY <1>4, <2>2
  <2>4. Part(p[kt[j]].cmd) \in Int /\ Position(group) \in Int
    BY <1>3, <1>4
  <2>. QED
    BY <2>1, <2>2, <2>3, <2>4
<1>16. \A k \in 1..N : /\ p[k].tid \in 1..(transId - 1)
                       /\ Script[p[k].tid] = p[k].cmd
                       /\ p[k].tid \in 1..Len(Script)
  <2>. SUFFICES ASSUME NEW k \in 1..N
                PROVE  /\ p[k].tid \in 1..(transId - 1) /\ Script[p[k].tid] = p[k].cmd
                       /\ p[k].tid \in 1..Len(Script)
    OBVIOUS
  <2>1. p[k] \in Transaction
    BY <1>2
  <2>. QED
    BY <2>1 DEF OrderInv, WaitingInv, Transaction
<1>17. \A n \in 1..Len(new) :
         new[n].cmd \notin Plains =>
           new[n].tid \in 1..(transId' - 1) /\ Script[new[n].tid] = new[n].cmd
  BY <1>14, <1>16
<1>18. ASSUME NEW m \in 1..Len(new), NEW n \in 1..Len(new), m < n,
              new[m].cmd \in FlowCommands, new[n].cmd \in FlowCommands
       PROVE  new[m].tid < new[n].tid
  <2>1. new[m].cmd \notin Plains /\ new[n].cmd \notin Plains
    BY <1>18, FlowIsNotPlain
  <2>2. PICK a \in 1..Len(ready) : a = m - Len(first)
    BY <1>14, <2>1
  <2>3. PICK b \in 1..Len(ready) : b = n - Len(first)
    BY <1>14, <2>1
  <2>4. a < b
    BY <1>12, <1>18, <2>2, <2>3
  <2>5. /\ at[a] \in 1..N /\ at[b] \in 1..N
        /\ new[m].tid = p[at[a]].tid /\ new[n].tid = p[at[b]].tid
    BY <1>14, <2>1, <2>2, <2>3
  <2>6. at[a] < at[b]
    BY <1>6, <1>7, <2>4 DEF PickedAt
  <2>. QED
    BY <2>5, <2>6 DEF OrderInv, WaitingInv
<1>19. ASSUME NEW i \in 1..Len(wire), NEW n \in 1..Len(new),
              wire[i].cmd \in FlowCommands, new[n].cmd \in FlowCommands
       PROVE  wire[i].tid < new[n].tid
  <2>1. new[n].cmd \notin Plains
    BY <1>19, FlowIsNotPlain
  <2>2. at[n - Len(first)] \in 1..N /\ new[n].tid = p[at[n - Len(first)]].tid
    BY <1>14, <2>1
  <2>. QED
    BY <1>19, <2>2 DEF OrderInv, CommandsOnceInOrder
<1>20. ASSUME NEW i \in 1..Len(wire), NEW j \in 1..Len(pendingCommands'),
              wire[i].cmd \in FlowCommands
       PROVE  wire[i].tid < pendingCommands'[j].tid
  BY <1>15, <1>20 DEF OrderInv, CommandsOnceInOrder
<1>21. ASSUME NEW n \in 1..Len(new), NEW j \in 1..Len(pendingCommands'),
              new[n].cmd \in FlowCommands
       PROVE  new[n].tid < pendingCommands'[j].tid
  <2>1. new[n].cmd \notin Plains
    BY <1>21, FlowIsNotPlain
  <2>2. PICK a \in 1..N : /\ new[n].cmd = p[a].cmd /\ new[n].tid = p[a].tid
                          /\ Part(p[a].cmd) = Position(group)
    BY <1>14, <2>1
  <2>3. PICK b \in 1..N : pendingCommands'[j] = p[b] /\ Part(p[b].cmd) > Position(group)
    BY <1>15
  <2>4. PICK s \in 1..Len(Script), r \in 1..Len(Script) :
          /\ s = p[a].tid /\ r = p[b].tid
          /\ Script[s] = p[a].cmd /\ Script[r] = p[b].cmd
    BY <1>16
  <2>5. s # r
    BY <1>3, <2>2, <2>3, <2>4
  <2>6. ~(r < s)
    <3>1. Part(Script[s]) = Position(group) /\ Part(Script[r]) > Position(group)
      BY <2>2, <2>3, <2>4
    <3>2. Position(group) \in 2..4 /\ Part(Script[s]) \in 0..4 /\ Part(Script[r]) \in 0..4
      BY <1>3, <1>4
    <3>3. Part(Script[s]) > 0 /\ Part(Script[r]) > 0 /\ ~(Part(Script[r]) <= Part(Script[s]))
      BY <3>1, <3>2
    <3>. QED
      BY <3>3, ScriptAssumption
  <2>. QED
    BY <2>2, <2>3, <2>4, <2>5, <2>6
<1>22. WrittenInv' /\ CommandsOnceInOrder'
  <2>1. transId' \in Nat /\ transId <= transId'
    BY <1>1
  <2>. QED
    BY <1>10, <1>13, <1>17, <1>18, <1>19, <1>20, <1>21, <2>1, WriteKeepsOrder
<1>23. WaitingInv'
  <2>1. \A j \in 1..Len(pendingCommands') :
          /\ pendingCommands'[j].tid \in 1..(transId' - 1)
          /\ Script[pendingCommands'[j].tid] = pendingCommands'[j].cmd
    BY <1>15, <1>16
  <2>2. \A j \in 1..Len(pendingCommands') : Part(pendingCommands'[j].cmd) > Position(state)'
    <3>1. Position(state)' = Position(group)
      BY DEF Position
    <3>. QED
      BY <1>15, <3>1
  <2>3. ASSUME NEW j \in 1..Len(pendingCommands'), NEW k \in 1..Len(pendingCommands'), j < k
        PROVE  pendingCommands'[j].tid < pendingCommands'[k].tid
    <3>1. kt[j] < kt[k]
      BY <1>8, <1>15, <2>3 DEF PickedAt
    <3>. QED
      BY <1>15, <3>1 DEF OrderInv, WaitingInv
  <2>. QED
    BY <2>1, <2>2, <2>3 DEF WaitingInv
<1>24. \A i \in 1..Len(wire') :
         \/ i \in 1..Len(wire) /\ wire'[i] = wire[i]
         \/ wire'[i].cmd \in Plains
         \/ wire'[i].cmd \in Commands[group] /\ wire'[i].sid = streamId
  <2>. SUFFICES ASSUME NEW i \in 1..Len(wire'), wire'[i].cmd \notin Plains, i \notin 1..Len(wire)
                PROVE  wire'[i].cmd \in Commands[group] /\ wire'[i].sid = streamId
    BY <1>1, <1>10, <1>13, WrittenMessages
  <2>1. i - Len(wire) \in 1..Len(new) /\ wire'[i] = new[i - Len(wire)]
    BY <1>1, <1>10, <1>13, WrittenMessages
  <2>. QED
    BY <1>14, <2>1
<1>25. wire' \in Seq(Message)
  BY <1>1, <1>10, <1>13, WrittenMessages
<1>. QED
  BY <1>2, <1>9, <1>10, <1>15, <1>22, <1>23, <1>24, <1>25 DEF OrderInv, Flushed

\* The next command of OBS waits, or is sent when nothing of its part or of
\* an earlier one waits.
LEMMA CommandKeepsOrder ==
  ASSUME TypeOK, OrderInv, transId = commandsSent + 1, ObsCommand
  PROVE  /\ OrderInv' /\ wire' \in Seq(Message)
         /\ pendingCommands' \in Seq(Transaction)
         /\ transId \in 1..Len(Script)
         /\ \A j \in 1..Len(pendingCommands') :
              \/ j \in 1..Len(pendingCommands) /\ pendingCommands'[j] = pendingCommands[j]
              \/ pendingCommands'[j].tid = transId
         /\ \A i \in 1..Len(wire') :
              \/ i \in 1..Len(wire) /\ wire'[i] = wire[i]
              \/ Part(wire'[i].cmd) <= Position(state) /\ wire'[i].sid = streamId
<1>. DEFINE c == [cmd |-> Script[commandsSent + 1], tid |-> transId]
            new == IF Delayed(c.cmd) THEN <<>> ELSE <<CommandMessage(c)>>
<1>1. /\ pendingCommands \in Seq(Transaction) /\ wire \in Seq(Message)
      /\ state \in {"handshake", "connect", "createStream", "publish"}
  BY DEF TypeOK
<1>2. transId \in Nat /\ transId \in 1..Len(Script) /\ Len(Script) \in Nat
  <2>1. commandsSent \in 0..Len(Script) /\ commandsSent < Len(Script)
    BY DEF TypeOK, ObsCommand
  <2>2. Len(Script) \in Nat
    BY ScriptAssumption, LenProperties
  <2>. QED
    BY <2>1, <2>2
<1>3. /\ c.cmd = Script[transId] /\ c.tid = transId
      /\ c \in Transaction /\ c.cmd \in ScriptCommands
  BY <1>2 DEF Transaction, ScriptCommands
<1>4. /\ transId' = transId + 1
      /\ pendingCommands' = IF Delayed(c.cmd) THEN Append(pendingCommands, c) ELSE pendingCommands
      /\ state' = state
      /\ Write((IF Delayed(c.cmd) THEN <<>> ELSE <<CommandMessage(c)>>) \o SentAtOnce)
  BY DEF ObsCommand, sessionVars
<1>. HIDE DEF c
<1>5. CommandMessage(c) \in Message /\ CommandMessage(c).cmd = c.cmd
      /\ CommandMessage(c).tid = transId /\ CommandMessage(c).sid = streamId
  <2>1. streamId \in Nat
    BY StreamIdsAssumption DEF TypeOK
  <2>. QED
    BY <1>2, <1>3, <2>1 DEF CommandMessage, Message
<1>6. /\ new \in Seq(Message) /\ Len(new) \in Nat
      /\ \A n \in 1..Len(new) : ~Delayed(c.cmd) /\ new[n] = CommandMessage(c) /\ n = 1
  <2>1. CASE Delayed(c.cmd)
    BY <2>1, EmptySeq
  <2>2. CASE ~Delayed(c.cmd)
    <3>1. <<CommandMessage(c)>> \in Seq(Message) /\ Len(<<CommandMessage(c)>>) = 1
      BY <1>5
    <3>2. new = <<CommandMessage(c)>>
      BY <2>2
    <3>. QED
      BY <2>2, <3>1, <3>2
  <2>. QED
    BY <2>1, <2>2
<1>7. Write(new)
  <2>1. SentAtOnce = <<>>
    BY <1>1 DEF SentAtOnce
  <2>2. new \o <<>> = new
    BY <1>6, ConcatEmptySeq
  <2>. QED
    BY <1>4, <2>1, <2>2
<1>. HIDE DEF new
<1>8. Position(state) \in 1..4 /\ Part(c.cmd) \in 0..4
      /\ (Delayed(c.cmd) <=> Part(c.cmd) > Position(state))
  BY <1>1, FlowParts, PartOfCommand, DelayedIsLater
<1>9. Len(pendingCommands) \in Nat
  BY <1>1, LenProperties
<1>10. /\ pendingCommands' \in Seq(Transaction)
       /\ \A j \in 1..Len(pendingCommands) :
            j \in 1..Len(pendingCommands') /\ pendingCommands'[j] = pendingCommands[j]
       /\ \A j \in 1..Len(pendingCommands') :
            \/ j \in 1..Len(pendingCommands)
            \/ Delayed(c.cmd) /\ j = Len(pendingCommands) + 1 /\ pendingCommands'[j] = c
  <2>1. CASE Delayed(c.cmd)
    <3>1. /\ pendingCommands' \in Seq(Transaction)
          /\ Len(pendingCommands') = Len(pendingCommands) + 1
          /\ \A j \in 1..Len(pendingCommands) : pendingCommands'[j] = pendingCommands[j]
          /\ pendingCommands'[Len(pendingCommands) + 1] = c
      BY <1>1, <1>3, <1>4, <2>1, AppendProperties
    <3>. QED
      BY <1>9, <2>1, <3>1
  <2>2. CASE ~Delayed(c.cmd)
    BY <1>1, <1>4, <2>2
  <2>. QED
    BY <2>1, <2>2
<1>11. \A j \in 1..Len(pendingCommands) :
         /\ pendingCommands[j].tid \in 1..(transId - 1)
         /\ Script[pendingCommands[j].tid] = pendingCommands[j].cmd
         /\ Part(pendingCommands[j].cmd) > Position(state)
  BY DEF OrderInv, WaitingInv
<1>12. ~Delayed(c.cmd) /\ c.cmd \in FlowCommands => Len(pendingCommands) = 0
  <2>. SUFFICES ASSUME ~Delayed(c.cmd), c.cmd \in FlowCommands, NEW j \in 1..Len(pendingCommands)
                PROVE  FALSE
    BY <1>9
  <2>1. PICK r \in 1..(transId - 1) :
          r = pendingCommands[j].tid /\ Script[r] = pendingCommands[j].cmd
    BY <1>11
  <2>2. r \in 1..Len(Script) /\ r < transId
    BY <1>2, <2>1
  <2>3. Part(Script[r]) > Position(state) /\ Part(Script[transId]) > 0
        /\ Part(Script[r]) \in 0..4 /\ Part(Script[transId]) \in 0..4
    BY <1>3, <1>11, <2>1, PartOfCommand
  <2>4. Part(Script[r]) <= Part(Script[transId])
    BY <1>2, <1>8, <2>2, <2>3, ScriptAssumption
  <2>. QED
    BY <1>3, <1>8, <2>3, <2>4
<1>13. \A n \in 1..Len(new) :
         new[n].cmd \notin Plains =>
           new[n].tid \in 1..(transId' - 1) /\ Script[new[n].tid] = new[n].cmd
  BY <1>2, <1>3, <1>4, <1>5, <1>6
<1>14. \A m, n \in 1..Len(new) : ~(m < n)
  BY <1>6
<1>15. ASSUME NEW i \in 1..Len(wire), wire[i].cmd \in FlowCommands
       PROVE  wire[i].tid \in 1..(transId - 1) /\ wire[i].tid < transId
  <2>1. wire[i].cmd \notin Plains
    BY <1>15, FlowIsNotPlain
  <2>2. PICK r \in 1..(transId - 1) : r = wire[i].tid
    BY <2>1 DEF OrderInv, WrittenInv
  <2>. QED
    BY <1>2, <2>2
<1>16. \A i \in 1..Len(wire), n \in 1..Len(new) :
         wire[i].cmd \in FlowCommands /\ new[n].cmd \in FlowCommands
           => wire[i].tid < new[n].tid
  BY <1>5, <1>6, <1>15
<1>17. \A i \in 1..Len(wire), j \in 1..Len(pendingCommands') :
         wire[i].cmd \in FlowCommands => wire[i].tid < pendingCommands'[j].tid
  <2>. SUFFICES ASSUME NEW i \in 1..Len(wire), NEW j \in 1..Len(pendingCommands'),
                       wire[i].cmd \in FlowCommands
                PROVE  wire[i].tid < pendingCommands'[j].tid
    OBVIOUS
  <2>1. CASE j \in 1..Len(pendingCommands)
    BY <1>10, <2>1 DEF OrderInv, CommandsOnceInOrder
  <2>2. CASE pendingCommands'[j] = c
    BY <1>3, <1>15, <2>2
  <2>. QED
    BY <1>10, <2>1, <2>2
<1>18. \A n \in 1..Len(new), j \in 1..Len(pendingCommands') :
         new[n].cmd \in FlowCommands => new[n].tid < pendingCommands'[j].tid
  <2>. SUFFICES ASSUME NEW n \in 1..Len(new), NEW j \in 1..Len(pendingCommands'),
                       new[n].cmd \in FlowCommands
                PROVE  FALSE
    OBVIOUS
  <2>1. ~Delayed(c.cmd) /\ c.cmd \in FlowCommands
    BY <1>5, <1>6
  <2>2. Len(pendingCommands) = 0 /\ j \in 1..Len(pendingCommands)
    BY <1>10, <1>12, <2>1
  <2>. QED
    BY <2>2
<1>19. WrittenInv' /\ CommandsOnceInOrder'
  <2>1. transId' \in Nat /\ transId <= transId'
    BY <1>2, <1>4
  <2>2. \A m, n \in 1..Len(new) :
          m < n /\ new[m].cmd \in FlowCommands /\ new[n].cmd \in FlowCommands
            => new[m].tid < new[n].tid
    BY <1>14
  <2>. QED
    BY <1>6, <1>7, <1>13, <1>16, <1>17, <1>18, <2>1, <2>2, WriteKeepsOrder
<1>20. WaitingInv'
  <2>1. \A n \in 1..(transId - 1) : n \in 1..(transId' - 1)
    BY <1>2, <1>4
  <2>2. transId \in 1..(transId' - 1)
    BY <1>2, <1>4
  <2>3. Position(state)' = Position(state)
    BY <1>4 DEF Position
  <2>4. ASSUME NEW j \in 1..Len(pendingCommands')
        PROVE  /\ pendingCommands'[j].tid \in 1..(transId' - 1)
               /\ Script[pendingCommands'[j].tid] = pendingCommands'[j].cmd
               /\ Part(pendingCommands'[j].cmd) > Position(state)'
    <3>1. CASE j \in 1..Len(pendingCommands)
      BY <1>10, <1>11, <2>1, <2>3, <3>1
    <3>2. CASE Delayed(c.cmd) /\ pendingCommands'[j] = c
      BY <1>3, <1>8, <2>2, <2>3, <3>2
    <3>. QED
      BY <1>10, <3>1, <3>2
  <2>5. ASSUME NEW j \in 1..Len(pendingCommands'), NEW k \in 1..Len(pendingCommands'), j < k
        PROVE  pendingCommands'[j].tid < pendingCommands'[k].tid
    <3>1. j \in 1..Len(pendingCommands)
      BY <1>9, <1>10, <2>5
    <3>2. CASE k \in 1..Len(pendingCommands)
      BY <1>10, <2>5, <3>1, <3>2 DEF OrderInv, WaitingInv
    <3>3. CASE pendingCommands'[k] = c
      <4>1. PICK r \in 1..(transId - 1) : r = pendingCommands[j].tid
        BY <1>11, <3>1
      <4>2. pendingCommands'[j].tid = r /\ pendingCommands'[k].tid = transId
        BY <1>3, <1>10, <3>1, <3>3, <4>1
      <4>. QED
        BY <1>2, <4>1, <4>2
    <3>. QED
      BY <1>10, <3>2, <3>3
  <2>. QED
    BY <2>4, <2>5 DEF WaitingInv
<1>21. \A i \in 1..Len(wire') :
         \/ i \in 1..Len(wire) /\ wire'[i] = wire[i]
         \/ Part(wire'[i].cmd) <= Position(state) /\ wire'[i].sid = streamId
  <2>. SUFFICES ASSUME NEW i \in 1..Len(wire'), i \notin 1..Len(wire)
                PROVE  Part(wire'[i].cmd) <= Position(state) /\ wire'[i].sid = streamId
    BY <1>1, <1>6, <1>7, WrittenMessages
  <2>1. i - Len(wire) \in 1..Len(new) /\ wire'[i] = new[i - Len(wire)]
    <3>1. PICK n2 \in Seq(Message) : n2 = new
      BY <1>6
    <3>2. wire \in Seq(Message) /\ Write(n2)
      BY <1>1, <1>7, <3>1
    <3>3. /\ Len(wire) \in Nat /\ Len(wire') \in Nat
          /\ \A j \in 1..Len(wire') :
               j > Len(wire) => j - Len(wire) \in 1..Len(n2) /\ wire'[j] = n2[j - Len(wire)]
      BY <3>2, WrittenMessages
    <3>4. i > Len(wire)
      BY <3>3
    <3>. QED
      BY <3>1, <3>3, <3>4
  <2>2. ~Delayed(c.cmd) /\ wire'[i].cmd = c.cmd /\ wire'[i].sid = streamId
    BY <1>5, <1>6, <2>1
  <2>. QED
    BY <1>8, <2>2
<1>22. wire' \in Seq(Message)
  BY <1>1, <1>6, <1>7, WrittenMessages
<1>23. \A j \in 1..Len(pendingCommands') :
         \/ j \in 1..Len(pendingCommands) /\ pendingCommands'[j] = pendingCommands[j]
         \/ pendingCommands'[j].tid = transId
  BY <1>3, <1>10
<1>. QED
  BY <1>2, <1>10, <1>19, <1>20, <1>21, <1>22, <1>23 DEF OrderInv

-----------------------------------------------------------------------------
(* Types.                                                                  *)

LEMMA PlainTypes ==
  /\ \A what \in Plains : Plain(what) \in Message /\ Plain(what).cmd = what
  /\ \A n \in Nat : Chunk(n) \in Message /\ Chunk(n).cmd \in Plains
BY DEF Plain, Chunk, Message, Plains

\* What SentAtOnce, OnStatus and the handshake write.
LEMMA PlainSequences ==
  ASSUME TypeOK
  PROVE  /\ SentAtOnce = <<>>
         /\ <<>> \in Seq(Message) /\ Len(<<>>) = 0
         /\ <<Plain("C0C1")>> \in Seq(Message)
         /\ \A n \in 1..Len(<<Plain("C0C1")>>) : <<Plain("C0C1")>>[n].cmd \in Plains
         /\ <<Plain("C2"), Plain("setChunkSize")>> \in Seq(Message)
         /\ \A n \in 1..Len(<<Plain("C2"), Plain("setChunkSize")>>) :
              <<Plain("C2"), Plain("setChunkSize")>>[n].cmd \in Plains
         /\ [i \in 1..Len(chunkQueue) |-> Chunk(chunkQueue[i])] \in Seq(Message)
         /\ \A n \in 1..Len([i \in 1..Len(chunkQueue) |-> Chunk(chunkQueue[i])]) :
              [i \in 1..Len(chunkQueue) |-> Chunk(chunkQueue[i])][n].cmd \in Plains
<1>1. SentAtOnce = <<>>
  BY DEF TypeOK, SentAtOnce
<1>2. <<>> \in Seq(Message) /\ Len(<<>>) = 0
  BY EmptySeq
<1>3. "C0C1" \in Plains /\ "C2" \in Plains /\ "setChunkSize" \in Plains
  BY DEF Plains
<1>4. /\ <<Plain("C0C1")>> \in Seq(Message)
      /\ \A n \in 1..Len(<<Plain("C0C1")>>) : <<Plain("C0C1")>>[n].cmd \in Plains
  <2>1. Plain("C0C1") \in Message /\ Plain("C0C1").cmd \in Plains
    BY <1>3, PlainTypes
  <2>. QED
    BY <2>1
<1>5. /\ <<Plain("C2"), Plain("setChunkSize")>> \in Seq(Message)
      /\ \A n \in 1..Len(<<Plain("C2"), Plain("setChunkSize")>>) :
           <<Plain("C2"), Plain("setChunkSize")>>[n].cmd \in Plains
  <2>1. /\ Plain("C2") \in Message /\ Plain("C2").cmd \in Plains
        /\ Plain("setChunkSize") \in Message /\ Plain("setChunkSize").cmd \in Plains
    BY <1>3, PlainTypes
  <2>. QED
    BY <2>1
<1>6. /\ [i \in 1..Len(chunkQueue) |-> Chunk(chunkQueue[i])] \in Seq(Message)
      /\ \A n \in 1..Len([i \in 1..Len(chunkQueue) |-> Chunk(chunkQueue[i])]) :
           [i \in 1..Len(chunkQueue) |-> Chunk(chunkQueue[i])][n].cmd \in Plains
  <2>. DEFINE e(i) == Chunk(chunkQueue[i])
  <2>1. Len(chunkQueue) \in Nat /\ \A i \in 1..Len(chunkQueue) : chunkQueue[i] \in Nat
    <3>1. chunkQueue \in Seq(1..MaxData)
      BY DEF TypeOK
    <3>2. Len(chunkQueue) \in Nat
      BY <3>1, LenProperties
    <3>3. \A i \in 1..Len(chunkQueue) : chunkQueue[i] \in 1..MaxData
      BY <3>1, ElementOfSeq
    <3>. QED
      BY <3>2, <3>3, MaxDataAssumption
  <2>2. \A i \in 1..Len(chunkQueue) : e(i) \in Message /\ e(i).cmd \in Plains
    BY <2>1, PlainTypes
  <2>. HIDE DEF e
  <2>3. /\ [i \in 1..Len(chunkQueue) |-> e(i)] \in Seq(Message)
        /\ \A n \in 1..Len([i \in 1..Len(chunkQueue) |-> e(i)]) :
             [i \in 1..Len(chunkQueue) |-> e(i)][n].cmd \in Plains
    BY <2>1, <2>2
  <2>. QED
    BY <2>3 DEF e
<1>. QED
  BY <1>1, <1>2, <1>4, <1>5, <1>6

\* The variables of TypeOK but those of the socket, the queues and the wire.
LEMMA NextDelayType ==
  ASSUME reconnectDelay \in MinDelay..MaxDelay
  PROVE  NextDelay \in MinDelay..MaxDelay
BY DelaysAssumption DEF NextDelay, Shorter

LEMMA SettleTypes ==
  ASSUME TypeOK, NEW p \in pendingTrans, NEW r \in BOOLEAN, Settle(p, r)
  PROVE  /\ transId' = transId
         /\ pendingTrans' \subseteq pendingTrans
         /\ settled' \in Seq([tid : 1..Len(Script), resolved : BOOLEAN])
         /\ Len(settled) \in Nat /\ Len(settled') = Len(settled) + 1
         /\ \A i \in 1..Len(settled) : settled'[i] = settled[i]
         /\ settled'[Len(settled) + 1] = [tid |-> p.tid, resolved |-> r]
<1>. DEFINE Ending == [tid : 1..Len(Script), resolved : BOOLEAN]
            end == [tid |-> p.tid, resolved |-> r]
<1>1. p \in Transaction /\ settled \in Seq(Ending)
  BY DEF TypeOK
<1>2. end \in Ending
  BY <1>1 DEF Transaction
<1>3. /\ settled' = Append(settled, end) /\ transId' = transId
      /\ pendingTrans' \subseteq pendingTrans
  BY DEF Settle
<1>. HIDE DEF Ending, end
<1>4. /\ settled' \in Seq(Ending) /\ Len(settled) \in Nat /\ Len(settled') = Len(settled) + 1
      /\ \A i \in 1..Len(settled) : settled'[i] = settled[i]
      /\ settled'[Len(settled) + 1] = end
  BY <1>1, <1>2, <1>3, AppendProperties, LenProperties
<1>. QED
  BY <1>3, <1>4 DEF Ending, end

LEMMA WrittenTypes ==
  ASSUME TypeOK
  PROVE  /\ TcpConnected => wire' \in Seq(Message)
         /\ ObsMedia => wire' \in Seq(Message)
         /\ OnStatus => wire' \in Seq(Message)
<1>1. wire \in Seq(Message)
  BY DEF TypeOK
<1>2. TcpConnected => wire' \in Seq(Message)
  <2>1. TcpConnected => Write(<<Plain("C0C1")>>)
    BY DEF TcpConnected
  <2>. QED
    BY <1>1, <2>1, PlainSequences, WrittenMessages
<1>3. ObsMedia => wire' \in Seq(Message)
  <2>1. ObsMedia => Write(<<>>)
    BY PlainSequences DEF ObsMedia
  <2>. QED
    BY <1>1, <2>1, PlainSequences, WrittenMessages
<1>4. OnStatus => wire' \in Seq(Message)
  <2>1. OnStatus => Write([i \in 1..Len(chunkQueue) |-> Chunk(chunkQueue[i])])
    BY DEF OnStatus
  <2>. QED
    BY <1>1, <2>1, PlainSequences, WrittenMessages
<1>. QED
  BY <1>2, <1>3, <1>4

\* An answer is one to a command that OBS sent.
LEMMA AnswerTypes ==
  ASSUME TypeOK, OrderInv, NEW m \in Unanswered
  PROVE  m.tid \in 1..Len(Script) /\ Script[m.tid] = m.cmd
<1>1. PICK i \in 1..Len(wire) : m = wire[i] /\ m.cmd \in ScriptCommands
  BY DEF Unanswered
<1>2. m.cmd \notin Plains
  BY <1>1, ScriptAssumption DEF ScriptCommands
<1>3. m.tid \in 1..(transId - 1) /\ Script[m.tid] = m.cmd
  BY <1>1, <1>2 DEF OrderInv, WrittenInv
<1>4. transId \in 1..(Len(Script) + 1) /\ Len(Script) \in Nat
  BY ScriptAssumption, LenProperties DEF TypeOK
<1>. QED
  BY <1>3, <1>4

-----------------------------------------------------------------------------
(* The session with the remote advances on its answers only.               *)

SessionInv ==
  /\ handshaken => state # "handshake"
  /\ state = "createStream" => Resolved("connect")
  /\ state = "publish" => createdStream
  /\ createdStream => /\ Resolved("connect") /\ Resolved("createStream")
                      /\ \A j \in 1..Len(pendingCommands) : Part(pendingCommands[j].cmd) > 3

\* The inductive invariant.
ClientInv ==
  /\ TypeOK
  /\ transId = commandsSent + 1
  /\ \A p \in pendingTrans : Script[p.tid] = p.cmd
  /\ TransactionInv
  /\ OrderInv
  /\ SessionInv
  /\ CommandsAwaitAnswers

LEMMA FlushStep ==
  ASSUME ClientInv
  PROVE  /\ CompletedHandshake => Flushed("connect")
         /\ ConnectResult => Flushed("createStream")
         /\ StreamBegin => Flushed("publish")
<1>. USE DEF ClientInv
<1>1. /\ state \in {"handshake", "connect", "createStream", "publish"}
      /\ \A j \in 1..Len(pendingCommands) :
           /\ Part(pendingCommands[j].cmd) > Position(state)
           /\ Part(pendingCommands[j].cmd) \in 0..4
  BY PartOfCommand DEF TypeOK, OrderInv, WaitingInv
<1>2. /\ Position("handshake") = 1 /\ Position("connect") = 2
      /\ Position("createStream") = 3 /\ Position("publish") = 4
  BY FlowParts
<1>3. ASSUME CompletedHandshake PROVE Flushed("connect")
  <2>1. \A j \in 1..Len(pendingCommands) : Part(pendingCommands[j].cmd) >= Position("connect")
    BY <1>1, <1>2
  <2>2. /\ socket = "open" /\ state' = "connect" /\ UNCHANGED transId
        /\ SendReady("connect", <<Plain("C2"), Plain("setChunkSize")>>)
    BY <1>3 DEF CompletedHandshake, transVars
  <2>. QED
    BY <2>1, <2>2, PlainSequences, FlushKeepsOrder
<1>4. ASSUME ConnectResult PROVE Flushed("createStream")
  <2>1. state # "handshake" /\ socket = "open"
    BY <1>4 DEF ConnectResult, Listening, SessionInv
  <2>2. \A j \in 1..Len(pendingCommands) : Part(pendingCommands[j].cmd) >= Position("createStream")
    BY <1>1, <1>2, <2>1
  <2>3. /\ state' = "createStream" /\ UNCHANGED transId
        /\ SendReady("createStream", <<>>)
    BY <1>4 DEF ConnectResult, Settle
  <2>4. <<>> \in Seq(Message) /\ \A n \in 1..Len(<<>>) : <<>>[n].cmd \in Plains
    BY PlainSequences
  <2>. QED
    BY <2>1, <2>2, <2>3, <2>4, FlushKeepsOrder
<1>5. ASSUME StreamBegin PROVE Flushed("publish")
  <2>1. socket = "open" /\ createdStream
    BY <1>5 DEF StreamBegin, Listening
  <2>2. \A j \in 1..Len(pendingCommands) : Part(pendingCommands[j].cmd) >= Position("publish")
    BY <1>1, <1>2, <2>1 DEF SessionInv
  <2>3. /\ state' = "publish" /\ UNCHANGED transId /\ SendReady("publish", <<>>)
    BY <1>5 DEF StreamBegin, transVars
  <2>4. <<>> \in Seq(Message) /\ \A n \in 1..Len(<<>>) : <<>>[n].cmd \in Plains
    BY PlainSequences
  <2>. QED
    BY <2>1, <2>2, <2>3, <2>4, FlushKeepsOrder
<1>. QED
  BY <1>3, <1>4, <1>5

LEMMA TypeStep ==
  ASSUME ClientInv, [Next]_vars
  PROVE  TypeOK' /\ transId' = commandsSent' + 1
<1>. USE DEF ClientInv, vars, socketVars, rigidVars, sessionVars, transVars, obsVars, remoteVars
<1>0. TypeOK
  OBVIOUS
<1>1. CASE TcpConnected
  <2>1. wire' \in Seq(Message)
    BY <1>1, WrittenTypes
  <2>2. MinDelay \in MinDelay..MaxDelay
    BY DelaysAssumption
  <2>. QED
    BY <1>0, <1>1, <2>1, <2>2 DEF TcpConnected, TypeOK
<1>2. CASE RemoteFails
  BY <1>0, <1>2 DEF RemoteFails, TypeOK
<1>3. CASE SocketClosed
  <2>1. reconnectTimer' \in BOOLEAN /\ reconnectDelay' \in MinDelay..MaxDelay
    BY <1>0, <1>3, NextDelayType DEF SocketClosed, ScheduleReconnect, TypeOK
  <2>2. socket' = "closed" /\ UNCHANGED <<portValid, remote>>
    BY <1>3 DEF SocketClosed
  <2>3. UNCHANGED <<ended, sessionVars, transVars, pendingCommands, chunkQueue, obsVars,
                    remoteVars, wire>>
    BY <1>3 DEF SocketClosed
  <2>. QED
    BY <1>0, <2>1, <2>2, <2>3 DEF TypeOK
<1>4. CASE Reconnect
  <2>1. /\ reconnectTimer' \in BOOLEAN /\ reconnectDelay' \in MinDelay..MaxDelay
        /\ socket' \in {"idle", "connecting", "open", "destroyed", "closed"}
    BY <1>0, <1>4, NextDelayType DEF Reconnect, TypeOK
  <2>2. wire' \in Seq(Message) /\ answered' \subseteq 1..Len(Script) /\ returned' \subseteq StreamIds
    <3>1. <<>> \in Seq(Message)
      BY EmptySeq
    <3>. QED
      BY <1>0, <1>4, <3>1 DEF Reconnect, TypeOK
  <2>3. UNCHANGED <<rigidVars, ended, sessionVars, transVars, pendingCommands, chunkQueue, obsVars>>
    BY <1>4 DEF Reconnect
  <2>. QED
    BY <1>0, <2>1, <2>2, <2>3 DEF TypeOK
<1>5. CASE Close
  BY <1>0, <1>5 DEF Close, TypeOK
<1>6. Waiting \in Seq(1..MaxData) \/ dataEvents = MaxData
  <2>1. chunkQueue \in Seq(1..MaxData) /\ dataEvents \in 0..MaxData /\ MaxData \in Nat
    BY <1>0, MaxDataAssumption DEF TypeOK
  <2>2. dataEvents # MaxData => dataEvents + 1 \in 1..MaxData
    BY <2>1
  <2>. QED
    BY <2>1, <2>2, AppendProperties DEF Waiting
<1>7. CASE ObsCommand
  <2>1. /\ wire' \in Seq(Message) /\ pendingCommands' \in Seq(Transaction)
        /\ transId \in 1..Len(Script)
    BY <1>7, CommandKeepsOrder
  <2>2. chunkQueue' \in Seq(1..MaxData) /\ dataEvents' \in 0..MaxData
    <3>1. dataEvents \in 0..MaxData /\ MaxData \in Nat /\ dataEvents < MaxData
      BY <1>0, <1>7, MaxDataAssumption DEF TypeOK, ObsCommand
    <3>2. chunkQueue' = Waiting /\ dataEvents' = dataEvents + 1
      BY <1>7 DEF ObsCommand
    <3>. QED
      BY <1>6, <3>1, <3>2
  <2>3. /\ commandsSent' \in 0..Len(Script) /\ transId' \in 1..(Len(Script) + 1)
        /\ transId' = commandsSent' + 1
    <3>1. /\ Len(Script) \in Nat /\ commandsSent \in 0..Len(Script)
          /\ commandsSent < Len(Script) /\ transId = commandsSent + 1
      BY <1>0, <1>7, ScriptAssumption, LenProperties DEF TypeOK, ObsCommand
    <3>2. commandsSent' = commandsSent + 1 /\ transId' = transId + 1
      BY <1>7 DEF ObsCommand
    <3>. QED
      BY <3>1, <3>2
  <2>4. pendingTrans' \subseteq Transaction
    <3>. DEFINE c == [cmd |-> Script[commandsSent + 1], tid |-> transId]
    <3>1. c \in Transaction
      BY <2>1 DEF Transaction, ScriptCommands
    <3>2. pendingTrans' \subseteq pendingTrans \cup {c}
      BY <1>7 DEF ObsCommand
    <3>. QED
      BY <1>0, <3>1, <3>2 DEF TypeOK
  <2>5. UNCHANGED <<socketVars, ended, sessionVars, settled, resumed, remoteVars>>
    BY <1>7 DEF ObsCommand
  <2>. QED
    BY <1>0, <2>1, <2>2, <2>3, <2>4, <2>5 DEF TypeOK
<1>8. CASE ObsMedia
  <2>1. wire' \in Seq(Message)
    BY <1>8, WrittenTypes
  <2>2. chunkQueue' \in Seq(1..MaxData) /\ dataEvents' \in 0..MaxData
    <3>1. dataEvents \in 0..MaxData /\ MaxData \in Nat /\ dataEvents < MaxData
      BY <1>0, <1>8, MaxDataAssumption DEF TypeOK, ObsMedia
    <3>2. chunkQueue' = Waiting /\ dataEvents' = dataEvents + 1
      BY <1>8 DEF ObsMedia
    <3>. QED
      BY <1>6, <3>1, <3>2
  <2>3. UNCHANGED <<socketVars, ended, sessionVars, transVars, pendingCommands, resumed,
                    commandsSent, remoteVars>>
    BY <1>8 DEF ObsMedia
  <2>. QED
    BY <1>0, <2>1, <2>2, <2>3 DEF TypeOK
<1>9. CASE CompletedHandshake
  <2>1. wire' \in Seq(Message) /\ pendingCommands' \in Seq(Transaction)
    BY <1>9, FlushStep DEF Flushed
  <2>. QED
    BY <1>0, <1>9, <2>1 DEF CompletedHandshake, TypeOK
<1>10. CASE ConnectResult
  <2>1. wire' \in Seq(Message) /\ pendingCommands' \in Seq(Transaction)
    BY <1>10, FlushStep DEF Flushed
  <2>2. PICK m \in Unanswered, p \in pendingTrans : answered' = answered \cup {m.tid} /\ Settle(p, TRUE)
    BY <1>10 DEF ConnectResult
  <2>3. m.tid \in 1..Len(Script)
    BY <1>0, AnswerTypes
  <2>4. /\ transId' = transId /\ pendingTrans' \subseteq pendingTrans
        /\ settled' \in Seq([tid : 1..Len(Script), resolved : BOOLEAN])
    BY <1>0, <2>2, SettleTypes
  <2>5. /\ state' = "createStream"
        /\ UNCHANGED <<socketVars, ended, handshaken, streamId, createdStream, chunkQueue,
                       obsVars, returned>>
    BY <1>10 DEF ConnectResult
  <2>. QED
    BY <1>0, <2>1, <2>2, <2>3, <2>4, <2>5 DEF TypeOK
<1>11. CASE CreateStreamResult
  <2>1. PICK m \in Unanswered, p \in pendingTrans, sid \in StreamIds :
          /\ answered' = answered \cup {m.tid} /\ returned' = returned \cup {sid}
          /\ streamId' = sid /\ Settle(p, TRUE)
    BY <1>11 DEF CreateStreamResult
  <2>2. m.tid \in 1..Len(Script)
    BY <1>0, AnswerTypes
  <2>3. /\ transId' = transId /\ pendingTrans' \subseteq pendingTrans
        /\ settled' \in Seq([tid : 1..Len(Script), resolved : BOOLEAN])
    BY <1>0, <2>1, SettleTypes
  <2>4. /\ createdStream' = TRUE
        /\ UNCHANGED <<socketVars, ended, handshaken, state, pendingCommands, chunkQueue,
                       obsVars, wire>>
    BY <1>11 DEF CreateStreamResult
  <2>. QED
    BY <1>0, <2>1, <2>2, <2>3, <2>4 DEF TypeOK
<1>12. CASE ErrorResult
  <2>1. PICK m \in Unanswered, p \in pendingTrans : answered' = answered \cup {m.tid} /\ Settle(p, FALSE)
    BY <1>12 DEF ErrorResult
  <2>2. m.tid \in 1..Len(Script)
    BY <1>0, AnswerTypes
  <2>3. /\ transId' = transId /\ pendingTrans' \subseteq pendingTrans
        /\ settled' \in Seq([tid : 1..Len(Script), resolved : BOOLEAN])
    BY <1>0, <2>1, SettleTypes
  <2>4. UNCHANGED <<socketVars, ended, sessionVars, pendingCommands, chunkQueue, obsVars,
                    returned, wire>>
    BY <1>12 DEF ErrorResult
  <2>. QED
    BY <1>0, <2>1, <2>2, <2>3, <2>4 DEF TypeOK
<1>13. CASE UnexpectedResult
  <2>1. PICK m \in Unanswered : answered' = answered \cup {m.tid}
    BY <1>13 DEF UnexpectedResult
  <2>2. m.tid \in 1..Len(Script)
    BY <1>0, AnswerTypes
  <2>. QED
    BY <1>0, <1>13, <2>1, <2>2 DEF UnexpectedResult, TypeOK
<1>14. CASE StreamBegin
  <2>1. wire' \in Seq(Message) /\ pendingCommands' \in Seq(Transaction)
    BY <1>14, FlushStep DEF Flushed
  <2>. QED
    BY <1>0, <1>14, <2>1 DEF StreamBegin, TypeOK
<1>15. CASE OnStatus
  <2>1. wire' \in Seq(Message) /\ <<>> \in Seq(1..MaxData)
    BY <1>0, <1>15, WrittenTypes, EmptySeq
  <2>2. PICK m \in Unanswered : answered' = answered \cup {m.tid}
    BY <1>15 DEF OnStatus
  <2>3. m.tid \in 1..Len(Script)
    BY <1>0, AnswerTypes
  <2>4. /\ chunkQueue' = <<>>
        /\ UNCHANGED <<socketVars, ended, sessionVars, transVars, pendingCommands, obsVars, returned>>
    BY <1>15 DEF OnStatus
  <2>. QED
    BY <1>0, <2>1, <2>2, <2>3, <2>4 DEF TypeOK
<1>16. CASE TransactionTimeout
  <2>1. PICK p \in pendingTrans : Settle(p, FALSE)
    BY <1>16 DEF TransactionTimeout
  <2>2. /\ transId' = transId /\ pendingTrans' \subseteq pendingTrans
        /\ settled' \in Seq([tid : 1..Len(Script), resolved : BOOLEAN])
    BY <1>0, <2>1, SettleTypes
  <2>3. UNCHANGED <<socketVars, ended, sessionVars, pendingCommands, chunkQueue, obsVars,
                    remoteVars, wire>>
    BY <1>16 DEF TransactionTimeout
  <2>. QED
    BY <1>0, <2>2, <2>3 DEF TypeOK
<1>17. CASE UNCHANGED vars
  BY <1>0, <1>17 DEF TypeOK
<1>. QED
  BY <1>1, <1>2, <1>3, <1>4, <1>5, <1>7, <1>8, <1>9, <1>10, <1>11, <1>12, <1>13, <1>14, <1>15,
     <1>16, <1>17 DEF Next

\* What ended stays ended.
LEMMA SettledGrows ==
  ASSUME ClientInv, [Next]_vars
  PROVE  /\ Len(settled) \in Nat /\ Len(settled') \in Nat /\ Len(settled) <= Len(settled')
         /\ \A i \in 1..Len(settled) : settled'[i] = settled[i]
<1>1. TypeOK /\ Len(settled) \in Nat
  <2>1. TypeOK
    BY DEF ClientInv
  <2>2. settled \in Seq([tid : 1..Len(Script), resolved : BOOLEAN])
    BY <2>1 DEF TypeOK
  <2>. QED
    BY <2>1, <2>2, LenProperties
<1>2. CASE UNCHANGED settled
  BY <1>1, <1>2
<1>3. CASE \E p \in pendingTrans, r \in BOOLEAN : Settle(p, r)
  <2>1. PICK p \in pendingTrans, r \in BOOLEAN : Settle(p, r)
    BY <1>3
  <2>2. /\ Len(settled) \in Nat /\ Len(settled') = Len(settled) + 1
        /\ \A i \in 1..Len(settled) : settled'[i] = settled[i]
    BY <1>1, <2>1, SettleTypes
  <2>. QED
    BY <2>2
<1>4. \/ UNCHANGED settled
      \/ \E p \in pendingTrans, r \in BOOLEAN : Settle(p, r)
  BY DEF Next, TcpConnected, RemoteFails, SocketClosed, Reconnect, Close, ObsCommand, ObsMedia,
         CompletedHandshake, ConnectResult, CreateStreamResult, ErrorResult, UnexpectedResult,
         StreamBegin, OnStatus, TransactionTimeout, vars, transVars
<1>. QED
  BY <1>2, <1>3, <1>4

LEMMA ResolvedStays ==
  ASSUME ClientInv, [Next]_vars, NEW cmd, Resolved(cmd)
  PROVE  Resolved(cmd)'
<1>1. PICK i \in 1..Len(settled) : settled[i].resolved /\ Script[settled[i].tid] = cmd
  BY DEF Resolved
<1>2. i \in 1..Len(settled') /\ settled'[i] = settled[i]
  BY SettledGrows
<1>3. settled'[i].resolved /\ Script[settled'[i].tid] = cmd
  BY <1>1, <1>2, Zenon
<1>. QED
  BY <1>2, <1>3 DEF Resolved

LEMMA SettleResolves ==
  ASSUME ClientInv, NEW p \in pendingTrans, Settle(p, TRUE)
  PROVE  Resolved(p.cmd)'
<1>1. TypeOK /\ Script[p.tid] = p.cmd
  BY DEF ClientInv
<1>2. /\ Len(settled) \in Nat /\ Len(settled') = Len(settled) + 1
      /\ settled'[Len(settled) + 1] = [tid |-> p.tid, resolved |-> TRUE]
  BY <1>1, SettleTypes
<1>3. PICK n \in 1..Len(settled') : n = Len(settled) + 1
  BY <1>2
<1>4. settled'[n].resolved = TRUE /\ settled'[n].tid = p.tid
  BY <1>2, <1>3
<1>5. settled'[n].resolved /\ Script[settled'[n].tid] = p.cmd
  BY <1>1, <1>4, Zenon
<1>. QED
  BY <1>5 DEF Resolved

\* The transactions are of commands that OBS sent.
LEMMA PendingStep ==
  ASSUME ClientInv, [Next]_vars
  PROVE  \A p \in pendingTrans' : Script[p.tid] = p.cmd
<1>1. \A p \in pendingTrans : Script[p.tid] = p.cmd
  BY DEF ClientInv
<1>2. CASE ObsCommand
  <2>. DEFINE c == [cmd |-> Script[commandsSent + 1], tid |-> transId]
  <2>1. pendingTrans' \subseteq pendingTrans \cup {c}
    BY <1>2 DEF ObsCommand
  <2>2. Script[c.tid] = c.cmd
    BY DEF ClientInv
  <2>. HIDE DEF c
  <2>. QED
    BY <1>1, <2>1, <2>2
<1>3. CASE pendingTrans' \subseteq pendingTrans
  BY <1>1, <1>3
<1>4. ObsCommand \/ pendingTrans' \subseteq pendingTrans
  BY DEF Next, TcpConnected, RemoteFails, SocketClosed, Reconnect, Close, ObsMedia,
         CompletedHandshake, ConnectResult, CreateStreamResult, ErrorResult, UnexpectedResult,
         StreamBegin, OnStatus, TransactionTimeout, Settle, vars, transVars
<1>. QED
  BY <1>2, <1>3, <1>4

LEMMA OrderStep ==
  ASSUME ClientInv, [Next]_vars
  PROVE  OrderInv'
<1>. USE DEF ClientInv
<1>1. CASE UNCHANGED <<wire, pendingCommands, transId, state>>
  BY <1>1 DEF OrderInv, WrittenInv, WaitingInv, CommandsOnceInOrder, Position
<1>2. CASE TcpConnected
  <2>1. Write(<<Plain("C0C1")>>) /\ UNCHANGED <<transId, pendingCommands, state>>
    BY <1>2 DEF TcpConnected, transVars
  <2>. QED
    BY <2>1, PlainSequences, PlainsKeepOrder
<1>3. CASE Reconnect
  <2>1. UNCHANGED <<transId, pendingCommands, state>>
    BY <1>3 DEF Reconnect, transVars, sessionVars
  <2>2. CASE wire' = <<>>
    <3>1. Len(wire') = 0
      BY <2>2, EmptySeq
    <3>2. WaitingInv'
      BY <2>1 DEF OrderInv, WaitingInv, Position
    <3>. QED
      BY <3>1, <3>2 DEF OrderInv, WrittenInv, CommandsOnceInOrder
  <2>3. CASE wire' = wire
    BY <1>1, <2>1, <2>3
  <2>. QED
    BY <1>3, <2>2, <2>3 DEF Reconnect
<1>4. CASE ObsCommand
  BY <1>4, CommandKeepsOrder
<1>5. CASE ObsMedia
  <2>1. Write(<<>>) /\ UNCHANGED <<transId, pendingCommands, state>>
    BY <1>5, PlainSequences DEF ObsMedia, transVars, sessionVars
  <2>2. <<>> \in Seq(Message) /\ \A n \in 1..Len(<<>>) : <<>>[n].cmd \in Plains
    BY PlainSequences
  <2>. QED
    BY <2>1, <2>2, PlainsKeepOrder
<1>6. CASE OnStatus
  <2>1. /\ Write([i \in 1..Len(chunkQueue) |-> Chunk(chunkQueue[i])])
        /\ UNCHANGED <<transId, pendingCommands, state>>
    BY <1>6 DEF OnStatus, transVars, sessionVars
  <2>. QED
    BY <2>1, PlainSequences, PlainsKeepOrder
<1>7. CASE CompletedHandshake \/ ConnectResult \/ StreamBegin
  BY <1>7, FlushStep DEF Flushed
<1>8. CASE \/ RemoteFails \/ SocketClosed \/ Close \/ CreateStreamResult \/ ErrorResult
           \/ UnexpectedResult \/ TransactionTimeout \/ UNCHANGED vars
  <2>1. UNCHANGED <<wire, pendingCommands, transId, state>>
    BY <1>8 DEF RemoteFails, SocketClosed, Close, CreateStreamResult, ErrorResult,
                UnexpectedResult, TransactionTimeout, Settle, vars, transVars, sessionVars
  <2>. QED
    BY <1>1, <2>1
<1>. QED
  BY <1>2, <1>3, <1>4, <1>5, <1>6, <1>7, <1>8 DEF Next

\* An answer to createStream means that the remote accepted connect before,
\* and that nothing of the parts before publish waits.
LEMMA StreamCreated ==
  ASSUME ClientInv, NEW m \in Unanswered, NEW p \in pendingTrans,
         p.tid = m.tid, p.cmd = "createStream"
  PROVE  /\ Resolved("connect")
         /\ \A j \in 1..Len(pendingCommands) : Part(pendingCommands[j].cmd) > 3
<1>. USE DEF ClientInv
<1>1. PICK i \in 1..Len(wire) : m = wire[i]
  BY DEF Unanswered
<1>2. m.tid \in 1..Len(Script) /\ Script[m.tid] = m.cmd /\ m.cmd = "createStream"
  BY AnswerTypes
<1>3. m.cmd \in Commands.createStream /\ m.cmd \in FlowCommands
  BY <1>2, PartOfCommand
<1>4. Resolved("connect")
  BY <1>1, <1>3 DEF CommandsAwaitAnswers
<1>5. ASSUME NEW j \in 1..Len(pendingCommands)
      PROVE  Part(pendingCommands[j].cmd) > 3
  <2>1. m.tid < pendingCommands[j].tid
    BY <1>1, <1>3 DEF OrderInv, CommandsOnceInOrder
  <2>2. /\ pendingCommands[j].tid \in 1..Len(Script)
        /\ Script[pendingCommands[j].tid] = pendingCommands[j].cmd
        /\ Part(pendingCommands[j].cmd) > Position(state)
    <3>1. pendingCommands \in Seq(Transaction)
      BY DEF TypeOK
    <3>2. pendingCommands[j] \in Transaction
      BY <3>1, ElementOfSeq
    <3>. QED
      BY <3>2 DEF Transaction, OrderInv, WaitingInv
  <2>3. Part(pendingCommands[j].cmd) > 0 /\ Part("createStream") > 0
    <3>1. Position(state) \in 1..4 /\ Part(pendingCommands[j].cmd) \in 0..4 /\ Part("createStream") = 3
      BY FlowParts, PartOfCommand DEF TypeOK
    <3>. QED
      BY <2>2, <3>1
  <2>. QED
    BY <1>2, <2>1, <2>2, <2>3, ScriptAssumption
<1>. QED
  BY <1>4, <1>5

LEMMA PlainsWritten ==
  ASSUME wire \in Seq(Message), NEW new \in Seq(Message), Write(new),
         \A n \in 1..Len(new) : new[n].cmd \in Plains,
         NEW i \in 1..Len(wire'), ~(i \in 1..Len(wire) /\ wire'[i] = wire[i])
  PROVE  wire'[i].cmd \in Plains
<1>1. /\ Len(wire) \in Nat /\ Len(wire') \in Nat
      /\ \A n \in 1..Len(wire) : wire'[n] = wire[n]
      /\ \A n \in 1..Len(wire') :
           n > Len(wire) => n - Len(wire) \in 1..Len(new) /\ wire'[n] = new[n - Len(wire)]
  BY WrittenMessages
<1>2. i > Len(wire)
  BY <1>1
<1>3. i - Len(wire) \in 1..Len(new) /\ wire'[i] = new[i - Len(wire)]
  BY <1>1, <1>2
<1>. QED
  BY <1>3

\* Only commands of parts that have begun are written.
LEMMA AwaitStep ==
  ASSUME ClientInv, [Next]_vars
  PROVE  CommandsAwaitAnswers'
<1>. USE DEF ClientInv
<1>1. \A cmd : /\ cmd \in Plains => /\ cmd \notin Commands.createStream
                                   /\ cmd \notin Commands.publish
               /\ cmd \in Commands.connect => /\ cmd \notin Commands.createStream
                                             /\ cmd \notin Commands.publish
               /\ cmd \in Commands.createStream => cmd \notin Commands.publish
  BY PartOfCommand
<1>2. /\ Resolved("connect") => Resolved("connect")'
      /\ Resolved("createStream") => Resolved("createStream")'
  BY ResolvedStays
<1>3. \A i \in 1..Len(wire) :
        /\ wire[i].cmd \in Commands.createStream => Resolved("connect")'
        /\ wire[i].cmd \in Commands.publish => Resolved("createStream")'
  BY <1>2 DEF CommandsAwaitAnswers
<1>. SUFFICES ASSUME NEW i \in 1..Len(wire'), ~(i \in 1..Len(wire) /\ wire'[i] = wire[i])
              PROVE  /\ wire'[i].cmd \in Commands.createStream => Resolved("connect")'
                     /\ wire'[i].cmd \in Commands.publish => Resolved("createStream")'
  BY <1>3 DEF CommandsAwaitAnswers
<1>4. CASE wire'[i].cmd \in Plains
  BY <1>1, <1>4
<1>5. CASE CompletedHandshake
  BY <1>1, <1>4, <1>5, FlushStep DEF Flushed
<1>6. CASE ConnectResult
  <2>1. Resolved("connect")'
    BY <1>6, SettleResolves DEF ConnectResult
  <2>2. wire'[i].cmd \in Plains \/ wire'[i].cmd \in Commands.createStream
    BY <1>6, FlushStep DEF Flushed
  <2>. QED
    BY <1>1, <1>4, <2>1, <2>2
<1>7. CASE StreamBegin
  <2>1. Resolved("createStream")'
    BY <1>2, <1>7 DEF StreamBegin, SessionInv
  <2>2. wire'[i].cmd \in Plains \/ wire'[i].cmd \in Commands.publish
    BY <1>7, FlushStep DEF Flushed
  <2>. QED
    BY <1>1, <1>4, <2>1, <2>2
<1>8. CASE ObsCommand
  <2>1. Part(wire'[i].cmd) <= Position(state)
    BY <1>8, CommandKeepsOrder
  <2>2. /\ wire'[i].cmd \in Commands.createStream => Part(wire'[i].cmd) = 3
        /\ wire'[i].cmd \in Commands.publish => Part(wire'[i].cmd) = 4
    BY PartOfCommand
  <2>3. /\ Position(state) >= 3 => state \in {"createStream", "publish"}
        /\ Position(state) >= 4 => state = "publish"
    BY FlowParts DEF TypeOK
  <2>4. /\ state \in {"createStream", "publish"} => Resolved("connect")'
        /\ state = "publish" => Resolved("createStream")'
    BY <1>2 DEF SessionInv
  <2>. QED
    BY <2>1, <2>2, <2>3, <2>4
<1>9. CASE TcpConnected
  <2>1. Write(<<Plain("C0C1")>>) /\ wire \in Seq(Message)
    BY <1>9 DEF TcpConnected, TypeOK
  <2>2. wire'[i].cmd \in Plains
    BY <2>1, PlainSequences, PlainsWritten
  <2>. QED
    BY <1>4, <2>2
<1>10. CASE OnStatus
  <2>1. /\ Write([n \in 1..Len(chunkQueue) |-> Chunk(chunkQueue[n])])
        /\ wire \in Seq(Message)
    BY <1>10 DEF OnStatus, TypeOK
  <2>2. wire'[i].cmd \in Plains
    BY <2>1, PlainSequences, PlainsWritten
  <2>. QED
    BY <1>4, <2>2
<1>11. CASE ObsMedia
  <2>1. Write(<<>>) /\ wire \in Seq(Message)
    BY <1>11, PlainSequences DEF ObsMedia, TypeOK
  <2>2. <<>> \in Seq(Message) /\ \A n \in 1..Len(<<>>) : <<>>[n].cmd \in Plains
    BY PlainSequences
  <2>3. wire'[i].cmd \in Plains
    BY <2>1, <2>2, PlainsWritten
  <2>. QED
    BY <1>4, <2>3
<1>12. CASE \/ RemoteFails \/ SocketClosed \/ Close \/ CreateStreamResult \/ ErrorResult
            \/ UnexpectedResult \/ TransactionTimeout \/ UNCHANGED vars
  <2>1. wire' = wire
    BY <1>12 DEF RemoteFails, SocketClosed, Close, CreateStreamResult, ErrorResult,
                 UnexpectedResult, TransactionTimeout, vars
  <2>. QED
    BY <2>1
<1>13. CASE Reconnect
  <2>1. wire' = wire \/ wire' = <<>>
    BY <1>13 DEF Reconnect
  <2>2. Len(<<>>) = 0
    BY EmptySeq
  <2>. QED
    BY <2>1, <2>2
<1>. QED
  BY <1>5, <1>6, <1>7, <1>8, <1>9, <1>10, <1>11, <1>12, <1>13 DEF Next

LEMMA SessionStep ==
  ASSUME ClientInv, [Next]_vars
  PROVE  SessionInv'
<1>. USE DEF ClientInv
<1>1. /\ Resolved("connect") => Resolved("connect")'
      /\ Resolved("createStream") => Resolved("createStream")'
  BY ResolvedStays
<1>2. ASSUME UNCHANGED <<handshaken, state, createdStream, pendingCommands>>
      PROVE  SessionInv'
  BY <1>1, <1>2 DEF SessionInv
\* What holds of the queue once a stream was created, is left by a flush.
<1>3. ASSUME NEW group, Flushed(group), createdStream
      PROVE  \A j \in 1..Len(pendingCommands') : Part(pendingCommands'[j].cmd) > 3
  <2>. SUFFICES ASSUME NEW j \in 1..Len(pendingCommands')
                PROVE  Part(pendingCommands'[j].cmd) > 3
    OBVIOUS
  <2>1. PICK k \in 1..Len(pendingCommands) : pendingCommands'[j] = pendingCommands[k]
    BY <1>3 DEF Flushed
  <2>2. Part(pendingCommands[k].cmd) > 3
    BY <1>3 DEF SessionInv
  <2>. QED
    BY <2>1, <2>2, Zenon
<1>4. CASE TcpConnected
  <2>1. handshaken' = FALSE /\ UNCHANGED <<state, createdStream, pendingCommands>>
    BY <1>4 DEF TcpConnected
  <2>. QED
    BY <1>1, <2>1 DEF SessionInv
<1>5. CASE CompletedHandshake
  <2>1. state' = "connect" /\ createdStream' = createdStream
    BY <1>5 DEF CompletedHandshake
  <2>2. Flushed("connect")
    BY <1>5, FlushStep
  <2>. QED
    BY <1>1, <1>3, <2>1, <2>2 DEF SessionInv
<1>6. CASE ConnectResult
  <2>1. state' = "createStream" /\ createdStream' = createdStream /\ Resolved("connect")'
    BY <1>6, SettleResolves DEF ConnectResult
  <2>2. Flushed("createStream")
    BY <1>6, FlushStep
  <2>. QED
    BY <1>1, <1>3, <2>1, <2>2 DEF SessionInv
<1>7. CASE StreamBegin
  <2>1. state' = "publish" /\ createdStream /\ createdStream' = createdStream
    BY <1>7 DEF StreamBegin
  <2>2. Flushed("publish")
    BY <1>7, FlushStep
  <2>. QED
    BY <1>1, <1>3, <2>1, <2>2 DEF SessionInv
<1>8. CASE CreateStreamResult
  <2>1. PICK m \in Unanswered, p \in pendingTrans :
          p.tid = m.tid /\ p.cmd = "createStream" /\ Settle(p, TRUE)
    BY <1>8 DEF CreateStreamResult
  <2>2. UNCHANGED <<handshaken, state, pendingCommands>> /\ createdStream' = TRUE
    BY <1>8 DEF CreateStreamResult
  <2>3. Resolved("createStream")'
    BY <2>1, SettleResolves
  <2>4. /\ Resolved("connect")
        /\ \A j \in 1..Len(pendingCommands) : Part(pendingCommands[j].cmd) > 3
    BY <2>1, StreamCreated
  <2>. QED
    BY <1>1, <2>2, <2>3, <2>4 DEF SessionInv
<1>9. CASE ObsCommand
  <2>1. UNCHANGED <<handshaken, state, createdStream>>
    BY <1>9 DEF ObsCommand, sessionVars
  <2>2. ASSUME createdStream, NEW j \in 1..Len(pendingCommands')
        PROVE  Part(pendingCommands'[j].cmd) > 3
    <3>1. CASE j \in 1..Len(pendingCommands) /\ pendingCommands'[j] = pendingCommands[j]
      <4>1. Part(pendingCommands[j].cmd) > 3
        BY <2>2, <3>1 DEF SessionInv
      <4>. QED
        BY <3>1, <4>1, Zenon
    <3>2. CASE pendingCommands'[j].tid = transId
      <4>1. OrderInv' /\ transId \in 1..Len(Script)
        BY <1>9, CommandKeepsOrder
      <4>2. /\ Script[transId] = pendingCommands'[j].cmd
            /\ Part(pendingCommands'[j].cmd) > Position(state)
        <5>1. Position(state)' = Position(state)
          BY <2>1 DEF Position
        <5>. QED
          BY <3>2, <4>1, <5>1 DEF OrderInv, WaitingInv
      <4>3. PICK i \in 1..Len(settled) : Script[settled[i].tid] = "createStream"
        BY <2>2 DEF SessionInv, Resolved
      <4>4. settled[i].tid \in 1..Len(Script) /\ settled[i].tid < transId
        <5>1. settled \in Seq([tid : 1..Len(Script), resolved : BOOLEAN])
          BY DEF TypeOK
        <5>2. settled[i] \in [tid : 1..Len(Script), resolved : BOOLEAN]
          BY <5>1, ElementOfSeq
        <5>. QED
          BY <5>2 DEF TransactionInv
      <4>5. /\ Position(state) \in 1..4 /\ Part("createStream") = 3
            /\ Part(pendingCommands'[j].cmd) \in 0..4
        BY FlowParts, PartOfCommand DEF TypeOK
      <4>6. Part(Script[settled[i].tid]) > 0 /\ Part(Script[transId]) > 0
        BY <4>2, <4>3, <4>5
      <4>7. Part(Script[transId]) > 3
        BY <4>1, <4>3, <4>4, <4>6, ScriptAssumption
      <4>. QED
        BY <4>2, <4>7
    <3>. QED
      BY <1>9, <3>1, <3>2, CommandKeepsOrder
  <2>. QED
    BY <1>1, <2>1, <2>2 DEF SessionInv
<1>10. CASE \/ RemoteFails \/ SocketClosed \/ Reconnect \/ Close \/ ObsMedia \/ ErrorResult
            \/ UnexpectedResult \/ OnStatus \/ TransactionTimeout \/ UNCHANGED vars
  <2>1. UNCHANGED <<handshaken, state, createdStream, pendingCommands>>
    BY <1>10 DEF RemoteFails, SocketClosed, Reconnect, Close, ObsMedia, ErrorResult,
                 UnexpectedResult, OnStatus, TransactionTimeout, vars, sessionVars
  <2>. QED
    BY <1>2, <2>1
<1>. QED
  BY <1>4, <1>5, <1>6, <1>7, <1>8, <1>9, <1>10 DEF Next

-----------------------------------------------------------------------------
\* The inductive invariant that the stream ids need: a prompt remote is
\* never reconnected to, so that what it returned stays valid.
PromptInv ==
  remote = "prompt" =>
    /\ portValid => ~reconnectTimer /\ (~ended => socket \in {"connecting", "open"})
    /\ createdStream => streamId \in returned
    /\ PublishUsesReturnedStreamId

\* A publish command is written when a stream was created, under its id.
LEMMA PublishWritten ==
  ASSUME ClientInv, [Next]_vars, NEW i \in 1..Len(wire'),
         ~(i \in 1..Len(wire) /\ wire'[i] = wire[i]), wire'[i].cmd = "publish"
  PROVE  /\ createdStream /\ createdStream' = createdStream
         /\ streamId' = streamId /\ wire'[i].sid = streamId /\ returned' = returned
<1>. USE DEF ClientInv
<1>1. /\ "publish" \notin Plains /\ "publish" \notin Commands.connect
      /\ "publish" \notin Commands.createStream /\ Part("publish") = 4
  BY PartOfCommand DEF Commands, Plains
<1>2. CASE CompletedHandshake
  BY <1>1, <1>2, FlushStep DEF Flushed
<1>3. CASE ConnectResult
  BY <1>1, <1>3, FlushStep DEF Flushed
<1>4. CASE StreamBegin
  <2>1. wire'[i].sid = streamId
    BY <1>1, <1>4, FlushStep DEF Flushed
  <2>. QED
    BY <1>4, <2>1 DEF StreamBegin, remoteVars
<1>5. CASE ObsCommand
  <2>1. Part(wire'[i].cmd) <= Position(state) /\ wire'[i].sid = streamId
    BY <1>5, CommandKeepsOrder
  <2>2. state = "publish"
    BY <1>1, <2>1, FlowParts DEF TypeOK
  <2>. QED
    BY <1>5, <2>1, <2>2 DEF SessionInv, ObsCommand, sessionVars, remoteVars
<1>6. CASE TcpConnected
  <2>1. Write(<<Plain("C0C1")>>) /\ wire \in Seq(Message)
    BY <1>6 DEF TcpConnected, TypeOK
  <2>. QED
    BY <1>1, <2>1, PlainSequences, PlainsWritten
<1>7. CASE OnStatus
  <2>1. /\ Write([n \in 1..Len(chunkQueue) |-> Chunk(chunkQueue[n])])
        /\ wire \in Seq(Message)
    BY <1>7 DEF OnStatus, TypeOK
  <2>. QED
    BY <1>1, <2>1, PlainSequences, PlainsWritten
<1>8. CASE ObsMedia
  <2>1. Write(<<>>) /\ wire \in Seq(Message)
    BY <1>8, PlainSequences DEF ObsMedia, TypeOK
  <2>2. <<>> \in Seq(Message) /\ \A n \in 1..Len(<<>>) : <<>>[n].cmd \in Plains
    BY PlainSequences
  <2>. QED
    BY <1>1, <2>1, <2>2, PlainsWritten
<1>9. CASE Reconnect
  <2>1. wire' = wire \/ wire' = <<>>
    BY <1>9 DEF Reconnect
  <2>2. Len(<<>>) = 0
    BY EmptySeq
  <2>. QED
    BY <2>1, <2>2
<1>10. CASE \/ RemoteFails \/ SocketClosed \/ Close \/ CreateStreamResult \/ ErrorResult
            \/ UnexpectedResult \/ TransactionTimeout \/ UNCHANGED vars
  <2>1. wire' = wire
    BY <1>10 DEF RemoteFails, SocketClosed, Close, CreateStreamResult, ErrorResult,
                 UnexpectedResult, TransactionTimeout, vars
  <2>. QED
    BY <2>1
<1>. QED
  BY <1>2, <1>3, <1>4, <1>5, <1>6, <1>7, <1>8, <1>9, <1>10 DEF Next

LEMMA PromptStep ==
  ASSUME ClientInv, ConnectionInv, PromptInv, [Next]_vars
  PROVE  PromptInv'
<1>. SUFFICES ASSUME remote' = "prompt" PROVE PromptInv'
  BY DEF PromptInv
<1>1. remote = "prompt" /\ portValid' = portValid
  BY DEF Next, TcpConnected, RemoteFails, SocketClosed, Reconnect, Close, ObsCommand, ObsMedia,
         CompletedHandshake, ConnectResult, CreateStreamResult, ErrorResult, UnexpectedResult,
         StreamBegin, OnStatus, TransactionTimeout, vars, socketVars, rigidVars
<1>2. portValid' => ~reconnectTimer' /\ (~ended' => socket' \in {"connecting", "open"})
  <2>. SUFFICES ASSUME portValid
                PROVE  ~reconnectTimer' /\ (~ended' => socket' \in {"connecting", "open"})
    BY <1>1
  <2>1. ~reconnectTimer /\ (~ended => socket \in {"connecting", "open"})
    BY <1>1 DEF PromptInv
  <2>2. CASE TcpConnected
    BY <2>1, <2>2 DEF TcpConnected
  <2>3. CASE RemoteFails
    BY <1>1, <2>3 DEF RemoteFails
  <2>4. CASE SocketClosed
    BY <2>1, <2>4 DEF SocketClosed, ScheduleReconnect
  <2>5. CASE Reconnect
    BY <2>1, <2>5 DEF Reconnect
  <2>6. CASE Close
    BY <2>6 DEF Close
  <2>7. CASE \/ ObsCommand \/ ObsMedia \/ CompletedHandshake \/ ConnectResult
             \/ CreateStreamResult \/ ErrorResult \/ UnexpectedResult \/ StreamBegin
             \/ OnStatus \/ TransactionTimeout \/ UNCHANGED vars
    <3>1. UNCHANGED <<socket, reconnectTimer, ended>>
      BY <2>7 DEF ObsCommand, ObsMedia, CompletedHandshake, ConnectResult, CreateStreamResult,
                  ErrorResult, UnexpectedResult, StreamBegin, OnStatus, TransactionTimeout,
                  vars, socketVars
    <3>. QED
      BY <2>1, <3>1
  <2>. QED
    BY <2>2, <2>3, <2>4, <2>5, <2>6, <2>7 DEF Next
<1>3. returned \subseteq returned'
  <2>1. CASE Reconnect
    BY <1>1, <2>1 DEF Reconnect, PromptInv
  <2>2. CASE CreateStreamResult
    BY <2>2 DEF CreateStreamResult
  <2>. QED
    BY <2>1, <2>2
       DEF Next, TcpConnected, RemoteFails, SocketClosed, Close, ObsCommand, ObsMedia,
           CompletedHandshake, ConnectResult, ErrorResult, UnexpectedResult,
           StreamBegin, OnStatus, TransactionTimeout, vars, remoteVars
<1>4. createdStream' => streamId' \in returned'
  <2>1. CASE CreateStreamResult
    BY <2>1 DEF CreateStreamResult
  <2>2. CASE ~CreateStreamResult
    <3>1. UNCHANGED <<streamId, createdStream>>
      BY <2>2
         DEF Next, TcpConnected, RemoteFails, SocketClosed, Reconnect, Close, ObsCommand, ObsMedia,
             CompletedHandshake, ConnectResult, ErrorResult, UnexpectedResult,
             StreamBegin, OnStatus, TransactionTimeout, vars, sessionVars
    <3>. QED
      BY <1>1, <1>3, <3>1 DEF PromptInv
  <2>. QED
    BY <2>1, <2>2
<1>5. PublishUsesReturnedStreamId'
  <2>. SUFFICES ASSUME NEW i \in 1..Len(wire'), wire'[i].cmd = "publish"
                PROVE  wire'[i].sid \in returned'
    BY DEF PublishUsesReturnedStreamId
  <2>1. CASE i \in 1..Len(wire) /\ wire'[i] = wire[i]
    BY <1>1, <1>3, <2>1 DEF PromptInv, PublishUsesReturnedStreamId
  <2>2. CASE ~(i \in 1..Len(wire) /\ wire'[i] = wire[i])
    BY <1>1, <2>2, PublishWritten DEF PromptInv
  <2>. QED
    BY <2>1, <2>2
<1>. QED
  BY <1>2, <1>4, <1>5 DEF PromptInv

LEMMA ClientInit == Init => ClientInv
<1>. SUFFICES ASSUME Init PROVE ClientInv
  OBVIOUS
<1>1. /\ \A S : <<>> \in Seq(S) /\ Len(<<>>) = 0
      /\ Len(Script) \in Nat
  BY EmptySeq, LenProperties, ScriptAssumption
<1>2. TypeOK
  <2>1. reconnectDelay \in MinDelay..MaxDelay
    BY DelaysAssumption DEF Init, Shorter
  <2>2. /\ pendingCommands \in Seq(Transaction) /\ chunkQueue \in Seq(1..MaxData)
        /\ wire \in Seq(Message) /\ settled \in Seq([tid : 1..Len(Script), resolved : BOOLEAN])
    BY <1>1, Zenon DEF Init
  <2>3. /\ dataEvents \in 0..MaxData /\ commandsSent \in 0..Len(Script)
        /\ transId \in 1..(Len(Script) + 1)
    BY <1>1, MaxDataAssumption DEF Init
  <2>4. /\ socket \in {"idle", "connecting", "open", "destroyed", "closed"}
        /\ portValid \in BOOLEAN /\ remote \in Remotes /\ reconnectTimer \in BOOLEAN
        /\ ended \in BOOLEAN /\ handshaken \in BOOLEAN
        /\ state \in {"handshake", "connect", "createStream", "publish"}
        /\ streamId \in {0} \cup StreamIds /\ createdStream \in BOOLEAN
        /\ pendingTrans \subseteq Transaction /\ resumed \in BOOLEAN
        /\ answered \subseteq 1..Len(Script) /\ returned \subseteq StreamIds
    BY DEF Init
  <2>. QED
    BY <2>1, <2>2, <2>3, <2>4 DEF TypeOK
<1>3. transId = commandsSent + 1 /\ pendingTrans = {}
  BY DEF Init
<1>4. TransactionInv
  BY <1>1 DEF Init, TransactionInv, SettledOnce
<1>5. OrderInv
  BY <1>1 DEF Init, OrderInv, WrittenInv, WaitingInv, CommandsOnceInOrder
<1>6. SessionInv
  BY DEF Init, SessionInv
<1>7. CommandsAwaitAnswers
  BY <1>1 DEF Init, CommandsAwaitAnswers
<1>. QED
  BY <1>2, <1>3, <1>4, <1>5, <1>6, <1>7 DEF ClientInv

LEMMA ClientInvStep == ClientInv /\ [Next]_vars => ClientInv'
<1>. SUFFICES ASSUME ClientInv, [Next]_vars PROVE ClientInv'
  OBVIOUS
<1>1. TransactionInv'
  BY TransactionStep DEF ClientInv
<1>2. \A p \in pendingTrans' : Script[p.tid] = p.cmd
  BY PendingStep
<1>. QED
  BY <1>1, <1>2, TypeStep, OrderStep, SessionStep, AwaitStep DEF ClientInv

LEMMA ClientInvariant == Spec => []ClientInv
BY ClientInit, ClientInvStep, PTL DEF Spec

\* Every variable keeps to its values, the counters and delays to their
\* bounds, for any script, delays and remote.
THEOREM ClientTypes == Spec => []TypeOK
<1>1. ClientInv => TypeOK
  BY DEF ClientInv
<1>. QED
  BY <1>1, ClientInvariant, PTL

\* No command of the flow is written twice, late or early, over any number
\* of connections that fail.
THEOREM CommandsKeepTheirOrder == Spec => []CommandsOnceInOrder
<1>1. ClientInv => CommandsOnceInOrder
  BY DEF ClientInv, OrderInv
<1>. QED
  BY <1>1, ClientInvariant, PTL

\* OBS may run ahead of the remote as far as it likes.
THEOREM CommandsWaitForTheRemote == Spec => []CommandsAwaitAnswers
<1>1. ClientInv => CommandsAwaitAnswers
  BY DEF ClientInv
<1>. QED
  BY <1>1, ClientInvariant, PTL

\* While the remote stays up, what was returned stays valid.
LEMMA PromptInvariant == Spec => []PromptInv
<1>1. Init => PromptInv
  <2>. SUFFICES ASSUME Init PROVE PromptInv
    OBVIOUS
  <2>1. Len(wire) = 0
    BY EmptySeq DEF Init
  <2>2. PublishUsesReturnedStreamId
    BY <2>1 DEF PublishUsesReturnedStreamId
  <2>3. portValid => ~reconnectTimer /\ socket = "connecting"
    BY DEF Init
  <2>4. ~createdStream
    BY DEF Init
  <2>. QED
    BY <2>2, <2>3, <2>4 DEF PromptInv
<1>2. Init => ConnectionInv
  BY DEF Init, ConnectionInv, EndedStaysDown, OneAttemptAtATime
<1>. QED
  BY <1>1, <1>2, ClientInvariant, ConnectionStep, PromptStep, PTL DEF Spec


-----------------------------------------------------------------------------
(* The client in its connection.                                           *)

LEMMA ClientStepOfMulti == [MultiNext]_multiVars => [Next]_vars
BY DEF MultiNext, ClientStep, FromObs, ObsHandshake, ObsSends, ObsStreamData, Next, multiVars

\* The connection drives the client as RtmpClient expects to be driven, so
\* that every safety property of the client holds in it.
THEOREM MultiConnectionDrivesClient == MultiSpec => Spec
<1>1. MultiInit => Init
  BY DEF MultiInit
<1>. QED
  BY <1>1, ClientStepOfMulti, PTL DEF MultiSpec, Spec

-----------------------------------------------------------------------------
(* The session of OBS.                                                     *)

LEMMA ObsTidIncreases ==
  ASSUME NEW k \in Nat, NEW l \in Nat, k < l
  PROVE  /\ ObsTid(k) \in Int /\ ObsTid(l) \in Int
         /\ ObsTid(k) < ObsTid(l)
<1>1. TidStride \in Nat /\ TidStride >= 1
  BY TidStrideAssumption
<1>2. PICK d \in Nat : d = l - k /\ d >= 1
  OBVIOUS
<1>3. d * TidStride >= 1 /\ d * TidStride \in Int
  BY <1>1, <1>2
<1>4. (l - 1) * TidStride = (k - 1) * TidStride + d * TidStride
  BY <1>1, <1>2
<1>5. (k - 1) * TidStride \in Int
  BY <1>1
<1>. QED
  BY <1>3, <1>4, <1>5 DEF ObsTid

LEMMA ObsTidType ==
  ASSUME NEW k \in Nat \ {0}
  PROVE  ObsTid(k) \in Nat
<1>1. k - 1 \in Nat /\ TidStride \in Nat
  BY TidStrideAssumption
<1>2. (k - 1) * TidStride \in Nat
  BY <1>1
<1>. QED
  BY <1>2 DEF ObsTid

\* What the RtmpServer writes.
LEMMA AnswerTypesOf ==
  ASSUME NEW tid \in Nat, NEW sid \in Nat, NEW id \in Nat
  PROVE  /\ <<Control("S0S1S2")>> \in Seq(Answer)
         /\ <<Control("windowAck"), Control("peerBandwidth"), StreamBeginOf(id),
              Control("setChunkSize"), Result(tid, sid)>> \in Seq(Answer)
         /\ <<Result(tid, sid), StreamBeginOf(id)>> \in Seq(Answer)
         /\ <<Status(sid)>> \in Seq(Answer)
<1>1. /\ Control("S0S1S2") \in Answer /\ Control("windowAck") \in Answer
      /\ Control("peerBandwidth") \in Answer /\ Control("setChunkSize") \in Answer
  BY DEF Control, Answer
<1>2. StreamBeginOf(id) \in Answer /\ Result(tid, sid) \in Answer /\ Status(sid) \in Answer
  BY DEF StreamBeginOf, Result, Status, Answer
<1>. HIDE DEF Control, StreamBeginOf, Result, Status
<1>. QED
  BY <1>1, <1>2

Asking == {"connect", "createStream"}

\* What is written for the k-th command of OBS: one result, if it asks for
\* one, under its transaction id; and a status only for a stream OBS knows.
Answers(new, cmd, k) ==
  /\ new \in Seq(Answer)
  /\ \A n \in 1..Len(new) :
       /\ new[n].what = "_result" => cmd \in Asking /\ new[n].tid = ObsTid(k)
       /\ new[n].what = "onStatus" => new[n].sid \in ObsStreams
  /\ cmd \in Asking => \E n \in 1..Len(new) : new[n].what = "_result"
  /\ \A m, n \in 1..Len(new) : new[m].what = "_result" /\ new[n].what = "_result" => m = n

LEMMA ObsStreamsType == ServerTypeOK => ObsStreams \subseteq Nat
<1>. SUFFICES ASSUME ServerTypeOK, NEW i \in ResultsOf("createStream")
              PROVE  obsWire[i].sid \in Nat
  BY DEF ObsStreams
<1>1. obsWire \in Seq(Answer) /\ i \in 1..Len(obsWire)
  BY DEF ServerTypeOK, ResultsOf
<1>2. obsWire[i] \in Answer
  BY <1>1, ElementOfSeq
<1>. QED
  BY <1>2 DEF Answer

LEMMA CommandAnswers ==
  ASSUME ServerTypeOK, NEW k \in Nat \ {0}, NEW cmd, ObsReady(cmd),
         ServerCommand(cmd, IdForListeners(cmd, k), ObsStreamId(cmd))
  PROVE  /\ serverHandshake' = serverHandshake
         /\ streams' \in Nat /\ serverStreamId' \in Nat
         /\ \E new : Answers(new, cmd, k) /\ obsWire' = obsWire \o new
<1>1. ObsTid(k) \in Nat /\ streams \in Nat /\ streams + 1 \in Nat /\ serverStreamId \in Nat
  BY ObsTidType DEF ServerTypeOK
<1>2. CASE cmd = "connect"
  <2>. DEFINE new == <<Control("windowAck"), Control("peerBandwidth"),
                       StreamBeginOf(serverStreamId), Control("setChunkSize"),
                       Result(ObsTid(k), 0)>>
  <2>1. IdForListeners(cmd, k) = ObsTid(k)
    BY <1>2 DEF IdForListeners, AsyncCommands
  <2>2. OnConnect(ObsTid(k))
    BY <1>2, <2>1 DEF ServerCommand
  <2>3. new \in Seq(Answer)
    BY <1>1, AnswerTypesOf
  <2>4. /\ Len(new) = 5
        /\ new[1].what = "windowAck" /\ new[2].what = "peerBandwidth"
        /\ new[3].what = "streamBegin" /\ new[4].what = "setChunkSize"
        /\ new[5].what = "_result" /\ new[5].tid = ObsTid(k)
    BY DEF Control, StreamBeginOf, Result
  <2>5. obsWire' = obsWire \o new
    BY <2>2 DEF OnConnect, Respond
  <2>. HIDE DEF new
  <2>6. \A n \in 1..Len(new) : n = 1 \/ n = 2 \/ n = 3 \/ n = 4 \/ n = 5
    BY <2>4
  <2>7. Answers(new, cmd, k)
    BY <1>2, <2>3, <2>4, <2>6 DEF Answers, Asking
  <2>. QED
    BY <1>1, <2>2, <2>5, <2>7 DEF OnConnect
<1>3. CASE cmd = "createStream"
  <2>. DEFINE new == <<Result(ObsTid(k), streams + 1), StreamBeginOf(serverStreamId)>>
  <2>1. IdForListeners(cmd, k) = ObsTid(k)
    BY <1>3 DEF IdForListeners, AsyncCommands
  <2>2. OnCreateStream(ObsTid(k))
    BY <1>3, <2>1 DEF ServerCommand
  <2>3. new \in Seq(Answer)
    BY <1>1, AnswerTypesOf
  <2>4. /\ Len(new) = 2
        /\ new[1].what = "_result" /\ new[1].tid = ObsTid(k) /\ new[2].what = "streamBegin"
    BY DEF StreamBeginOf, Result
  <2>5. obsWire' = obsWire \o new
    BY <2>2 DEF OnCreateStream, Respond
  <2>. HIDE DEF new
  <2>6. \A n \in 1..Len(new) : n = 1 \/ n = 2
    BY <2>4
  <2>7. Answers(new, cmd, k)
    BY <1>3, <2>3, <2>4, <2>6 DEF Answers, Asking
  <2>. QED
    BY <1>1, <2>2, <2>5, <2>7 DEF OnCreateStream
<1>4. CASE cmd = "publish"
  <2>. DEFINE new == <<Status(ObsStreamId(cmd))>>
  <2>1. ObsStreams # {}
    BY <1>4 DEF ObsReady
  <2>2. ObsStreamId(cmd) \in ObsStreams
    BY <1>4, <2>1 DEF ObsStreamId
  <2>3. ObsStreamId(cmd) \in Nat
    BY <2>2, ObsStreamsType
  <2>4. OnPublish(ObsStreamId(cmd))
    BY <1>4 DEF ServerCommand
  <2>5. new \in Seq(Answer)
    BY <1>1, <2>3, AnswerTypesOf
  <2>6. Len(new) = 1 /\ new[1].what = "onStatus" /\ new[1].sid = ObsStreamId(cmd)
    BY DEF Status
  <2>7. obsWire' = obsWire \o new
    BY <2>4 DEF OnPublish, Respond
  <2>. HIDE DEF new
  <2>8. \A n \in 1..Len(new) : n = 1
    BY <2>6
  <2>9. Answers(new, cmd, k)
    BY <1>4, <2>2, <2>5, <2>6, <2>8 DEF Answers, Asking
  <2>. QED
    BY <1>1, <2>3, <2>4, <2>7, <2>9 DEF OnPublish
<1>5. CASE cmd \notin {"connect", "createStream", "publish"}
  <2>1. UNCHANGED serverVars
    BY <1>5 DEF ServerCommand
  <2>2. <<>> \in Seq(Answer) /\ Len(<<>>) = 0
    BY EmptySeq
  <2>3. Answers(<<>>, cmd, k)
    BY <1>5, <2>2 DEF Answers, Asking
  <2>4. obsWire' = obsWire \o <<>>
    BY <2>1, ConcatEmptySeq DEF serverVars, ServerTypeOK
  <2>. QED
    BY <1>1, <2>1, <2>3, <2>4 DEF serverVars
<1>. QED
  BY <1>2, <1>3, <1>4, <1>5

\* The inductive invariant of the answers.
StatusInv ==
  \A i \in 1..Len(obsWire) : obsWire[i].what = "onStatus" => obsWire[i].sid \in ObsStreams
ObsInv == ServerTypeOK /\ ObsAnsweredInOrder /\ StatusInv

\* What was written stays, and so does what OBS knows from it.
LEMMA ObsWireGrows ==
  ASSUME ServerTypeOK, NEW new \in Seq(Answer), obsWire' = obsWire \o new,
         commandsSent \in Nat, commandsSent' \in Nat, commandsSent <= commandsSent'
  PROVE  /\ obsWire' \in Seq(Answer)
         /\ Len(obsWire) \in Nat /\ Len(new) \in Nat /\ Len(obsWire') = Len(obsWire) + Len(new)
         /\ \A i \in 1..Len(obsWire) : i \in 1..Len(obsWire') /\ obsWire'[i] = obsWire[i]
         /\ \A i \in 1..Len(obsWire') :
              i \notin 1..Len(obsWire) =>
                i - Len(obsWire) \in 1..Len(new) /\ obsWire'[i] = new[i - Len(obsWire)]
         /\ ObsStreams \subseteq ObsStreams'
<1>1. /\ obsWire \in Seq(Answer)
      /\ Len(obsWire) \in Nat /\ Len(new) \in Nat
  BY LenProperties DEF ServerTypeOK
<1>2. /\ obsWire' \in Seq(Answer)
      /\ Len(obsWire') = Len(obsWire) + Len(new)
      /\ \A i \in 1..Len(obsWire) + Len(new) :
           obsWire'[i] = IF i <= Len(obsWire) THEN obsWire[i] ELSE new[i - Len(obsWire)]
  BY <1>1, ConcatProperties
<1>3. \A i \in 1..Len(obsWire) : i \in 1..Len(obsWire') /\ obsWire'[i] = obsWire[i]
  BY <1>1, <1>2
<1>4. \A i \in 1..Len(obsWire') :
        i \notin 1..Len(obsWire) =>
          i - Len(obsWire) \in 1..Len(new) /\ obsWire'[i] = new[i - Len(obsWire)]
  BY <1>1, <1>2
<1>5. \A k \in 1..commandsSent : k \in 1..commandsSent'
  OBVIOUS
<1>6. \A i \in ResultsOf("createStream") : i \in ResultsOf("createStream")'
  BY <1>3, <1>5 DEF ResultsOf, ObsTid
<1>7. \A i \in ResultsOf("createStream") : obsWire'[i].sid = obsWire[i].sid
  BY <1>3 DEF ResultsOf
<1>8. ObsStreams \subseteq ObsStreams'
  BY <1>6, <1>7 DEF ObsStreams
<1>. QED
  BY <1>1, <1>2, <1>3, <1>4, <1>8

\* One result at most, for a command that is new.
LEMMA ObsWireKeepsOrder ==
  ASSUME ObsInv, NEW new \in Seq(Answer), obsWire' = obsWire \o new,
         commandsSent \in Nat, commandsSent' \in Nat, commandsSent <= commandsSent',
         \A n \in 1..Len(new) :
           new[n].what = "_result" =>
             \E k \in (commandsSent + 1)..commandsSent' :
               Script[k] \in Asking /\ new[n].tid = ObsTid(k),
         \A k \in (commandsSent + 1)..commandsSent' :
           Script[k] \in Asking =>
             \E n \in 1..Len(new) : new[n].what = "_result" /\ new[n].tid = ObsTid(k),
         \A m, n \in 1..Len(new) : new[m].what = "_result" /\ new[n].what = "_result" => m = n,
         \A n \in 1..Len(new) : new[n].what = "onStatus" => new[n].sid \in ObsStreams
  PROVE  ObsAnsweredInOrder' /\ StatusInv'
<1>. DEFINE Results == {i \in 1..Len(obsWire) : obsWire[i].what = "_result"}
            Asked == {k \in 1..commandsSent : Script[k] \in Asking}
            Results2 == {i \in 1..Len(obsWire') : obsWire'[i].what = "_result"}
            Asked2 == {k \in 1..commandsSent' : Script[k] \in Asking}
<1>1. ServerTypeOK /\ ObsAnsweredInOrder /\ StatusInv
  BY DEF ObsInv
<1>2. /\ Len(obsWire) \in Nat /\ Len(new) \in Nat /\ Len(obsWire') = Len(obsWire) + Len(new)
      /\ \A i \in 1..Len(obsWire) : i \in 1..Len(obsWire') /\ obsWire'[i] = obsWire[i]
      /\ \A i \in 1..Len(obsWire') :
           i \notin 1..Len(obsWire) =>
             i - Len(obsWire) \in 1..Len(new) /\ obsWire'[i] = new[i - Len(obsWire)]
      /\ ObsStreams \subseteq ObsStreams'
  BY <1>1, ObsWireGrows
<1>3. /\ {obsWire[i].tid : i \in Results} = {ObsTid(k) : k \in Asked}
      /\ \A i, j \in Results : i < j => obsWire[i].tid < obsWire[j].tid
  BY <1>1 DEF ObsAnsweredInOrder, Asking
<1>4. StatusInv'
  <2>. SUFFICES ASSUME NEW i \in 1..Len(obsWire'), obsWire'[i].what = "onStatus"
                PROVE  obsWire'[i].sid \in ObsStreams'
    BY DEF StatusInv
  <2>1. CASE i \in 1..Len(obsWire)
    BY <1>1, <1>2, <2>1 DEF StatusInv
  <2>2. CASE i \notin 1..Len(obsWire)
    BY <1>2, <2>2
  <2>. QED
    BY <2>1, <2>2
<1>5. ASSUME NEW i \in Results2
      PROVE  \/ i \in Results /\ obsWire'[i] = obsWire[i]
             \/ /\ i > Len(obsWire)
                /\ \E k \in (commandsSent + 1)..commandsSent' :
                     Script[k] \in Asking /\ obsWire'[i].tid = ObsTid(k)
  <2>1. CASE i \in 1..Len(obsWire)
    BY <1>2, <2>1
  <2>2. CASE i \notin 1..Len(obsWire)
    <3>1. i - Len(obsWire) \in 1..Len(new) /\ obsWire'[i] = new[i - Len(obsWire)]
      BY <1>2, <2>2
    <3>2. i > Len(obsWire)
      BY <1>2, <3>1
    <3>. QED
      BY <3>1, <3>2
  <2>. QED
    BY <2>1, <2>2
<1>6. ASSUME NEW k \in Asked2
      PROVE  k \in Asked \/ (k \in (commandsSent + 1)..commandsSent' /\ Script[k] \in Asking)
  OBVIOUS
<1>7. {obsWire'[i].tid : i \in Results2} = {ObsTid(k) : k \in Asked2}
  <2>1. ASSUME NEW i \in Results2
        PROVE  \E k \in Asked2 : obsWire'[i].tid = ObsTid(k)
    <3>1. CASE i \in Results /\ obsWire'[i] = obsWire[i]
      <4>1. PICK k \in Asked : obsWire[i].tid = ObsTid(k)
        BY <1>3, <3>1
      <4>2. k \in Asked2
        OBVIOUS
      <4>. QED
        BY <3>1, <4>1, <4>2
    <3>2. CASE \E k \in (commandsSent + 1)..commandsSent' :
                 Script[k] \in Asking /\ obsWire'[i].tid = ObsTid(k)
      BY <3>2
    <3>. QED
      BY <1>5, <3>1, <3>2
  <2>2. ASSUME NEW k \in Asked2
        PROVE  \E i \in Results2 : obsWire'[i].tid = ObsTid(k)
    <3>1. CASE k \in Asked
      <4>1. ObsTid(k) \in {ObsTid(q) : q \in Asked}
        BY <3>1
      <4>2. ObsTid(k) \in {obsWire[i].tid : i \in Results}
        BY <1>3, <4>1, Zenon
      <4>3. PICK i \in Results : obsWire[i].tid = ObsTid(k)
        BY <4>2
      <4>. QED
        BY <1>2, <4>3
    <3>2. CASE k \in (commandsSent + 1)..commandsSent' /\ Script[k] \in Asking
      <4>1. PICK n \in 1..Len(new) : new[n].what = "_result" /\ new[n].tid = ObsTid(k)
        BY <3>2
      <4>2. PICK i \in 1..Len(obsWire') : i = Len(obsWire) + n
        BY <1>2
      <4>3. i \notin 1..Len(obsWire) /\ i - Len(obsWire) = n
        BY <1>2, <4>2
      <4>. QED
        BY <1>2, <4>1, <4>3
    <3>. QED
      BY <1>6, <3>1, <3>2
  <2>. DEFINE Tid(i) == obsWire'[i].tid
  <2>3. /\ \A i \in Results2 : \E k \in Asked2 : Tid(i) = ObsTid(k)
        /\ \A k \in Asked2 : \E i \in Results2 : Tid(i) = ObsTid(k)
    BY <2>1, <2>2
  <2>. HIDE DEF Tid, Results2, Asked2
  <2>4. {Tid(i) : i \in Results2} = {ObsTid(k) : k \in Asked2}
    BY <2>3
  <2>. QED
    BY <2>4 DEF Tid
<1>8. ASSUME NEW i \in Results2, NEW j \in Results2, i < j
      PROVE  obsWire'[i].tid < obsWire'[j].tid
  <2>1. CASE j \in Results /\ obsWire'[j] = obsWire[j]
    <3>1. i \in 1..Len(obsWire)
      BY <1>2, <1>8, <2>1
    <3>. QED
      BY <1>2, <1>3, <1>8, <2>1, <3>1
  <2>2. CASE /\ j > Len(obsWire)
             /\ \E k \in (commandsSent + 1)..commandsSent' :
                  Script[k] \in Asking /\ obsWire'[j].tid = ObsTid(k)
    <3>1. PICK k \in (commandsSent + 1)..commandsSent' : obsWire'[j].tid = ObsTid(k)
      BY <2>2
    <3>2. CASE i \in Results /\ obsWire'[i] = obsWire[i]
      <4>1. PICK q \in Asked : obsWire[i].tid = ObsTid(q)
        BY <1>3, <3>2
      <4>2. q \in Nat /\ k \in Nat /\ q < k
        OBVIOUS
      <4>3. ObsTid(q) < ObsTid(k)
        BY <4>2, ObsTidIncreases
      <4>. QED
        BY <3>1, <3>2, <4>1, <4>3
    <3>3. CASE i > Len(obsWire)
      <4>1. /\ i - Len(obsWire) \in 1..Len(new) /\ obsWire'[i] = new[i - Len(obsWire)]
            /\ j - Len(obsWire) \in 1..Len(new) /\ obsWire'[j] = new[j - Len(obsWire)]
        BY <1>2, <2>2, <3>3
      <4>2. i - Len(obsWire) = j - Len(obsWire)
        BY <4>1
      <4>. QED
        BY <1>2, <1>8, <4>2
    <3>. QED
      BY <1>5, <3>2, <3>3
  <2>. QED
    BY <1>5, <2>1, <2>2
<1>9. ObsAnsweredInOrder'
  <2>1. Results2 = {i \in 1..Len(obsWire') : obsWire'[i].what = "_result"}
    OBVIOUS
  <2>2. Asked2 = {k \in 1..commandsSent' : Script[k] \in {"connect", "createStream"}}
    BY DEF Asking
  <2>3. \A k : ObsTid(k)' = ObsTid(k)
    BY DEF ObsTid
  <2>. HIDE DEF Results2, Asked2
  <2>. QED
    BY <1>7, <1>8, <2>1, <2>2, <2>3 DEF ObsAnsweredInOrder
<1>. QED
  BY <1>4, <1>9

LEMMA ObsSendsStep ==
  ASSUME TypeOK, ObsInv, ObsSends
  PROVE  ObsInv'
<1>. DEFINE k == commandsSent + 1
<1>1. /\ ServerTypeOK
      /\ commandsSent \in Nat /\ k \in Nat \ {0}
      /\ commandsSent' = k
  BY DEF ObsInv, TypeOK, ObsSends, ObsCommand
<1>2. /\ ObsReady(Script[k])
      /\ ServerCommand(Script[k], IdForListeners(Script[k], k), ObsStreamId(Script[k]))
  BY DEF ObsSends
<1>3. /\ serverHandshake' = serverHandshake
      /\ streams' \in Nat /\ serverStreamId' \in Nat
      /\ \E new : Answers(new, Script[k], k) /\ obsWire' = obsWire \o new
  BY <1>1, <1>2, CommandAnswers
<1>4. PICK new : Answers(new, Script[k], k) /\ obsWire' = obsWire \o new
  BY <1>3
<1>5. \A q \in (commandsSent + 1)..commandsSent' : q = k
  BY <1>1
<1>6. k \in (commandsSent + 1)..commandsSent'
  BY <1>1
<1>7. commandsSent' \in Nat /\ commandsSent <= commandsSent'
  BY <1>1
<1>. HIDE DEF k
<1>8. new \in Seq(Answer)
  BY <1>4 DEF Answers
<1>9. ObsAnsweredInOrder' /\ StatusInv'
  BY <1>1, <1>4, <1>5, <1>6, <1>7, <1>8, ObsWireKeepsOrder DEF Answers
<1>10. obsWire' \in Seq(Answer)
  BY <1>1, <1>4, <1>7, <1>8, ObsWireGrows
<1>. QED
  BY <1>1, <1>3, <1>9, <1>10 DEF ObsInv, ServerTypeOK

\* A step that asks for nothing.
LEMMA QuietStep ==
  ASSUME ObsInv, commandsSent \in Nat, commandsSent' = commandsSent,
         NEW new \in Seq(Answer), obsWire' = obsWire \o new,
         \A n \in 1..Len(new) : new[n].what \notin {"_result", "onStatus"}
  PROVE  obsWire' \in Seq(Answer) /\ ObsAnsweredInOrder' /\ StatusInv'
<1>1. \A q \in (commandsSent + 1)..commandsSent' : FALSE
  OBVIOUS
<1>2. commandsSent' \in Nat /\ commandsSent <= commandsSent'
  OBVIOUS
<1>3. ObsAnsweredInOrder' /\ StatusInv'
  BY <1>1, <1>2, ObsWireKeepsOrder
<1>. QED
  BY <1>2, <1>3, ObsWireGrows DEF ObsInv

LEMMA ObsStep ==
  ASSUME TypeOK, ObsInv, [MultiNext]_multiVars
  PROVE  ObsInv'
<1>1. commandsSent \in Nat
  BY DEF TypeOK
<1>2. /\ <<>> \in Seq(Answer) /\ Len(<<>>) = 0
      /\ obsWire \o <<>> = obsWire
  BY EmptySeq, ConcatEmptySeq DEF ObsInv, ServerTypeOK
<1>3. \A n \in 1..Len(<<>>) : <<>>[n].what \notin {"_result", "onStatus"}
  BY <1>2
<1>4. CASE ObsSends
  BY <1>4, ObsSendsStep
<1>5. CASE ObsHandshake
  <2>1. commandsSent' = commandsSent /\ streams' = streams /\ serverStreamId' = serverStreamId
        /\ serverHandshake' \in {"uninit", "cont", "comp"}
    BY <1>5 DEF ObsHandshake, ObsMedia, ServerHandshakes
  <2>2. CASE obsWire' = obsWire \o <<Control("S0S1S2")>>
    <3>1. <<Control("S0S1S2")>> \in Seq(Answer)
      BY AnswerTypesOf, <1>1
    <3>2. \A n \in 1..Len(<<Control("S0S1S2")>>) :
            <<Control("S0S1S2")>>[n].what \notin {"_result", "onStatus"}
      BY DEF Control
    <3>3. obsWire' \in Seq(Answer) /\ ObsAnsweredInOrder' /\ StatusInv'
      BY <1>1, <2>1, <2>2, <3>1, <3>2, QuietStep
    <3>. QED
      BY <2>1, <3>3 DEF ObsInv, ServerTypeOK
  <2>3. CASE obsWire' = obsWire
    <3>1. obsWire' \in Seq(Answer) /\ ObsAnsweredInOrder' /\ StatusInv'
      BY <1>1, <1>2, <1>3, <2>1, <2>3, QuietStep
    <3>. QED
      BY <2>1, <3>1 DEF ObsInv, ServerTypeOK
  <2>. QED
    BY <1>5, <2>2, <2>3 DEF ObsHandshake, ServerHandshakes, Respond
<1>6. CASE ObsStreamData \/ ClientStep \/ UNCHANGED multiVars
  <2>1. UNCHANGED <<serverHandshake, streams, serverStreamId, obsWire>> /\ commandsSent' = commandsSent
    BY <1>6 DEF ObsStreamData, ObsMedia, ClientStep, TcpConnected, RemoteFails, SocketClosed,
                Reconnect, Close, CompletedHandshake, ConnectResult, CreateStreamResult,
                ErrorResult, UnexpectedResult, StreamBegin, OnStatus, TransactionTimeout,
                multiVars, serverVars, vars, obsVars
  <2>2. obsWire' \in Seq(Answer) /\ ObsAnsweredInOrder' /\ StatusInv'
    BY <1>1, <1>2, <1>3, <2>1, QuietStep
  <2>. QED
    BY <2>1, <2>2 DEF ObsInv, ServerTypeOK
<1>. QED
  BY <1>4, <1>5, <1>6 DEF MultiNext, FromObs

LEMMA ObsInvariant == MultiSpec => [](TypeOK /\ ObsInv)
<1>1. MultiInit => ObsInv
  <2>. SUFFICES ASSUME MultiInit PROVE ObsInv
    OBVIOUS
  <2>1. obsWire \in Seq(Answer) /\ Len(obsWire) = 0 /\ commandsSent = 0
    BY EmptySeq DEF MultiInit, ServerInit, Init
  <2>2. ServerTypeOK
    BY <2>1 DEF MultiInit, ServerInit, ServerTypeOK
  <2>3. ObsAnsweredInOrder /\ StatusInv
    BY <2>1 DEF ObsAnsweredInOrder, StatusInv
  <2>. QED
    BY <2>2, <2>3 DEF ObsInv
<1>2. TypeOK /\ ObsInv /\ [MultiNext]_multiVars => ObsInv'
  BY ObsStep
<1>. QED
  BY <1>1, <1>2, MultiConnectionDrivesClient, ClientTypes, PTL DEF MultiSpec

\* Both sessions keep their variables to their values.
THEOREM MultiTypes == MultiSpec => []MultiTypeOK
<1>1. TypeOK /\ ObsInv => MultiTypeOK
  BY DEF ObsInv, MultiTypeOK
<1>. QED
  BY <1>1, ObsInvariant, PTL

\* relayCommand renumbers the commands, some of them in the object that the
\* listeners get: OBS is nevertheless answered under its own numbers, once
\* for each request and in order.
THEOREM ObsGetsItsAnswers == MultiSpec => []ObsAnsweredInOrder
<1>1. ObsInv => ObsAnsweredInOrder
  BY DEF ObsInv
<1>. QED
  BY <1>1, ObsInvariant, PTL

\* Each side is told to publish under an id of its own session, however far
\* the two are apart.
THEOREM SessionsKeepTheirIds == MultiSpec => []StreamIdsKeptApart
<1>1. ObsInv /\ PromptInv => StreamIdsKeptApart
  BY DEF ObsInv, StatusInv, PromptInv, StreamIdsKeptApart
<1>. QED
  BY <1>1, ObsInvariant, MultiConnectionDrivesClient, PromptInvariant, PTL
=============================================================================
