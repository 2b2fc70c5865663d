-------------------------- MODULE ConnectionsProofs --------------------------
(***************************************************************************)
(* Every remote of an RtmpConnection gets the stream of its client in      *)
(* order, whichever timer meets the requests that all clients share;       *)
(* nothing follows what was lost; and the shared flag is only up while     *)
(* there is a remote.  For any clients, packets, delays and bounds.        *)
(***************************************************************************)
EXTENDS Connections, StreamChunksProofs

-----------------------------------------------------------------------------
(* The flag.                                                               *)

\* clientConnected is only up while a remote is open, or ends what it has.
THEOREM FlagNeedsItsRemote == Spec => []FlagNeedsRemote
<1>. DEFINE Inv == remote \in [Clients -> {"connecting", "open", "ending", "closed"}]
                   /\ FlagNeedsRemote
<1>1. Init => Inv
  BY DEF Init, FlagNeedsRemote
<1>2. Inv /\ [Next]_vars => Inv'
  <2>. SUFFICES ASSUME Inv, [Next]_vars PROVE Inv'
    OBVIOUS
  <2>1. ASSUME NEW c \in Clients, OnData(c) \/ CheckChunks(c) PROVE Inv'
    <3>1. UNCHANGED <<remote, clientConnected>>
      BY <2>1 DEF OnData, CheckChunks, socketVars
    <3>. QED
      BY <3>1 DEF FlagNeedsRemote
  <2>2. ASSUME NEW c \in Clients, RemoteConnected(c) PROVE Inv'
    BY <2>2 DEF RemoteConnected, FlagNeedsRemote
  <2>3. ASSUME NEW c \in Clients, RemoteEnds(c) PROVE Inv'
    BY <2>3 DEF RemoteEnds, FlagNeedsRemote, configVars
  <2>4. ASSUME NEW c \in Clients, RemoteClosed(c) PROVE Inv'
    BY <2>4 DEF RemoteClosed, Close, FlagNeedsRemote
  <2>5. ASSUME NEW c \in Clients, ClientClosed(c) PROVE Inv'
    BY <2>5 DEF ClientClosed, Close, FlagNeedsRemote
  <2>6. CASE \/ \E mode \in {"REWIND", "FORWARD"} : Request(mode)
             \/ SetDelay \/ AdvanceClock \/ UNCHANGED vars
    <3>1. UNCHANGED <<remote, clientConnected>>
      BY <2>6 DEF Request, SetDelay, AdvanceClock, vars, socketVars
    <3>. QED
      BY <3>1 DEF FlagNeedsRemote
  <2>. QED
    BY <2>1, <2>2, <2>3, <2>4, <2>5, <2>6 DEF Next
<1>3. Inv => FlagNeedsRemote
  OBVIOUS
<1>. QED
  BY <1>1, <1>2, <1>3, PTL DEF Spec

-----------------------------------------------------------------------------
(* What one client has in its buffer, and what its remote got.             *)

Chunks == [id : Nat, time : Nat, keyFrame : BOOLEAN, bytesIn : {"data"}]
OldChunks == [id : Nat, time : Nat, keyFrame : BOOLEAN, bytesIn : {"chunk"}]
Flags == STRING \cup {"undefined"}
BuffersOf(C) == [id : Nat, queue : Seq(C), window : Seq(C), active : BOOLEAN,
                 lastFlags : Flags]
Buffers == BuffersOf(Chunks)
Modes == {"REALTIME", "REWIND", "DELAY", "FORWARD"}

\* The queues of the new buffer end with the last chunk that arrived.
Ends(s, t) == /\ Len(t) = s.id /\ Numbered(t)
              /\ IsSuffixOf(s.queue, t) /\ IsSuffixOf(s.window, t)

\* With the new buffer, what was sent goes on where the queue begins, until
\* something is lost; a request is still pending only when nothing was sent
\* since.
NewOK(s, sent, missing, mode) ==
  /\ s \in Buffers /\ sent \in Seq(Nat)
  /\ ~s.active => s.window = <<>>
  /\ \E t \in Seq(Chunks) : Ends(s, t)
  /\ \A i \in 1..(Len(sent) - 1) : sent[i + 1] = sent[i] + 1
  /\ ~missing /\ Len(sent) > 0 => sent[Len(sent)] = s.id - Len(s.queue) - 1
  /\ mode \in {"REWIND", "FORWARD"} => sent = <<>>

\* With the old one, nothing is ever sent: the process ends with the first
\* chunk that is to be written.
OldOK(s, sent) ==
  /\ s \in BuffersOf(OldChunks) /\ sent = <<>>
  /\ s.id = 0 => s.queue = <<>> /\ s.window = <<>>

StreamOK(s, sent, missing, mode) ==
  IF kind = "rtmp" THEN NewOK(s, sent, missing, mode) ELSE OldOK(s, sent)

\* The inductive invariant.
TypeInv ==
  /\ kind \in {"rtmp", "simple"}
  /\ state \in Modes
  /\ now \in Nat
  /\ stream = [c \in Clients |-> stream[c]] /\ played = [c \in Clients |-> played[c]]
  /\ lost \in [Clients -> BOOLEAN]
  /\ remote \in [Clients -> {"connecting", "open", "ending", "closed"}]
LossInv == \A c \in Clients : lost[c] => ~Writable(c)
StreamInv == \A c \in Clients : StreamOK(stream[c], played[c], lost[c], state)
ConnectionsInv == TypeInv /\ LossInv /\ StreamInv

-----------------------------------------------------------------------------
\* A new buffer, and a new request.
LEMMA NoStream ==
  ASSUME NEW missing, NEW mode
  PROVE  NewOK(NewBuffer, <<>>, missing, mode) /\ OldOK(NewBuffer, <<>>)
<1>1. <<>> \in Seq(Chunks) /\ <<>> \in Seq(OldChunks) /\ <<>> \in Seq(Nat) /\ Len(<<>>) = 0
  BY EmptySeq
<1>2. /\ NewBuffer \in Buffers /\ NewBuffer \in BuffersOf(OldChunks)
      /\ NewBuffer.id = 0 /\ NewBuffer.queue = <<>> /\ NewBuffer.window = <<>>
  <2>1. "undefined" \in Flags
    BY DEF Flags
  <2>. QED
    BY <1>1, <2>1 DEF NewBuffer, Buffers, BuffersOf
<1>3. Ends(NewBuffer, <<>>)
  BY <1>1, <1>2 DEF Ends, Numbered, IsSuffixOf
<1>. HIDE DEF NewBuffer
<1>4. NewOK(NewBuffer, <<>>, missing, mode)
  <2>1. \E t \in Seq(Chunks) : Ends(NewBuffer, t)
    BY <1>1, <1>3, Zenon
  <2>2. \A i \in 1..(Len(<<>>) - 1) : <<>>[i + 1] = <<>>[i] + 1
    BY <1>1
  <2>. QED
    BY <1>1, <1>2, <2>1, <2>2 DEF NewOK
<1>5. OldOK(NewBuffer, <<>>)
  BY <1>2 DEF OldOK
<1>. QED
  BY <1>4, <1>5

LEMMA NothingSent ==
  ASSUME NEW s, NEW sent, NEW missing, NEW mode, NEW mode2
  PROVE  NewOK(s, sent, missing, mode) => NewOK(s, <<>>, missing, mode2)
<1>1. <<>> \in Seq(Nat) /\ Len(<<>>) = 0
  BY EmptySeq
<1>. QED
  BY <1>1 DEF NewOK

\* The timer of another connection may end a request, but begin none.
LEMMA ModeServed ==
  ASSUME NEW s, NEW sent, NEW missing, NEW mode, NEW mode2,
         mode2 = mode \/ mode2 \in {"DELAY", "REALTIME"}
  PROVE  NewOK(s, sent, missing, mode) => NewOK(s, sent, missing, mode2)
BY DEF NewOK

-----------------------------------------------------------------------------
\* A chunk arrives.
LEMMA PushNewOK ==
  ASSUME NEW s, NEW sent, NEW missing, NEW p, p.flags \in Flags, now \in Nat,
         NewOK(s, sent, missing, state)
  PROVE  NewOK(PushedNew(s, p), sent, missing, state)
<1>. DEFINE chunk == [id |-> s.id, time |-> now,
                      keyFrame |-> StartsKeyFrame(s.id, p.codec, p.flags, s.lastFlags),
                      bytesIn |-> "data"]
            active == s.active \/ chunk.keyFrame
            window == IF active THEN Append(s.window, chunk) ELSE s.window
            u == PushedNew(s, p)
<1>1. /\ s \in Buffers /\ s.id \in Nat /\ s.queue \in Seq(Chunks)
      /\ s.window \in Seq(Chunks) /\ s.active \in BOOLEAN
      /\ sent \in Seq(Nat)
  BY DEF NewOK, Buffers, BuffersOf
<1>2. /\ chunk \in Chunks /\ chunk.id = s.id /\ active \in BOOLEAN
      /\ ~active => ~s.active
  BY <1>1 DEF Chunks, StartsKeyFrame
<1>3. /\ u.id = s.id + 1 /\ u.queue = Append(s.queue, chunk) /\ u.active = active
      /\ u.window = (IF state = "REWIND" THEN window ELSE Trimmed(window, now, delay))
  BY DEF PushedNew
<1>3a. ASSUME u.id \in Nat, u.queue \in Seq(Chunks), u.active \in BOOLEAN,
              u.window \in Seq(Chunks)
       PROVE  u \in Buffers
  BY <1>3a DEF PushedNew, Buffers, BuffersOf
<1>. HIDE DEF chunk, u, active
<1>4. PICK t \in Seq(Chunks) : Ends(s, t)
  BY DEF NewOK
<1>5. PICK t2 \in Seq(Chunks) : t2 = Append(t, chunk)
  <2>1. Append(t, chunk) \in Seq(Chunks)
    BY <1>2, <1>4, AppendProperties
  <2>. QED
    BY <2>1
<1>6. /\ Len(t) \in Nat /\ Len(t2) = Len(t) + 1
      /\ \A i \in 1..Len(t) : t2[i] = t[i]
      /\ t2[Len(t) + 1] = chunk
  BY <1>2, <1>5, AppendProperties, LenProperties
<1>7. Len(t2) = u.id /\ Numbered(t2)
  <2>1. Len(t) = s.id /\ Numbered(t)
    BY <1>4 DEF Ends
  <2>2. \A i \in 1..Len(t2) : i \in 1..Len(t) \/ i = Len(t) + 1
    BY <1>6
  <2>. QED
    <3>1. Len(t2) = u.id
      BY <1>3, <1>6, <2>1
    <3>2. \A i \in 1..Len(t) : t2[i].id = i - 1
      BY <1>6, <2>1 DEF Numbered
    <3>3. t2[Len(t) + 1].id = (Len(t) + 1) - 1
      BY <1>2, <1>6, <2>1
    <3>. QED
      BY <2>2, <3>1, <3>2, <3>3 DEF Numbered
<1>8. u.queue \in Seq(Chunks) /\ IsSuffixOf(u.queue, t2)
  BY <1>1, <1>2, <1>3, <1>4, <1>5, AppendSuffix DEF Ends
<1>9. /\ window \in Seq(Chunks) /\ IsSuffixOf(window, t2)
      /\ ~active => window = <<>>
  <2>1. CASE active
    BY <1>1, <1>2, <1>4, <1>5, <2>1, AppendSuffix DEF Ends
  <2>2. CASE ~active
    <3>1. window = <<>> /\ s.window = <<>>
      BY <1>2, <2>2 DEF NewOK
    <3>. QED
      BY <1>1, <1>6, <2>2, <3>1 DEF IsSuffixOf
  <2>. QED
    BY <2>1, <2>2
<1>. HIDE DEF window
<1>10. /\ u.window \in Seq(Chunks) /\ IsSuffixOf(u.window, t2)
       /\ ~active => u.window = <<>>
  <2>1. CASE state = "REWIND"
    BY <1>3, <1>9, <2>1
  <2>2. CASE state # "REWIND"
    <3>1. u.window = FromFirst(window, {i \in 1..Len(window) :
                         IsTrimPoint(window, i) /\ now - window[i].time <= delay})
      BY <1>3, <2>2 DEF Trimmed
    <3>2. {i \in 1..Len(window) : IsTrimPoint(window, i) /\ now - window[i].time <= delay}
             \in SUBSET (1..Len(window))
      OBVIOUS
    <3>3. /\ u.window \in Seq(Chunks) /\ IsSuffixOf(u.window, window)
          /\ IsSuffixOf(u.window, t2)
      BY <1>9, <3>1, <3>2, SuffixOfSuffix
    <3>4. window = <<>> => u.window = <<>>
      BY <3>3, EmptySeq DEF IsSuffixOf
    <3>. QED
      BY <1>9, <3>3, <3>4
  <2>. QED
    BY <2>1, <2>2
<1>11. u \in Buffers
  <2>1. u.id \in Nat /\ u.active \in BOOLEAN
    BY <1>1, <1>2, <1>3
  <2>. QED
    BY <1>3a, <1>8, <1>10, <2>1
<1>12. Ends(u, t2)
  BY <1>7, <1>8, <1>10 DEF Ends
<1>13. u.id - Len(u.queue) = s.id - Len(s.queue)
  <2>1. Len(u.queue) = Len(s.queue) + 1 /\ Len(s.queue) \in Nat
    BY <1>1, <1>2, <1>3, AppendProperties, LenProperties
  <2>. QED
    <3>1. u.id = s.id + 1 /\ s.id \in Nat
      BY <1>1, <1>3
    <3>. QED
      BY <2>1, <3>1
<1>14. \E r \in Seq(Chunks) : Ends(u, r)
  BY <1>12
<1>15. NewOK(u, sent, missing, state)
  BY <1>3, <1>10, <1>11, <1>13, <1>14 DEF NewOK
<1>. QED
  BY <1>15 DEF u

LEMMA PushOldOK ==
  ASSUME NEW s, NEW sent, now \in Nat, OldOK(s, sent)
  PROVE  OldOK(PushedOld(s), sent)
<1>. DEFINE chunk == [id |-> s.id, time |-> now, keyFrame |-> FALSE, bytesIn |-> "chunk"]
            u == PushedOld(s)
<1>1. /\ s \in BuffersOf(OldChunks) /\ s.id \in Nat
      /\ s.queue \in Seq(OldChunks) /\ s.window \in Seq(OldChunks)
  BY DEF OldOK, BuffersOf
<1>2. PICK n \in Nat : n = s.id + 1
  BY <1>1
<1>3. PICK q \in Seq(OldChunks) : q = Append(s.queue, chunk)
  <2>1. chunk \in OldChunks
    BY <1>1 DEF OldChunks
  <2>2. Append(s.queue, chunk) \in Seq(OldChunks)
    BY <1>1, <2>1, AppendProperties
  <2>. QED
    BY <2>2
<1>4. u = [s EXCEPT !.id = n, !.queue = q]
  BY <1>2, <1>3 DEF PushedOld
<1>. HIDE DEF u
<1>5. u \in BuffersOf(OldChunks) /\ u.id = n
  BY <1>1, <1>4 DEF BuffersOf
<1>6. n # 0
  BY <1>1, <1>2
<1>7. OldOK(u, sent)
  BY <1>5, <1>6 DEF OldOK
<1>. QED
  BY <1>7 DEF u

-----------------------------------------------------------------------------
\* A tick of the timer: a queue is split into the chunks that are taken from
\* its head and those that are left.
SplitAt(C, q, r, k) ==
  /\ k \in 0..Len(q) /\ r \in Seq(C) /\ Len(r) = Len(q) - k
  /\ \A i \in 1..Len(r) : r[i] = q[k + i]
  /\ Taken(q, r) \in Seq(C) /\ Len(Taken(q, r)) = k
  /\ \A i \in 1..k : Taken(q, r)[i] = q[i]

Splits(C, q, r) == \E k \in Nat : SplitAt(C, q, r, k)

LEMMA NotReadySplits ==
  ASSUME NEW C, NEW q \in Seq(C), NEW mode
  PROVE  LET r == NotReady(q, mode, now, delay)
         IN  Splits(C, q, r) /\ IsSuffixOf(r, q) /\ r \in Seq(C)
<1>. DEFINE I == {i \in 1..Len(q) : mode # "REALTIME" /\ now - q[i].time <= delay}
            r == FromFirst(q, I)
<1>1. I \in SUBSET (1..Len(q)) /\ r = NotReady(q, mode, now, delay) /\ Len(q) \in Nat
  BY LenProperties DEF NotReady
<1>. HIDE DEF I
<1>2. IsSuffixOf(q, q)
  BY <1>1 DEF IsSuffixOf
<1>3. r \in Seq(C) /\ IsSuffixOf(r, q)
  BY <1>1, <1>2, SuffixOfSuffix
<1>. HIDE DEF r
<1>4. Len(r) \in Nat /\ Len(r) <= Len(q)
  BY <1>3, LenProperties DEF IsSuffixOf
<1>5. PICK k \in Nat : k = Len(q) - Len(r)
  <2>1. Len(q) - Len(r) \in Nat
    BY <1>1, <1>4
  <2>. QED
    BY <2>1
<1>6. /\ Taken(q, r) \in Seq(C) /\ Len(Taken(q, r)) = k
      /\ \A i \in 1..k : Taken(q, r)[i] = q[i]
  BY <1>3, <1>5, PrefixProperties DEF Taken
<1>7. k \in 0..Len(q) /\ Len(r) = Len(q) - k
  BY <1>1, <1>4, <1>5
<1>8. \A i \in 1..Len(r) : r[i] = q[k + i]
  BY <1>3, <1>5 DEF IsSuffixOf
<1>9. SplitAt(C, q, r, k)
  BY <1>3, <1>6, <1>7, <1>8 DEF SplitAt
<1>10. Splits(C, q, r)
  BY <1>9 DEF Splits
<1>. QED
  BY <1>1, <1>3, <1>10

\* What the tick makes of the sequence that was sent, unless sendChunk throws,
\* and of the history of the losses.
SentBy(sent, ready, writable) == IF writable THEN sent \o Ids(ready) ELSE sent
LostBy(missing, ready, writable) == missing \/ (ready # <<>> /\ ~writable)
TickedTo(s, popped) == [s EXCEPT !.queue = popped.queue, !.window = popped.window]

LEMMA IdsProperties ==
  ASSUME NEW ready \in Seq(Chunks)
  PROVE  /\ Ids(ready) \in Seq(Nat) /\ Len(Ids(ready)) = Len(ready)
         /\ \A i \in 1..Len(ready) : Ids(ready)[i] = ready[i].id /\ ready[i].id \in Nat
<1>1. Len(ready) \in Nat
  BY LenProperties
<1>2. \A i \in 1..Len(ready) : ready[i] \in Chunks
  BY ElementOfSeq
<1>3. \A i \in 1..Len(ready) : ready[i].id \in Nat
  BY <1>2 DEF Chunks
<1>. QED
  BY <1>1, <1>3 DEF Ids

\* What is sent, in a list of the cases to look at.
LEMMA SentProperties ==
  ASSUME NEW sent \in Seq(Nat), NEW ready \in Seq(Chunks)
  PROVE  /\ sent \o Ids(ready) \in Seq(Nat)
         /\ Len(sent \o Ids(ready)) = Len(sent) + Len(ready)
         /\ \A i \in 1..Len(sent) : (sent \o Ids(ready))[i] = sent[i]
         /\ \A i \in 1..Len(ready) : (sent \o Ids(ready))[Len(sent) + i] = ready[i].id
<1>1. /\ Ids(ready) \in Seq(Nat) /\ Len(Ids(ready)) = Len(ready)
      /\ \A i \in 1..Len(ready) : Ids(ready)[i] = ready[i].id
  BY IdsProperties
<1>2. Len(sent) \in Nat /\ Len(ready) \in Nat
  BY LenProperties
<1>. HIDE DEF Ids
<1>3. /\ sent \o Ids(ready) \in Seq(Nat)
      /\ Len(sent \o Ids(ready)) = Len(sent) + Len(Ids(ready))
      /\ \A i \in 1..(Len(sent) + Len(Ids(ready))) : (sent \o Ids(ready))[i] =
            IF i <= Len(sent) THEN sent[i] ELSE Ids(ready)[i - Len(sent)]
  BY <1>1, ConcatProperties
<1>4. \A i \in 1..Len(sent) : (sent \o Ids(ready))[i] = sent[i]
  BY <1>1, <1>2, <1>3
<1>5. ASSUME NEW i \in 1..Len(ready)
      PROVE  (sent \o Ids(ready))[Len(sent) + i] = ready[i].id
  <2>1. /\ Len(sent) + i \in 1..(Len(sent) + Len(Ids(ready)))
        /\ ~(Len(sent) + i <= Len(sent)) /\ (Len(sent) + i) - Len(sent) = i
    BY <1>1, <1>2
  <2>. QED
    BY <1>1, <1>3, <2>1
<1>. QED
  BY <1>1, <1>3, <1>4, <1>5

\* What the mode makes of the queue of the new buffer, before it is split.
Served(s) ==
  CASE state = "REWIND"  -> Rewound(s.queue, s.window)
    [] state = "FORWARD" -> Forwarded(s.queue)
    [] OTHER             -> s.queue

LEMMA ServedIsSuffix ==
  ASSUME NEW s \in Buffers, NEW t \in Seq(Chunks), Ends(s, t)
  PROVE  Served(s) \in Seq(Chunks) /\ IsSuffixOf(Served(s), t)
<1>1. /\ s.queue \in Seq(Chunks) /\ s.window \in Seq(Chunks)
      /\ IsSuffixOf(s.queue, t) /\ IsSuffixOf(s.window, t) /\ Numbered(t)
  BY DEF Ends, Buffers, BuffersOf
<1>2. CASE state = "REWIND"
  <2>1. Rewound(s.queue, s.window) =
          IF Len(s.window) > Len(s.queue) THEN s.window ELSE s.queue
    BY <1>1, RewoundIsTheLonger
  <2>2. Served(s) = s.window \/ Served(s) = s.queue
    BY <1>2, <2>1 DEF Served
  <2>. QED
    BY <1>1, <2>2
<1>3. CASE state = "FORWARD"
  <2>. DEFINE I == {i \in 1..Len(s.queue) :
                      s.queue[i].keyFrame /\ s.queue[Len(s.queue)].keyFrame}
  <2>1. I \in SUBSET (1..Len(s.queue)) /\ Served(s) = FromFirst(s.queue, I)
    BY <1>3 DEF Served, Forwarded
  <2>. HIDE DEF I
  <2>. QED
    BY <1>1, <2>1, SuffixOfSuffix
<1>4. CASE state \notin {"REWIND", "FORWARD"}
  BY <1>1, <1>4 DEF Served
<1>. QED
  BY <1>2, <1>3, <1>4

\* With the new buffer, what is taken goes on where the queue began.
LEMMA TickNewOK ==
  ASSUME NEW s, NEW sent, NEW missing \in BOOLEAN, NEW writable \in BOOLEAN,
         missing => ~writable, NewOK(s, sent, missing, state)
  PROVE  /\ NewOK(TickedTo(s, PopNew(s)), SentBy(sent, PopNew(s).ready, writable),
                  LostBy(missing, PopNew(s).ready, writable), PopNew(s).mode)
         /\ PopNew(s).ready \in Seq(Chunks) /\ Len(PopNew(s).ready) <= s.id
<1>. DEFINE q == Served(s)
            mode == PopNew(s).mode
            r == NotReady(q, mode, now, delay)
            u == TickedTo(s, PopNew(s))
<1>1. /\ s \in Buffers /\ s.id \in Nat /\ s.queue \in Seq(Chunks)
      /\ s.window \in Seq(Chunks) /\ sent \in Seq(Nat) /\ Len(s.queue) \in Nat
  BY LenProperties DEF NewOK, Buffers, BuffersOf
<1>2. PICK t \in Seq(Chunks) : Ends(s, t)
  BY DEF NewOK
<1>3. q \in Seq(Chunks) /\ IsSuffixOf(q, t)
  BY <1>1, <1>2, ServedIsSuffix
<1>4. /\ PopNew(s).queue = r /\ PopNew(s).window = s.window
      /\ PopNew(s).ready = Taken(q, r)
      /\ mode \notin {"REWIND", "FORWARD"}
      /\ state \notin {"REWIND", "FORWARD"} => q = s.queue
  BY DEF PopNew, Served, ModeAfter
<1>. HIDE DEF q, mode
<1>5. Splits(Chunks, q, r) /\ r \in Seq(Chunks)
  BY <1>3, NotReadySplits
<1>. HIDE DEF r
<1>6. PICK k \in Nat : SplitAt(Chunks, q, r, k)
  BY <1>5 DEF Splits
<1>7. PICK y \in Seq(Chunks) : y = Taken(q, r)
  BY <1>6 DEF SplitAt
<1>8. /\ k \in 0..Len(q) /\ Len(r) = Len(q) - k /\ Len(y) = k
      /\ \A i \in 1..Len(r) : r[i] = q[k + i]
      /\ \A i \in 1..k : y[i] = q[i]
  BY <1>6, <1>7 DEF SplitAt
<1>9. Len(q) \in Nat /\ Len(t) = s.id /\ Len(q) <= s.id
  BY <1>2, <1>3, LenProperties DEF Ends, IsSuffixOf
<1>10. \A i \in 1..k : y[i].id = s.id - Len(q) + i - 1
  <2>. SUFFICES ASSUME NEW i \in 1..k PROVE y[i].id = s.id - Len(q) + i - 1
    OBVIOUS
  <2>1. y[i] = t[Len(t) - Len(q) + i]
    <3>1. i \in 1..Len(q) /\ y[i] = q[i]
      BY <1>8, <1>9
    <3>. QED
      BY <1>3, <3>1 DEF IsSuffixOf
  <2>2. Len(t) - Len(q) + i \in 1..Len(t)
    BY <1>8, <1>9
  <2>. QED
    BY <1>2, <1>9, <2>1, <2>2 DEF Ends, Numbered
<1>11. /\ u \in Buffers /\ u.id = s.id /\ u.active = s.active
       /\ u.queue = r /\ u.window = s.window
  BY <1>1, <1>4, <1>5 DEF TickedTo, Buffers, BuffersOf
<1>. HIDE DEF u
<1>12. Ends(u, t)
  <2>1. IsSuffixOf(r, t)
    <3>1. Len(r) <= Len(t)
      BY <1>8, <1>9
    <3>2. ASSUME NEW i \in 1..Len(r) PROVE r[i] = t[Len(t) - Len(r) + i]
      <4>1. k + i \in 1..Len(q) /\ Len(t) - Len(q) + (k + i) = Len(t) - Len(r) + i
        BY <1>8, <1>9
      <4>. QED
        BY <1>3, <1>8, <4>1 DEF IsSuffixOf
    <3>. QED
      BY <3>1, <3>2 DEF IsSuffixOf
  <2>. QED
    BY <1>2, <1>11, <2>1 DEF Ends
<1>13. sent # <<>> => q = s.queue
  BY <1>4 DEF NewOK
<1>14. /\ \A i \in 1..(Len(sent) - 1) : sent[i + 1] = sent[i] + 1
       /\ ~missing /\ Len(sent) > 0 => sent[Len(sent)] = s.id - Len(q) - 1
       /\ Len(sent) \in Nat
  <2>1. Len(sent) > 0 => q = s.queue
    BY <1>13, EmptySeq
  <2>. QED
    BY <1>1, <2>1, LenProperties DEF NewOK
<1>. DEFINE sent2 == SentBy(sent, y, writable)
            missing2 == LostBy(missing, y, writable)
<1>15. /\ sent2 \in Seq(Nat)
       /\ \A i \in 1..(Len(sent2) - 1) : sent2[i + 1] = sent2[i] + 1
       /\ ~missing2 /\ Len(sent2) > 0 => sent2[Len(sent2)] = s.id - Len(r) - 1
  <2>1. CASE writable
    <3>1. sent2 = sent \o Ids(y) /\ ~missing
      BY <2>1 DEF SentBy
    <3>. HIDE DEF sent2
    <3>2. /\ sent2 \in Seq(Nat) /\ Len(sent2) = Len(sent) + k
          /\ \A i \in 1..Len(sent) : sent2[i] = sent[i]
          /\ \A i \in 1..k : sent2[Len(sent) + i] = y[i].id
      BY <1>1, <1>7, <1>8, <3>1, SentProperties
    <3>3. \A i \in 1..k : sent2[Len(sent) + i] = s.id - Len(q) + i - 1
      BY <1>10, <3>2
    <3>4. ASSUME NEW i \in 1..(Len(sent2) - 1) PROVE sent2[i + 1] = sent2[i] + 1
      <4>1. CASE i < Len(sent)
        <5>1. i \in 1..(Len(sent) - 1) /\ i \in 1..Len(sent) /\ i + 1 \in 1..Len(sent)
          BY <1>14, <4>1
        <5>. QED
          BY <1>14, <3>2, <5>1
      <4>2. CASE i = Len(sent)
        <5>1. 1 \in 1..k /\ i \in 1..Len(sent)
          BY <1>14, <3>2, <4>2
        <5>2. sent2[i] = s.id - Len(q) - 1
          BY <1>14, <3>1, <3>2, <4>2, <5>1
        <5>3. sent2[i + 1] = s.id - Len(q) + 1 - 1
          BY <3>3, <4>2, <5>1
        <5>. QED
          BY <1>9, <5>2, <5>3
      <4>3. CASE i > Len(sent)
        <5>0. Len(sent) \in Nat /\ Len(sent2) = Len(sent) + k /\ i \in Nat /\ i <= Len(sent2) - 1
          BY <1>14, <3>2
        <5>1. PICK j \in Nat : j = i - Len(sent)
          <6>1. i - Len(sent) \in Nat
            BY <4>3, <5>0
          <6>. QED
            BY <6>1
        <5>2. /\ j \in 1..k /\ j + 1 \in 1..k
              /\ i = Len(sent) + j /\ i + 1 = Len(sent) + (j + 1)
          BY <4>3, <5>0, <5>1
        <5>3. /\ sent2[i] = s.id - Len(q) + j - 1
              /\ sent2[i + 1] = s.id - Len(q) + (j + 1) - 1
          BY <3>3, <5>2
        <5>. QED
          BY <1>9, <5>3
      <4>. QED
        BY <1>14, <3>2, <4>1, <4>2, <4>3
    <3>5. Len(sent2) > 0 => sent2[Len(sent2)] = s.id - Len(r) - 1
      <4>1. CASE k > 0
        <5>1. k \in 1..k /\ Len(sent2) = Len(sent) + k
          BY <3>2, <4>1
        <5>2. sent2[Len(sent2)] = s.id - Len(q) + k - 1
          BY <3>3, <5>1
        <5>. QED
          BY <1>1, <1>8, <1>9, <5>2
      <4>2. CASE k = 0
        <5>1. Len(sent2) = Len(sent) /\ Len(r) = Len(q)
          BY <1>8, <1>9, <1>14, <3>2, <4>2
        <5>. QED
          BY <1>14, <3>1, <3>2, <5>1
      <4>. QED
        BY <4>1, <4>2
    <3>. QED
      BY <3>2, <3>4, <3>5
  <2>2. CASE ~writable
    <3>1. sent2 = sent
      BY <2>2 DEF SentBy
    <3>2. ~missing2 => ~missing /\ y = <<>>
      BY <2>2 DEF LostBy
    <3>3. ~missing2 => k = 0
      BY <1>8, <3>2, EmptySeq
    <3>4. ~missing2 => Len(r) = Len(q)
      BY <1>8, <1>9, <3>3
    <3>. HIDE DEF sent2, missing2
    <3>. QED
      BY <1>1, <1>14, <3>1, <3>2, <3>4
  <2>. QED
    BY <2>1, <2>2
<1>. HIDE DEF sent2, missing2
<1>16. ~u.active => u.window = <<>>
  BY <1>11 DEF NewOK
<1>17. \E t2 \in Seq(Chunks) : Ends(u, t2)
  BY <1>12
<1>18. NewOK(u, sent2, missing2, mode)
  BY <1>4, <1>11, <1>15, <1>16, <1>17 DEF NewOK
<1>19. Len(y) <= s.id
  BY <1>8, <1>9
<1>. QED
  BY <1>4, <1>7, <1>18, <1>19 DEF u, sent2, missing2, mode

-----------------------------------------------------------------------------
\* A chunk of the new buffer has the data that sendChunk reads; the chunks of
\* the old one do not, so that of these none is written.
LEMMA NewNeverThrows ==
  ASSUME NEW c \in Clients, NEW ready \in Seq(Chunks)
  PROVE  ~Throws(c, ready)
<1>1. \A i \in 1..Len(ready) : ready[i] \in Chunks
  BY ElementOfSeq
<1>. QED
  BY <1>1 DEF Throws, Chunks

LEMMA OldIsNotSent ==
  ASSUME NEW c \in Clients, NEW ready \in Seq(OldChunks), Writable(c), ~Throws(c, ready)
  PROVE  <<>> \o Ids(ready) = <<>>
<1>1. \A i \in 1..Len(ready) : ready[i] \in OldChunks
  BY ElementOfSeq
<1>2. Len(ready) = 0
  <2>1. Len(ready) \in Nat
    BY LenProperties
  <2>2. Len(ready) > 0 => 1 \in 1..Len(ready)
    BY <2>1
  <2>. QED
    BY <1>1, <2>1, <2>2 DEF Throws, OldChunks
<1>3. ready = <<>>
  BY <1>2, EmptySeq
<1>4. Ids(<<>>) = <<>>
  <2>1. Len(<<>>) = 0 /\ 1..0 = {}
    OBVIOUS
  <2>. QED
    BY <2>1 DEF Ids
<1>. QED
  BY <1>3, <1>4

\* A tick of the old buffer.
LEMMA TickOldOK ==
  ASSUME NEW s, state \in Modes, s \in BuffersOf(OldChunks)
  PROVE  /\ PopOld(s).queue \in Seq(OldChunks) /\ PopOld(s).window \in Seq(OldChunks)
         /\ PopOld(s).ready \in Seq(OldChunks)
<1>1. /\ s.queue \in Seq(OldChunks) /\ s.window \in Seq(OldChunks)
      /\ <<>> \in Seq(OldChunks)
  BY EmptySeq DEF BuffersOf
<1>2. ASSUME NEW q \in Seq(OldChunks)
      PROVE  Aged(q) \in Seq(OldChunks) /\ Taken(q, Aged(q)) \in Seq(OldChunks)
  BY NotReadySplits DEF Aged, Splits, SplitAt
<1>3. PICK z \in Seq(OldChunks) : z = s.window \o s.queue
  <2>1. s.window \o s.queue \in Seq(OldChunks)
    BY <1>1, ConcatProperties
  <2>. QED
    BY <2>1
<1>4. CASE state = "FORWARD"
  BY <1>1, <1>4 DEF PopOld
<1>5. CASE state = "REALTIME"
  BY <1>1, <1>2, <1>3, <1>5 DEF PopOld
<1>6. CASE state = "DELAY"
  BY <1>1, <1>2, <1>6 DEF PopOld
<1>7. CASE state = "REWIND"
  BY <1>1, <1>2, <1>7 DEF PopOld
<1>. QED
  BY <1>4, <1>5, <1>6, <1>7 DEF Modes

\* Until the first data, the timer of a SimpleConnection drains a buffer of
\* the new kind, which is empty, and stays so.
LEMMA TickFreshOK ==
  ASSUME NEW s, s \in BuffersOf(OldChunks), s.id = 0, s.queue = <<>>, s.window = <<>>
  PROVE  PopNew(s).queue = <<>> /\ PopNew(s).window = <<>> /\ PopNew(s).ready = <<>>
<1>1. <<>> \in Seq(Chunks) /\ <<>> \in Seq(Nat) /\ Len(<<>>) = 0
  BY EmptySeq
<1>2. s \in Buffers
  BY <1>1 DEF Buffers, BuffersOf
<1>3. Ends(s, <<>>)
  BY <1>1 DEF Ends, Numbered, IsSuffixOf
<1>. DEFINE q == Served(s)
            mode == PopNew(s).mode
            r == NotReady(q, mode, now, delay)
<1>4. /\ PopNew(s).queue = r /\ PopNew(s).window = s.window
      /\ PopNew(s).ready = Taken(q, r)
  BY DEF PopNew, Served, ModeAfter
<1>5. q \in Seq(Chunks) /\ IsSuffixOf(q, <<>>)
  BY <1>1, <1>2, <1>3, ServedIsSuffix
<1>. HIDE DEF q, mode
<1>6. Len(q) = 0
  BY <1>1, <1>5, LenProperties DEF IsSuffixOf
<1>7. r \in Seq(Chunks) /\ Splits(Chunks, q, r)
  BY <1>5, NotReadySplits
<1>. HIDE DEF r
<1>8. PICK k \in Nat : SplitAt(Chunks, q, r, k)
  BY <1>7 DEF Splits
<1>9. /\ Len(r) = 0 /\ Taken(q, r) \in Seq(Chunks) /\ Len(Taken(q, r)) = 0
  <2>1. k \in 0..0 /\ Len(r) = 0 - k
    BY <1>6, <1>8 DEF SplitAt
  <2>2. k = 0
    BY <2>1
  <2>. QED
    BY <1>8, <2>1, <2>2 DEF SplitAt
<1>10. r = <<>> /\ Taken(q, r) = <<>>
  BY <1>7, <1>9, EmptySeq
<1>. QED
  BY <1>4, <1>10

\* What one tick makes of the stream of its connection, and of the mode.
SentTo(c, sent, ready) ==
  IF Writable(c) /\ ~Throws(c, ready) THEN sent \o Ids(ready) ELSE sent

LEMMA TickOK ==
  ASSUME NEW s, NEW sent, NEW missing \in BOOLEAN, NEW c \in Clients,
         missing => ~Writable(c), state \in Modes, kind \in {"rtmp", "simple"},
         StreamOK(s, sent, missing, state)
  PROVE  /\ StreamOK(TickedTo(s, Popped(s)), SentTo(c, sent, Popped(s).ready),
                     LostBy(missing, Popped(s).ready, Writable(c)), Popped(s).mode)
         /\ Popped(s).mode \in Modes
         /\ Popped(s).mode = state \/ Popped(s).mode \in {"DELAY", "REALTIME"}
<1>1. /\ Popped(s).mode \in Modes
      /\ Popped(s).mode = state \/ Popped(s).mode \in {"DELAY", "REALTIME"}
  <2>1. PopNew(s).mode = state \/ PopNew(s).mode \in {"DELAY", "REALTIME"}
    BY DEF PopNew, ModeAfter
  <2>2. PopOld(s).mode = state \/ PopOld(s).mode \in {"DELAY", "REALTIME"}
    BY DEF PopOld, Modes
  <2>. QED
    BY <2>1, <2>2 DEF Popped, Modes
<1>2. CASE kind = "rtmp"
  <2>1. Popped(s) = PopNew(s) /\ NewOK(s, sent, missing, state)
    BY <1>2 DEF Popped, HasOldBuffer, StreamOK
  <2>2. PICK writable \in BOOLEAN : writable = Writable(c)
    <3>1. Writable(c) \in BOOLEAN
      BY DEF Writable
    <3>. QED
      BY <3>1
  <2>3. /\ NewOK(TickedTo(s, PopNew(s)), SentBy(sent, PopNew(s).ready, writable),
                 LostBy(missing, PopNew(s).ready, writable), PopNew(s).mode)
        /\ PopNew(s).ready \in Seq(Chunks)
    BY <2>1, <2>2, TickNewOK
  <2>4. SentTo(c, sent, PopNew(s).ready) = SentBy(sent, PopNew(s).ready, writable)
    <3>1. ~Throws(c, PopNew(s).ready)
      BY <2>3, NewNeverThrows
    <3>. QED
      BY <2>2, <3>1 DEF SentTo, SentBy
  <2>. QED
    BY <1>1, <1>2, <2>1, <2>2, <2>3, <2>4 DEF StreamOK
<1>3. CASE kind = "simple"
  <2>1. /\ s \in BuffersOf(OldChunks) /\ sent = <<>> /\ s.id \in Nat
        /\ s.id = 0 => s.queue = <<>> /\ s.window = <<>>
    BY <1>3 DEF StreamOK, OldOK, BuffersOf
  <2>2. PICK popped : popped = Popped(s)
    OBVIOUS
  <2>3. /\ popped.queue \in Seq(OldChunks) /\ popped.window \in Seq(OldChunks)
        /\ popped.ready \in Seq(OldChunks)
        /\ s.id = 0 => popped.queue = <<>> /\ popped.window = <<>>
    <3>1. CASE s.id > 0
      <4>1. popped = PopOld(s) /\ s.id # 0
        BY <1>3, <2>2, <3>1 DEF Popped, HasOldBuffer
      <4>. QED
        BY <2>1, <4>1, TickOldOK
    <3>2. CASE s.id = 0
      <4>1. popped = PopNew(s)
        BY <1>3, <2>2, <3>2 DEF Popped, HasOldBuffer
      <4>2. popped.queue = <<>> /\ popped.window = <<>> /\ popped.ready = <<>>
        BY <2>1, <3>2, <4>1, TickFreshOK
      <4>. QED
        BY <4>2, EmptySeq
    <3>. QED
      BY <2>1, <3>1, <3>2
  <2>4. /\ TickedTo(s, popped) \in BuffersOf(OldChunks)
        /\ TickedTo(s, popped).id = s.id
        /\ TickedTo(s, popped).queue = popped.queue
        /\ TickedTo(s, popped).window = popped.window
    BY <2>1, <2>3 DEF TickedTo, BuffersOf
  <2>5. SentTo(c, sent, popped.ready) = <<>>
    BY <2>1, <2>3, OldIsNotSent DEF SentTo
  <2>6. OldOK(TickedTo(s, popped), SentTo(c, sent, popped.ready))
    BY <2>3, <2>4, <2>5 DEF OldOK
  <2>. QED
    BY <1>1, <1>3, <2>2, <2>6 DEF StreamOK
<1>. QED
  BY <1>2, <1>3

-----------------------------------------------------------------------------
LEMMA ConnectionsInit == Init => ConnectionsInv
<1>. SUFFICES ASSUME Init PROVE ConnectionsInv
  OBVIOUS
<1>1. TypeInv
  BY KindsAssumption DEF Init, TypeInv, Modes
<1>2. LossInv
  BY DEF Init, LossInv
<1>3. StreamInv
  BY NoStream DEF Init, StreamInv, StreamOK
<1>. QED
  BY <1>1, <1>2, <1>3 DEF ConnectionsInv

LEMMA ConnectionsStep == ConnectionsInv /\ [Next]_vars => ConnectionsInv'
<1>. SUFFICES ASSUME ConnectionsInv, [Next]_vars PROVE ConnectionsInv'
  OBVIOUS
<1>0. /\ kind \in {"rtmp", "simple"} /\ state \in Modes /\ now \in Nat
      /\ stream = [c \in Clients |-> stream[c]] /\ played = [c \in Clients |-> played[c]]
      /\ lost \in [Clients -> BOOLEAN]
      /\ remote \in [Clients -> {"connecting", "open", "ending", "closed"}]
      /\ \A c \in Clients : lost[c] => ~Writable(c)
      /\ \A c \in Clients : StreamOK(stream[c], played[c], lost[c], state)
  BY DEF ConnectionsInv, TypeInv, LossInv, StreamInv
<1>1. ASSUME NEW c \in Clients, OnData(c) PROVE ConnectionsInv'
  <2>. DEFINE s == stream[c]
              p == Packets[s.id + 1]
  <2>1. /\ s.id < Len(Packets)
        /\ stream' = [stream EXCEPT ![c] = IF kind = "simple" THEN PushedOld(s)
                                                              ELSE PushedNew(s, p)]
        /\ UNCHANGED <<kind, played, lost, remote, state, now>>
    BY <1>1 DEF OnData, socketVars
  <2>2. StreamOK(s, played[c], lost[c], state) /\ s.id \in Nat
    BY <1>0 DEF StreamOK, NewOK, OldOK, Buffers, BuffersOf
  <2>3. p.flags \in Flags
    <3>1. s.id + 1 \in 1..Len(Packets)
      BY <2>1, <2>2, PacketsAssumption, LenProperties
    <3>2. p \in [codec : STRING, flags : STRING]
      BY <3>1, PacketsAssumption, ElementOfSeq
    <3>. QED
      BY <3>2, Zenon DEF Flags
  <2>4. StreamOK(stream'[c], played[c], lost[c], state)
    <3>1. CASE kind = "simple"
      <4>1. stream'[c] = PushedOld(s)
        BY <1>0, <2>1, <3>1
      <4>. QED
        BY <1>0, <2>2, <3>1, <4>1, PushOldOK DEF StreamOK
    <3>2. CASE kind = "rtmp"
      <4>1. stream'[c] = PushedNew(s, p)
        BY <1>0, <2>1, <3>2
      <4>. QED
        BY <1>0, <2>2, <2>3, <3>2, <4>1, PushNewOK DEF StreamOK
    <3>. QED
      BY <1>0, <3>1, <3>2
  <2>. HIDE DEF s, p
  <2>5. /\ stream' = [d \in Clients |-> stream'[d]]
        /\ \A d \in Clients : d # c => stream'[d] = stream[d]
    BY <1>0, <2>1
  <2>6. StreamInv'
    <3>1. \A d \in Clients : StreamOK(stream'[d], played[d], lost[d], state)
      BY <1>0, <2>4, <2>5
    <3>. QED
      BY <2>1, <3>1 DEF StreamInv, StreamOK
  <2>. QED
    BY <1>0, <2>1, <2>5, <2>6 DEF ConnectionsInv, TypeInv, LossInv, Writable
<1>2. ASSUME NEW c \in Clients, CheckChunks(c) PROVE ConnectionsInv'
  <2>. DEFINE s == stream[c]
              popped == Popped(s)
  <2>1. /\ stream' = [stream EXCEPT ![c] = TickedTo(s, popped)]
        /\ state' = popped.mode
        /\ played' = [played EXCEPT ![c] = SentTo(c, played[c], popped.ready)]
        /\ lost' = [lost EXCEPT ![c] = LostBy(lost[c], popped.ready, Writable(c))]
        /\ UNCHANGED <<kind, remote, now>>
    BY <1>2 DEF CheckChunks, TickedTo, SentTo, LostBy, socketVars
  <2>2. /\ StreamOK(s, played[c], lost[c], state) /\ lost[c] \in BOOLEAN
        /\ Writable(c) \in BOOLEAN /\ lost[c] => ~Writable(c)
    BY <1>0 DEF Writable
  <2>3. /\ StreamOK(TickedTo(s, popped), SentTo(c, played[c], popped.ready),
                    LostBy(lost[c], popped.ready, Writable(c)), popped.mode)
        /\ popped.mode \in Modes
        /\ popped.mode = state \/ popped.mode \in {"DELAY", "REALTIME"}
    <3>1. PICK s0 : s0 = s
      OBVIOUS
    <3>2. PICK sent : sent = played[c]
      OBVIOUS
    <3>3. PICK missing \in BOOLEAN : missing = lost[c]
      BY <2>2
    <3>4. StreamOK(s0, sent, missing, state) /\ (missing => ~Writable(c))
      BY <2>2, <3>1, <3>2, <3>3
    <3>5. /\ StreamOK(TickedTo(s0, Popped(s0)), SentTo(c, sent, Popped(s0).ready),
                      LostBy(missing, Popped(s0).ready, Writable(c)), Popped(s0).mode)
          /\ Popped(s0).mode \in Modes
          /\ Popped(s0).mode = state \/ Popped(s0).mode \in {"DELAY", "REALTIME"}
      BY <1>0, <3>4, TickOK
    <3>. QED
      BY <3>1, <3>2, <3>3, <3>5
  <2>. HIDE DEF s, popped
  <2>4. /\ stream' = [d \in Clients |-> stream'[d]] /\ played' = [d \in Clients |-> played'[d]]
        /\ lost' \in [Clients -> BOOLEAN]
        /\ lost'[c] = LostBy(lost[c], popped.ready, Writable(c))
        /\ stream'[c] = TickedTo(s, popped)
        /\ played'[c] = SentTo(c, played[c], popped.ready)
        /\ \A d \in Clients : d # c => stream'[d] = stream[d] /\ played'[d] = played[d]
                                       /\ lost'[d] = lost[d]
    BY <1>0, <2>1, <2>2 DEF LostBy
  <2>5. StreamInv'
    <3>1. ASSUME NEW d \in Clients, d # c
          PROVE  StreamOK(stream'[d], played'[d], lost'[d], state')
      <4>1. StreamOK(stream[d], played[d], lost[d], state)
        BY <1>0
      <4>2. StreamOK(stream[d], played[d], lost[d], popped.mode)
        <5>1. popped.mode = state \/ popped.mode \in {"DELAY", "REALTIME"}
          BY <2>3
        <5>. QED
          BY <4>1, <5>1, ModeServed DEF StreamOK
      <4>. QED
        BY <2>1, <2>4, <3>1, <4>2
    <3>2. StreamOK(stream'[c], played'[c], lost'[c], state')
      BY <2>1, <2>3, <2>4
    <3>3. \A d \in Clients : StreamOK(stream'[d], played'[d], lost'[d], state')
      BY <3>1, <3>2
    <3>. QED
      BY <2>1, <3>3 DEF StreamInv, StreamOK
  <2>6. LossInv'
    BY <1>0, <2>1, <2>4 DEF LossInv, LostBy, Writable
  <2>. QED
    BY <1>0, <2>1, <2>3, <2>4, <2>5, <2>6 DEF ConnectionsInv, TypeInv
\* What the sockets do changes no stream but that of a connection that ends.
<1>3. ASSUME NEW c \in Clients, RemoteConnected(c) \/ RemoteEnds(c) PROVE ConnectionsInv'
  <2>1. UNCHANGED <<kind, stream, played, lost, state, now>>
    BY <1>3 DEF RemoteConnected, RemoteEnds, configVars
  <2>2. /\ remote' \in [Clients -> {"connecting", "open", "ending", "closed"}]
        /\ \A d \in Clients : ~Writable(d) => remote'[d] = remote[d]
    BY <1>0, <1>3 DEF RemoteConnected, RemoteEnds, Writable
  <2>3. LossInv'
    BY <1>0, <2>1, <2>2 DEF LossInv, Writable
  <2>4. StreamInv'
    BY <1>0, <2>1 DEF StreamInv, StreamOK
  <2>. QED
    BY <1>0, <2>1, <2>2, <2>3, <2>4 DEF ConnectionsInv, TypeInv
<1>4. ASSUME NEW c \in Clients, RemoteClosed(c) \/ ClientClosed(c) PROVE ConnectionsInv'
  <2>1. /\ UNCHANGED <<kind, lost, state, now>>
        /\ stream' = [stream EXCEPT ![c] = NewBuffer]
        /\ played' = [played EXCEPT ![c] = <<>>]
    BY <1>4 DEF RemoteClosed, ClientClosed, Close
  <2>2. /\ remote' \in [Clients -> {"connecting", "open", "ending", "closed"}]
        /\ \A d \in Clients : ~Writable(d) => ~(Writable(d)')
    BY <1>0, <1>4 DEF RemoteClosed, ClientClosed, Writable
  <2>. HIDE DEF NewBuffer
  <2>3. StreamInv'
    <3>1. ASSUME NEW d \in Clients PROVE StreamOK(stream'[d], played'[d], lost[d], state)
      <4>1. CASE d = c
        <5>1. stream'[d] = NewBuffer /\ played'[d] = <<>>
          BY <1>0, <2>1, <4>1
        <5>. QED
          BY <5>1, NoStream DEF StreamOK
      <4>2. CASE d # c
        <5>1. stream'[d] = stream[d] /\ played'[d] = played[d]
          BY <1>0, <2>1, <4>2
        <5>. QED
          BY <1>0, <5>1
      <4>. QED
        BY <4>1, <4>2
    <3>. QED
      BY <2>1, <3>1 DEF StreamInv, StreamOK
  <2>4. LossInv'
    BY <1>0, <2>1, <2>2 DEF LossInv
  <2>5. stream' = [d \in Clients |-> stream'[d]] /\ played' = [d \in Clients |-> played'[d]]
    BY <1>0, <2>1
  <2>. QED
    BY <1>0, <2>1, <2>2, <2>3, <2>4, <2>5 DEF ConnectionsInv, TypeInv
<1>5. ASSUME NEW mode \in {"REWIND", "FORWARD"}, Request(mode) PROVE ConnectionsInv'
  <2>1. /\ UNCHANGED <<kind, stream, lost, remote, now>>
        /\ state' = mode /\ played' = [c \in Clients |-> <<>>]
    BY <1>5 DEF Request, socketVars
  <2>2. StreamInv'
    <3>1. ASSUME NEW d \in Clients PROVE StreamOK(stream[d], <<>>, lost[d], mode)
      <4>1. StreamOK(stream[d], played[d], lost[d], state)
        BY <1>0
      <4>. QED
        BY <4>1, NothingSent DEF StreamOK, OldOK
    <3>. QED
      BY <2>1, <3>1 DEF StreamInv, StreamOK
  <2>3. LossInv'
    BY <1>0, <2>1 DEF LossInv, Writable
  <2>. QED
    BY <1>0, <2>1, <2>2, <2>3 DEF ConnectionsInv, TypeInv, Modes
<1>6. CASE SetDelay \/ AdvanceClock \/ UNCHANGED vars
  <2>1. UNCHANGED <<kind, stream, played, lost, remote, state>> /\ now' \in Nat
    BY <1>0, <1>6 DEF SetDelay, AdvanceClock, vars, socketVars
  <2>2. StreamInv'
    BY <1>0, <2>1 DEF StreamInv, StreamOK
  <2>3. LossInv'
    BY <1>0, <2>1 DEF LossInv, Writable
  <2>. QED
    BY <1>0, <2>1, <2>2, <2>3 DEF ConnectionsInv, TypeInv
<1>. QED
  BY <1>1, <1>2, <1>3, <1>4, <1>5, <1>6 DEF Next

THEOREM ConnectionsInvariant == Spec => []ConnectionsInv
BY ConnectionsInit, ConnectionsStep, PTL DEF Spec

\* Between two requests every remote of an RtmpConnection receives the chunks
\* of its stream in order, none twice and none left out, whichever connection's
\* timer serves the request.
THEOREM RemotesGetTheirStreamInOrder == Spec => []EveryStreamInOrder
<1>1. ConnectionsInv => EveryStreamInOrder
  <2>. SUFFICES ASSUME ConnectionsInv, kind = "rtmp", NEW c \in Clients
                PROVE  \A i \in 1..(Len(played[c]) - 1) : played[c][i + 1] = played[c][i] + 1
    BY DEF EveryStreamInOrder
  <2>1. NewOK(stream[c], played[c], lost[c], state)
    BY DEF ConnectionsInv, StreamInv, StreamOK
  <2>. QED
    BY <2>1 DEF NewOK
<1>. QED
  BY <1>1, ConnectionsInvariant, PTL

\* Once a chunk was dropped because its remote could not be written to,
\* nothing is sent after the gap.
THEOREM NothingFollowsALoss == Spec => NothingAfterLoss
<1>1. ConnectionsInv /\ [Next]_vars =>
        [\A c \in Clients : lost[c] => Len(played'[c]) <= Len(played[c])]_vars
  <2>. SUFFICES ASSUME ConnectionsInv, Next, NEW c \in Clients, lost[c]
                PROVE  Len(played'[c]) <= Len(played[c])
    OBVIOUS
  <2>1. /\ ~Writable(c) /\ played = [d \in Clients |-> played[d]]
        /\ StreamOK(stream[c], played[c], lost[c], state)
    BY DEF ConnectionsInv, LossInv, StreamInv, TypeInv
  <2>2. played[c] \in Seq(Nat) /\ Len(played[c]) \in Nat /\ Len(<<>>) = 0
    BY <2>1, EmptySeq, LenProperties DEF StreamOK, NewOK, OldOK
  <2>3. played'[c] = played[c] \/ played'[c] = <<>>
    <3>1. ASSUME NEW d \in Clients, CheckChunks(d) PROVE played'[c] = played[c]
      <4>1. CASE d = c
        BY <2>1, <3>1, <4>1 DEF CheckChunks
      <4>2. CASE d # c
        BY <2>1, <3>1, <4>2 DEF CheckChunks
      <4>. QED
        BY <4>1, <4>2
    <3>2. ASSUME NEW d \in Clients,
                 OnData(d) \/ RemoteConnected(d) \/ RemoteEnds(d)
          PROVE  played'[c] = played[c]
      BY <3>2 DEF OnData, RemoteConnected, RemoteEnds
    <3>3. ASSUME NEW d \in Clients, RemoteClosed(d) \/ ClientClosed(d)
          PROVE  played'[c] = played[c] \/ played'[c] = <<>>
      <4>1. played' = [played EXCEPT ![d] = <<>>]
        BY <3>3 DEF RemoteClosed, ClientClosed, Close
      <4>. QED
        BY <2>1, <4>1
    <3>4. ASSUME NEW mode, Request(mode) PROVE played'[c] = <<>>
      BY <3>4 DEF Request
    <3>5. CASE SetDelay \/ AdvanceClock
      BY <3>5 DEF SetDelay, AdvanceClock
    <3>. QED
      BY <3>1, <3>2, <3>3, <3>4, <3>5 DEF Next
  <2>. QED
    BY <2>2, <2>3
<1>. QED
  BY <1>1, ConnectionsInvariant, PTL DEF Spec, NothingAfterLoss
=============================================================================
