------------------------------ MODULE StreamLog ------------------------------
(***************************************************************************)
(* What the delay buffer promises to the stream, without times, frames or  *)
(* bytes.  The chunks received from OBS form a log that only grows.  Two   *)
(* cursors count log entries: the first `relay' entries are behind the     *)
(* relay position (played or skipped), and the delay window holds every    *)
(* entry after the first `window'.  A tick plays a contiguous stretch of   *)
(* the log, in order.  The position moves back only when a rewind was      *)
(* requested, and then no further than the window reaches; it jumps over   *)
(* entries only when a forward was requested, and then plays to the end.   *)
(*                                                                         *)
(* StreamBuffer implements this specification.                             *)
(***************************************************************************)
EXTENDS Naturals, Sequences

CONSTANT Chunk      \* the chunks a stream can consist of

VARIABLES log,      \* every chunk received so far
          relay,    \* how many of them are behind the relay position
          window,   \* how many of them are no longer in the delay window
          state,    \* the mode of the relay, a pending request included
          out       \* the chunks played by the last step

vars == <<log, relay, window, state, out>>

States == {"REALTIME", "REWIND", "DELAY", "FORWARD"}

TypeOK ==
  /\ log \in Seq(Chunk)
  /\ relay \in 0..Len(log)
  /\ window \in 0..Len(log)
  /\ state \in States
  /\ out \in Seq(Chunk)

Init ==
  /\ log = <<>>
  /\ relay = 0
  /\ window = 0
  /\ state = "REALTIME"
  /\ out = <<>>

\* One more chunk arrives; the window may lose some of its oldest chunks.
Receive(c) ==
  /\ log' = Append(log, c)
  /\ window' \in window..Len(log')
  /\ out' = <<>>
  /\ UNCHANGED <<relay, state>>

\* Plays the log from position `from' up to the new relay position.
Play(from) ==
  /\ relay' \in from..Len(log)
  /\ out' = SubSeq(log, from + 1, relay')
  /\ UNCHANGED <<log, window>>

\* In DELAY some of the pending chunks are due, in REALTIME all of them.
Continue ==
  /\ state \in {"DELAY", "REALTIME"}
  /\ Play(relay)
  /\ state = "REALTIME" => relay' = Len(log)
  /\ UNCHANGED state

\* A requested rewind resumes at the start of the delay window, unless the
\* relay is behind that already.
Rewind ==
  /\ state = "REWIND"
  /\ Play(IF window < relay THEN window ELSE relay)
  /\ state' = "DELAY"

\* A requested forward skips pending chunks and plays the rest at once.
Forward ==
  /\ state = "FORWARD"
  /\ \E from \in relay..Len(log) : Play(from)
  /\ relay' = Len(log)
  /\ state' = "REALTIME"

\* A request replaces the mode, and any request not served yet.
Request ==
  /\ state' \in {"REWIND", "FORWARD"}
  /\ out' = <<>>
  /\ UNCHANGED <<log, relay, window>>

\* A step of the environment that the stream does not notice.
Quiet ==
  /\ out' = <<>>
  /\ UNCHANGED <<log, relay, window, state>>

Next ==
  \/ \E c \in Chunk : Receive(c)
  \/ Continue
  \/ Rewind
  \/ Forward
  \/ Request
  \/ Quiet

Spec == Init /\ [][Next]_vars
=============================================================================
