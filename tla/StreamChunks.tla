---------------------------- MODULE StreamChunks ----------------------------
(***************************************************************************)
(* The algorithms of src/streamBuffer.js on sequences of chunks, as        *)
(* functions of their inputs.  A chunk is the ChunkData record of the code *)
(* without its payload: `len' stands for data.length.  The loops that      *)
(* shift chunks off a ring buffer all end at an index where a condition    *)
(* first holds, so each is written as the suffix that starts there.        *)
(***************************************************************************)
EXTENDS Subsequences

CONSTANT MaxLen     \* the largest length in bytes of a chunk

ASSUME MaxLenAssumption == MaxLen \in Nat

\* The chunks of s from index i on.
Suffix(s, i) == SubSeq(s, i, Len(s))

IsLeast(i, I) == i \in I /\ \A j \in I : i <= j

\* What is left of s when chunks are shifted off its head until an index in
\* I is reached: everything is shifted off when no index is.
FromFirst(s, I) ==
  IF \E i \in I : IsLeast(i, I)
    THEN Suffix(s, CHOOSE i \in I : IsLeast(i, I))
    ELSE <<>>

\* How many bytes of data the chunks of s hold, counted one by one.
Bytes(s) ==
  Cardinality({p \in (1..Len(s)) \X (1..MaxLen) :
                 p[2] <= s[p[1]].len})

\* A chunk starts a key frame unless it is the first of the stream or
\* follows a chunk with the same flags (lastFlags).
StartsKeyFrame(id, codec, flags, lastFlags) ==
  id > 0 /\ codec = "VIDEO" /\ flags = "KEY_FRAME" /\ lastFlags # "KEY_FRAME"

\* Where the shifting of updateDelayBuffer can stop: at the head itself, or
\* at the start of a group of pictures that is not the first one found.  The
\* inner loops skip up to the first key frame AND on to the one after it.
IsTrimPoint(w, i) ==
  \/ i = 1
  \/ /\ w[i].keyFrame
     /\ ~w[i - 1].keyFrame
     /\ \E j \in 1..(i - 1) : w[j].keyFrame

\* Variants of Trimmed with a defect: each expired chunk leaves by itself; a
\* chunk of exactly the delay's age counts as expired.
TrimmedChunkwise(w, now, delay) ==
  FromFirst(w, {i \in 1..Len(w) : now - w[i].time <= delay})
TrimmedTooEarly(w, now, delay) ==
  FromFirst(w, {i \in 1..Len(w) : IsTrimPoint(w, i) /\ now - w[i].time < delay})

\* updateDelayBuffer: whole groups of pictures leave the window while the
\* chunk at its head is older than the delay.
Trimmed(w, now, delay) ==
  FromFirst(w, {i \in 1..Len(w) : IsTrimPoint(w, i) /\ now - w[i].time <= delay})

\* Variant with a defect: the id of a chunk is not looked up in the queue.
MissingUnchecked(queue, w) == 1..Len(w)

\* The indices of the window chunks that the queue does not hold.
Missing(queue, w) ==
  {i \in 1..Len(w) : \A j \in 1..Len(queue) : queue[j].id # w[i].id}

\* Variant with a defect: the chunks are pushed, not unshifted.
RewoundAtEnd(queue, w) == queue \o Pick(w, Missing(queue, w))

\* handleRewinding: the missing chunks go in front of the queue.
Rewound(queue, w) == Pick(w, Missing(queue, w)) \o queue

\* handleForwarding: mostRecentKeyFrameEnd is never 0, so every key frame
\* met on the way down moves the start, and a queue that does not end with a
\* key frame is cleared.
Forwarded(queue) ==
  FromFirst(queue, {i \in 1..Len(queue) :
                      queue[i].keyFrame /\ queue[Len(queue)].keyFrame})

\* Variant with a defect: only REALTIME releases a chunk.
NotReadyIgnoringAge(queue, state, now, delay) ==
  FromFirst(queue, {i \in 1..Len(queue) : state # "REALTIME"})

\* The relay loop of popReadyChunks: what it leaves in the queue.
NotReady(queue, state, now, delay) ==
  FromFirst(queue, {i \in 1..Len(queue) :
                      state # "REALTIME" /\ now - queue[i].time <= delay})

-----------------------------------------------------------------------------
(* Not code: what the properties say of sequences of chunks.               *)

\* s is what a longer sequence t ends with.
IsSuffixOf(s, t) ==
  /\ Len(s) <= Len(t)
  /\ \A i \in 1..Len(s) : s[i] = t[Len(t) - Len(s) + i]

\* The ids of a stream number its chunks.
Numbered(t) == \A i \in 1..Len(t) : t[i].id = i - 1

=============================================================================
