------------------------------ MODULE RingBuffer ------------------------------
(***************************************************************************)
(* The circular buffer of src/ringBuffer.js that holds both queues of a    *)
(* StreamBuffer.  The slots are numbered from 0, `head' is the slot of the *)
(* first item, and the buffer doubles when it is full.  The code computes  *)
(* a slot with `& (cap - 1)', which is the remainder modulo cap, also for  *)
(* head - 1 = -1, as long as cap is a power of two, see TypeOK.            *)
(***************************************************************************)
EXTENDS Integers, Sequences

CONSTANTS
  Item,             \* what is stored
  Undefined,        \* JavaScript's undefined
  MinCapacity,      \* the least initial capacity, 32 in the code
  Capacities,       \* the capacities a constructor call asks for
  MaxLength         \* bound: items held at once

\* The greatest capacity that doubling by `p <<= 1' can reach.
MaxCapacity == 1073741824

PowersOfTwo ==
  { 1, 2, 4, 8, 16, 32, 64, 128, 256, 512, 1024, 2048, 4096, 8192, 16384, 32768, 65536, 131072,
    262144, 524288, 1048576, 2097152, 4194304, 8388608, 16777216, 33554432, 67108864, 134217728,
    268435456, 536870912, MaxCapacity }

\* The least power of two that is at least n, for n up to 2^30.
NextPowerOfTwo(n) == CHOOSE p \in PowersOfTwo : p >= n /\ \A q \in PowersOfTwo : q >= n => p <= q

ASSUME ItemAssumption == Undefined \notin Item
ASSUME CapacityAssumption ==
  /\ MinCapacity \in PowersOfTwo
  /\ Capacities \subseteq Nat
  /\ \A c \in Capacities : NextPowerOfTwo(c) \in PowersOfTwo
ASSUME MaxLengthAssumption == MaxLength \in 0..MaxCapacity

VARIABLES cap, buf, head, len, result

vars == <<cap, buf, head, len, result>>

\* The indices that are read, one on either side out of range.
Index == (-1)..MaxLength

Greater(m, n) == IF m > n THEN m ELSE n

\* The values of the variables.  The capacity stays a power of two, which
\* every `& (cap - 1)' takes for granted and only the constructor tests.
TypeOK ==
  /\ cap \in PowersOfTwo
  /\ buf \in [0..(cap - 1) -> Item \cup {Undefined}]
  /\ head \in 0..(cap - 1)
  /\ len \in 0..cap
  /\ result \in Item \cup {Undefined}

Init ==
  /\ \E c \in Capacities : cap = Greater(MinCapacity, NextPowerOfTwo(c))
  /\ buf = [s \in 0..(cap - 1) |-> Undefined]
  /\ head = 0
  /\ len = 0
  /\ result = Undefined

\* The slot of the item at index i.
Slot(i) == (head + i) % cap

At(i) == IF i < 0 \/ i >= len THEN Undefined ELSE buf[Slot(i)]

\* Capacity, slots and head once _grow has been called if the buffer is full:
\* twice the slots, and the items moved to the front.  CapWithHalf is a
\* variant with a defect, one that does not double.
CapWithHalf == IF len = cap THEN cap + cap \div 2 ELSE cap
CapWithRoom == IF len = cap THEN 2 * cap ELSE cap
HeadWithRoom == IF len = cap THEN 0 ELSE head
BufWithRoom ==
  IF len = cap
    THEN [s \in 0..(CapWithRoom - 1) |-> IF s < len THEN At(s) ELSE Undefined]
    ELSE buf

-----------------------------------------------------------------------------
\* Variant with a defect: the slot is computed before the buffer grows.
PushIntoOldSlot(x) ==
  /\ len < MaxLength
  /\ cap' = CapWithRoom
  /\ head' = HeadWithRoom
  /\ buf' = [BufWithRoom EXCEPT ![Slot(len)] = x]
  /\ len' = len + 1
  /\ result' = Undefined

Push(x) ==
  /\ len < MaxLength
  /\ cap' = CapWithRoom
  /\ head' = HeadWithRoom
  /\ buf' = [BufWithRoom EXCEPT ![(HeadWithRoom + len) % CapWithRoom] = x]
  /\ len' = len + 1
  /\ result' = Undefined

Unshift(x) ==
  /\ len < MaxLength
  /\ cap' = CapWithRoom
  /\ head' = (HeadWithRoom - 1) % CapWithRoom
  /\ buf' = [BufWithRoom EXCEPT ![(HeadWithRoom - 1) % CapWithRoom] = x]
  /\ len' = len + 1
  /\ result' = Undefined

Pop ==
  IF len = 0
    THEN result' = Undefined /\ UNCHANGED <<cap, buf, head, len>>
    ELSE /\ result' = buf[Slot(len - 1)]
         /\ buf' = [buf EXCEPT ![Slot(len - 1)] = Undefined]
         /\ len' = len - 1
         /\ UNCHANGED <<cap, head>>

\* Variant with a defect: the slot of the item is not cleared.
ShiftWithoutClearing ==
  IF len = 0
    THEN result' = Undefined /\ UNCHANGED <<cap, buf, head, len>>
    ELSE /\ result' = buf[head]
         /\ head' = (head + 1) % cap
         /\ len' = len - 1
         /\ UNCHANGED <<cap, buf>>

Shift ==
  IF len = 0
    THEN result' = Undefined /\ UNCHANGED <<cap, buf, head, len>>
    ELSE /\ result' = buf[head]
         /\ buf' = [buf EXCEPT ![head] = Undefined]
         /\ head' = (head + 1) % cap
         /\ len' = len - 1
         /\ UNCHANGED cap

Clear ==
  /\ buf' = [s \in 0..(cap - 1) |-> Undefined]
  /\ head' = 0
  /\ len' = 0
  /\ result' = Undefined
  /\ UNCHANGED cap

\* get(index), and peek() for index 0.
Get(i) ==
  /\ result' = At(i)
  /\ UNCHANGED <<cap, buf, head, len>>

Next ==
  \/ \E x \in Item : Push(x) \/ Unshift(x)
  \/ Pop
  \/ Shift
  \/ Clear
  \/ \E i \in Index : Get(i)

Spec == Init /\ [][Next]_vars

-----------------------------------------------------------------------------
\* The items in order, as toArray() returns them.
ToArray == [i \in 1..len |-> At(i - 1)]

\* Whatever the operations, and however often the items were moved by a
\* growth or wrapped around the end, callers see a double-ended queue.
Queue == INSTANCE Deque WITH items <- ToArray, Place <- Index
ImplementsDeque == Queue!Spec

\* A slot holds an item exactly when it is in use: a dropped chunk can be
\* collected and a live one was not overwritten.
Used == {Slot(i) : i \in 0..(len - 1)}
OnlyUsedSlotsHoldItems == \A s \in 0..(cap - 1) : buf[s] \in Item <=> s \in Used
=============================================================================
