--------------------------- MODULE RingBufferProofs ---------------------------
(***************************************************************************)
(* RingBuffer implements Deque, for any items and initial capacities.      *)
(***************************************************************************)
EXTENDS RingBuffer, SequenceTheorems, TLAPS

\* The inductive invariant: the items are where the slots in use are, and
\* nowhere else.  That the capacity is a power of two is not needed for it:
\* it is what makes the slots of the code those of the model.
SlotTypes ==
  /\ cap \in Nat \ {0}
  /\ buf \in [0..(cap - 1) -> Item \cup {Undefined}]
  /\ head \in 0..(cap - 1)
  /\ len \in 0..cap
  /\ result \in Item \cup {Undefined}
IInv == SlotTypes /\ OnlyUsedSlotsHoldItems

-----------------------------------------------------------------------------
\* Doubling is possible below the greatest capacity.
LEMMA PowersDouble ==
  /\ MaxCapacity \in Nat
  /\ PowersOfTwo \subseteq Nat \ {0}
  /\ \A p \in PowersOfTwo : p < MaxCapacity => 2 * p \in PowersOfTwo
  BY SMT DEF PowersOfTwo, MaxCapacity

\* A slot number wraps around at most once.
LEMMA SlotValue ==
  ASSUME SlotTypes
  PROVE  \A i \in 0..(cap - 1) :
           /\ Slot(i) = IF head + i < cap THEN head + i ELSE head + i - cap
           /\ Slot(i) \in 0..(cap - 1)
<1>. SUFFICES ASSUME NEW i \in 0..(cap - 1)
              PROVE  /\ Slot(i) = IF head + i < cap THEN head + i ELSE head + i - cap
                     /\ Slot(i) \in 0..(cap - 1)
  OBVIOUS
<1>1. cap \in Nat \ {0} /\ head \in 0..(cap - 1)
  BY DEF SlotTypes
<1>2. Slot(i) = (head + i) % cap
  BY DEF Slot
<1>. QED
  BY <1>1, <1>2

\* Different indices have different slots.
LEMMA SlotInjective ==
  ASSUME SlotTypes
  PROVE  \A i, j \in 0..(cap - 1) : Slot(i) = Slot(j) => i = j
<1>. SUFFICES ASSUME NEW i \in 0..(cap - 1), NEW j \in 0..(cap - 1),
                     Slot(i) = Slot(j)
              PROVE  i = j
  OBVIOUS
<1>1. cap \in Nat \ {0} /\ head \in 0..(cap - 1)
  BY DEF SlotTypes
<1>2. (head + i) % cap = (head + j) % cap
  BY DEF Slot
<1>3. \A k \in 0..(cap - 1) : (head + k) % cap = head + k \/ (head + k) % cap = head + k - cap
  BY <1>1
<1>4. \/ head + i = head + j
      \/ head + i = head + j - cap
      \/ head + i - cap = head + j
  BY <1>1, <1>2, <1>3
<1>. QED
  BY <1>1, <1>4

\* The items read in order.
LEMMA ArrayProperties ==
  ASSUME IInv
  PROVE  /\ \A i \in 0..(len - 1) : At(i) = buf[Slot(i)] /\ At(i) \in Item
         /\ ToArray \in Seq(Item)
         /\ Len(ToArray) = len
         /\ \A i \in 1..len : ToArray[i] = At(i - 1)
<1>1. cap \in Nat \ {0} /\ head \in 0..(cap - 1) /\ len \in 0..cap
  BY DEF IInv, SlotTypes
<1>2. ASSUME NEW i \in 0..(len - 1) PROVE At(i) = buf[Slot(i)] /\ At(i) \in Item
  <2>1. At(i) = buf[Slot(i)]
    BY <1>1 DEF At
  <2>2. Slot(i) \in Used /\ i \in 0..(cap - 1)
    BY <1>1 DEF Used
  <2>3. Slot(i) \in 0..(cap - 1)
    BY <2>2, SlotValue DEF IInv
  <2>. QED
    BY <2>1, <2>2, <2>3 DEF IInv, OnlyUsedSlotsHoldItems
<1>3. \A i \in 1..len : i - 1 \in 0..(len - 1)
  BY <1>1
<1>4. ToArray \in [1..len -> Item]
  BY <1>2, <1>3 DEF ToArray
<1>5. ToArray \in Seq(Item)
  BY <1>1, <1>4, SeqDef
<1>6. Len(ToArray) = len
  <2>1. DOMAIN ToArray = 1..len
    BY <1>4
  <2>2. DOMAIN ToArray = 1..Len(ToArray) /\ Len(ToArray) \in Nat
    BY <1>5, LenProperties
  <2>. QED
    BY <1>1, <2>1, <2>2
<1>7. \A i \in 1..len : ToArray[i] = At(i - 1)
  BY DEF ToArray
<1>. QED
  BY <1>2, <1>5, <1>6, <1>7

\* What growing yields is a buffer with room that holds the same items.
LEMMA RoomProperties ==
  ASSUME IInv
  PROVE  /\ CapWithRoom \in Nat \ {0} /\ len < CapWithRoom
         /\ HeadWithRoom \in 0..(CapWithRoom - 1)
         /\ BufWithRoom \in [0..(CapWithRoom - 1) -> Item \cup {Undefined}]
         /\ \A i \in 0..(len - 1) : BufWithRoom[(HeadWithRoom + i) % CapWithRoom] = At(i)
         /\ \A s \in 0..(CapWithRoom - 1) :
              BufWithRoom[s] \in Item
                <=> \E i \in 0..(len - 1) : s = (HeadWithRoom + i) % CapWithRoom
<1>1. /\ cap \in Nat \ {0} /\ head \in 0..(cap - 1) /\ len \in 0..cap
      /\ buf \in [0..(cap - 1) -> Item \cup {Undefined}]
  BY DEF IInv, SlotTypes
<1>2. \A i \in 0..(len - 1) : At(i) = buf[Slot(i)] /\ At(i) \in Item
  BY ArrayProperties
<1>3. CASE len = cap
  <2>1. CapWithRoom = 2 * cap /\ HeadWithRoom = 0
    BY <1>3 DEF CapWithRoom, HeadWithRoom
  <2>2. BufWithRoom = [s \in 0..(2 * cap - 1) |-> IF s < len THEN At(s) ELSE Undefined]
    BY <1>3, <2>1 DEF BufWithRoom
  <2>3. BufWithRoom \in [0..(2 * cap - 1) -> Item \cup {Undefined}]
    <3>1. \A s \in 0..(2 * cap - 1) : s < len => At(s) \in Item
      BY <1>1, <1>2
    <3>. QED
      BY <2>2, <3>1
  <2>4. \A i \in 0..(len - 1) : (0 + i) % (2 * cap) = i
    BY <1>1
  <2>5. \A i \in 0..(len - 1) : BufWithRoom[(0 + i) % (2 * cap)] = At(i)
    BY <1>1, <2>2, <2>4
  <2>6. ASSUME NEW s \in 0..(2 * cap - 1)
        PROVE  BufWithRoom[s] \in Item <=> \E i \in 0..(len - 1) : s = (0 + i) % (2 * cap)
    <3>1. BufWithRoom[s] \in Item <=> s < len
      BY <1>1, <1>2, <2>2, ItemAssumption
    <3>2. s < len => s \in 0..(len - 1) /\ s = (0 + s) % (2 * cap)
      BY <1>1, <2>4
    <3>3. \A i \in 0..(len - 1) : s = (0 + i) % (2 * cap) => s < len
      BY <1>1, <2>4
    <3>. QED
      BY <3>1, <3>2, <3>3
  <2>7. 2 * cap \in Nat \ {0} /\ len < 2 * cap /\ 0 \in 0..(2 * cap - 1)
    BY <1>1, <1>3
  <2>. QED
    BY <2>1, <2>3, <2>5, <2>6, <2>7
<1>4. CASE len # cap
  <2>1. CapWithRoom = cap /\ HeadWithRoom = head /\ BufWithRoom = buf
    BY <1>4 DEF CapWithRoom, HeadWithRoom, BufWithRoom
  <2>2. \A i \in 0..(len - 1) : buf[(head + i) % cap] = At(i)
    BY <1>2 DEF Slot
  <2>3. ASSUME NEW s \in 0..(cap - 1)
        PROVE  buf[s] \in Item <=> \E i \in 0..(len - 1) : s = (head + i) % cap
    BY DEF IInv, OnlyUsedSlotsHoldItems, Used, Slot
  <2>. QED
    BY <1>1, <1>4, <2>1, <2>2, <2>3
<1>. QED
  BY <1>3, <1>4

-----------------------------------------------------------------------------
\* Wrapped slots of a buffer of c slots whose first item is in slot h.
LEMMA WrapProperties ==
  ASSUME NEW c \in Nat \ {0}, NEW h \in 0..(c - 1)
  PROVE  /\ \A i \in 0..(c - 1) : (h + i) % c \in 0..(c - 1)
         /\ \A i, j \in 0..(c - 1) : (h + i) % c = (h + j) % c => i = j
<1>1. \A i \in 0..(c - 1) : (h + i) % c = IF h + i < c THEN h + i ELSE h + i - c
  OBVIOUS
<1>2. \A i \in 0..(c - 1) : (h + i) % c \in 0..(c - 1)
  BY <1>1
<1>3. \A k \in 0..(c - 1) : (h + k) % c = h + k \/ (h + k) % c = h + k - c
  BY <1>1
<1>4. ASSUME NEW i \in 0..(c - 1), NEW j \in 0..(c - 1), (h + i) % c = (h + j) % c
      PROVE  i = j
  <2>1. h + i = h + j \/ h + i = h + j - c \/ h + i - c = h + j
    BY <1>3, <1>4
  <2>. QED
    BY <2>1
<1>. QED
  BY <1>2, <1>4

\* Moving the head one slot back or forth renumbers the slots.
LEMMA WrapNeighbours ==
  ASSUME NEW c \in Nat \ {0}, NEW h \in 0..(c - 1)
  PROVE  /\ (h - 1) % c \in 0..(c - 1)
         /\ (((h - 1) % c) + 0) % c = (h - 1) % c
         /\ \A i \in 1..(c - 1) : (((h - 1) % c) + i) % c = (h + (i - 1)) % c
         /\ (h + 1) % c \in 0..(c - 1)
         /\ \A i \in 0..(c - 2) : (((h + 1) % c) + i) % c = (h + (i + 1)) % c
<1>1. (h - 1) % c = IF h = 0 THEN c - 1 ELSE h - 1
  OBVIOUS
<1>2. (h + 1) % c = IF h = c - 1 THEN 0 ELSE h + 1
  OBVIOUS
<1>3. (h - 1) % c \in 0..(c - 1) /\ (h + 1) % c \in 0..(c - 1)
  BY <1>1, <1>2
<1>4. (((h - 1) % c) + 0) % c = (h - 1) % c
  BY <1>3
<1>5. \A i \in 0..(c - 1) : (h + i) % c = IF h + i < c THEN h + i ELSE h + i - c
  OBVIOUS
<1>6. ASSUME NEW i \in 1..(c - 1) PROVE (((h - 1) % c) + i) % c = (h + (i - 1)) % c
  <2>1. CASE h = 0
    <3>1. ((h - 1) % c) + i = c + (i - 1)
      BY <1>1, <2>1
    <3>2. (c + (i - 1)) % c = i - 1
      OBVIOUS
    <3>3. (h + (i - 1)) % c = i - 1
      BY <1>5, <2>1
    <3>. QED
      BY <3>1, <3>2, <3>3
  <2>2. CASE h # 0
    BY <1>1, <2>2
  <2>. QED
    BY <2>1, <2>2
<1>7. ASSUME NEW i \in 0..(c - 2) PROVE (((h + 1) % c) + i) % c = (h + (i + 1)) % c
  <2>1. CASE h = c - 1
    <3>1. ((h + 1) % c) + i = i /\ i % c = i
      BY <1>2, <2>1
    <3>2. (h + (i + 1)) % c = i
      BY <1>5, <2>1
    <3>. QED
      BY <3>1, <3>2
  <2>2. CASE h # c - 1
    BY <1>2, <2>2
  <2>. QED
    BY <2>1, <2>2
<1>. QED
  BY <1>3, <1>4, <1>6, <1>7

\* The n items from slot h of c slots b.
Contents(c, h, n, b) == [i \in 1..n |-> b[(h + (i - 1)) % c]]

LEMMA ContentsProperties ==
  ASSUME NEW c \in Nat \ {0}, NEW h \in 0..(c - 1), NEW n \in 0..c,
         NEW b, \A i \in 0..(n - 1) : b[(h + i) % c] \in Item
  PROVE  /\ Contents(c, h, n, b) \in Seq(Item)
         /\ Len(Contents(c, h, n, b)) = n
         /\ \A i \in 1..n : Contents(c, h, n, b)[i] = b[(h + (i - 1)) % c]
<1>. DEFINE q == Contents(c, h, n, b)
<1>1. n \in Nat /\ \A i \in 1..n : i - 1 \in 0..(n - 1)
  OBVIOUS
<1>2. \A i \in 1..n : b[(h + (i - 1)) % c] \in Item
  BY <1>1
<1>3. q \in [1..n -> Item] /\ \A i \in 1..n : q[i] = b[(h + (i - 1)) % c]
  BY <1>2 DEF Contents
<1>. HIDE DEF q
<1>4. q \in Seq(Item)
  BY <1>1, <1>3, SeqDef
<1>5. DOMAIN q = 1..n
  BY <1>3
<1>6. DOMAIN q = 1..Len(q) /\ Len(q) \in Nat
  BY <1>4, LenProperties
<1>7. Len(q) = n
  BY <1>1, <1>5, <1>6
<1>. QED
  BY <1>3, <1>4, <1>7 DEF q

\* After a step, a buffer whose slots in use are the ones with an item
\* satisfies the invariant, and its slots in order are its items.
LEMMA AfterStep ==
  ASSUME cap' \in Nat \ {0}, head' \in 0..(cap' - 1), len' \in 0..cap',
         buf' \in [0..(cap' - 1) -> Item \cup {Undefined}],
         result' \in Item \cup {Undefined},
         \A s \in 0..(cap' - 1) :
           buf'[s] \in Item <=> \E i \in 0..(len' - 1) : s = (head' + i) % cap'
  PROVE  /\ IInv'
         /\ ToArray' \in Seq(Item)
         /\ Len(ToArray') = len'
         /\ \A i \in 1..len' : ToArray'[i] = buf'[(head' + (i - 1)) % cap']
<1>1. SlotTypes'
  BY DEF SlotTypes
<1>2. OnlyUsedSlotsHoldItems'
  BY DEF OnlyUsedSlotsHoldItems, Used, Slot
<1>3. PICK c \in Nat \ {0}, h \in Int, n \in Nat : c = cap' /\ h = head' /\ n = len'
  OBVIOUS
<1>4. h \in 0..(c - 1) /\ n \in 0..c
  BY <1>3
<1>5. \A i \in 0..(n - 1) : (h + i) % c \in 0..(c - 1)
  BY <1>4
<1>6. \A i \in 0..(n - 1) : buf'[(h + i) % c] \in Item
  BY <1>3, <1>5
<1>7. ToArray' = Contents(c, h, n, buf')
  <2>1. ToArray' = [i \in 1..n |-> IF i - 1 < 0 \/ i - 1 >= n THEN Undefined
                                   ELSE buf'[(h + (i - 1)) % c]]
    BY <1>3 DEF ToArray, At, Slot
  <2>2. \A i \in 1..n : ~(i - 1 < 0 \/ i - 1 >= n)
    BY <1>4
  <2>. QED
    BY <2>1, <2>2 DEF Contents
<1>8. /\ Contents(c, h, n, buf') \in Seq(Item)
      /\ Len(Contents(c, h, n, buf')) = n
      /\ \A i \in 1..n : Contents(c, h, n, buf')[i] = buf'[(h + (i - 1)) % c]
  BY <1>4, <1>6, ContentsProperties
<1>. QED
  BY <1>1, <1>2, <1>3, <1>7, <1>8 DEF IInv

\* push() adds the item after the last one.
LEMMA PushStep ==
  ASSUME IInv, NEW x \in Item, Push(x)
  PROVE  IInv' /\ Queue!Push(x)
<1>. DEFINE n == (HeadWithRoom + len) % CapWithRoom
<1>1. /\ CapWithRoom \in Nat \ {0} /\ len < CapWithRoom
      /\ HeadWithRoom \in 0..(CapWithRoom - 1)
      /\ BufWithRoom \in [0..(CapWithRoom - 1) -> Item \cup {Undefined}]
      /\ \A i \in 0..(len - 1) : BufWithRoom[(HeadWithRoom + i) % CapWithRoom] = At(i)
      /\ \A s \in 0..(CapWithRoom - 1) :
           BufWithRoom[s] \in Item
             <=> \E i \in 0..(len - 1) : s = (HeadWithRoom + i) % CapWithRoom
  BY RoomProperties
<1>2. /\ cap' = CapWithRoom /\ head' = HeadWithRoom /\ len' = len + 1
      /\ buf' = [BufWithRoom EXCEPT ![n] = x] /\ result' = Undefined
  BY DEF Push
<1>3. len \in Nat /\ \A i \in 0..len : i \in 0..(cap' - 1)
  BY <1>1, <1>2 DEF IInv, SlotTypes
<1>4. /\ \A i \in 0..(cap' - 1) : (head' + i) % cap' \in 0..(cap' - 1)
      /\ \A i, j \in 0..(cap' - 1) : (head' + i) % cap' = (head' + j) % cap' => i = j
  <2>1. PICK c \in Nat \ {0} : c = cap'
    BY <1>1, <1>2
  <2>2. PICK h \in 0..(c - 1) : h = head'
    BY <1>1, <1>2, <2>1
  <2>3. /\ \A i \in 0..(c - 1) : (h + i) % c \in 0..(c - 1)
        /\ \A i, j \in 0..(c - 1) : (h + i) % c = (h + j) % c => i = j
    BY WrapProperties
  <2>. QED
    BY <2>1, <2>2, <2>3
<1>5. n \in 0..(cap' - 1) /\ n = (head' + len) % cap'
  BY <1>2, <1>3, <1>4
<1>. HIDE DEF n
<1>6. buf' \in [0..(cap' - 1) -> Item \cup {Undefined}]
  BY <1>1, <1>2, <1>5
<1>7. \A s \in 0..(cap' - 1) : buf'[s] = IF s = n THEN x ELSE BufWithRoom[s]
  BY <1>1, <1>2
<1>8. \A i \in 0..(len - 1) : (head' + i) % cap' # n
  <2>1. \A i \in 0..(len - 1) : i \in 0..(cap' - 1) /\ i # len
    BY <1>3
  <2>2. len \in 0..(cap' - 1)
    BY <1>3
  <2>. QED
    BY <1>4, <1>5, <2>1, <2>2
<1>9. ASSUME NEW s \in 0..(cap' - 1)
      PROVE  buf'[s] \in Item <=> \E i \in 0..(len' - 1) : s = (head' + i) % cap'
  <2>1. 0..(len' - 1) = 0..(len - 1) \cup {len}
    BY <1>2, <1>3
  <2>2. CASE s = n
    BY <1>5, <1>7, <2>1, <2>2
  <2>3. CASE s # n
    BY <1>1, <1>2, <1>5, <1>7, <2>1, <2>3
  <2>. QED
    BY <2>2, <2>3
<1>10. /\ IInv'
       /\ ToArray' \in Seq(Item)
       /\ Len(ToArray') = len'
       /\ \A i \in 1..len' : ToArray'[i] = buf'[(head' + (i - 1)) % cap']
  <2>1. cap' \in Nat \ {0} /\ head' \in 0..(cap' - 1) /\ len' \in 0..cap'
    BY <1>1, <1>2, <1>3
  <2>2. result' \in Item \cup {Undefined}
    BY <1>2
  <2>. QED
    BY <1>6, <1>9, <2>1, <2>2, AfterStep
<1>11. /\ ToArray \in Seq(Item) /\ Len(ToArray) = len
       /\ \A i \in 1..len : ToArray[i] = At(i - 1)
  BY ArrayProperties
<1>12. /\ Append(ToArray, x) \in Seq(Item)
       /\ Len(Append(ToArray, x)) = len + 1
       /\ \A i \in 1..len : Append(ToArray, x)[i] = ToArray[i]
       /\ Append(ToArray, x)[len + 1] = x
  BY <1>11, AppendProperties
<1>13. ASSUME NEW i \in 1..len' PROVE ToArray'[i] = Append(ToArray, x)[i]
  <2>1. CASE i = len + 1
    <3>1. i - 1 = len
      BY <1>3, <2>1
    <3>2. ToArray'[i] = buf'[n]
      BY <1>5, <1>10, <3>1
    <3>. QED
      BY <1>5, <1>7, <1>12, <2>1, <3>2
  <2>2. CASE i # len + 1
    <3>1. i \in 1..len /\ i - 1 \in 0..(len - 1) /\ i - 1 \in 0..(cap' - 1)
      BY <1>2, <1>3, <2>2
    <3>2. ToArray'[i] = BufWithRoom[(head' + (i - 1)) % cap']
      BY <1>4, <1>7, <1>8, <1>10, <3>1
    <3>3. BufWithRoom[(head' + (i - 1)) % cap'] = At(i - 1)
      BY <1>1, <1>2, <3>1
    <3>. QED
      BY <1>11, <1>12, <3>1, <3>2, <3>3
  <2>. QED
    BY <2>1, <2>2
<1>14. ToArray' = Append(ToArray, x)
  BY <1>2, <1>10, <1>12, <1>13, SeqEqual
<1>. QED
  BY <1>2, <1>10, <1>14 DEF Queue!Push
\* unshift() adds the item before the first one.
LEMMA UnshiftStep ==
  ASSUME IInv, NEW x \in Item, Unshift(x)
  PROVE  IInv' /\ Queue!Unshift(x)
<1>1. /\ CapWithRoom \in Nat \ {0} /\ len < CapWithRoom
      /\ HeadWithRoom \in 0..(CapWithRoom - 1)
      /\ BufWithRoom \in [0..(CapWithRoom - 1) -> Item \cup {Undefined}]
      /\ \A i \in 0..(len - 1) : BufWithRoom[(HeadWithRoom + i) % CapWithRoom] = At(i)
      /\ \A s \in 0..(CapWithRoom - 1) :
           BufWithRoom[s] \in Item
             <=> \E i \in 0..(len - 1) : s = (HeadWithRoom + i) % CapWithRoom
  BY RoomProperties
<1>2. PICK c \in Nat \ {0} : c = CapWithRoom
  BY <1>1
<1>3. PICK h \in 0..(c - 1) : h = HeadWithRoom
  BY <1>1, <1>2
<1>4. PICK g \in 0..(c - 1) : g = (h - 1) % c
  BY WrapNeighbours
<1>5. /\ cap' = c /\ head' = g /\ len' = len + 1
      /\ buf' = [BufWithRoom EXCEPT ![g] = x] /\ result' = Undefined
  BY <1>2, <1>3, <1>4 DEF Unshift
<1>6. len \in Nat /\ len < c
  BY <1>1, <1>2 DEF IInv, SlotTypes
<1>7. /\ (g + 0) % c = g
      /\ \A i \in 1..(c - 1) : (g + i) % c = (h + (i - 1)) % c
  BY <1>4, WrapNeighbours
<1>8. /\ \A i \in 0..(c - 1) : (g + i) % c \in 0..(c - 1)
      /\ \A i, j \in 0..(c - 1) : (g + i) % c = (g + j) % c => i = j
  BY WrapProperties
<1>9. \A s \in 0..(c - 1) : buf'[s] = IF s = g THEN x ELSE BufWithRoom[s]
  BY <1>1, <1>2, <1>5
<1>10. buf' \in [0..(c - 1) -> Item \cup {Undefined}]
  BY <1>1, <1>2, <1>5
<1>11. \A i \in 1..len : (g + i) % c # g
  <2>1. \A i \in 1..len : i \in 0..(c - 1) /\ i # 0
    BY <1>6
  <2>2. 0 \in 0..(c - 1)
    BY <1>6
  <2>. QED
    BY <1>7, <1>8, <2>1, <2>2
<1>12. ASSUME NEW s \in 0..(c - 1)
       PROVE  buf'[s] \in Item <=> \E i \in 0..(len' - 1) : s = (g + i) % c
  <2>1. 0..(len' - 1) = {0} \cup 1..len
    BY <1>5, <1>6
  <2>2. CASE s = g
    BY <1>7, <1>9, <2>1, <2>2
  <2>3. CASE s # g
    <3>1. buf'[s] \in Item <=> \E i \in 0..(len - 1) : s = (h + i) % c
      BY <1>1, <1>2, <1>3, <1>9, <2>3
    <3>2. \A i \in 1..len : i - 1 \in 0..(len - 1) /\ i \in 1..(c - 1)
      BY <1>6
    <3>3. \A i \in 0..(len - 1) : i + 1 \in 1..len /\ i = (i + 1) - 1
      BY <1>6
    <3>4. (\E i \in 0..(len - 1) : s = (h + i) % c) <=> \E i \in 1..len : s = (g + i) % c
      <4>1. \A i \in 1..len : (g + i) % c = (h + (i - 1)) % c
        BY <1>7, <3>2
      <4>2. ASSUME NEW i \in 0..(len - 1), s = (h + i) % c
            PROVE  \E j \in 1..len : s = (g + j) % c
        <5>1. PICK j \in 1..len : i = j - 1
          BY <3>3
        <5>2. (g + j) % c = (h + i) % c
          BY <4>1, <5>1
        <5>. QED
          BY <4>2, <5>2
      <4>3. ASSUME NEW i \in 1..len, s = (g + i) % c
            PROVE  \E j \in 0..(len - 1) : s = (h + j) % c
        <5>1. PICK j \in 0..(len - 1) : j = i - 1
          BY <3>2
        <5>2. (g + i) % c = (h + j) % c
          BY <4>1, <5>1
        <5>. QED
          BY <4>3, <5>2
      <4>. QED
        BY <4>2, <4>3
    <3>. QED
      BY <1>7, <2>1, <2>3, <3>1, <3>4
  <2>. QED
    BY <2>2, <2>3
<1>13. /\ IInv'
       /\ ToArray' \in Seq(Item)
       /\ Len(ToArray') = len'
       /\ \A i \in 1..len' : ToArray'[i] = buf'[(g + (i - 1)) % c]
  <2>1. cap' \in Nat \ {0} /\ head' \in 0..(cap' - 1) /\ len' \in 0..cap'
    BY <1>5, <1>6
  <2>2. result' \in Item \cup {Undefined}
    BY <1>5
  <2>. QED
    BY <1>5, <1>10, <1>12, <2>1, <2>2, AfterStep
<1>14. /\ ToArray \in Seq(Item) /\ Len(ToArray) = len
       /\ \A i \in 1..len : ToArray[i] = At(i - 1)
  BY ArrayProperties
<1>15. <<x>> \in Seq(Item) /\ Len(<<x>>) = 1 /\ <<x>>[1] = x
  OBVIOUS
<1>16. /\ <<x>> \o ToArray \in Seq(Item)
       /\ Len(<<x>> \o ToArray) = 1 + len
       /\ \A i \in 1..(1 + len) :
            (<<x>> \o ToArray)[i] = IF i <= 1 THEN <<x>>[i] ELSE ToArray[i - 1]
  BY <1>14, <1>15, ConcatProperties
<1>17. ASSUME NEW i \in 1..len' PROVE ToArray'[i] = (<<x>> \o ToArray)[i]
  <2>0. i \in 1..(1 + len)
    BY <1>5, <1>6
  <2>1. CASE i = 1
    <3>1. ToArray'[i] = buf'[g]
      BY <1>7, <1>13, <2>1
    <3>. QED
      BY <1>9, <1>15, <1>16, <2>0, <2>1, <3>1
  <2>2. CASE i # 1
    <3>1. PICK k \in 1..len : k = i - 1
      BY <1>6, <2>0, <2>2
    <3>2. k \in 0..(c - 1) /\ k \in 1..(c - 1) /\ k - 1 \in 0..(len - 1)
      BY <1>6
    <3>3. ToArray'[i] = BufWithRoom[(g + k) % c]
      BY <1>8, <1>9, <1>11, <1>13, <3>1, <3>2
    <3>4. ToArray'[i] = At(k - 1)
      BY <1>1, <1>2, <1>3, <1>7, <3>2, <3>3
    <3>5. ~(i <= 1)
      BY <2>0, <2>2
    <3>. QED
      BY <1>14, <1>16, <2>0, <3>1, <3>4, <3>5
  <2>. QED
    BY <2>1, <2>2
<1>18. Len(ToArray') = Len(<<x>> \o ToArray)
  BY <1>5, <1>6, <1>13, <1>16
<1>19. ToArray' = <<x>> \o ToArray
  BY <1>13, <1>16, <1>17, <1>18, SeqEqual
<1>. QED
  BY <1>5, <1>13, <1>19 DEF Queue!Unshift
\* Between steps the items are in the slots in use.
LEMMA BeforeStep ==
  ASSUME IInv
  PROVE  /\ cap \in Nat \ {0} /\ head \in 0..(cap - 1) /\ len \in 0..cap
         /\ buf \in [0..(cap - 1) -> Item \cup {Undefined}]
         /\ \A s \in 0..(cap - 1) :
              buf[s] \in Item <=> \E i \in 0..(len - 1) : s = (head + i) % cap
         /\ \A i \in 1..len : ToArray[i] = buf[(head + (i - 1)) % cap]
         /\ ToArray = <<>> <=> len = 0
<1>1. /\ cap \in Nat \ {0} /\ head \in 0..(cap - 1) /\ len \in 0..cap
      /\ buf \in [0..(cap - 1) -> Item \cup {Undefined}]
  BY DEF IInv, SlotTypes
<1>2. \A s \in 0..(cap - 1) :
        buf[s] \in Item <=> \E i \in 0..(len - 1) : s = (head + i) % cap
  BY DEF IInv, OnlyUsedSlotsHoldItems, Used, Slot
<1>3. /\ \A i \in 0..(len - 1) : At(i) = buf[Slot(i)]
      /\ ToArray \in Seq(Item) /\ Len(ToArray) = len
      /\ \A i \in 1..len : ToArray[i] = At(i - 1)
  BY ArrayProperties
<1>4. \A i \in 1..len : ToArray[i] = buf[(head + (i - 1)) % cap]
  <2>1. \A i \in 1..len : i - 1 \in 0..(len - 1)
    BY <1>1
  <2>. QED
    BY <1>3, <2>1 DEF Slot
<1>5. ToArray = <<>> <=> len = 0
  BY <1>3, EmptySeq
<1>. QED
  BY <1>1, <1>2, <1>4, <1>5

\* A step that leaves the buffer alone.
LEMMA ReadStep ==
  ASSUME IInv, UNCHANGED <<cap, buf, head, len>>, result' \in Item \cup {Undefined}
  PROVE  IInv' /\ ToArray' = ToArray
<1>1. IInv'
  BY DEF IInv, SlotTypes, OnlyUsedSlotsHoldItems, Used, Slot
<1>. QED
  BY <1>1 DEF ToArray, At, Slot

\* pop() takes the last item, if there is one.
LEMMA PopStep ==
  ASSUME IInv, Pop
  PROVE  IInv' /\ Queue!Pop
<1>1. /\ cap \in Nat \ {0} /\ head \in 0..(cap - 1) /\ len \in 0..cap
      /\ buf \in [0..(cap - 1) -> Item \cup {Undefined}]
      /\ \A s \in 0..(cap - 1) :
           buf[s] \in Item <=> \E i \in 0..(len - 1) : s = (head + i) % cap
      /\ \A i \in 1..len : ToArray[i] = buf[(head + (i - 1)) % cap]
      /\ ToArray = <<>> <=> len = 0
  BY BeforeStep
<1>2. /\ ToArray \in Seq(Item) /\ Len(ToArray) = len
  BY ArrayProperties
<1>3. CASE len = 0
  <2>1. UNCHANGED <<cap, buf, head, len>> /\ result' = Undefined
    BY <1>3 DEF Pop
  <2>2. IInv' /\ ToArray' = ToArray
    BY <2>1, ReadStep
  <2>. QED
    BY <1>1, <1>3, <2>1, <2>2 DEF Queue!Pop
<1>4. CASE len # 0
  <2>1. PICK n \in Nat : n = len - 1
    BY <1>1, <1>4
  <2>2. PICK t : t = (head + n) % cap
    OBVIOUS
  <2>3. /\ cap' = cap /\ head' = head /\ len' = n
        /\ buf' = [buf EXCEPT ![t] = Undefined] /\ result' = buf[t]
    BY <1>4, <2>1, <2>2 DEF Pop, Slot
  <2>4. /\ \A i \in 0..(cap - 1) : (head + i) % cap \in 0..(cap - 1)
        /\ \A i, j \in 0..(cap - 1) : (head + i) % cap = (head + j) % cap => i = j
    <3>1. cap \in Nat \ {0} /\ head \in 0..(cap - 1)
      BY <1>1
    <3>. QED
      BY <3>1, WrapProperties
  <2>5. n \in 0..(cap - 1) /\ n + 1 = len
    BY <1>1, <2>1
  <2>6. t \in 0..(cap - 1)
    BY <2>2, <2>4, <2>5
  <2>7. \A s \in 0..(cap - 1) : buf'[s] = IF s = t THEN Undefined ELSE buf[s]
    BY <1>1, <2>3
  <2>8. \A i \in 0..(n - 1) : i \in 0..(cap - 1) /\ (head + i) % cap # t
    <3>1. \A i \in 0..(n - 1) : i \in 0..(cap - 1) /\ i # n
      BY <1>1, <2>5
    <3>. QED
      BY <2>2, <2>4, <2>5, <3>1
  <2>9. ASSUME NEW s \in 0..(cap - 1)
        PROVE  buf'[s] \in Item <=> \E i \in 0..(n - 1) : s = (head + i) % cap
    <3>1. 0..(len - 1) = 0..(n - 1) \cup {n}
      BY <2>1, <2>5
    <3>2. CASE s = t
      BY <2>7, <2>8, <3>2, ItemAssumption
    <3>3. CASE s # t
      BY <1>1, <2>2, <2>7, <3>1, <3>3
    <3>. QED
      BY <3>2, <3>3
  <2>10. /\ buf' \in [0..(cap - 1) -> Item \cup {Undefined}]
         /\ buf[t] \in Item \cup {Undefined}
    BY <1>1, <2>3, <2>6
  <2>11. /\ IInv'
         /\ ToArray' \in Seq(Item)
         /\ Len(ToArray') = n
         /\ \A i \in 1..n : ToArray'[i] = buf'[(head + (i - 1)) % cap]
    <3>1. cap' \in Nat \ {0} /\ head' \in 0..(cap' - 1) /\ len' \in 0..cap'
      BY <1>1, <2>3, <2>5
    <3>2. result' \in Item \cup {Undefined}
      BY <2>3, <2>10
    <3>. QED
      BY <2>3, <2>9, <2>10, <3>1, <3>2, AfterStep
  <2>12. /\ SubSeq(ToArray, 1, n) \in Seq(Item)
         /\ Len(SubSeq(ToArray, 1, n)) = n
         /\ \A i \in 1..n : SubSeq(ToArray, 1, n)[i] = ToArray[i]
    <3>1. \A i \in 1..n : ToArray[i] \in Item
      BY <1>2, <2>5, ElementOfSeq
    <3>2. /\ SubSeq(ToArray, 1, n) \in Seq(Item)
          /\ Len(SubSeq(ToArray, 1, n)) = IF 1 <= n THEN n - 1 + 1 ELSE 0
          /\ \A i \in 1..(n - 1 + 1) : SubSeq(ToArray, 1, n)[i] = ToArray[1 + i - 1]
      BY <3>1, SubSeqProperties
    <3>. QED
      BY <3>2
  <2>13. ASSUME NEW i \in 1..n PROVE ToArray'[i] = SubSeq(ToArray, 1, n)[i]
    <3>1. i - 1 \in 0..(n - 1) /\ i \in 1..len
      BY <2>1, <2>5
    <3>2. buf'[(head + (i - 1)) % cap] = buf[(head + (i - 1)) % cap]
      BY <2>4, <2>7, <2>8, <3>1
    <3>. QED
      BY <1>1, <2>11, <2>12, <3>1, <3>2
  <2>14. ToArray' = SubSeq(ToArray, 1, n)
    BY <2>11, <2>12, <2>13, SeqEqual
  <2>15. result' = ToArray[Len(ToArray)]
    <3>1. len \in 1..len /\ len - 1 = n
      BY <1>1, <2>1, <2>5
    <3>. QED
      BY <1>1, <1>2, <2>2, <2>3, <3>1
  <2>16. ToArray # <<>> /\ Len(ToArray) - 1 = n
    BY <1>1, <1>2, <1>4, <2>1
  <2>. QED
    BY <2>11, <2>14, <2>15, <2>16 DEF Queue!Pop
<1>. QED
  BY <1>3, <1>4

\* shift() takes the first item, if there is one.
LEMMA ShiftStep ==
  ASSUME IInv, Shift
  PROVE  IInv' /\ Queue!Shift
<1>1. /\ cap \in Nat \ {0} /\ head \in 0..(cap - 1) /\ len \in 0..cap
      /\ buf \in [0..(cap - 1) -> Item \cup {Undefined}]
      /\ \A s \in 0..(cap - 1) :
           buf[s] \in Item <=> \E i \in 0..(len - 1) : s = (head + i) % cap
      /\ \A i \in 1..len : ToArray[i] = buf[(head + (i - 1)) % cap]
      /\ ToArray = <<>> <=> len = 0
  BY BeforeStep
<1>2. /\ ToArray \in Seq(Item) /\ Len(ToArray) = len
  BY ArrayProperties
<1>3. CASE len = 0
  <2>1. UNCHANGED <<cap, buf, head, len>> /\ result' = Undefined
    BY <1>3 DEF Shift
  <2>2. IInv' /\ ToArray' = ToArray
    BY <2>1, ReadStep
  <2>. QED
    BY <1>1, <1>3, <2>1, <2>2 DEF Queue!Shift
<1>4. CASE len # 0
  <2>1. PICK n \in Nat : n = len - 1
    BY <1>1, <1>4
  <2>2. PICK g \in 0..(cap - 1) : g = (head + 1) % cap
    BY <1>1, WrapNeighbours
  <2>3. /\ cap' = cap /\ head' = g /\ len' = n
        /\ buf' = [buf EXCEPT ![head] = Undefined] /\ result' = buf[head]
    BY <1>4, <2>1, <2>2 DEF Shift
  <2>4. n \in 0..(cap - 1) /\ n + 1 = len
    BY <1>1, <2>1
  <2>5. /\ \A i \in 0..(cap - 1) : (head + i) % cap \in 0..(cap - 1)
        /\ \A i, j \in 0..(cap - 1) : (head + i) % cap = (head + j) % cap => i = j
    <3>1. cap \in Nat \ {0} /\ head \in 0..(cap - 1)
      BY <1>1
    <3>. QED
      BY <3>1, WrapProperties
  <2>6. \A i \in 0..(cap - 2) : (g + i) % cap = (head + (i + 1)) % cap
    <3>1. cap \in Nat \ {0} /\ head \in 0..(cap - 1)
      BY <1>1
    <3>. QED
      BY <2>2, <3>1, WrapNeighbours
  <2>7. (head + 0) % cap = head
    BY <1>1
  <2>8. \A s \in 0..(cap - 1) : buf'[s] = IF s = head THEN Undefined ELSE buf[s]
    BY <1>1, <2>3
  <2>9. ASSUME NEW i \in 0..(n - 1)
        PROVE  /\ i + 1 \in 1..(len - 1) /\ i + 1 \in 0..(cap - 1)
               /\ (g + i) % cap = (head + (i + 1)) % cap
               /\ (g + i) % cap \in 0..(cap - 1)
               /\ (g + i) % cap # head
    <3>1. i \in 0..(cap - 2) /\ i + 1 \in 1..(len - 1) /\ i + 1 \in 0..(cap - 1)
      BY <1>1, <2>4
    <3>2. 0 \in 0..(cap - 1) /\ i + 1 # 0
      BY <1>1, <3>1
    <3>. QED
      BY <2>5, <2>6, <2>7, <3>1, <3>2
  <2>10. ASSUME NEW s \in 0..(cap - 1)
         PROVE  buf'[s] \in Item <=> \E i \in 0..(n - 1) : s = (g + i) % cap
    <3>1. CASE s = head
      BY <2>8, <2>9, <3>1, ItemAssumption
    <3>2. CASE s # head
      <4>1. buf'[s] \in Item <=> \E i \in 0..(len - 1) : s = (head + i) % cap
        BY <1>1, <2>8, <3>2
      <4>2. ASSUME NEW i \in 0..(len - 1), s = (head + i) % cap
            PROVE  \E k \in 0..(n - 1) : s = (g + k) % cap
        <5>1. i # 0
          BY <2>7, <3>2, <4>2
        <5>2. PICK k \in 0..(n - 1) : i = k + 1
          BY <2>4, <5>1
        <5>. QED
          BY <2>9, <4>2, <5>2
      <4>3. ASSUME NEW k \in 0..(n - 1), s = (g + k) % cap
            PROVE  \E i \in 0..(len - 1) : s = (head + i) % cap
        <5>1. k + 1 \in 0..(len - 1)
          BY <2>4
        <5>. QED
          BY <2>9, <4>3, <5>1
      <4>. QED
        BY <4>1, <4>2, <4>3
    <3>. QED
      BY <3>1, <3>2
  <2>11. /\ buf' \in [0..(cap - 1) -> Item \cup {Undefined}]
         /\ buf[head] \in Item \cup {Undefined}
    BY <1>1, <2>3
  <2>12. /\ IInv'
         /\ ToArray' \in Seq(Item)
         /\ Len(ToArray') = n
         /\ \A i \in 1..n : ToArray'[i] = buf'[(g + (i - 1)) % cap]
    <3>1. cap' \in Nat \ {0} /\ head' \in 0..(cap' - 1) /\ len' \in 0..cap'
      BY <1>1, <2>3, <2>4
    <3>2. result' \in Item \cup {Undefined}
      BY <2>3, <2>11
    <3>. QED
      BY <2>3, <2>10, <2>11, <3>1, <3>2, AfterStep
  <2>13. ToArray # <<>>
    BY <1>1, <1>4
  <2>14. /\ Tail(ToArray) \in Seq(Item)
         /\ Len(Tail(ToArray)) = n
         /\ \A i \in 1..n : Tail(ToArray)[i] = ToArray[i + 1]
    <3>1. /\ Tail(ToArray) \in Seq(Item)
          /\ Len(Tail(ToArray)) = Len(ToArray) - 1
          /\ \A i \in 1..Len(Tail(ToArray)) : Tail(ToArray)[i] = ToArray[i + 1]
      BY <1>2, <2>13, HeadTailProperties
    <3>. QED
      BY <1>2, <2>1, <3>1
  <2>15. ASSUME NEW i \in 1..n PROVE ToArray'[i] = Tail(ToArray)[i]
    <3>1. PICK k \in 0..(n - 1) : k = i - 1
      BY <2>4
    <3>2. k + 1 = i /\ i + 1 \in 1..len /\ (i + 1) - 1 = i
      BY <2>4, <3>1
    <3>3. ToArray'[i] = buf[(head + i) % cap]
      BY <2>8, <2>9, <2>12, <3>1, <3>2
    <3>4. ToArray[i + 1] = buf[(head + i) % cap]
      BY <1>1, <3>2
    <3>. QED
      BY <2>14, <3>3, <3>4
  <2>16. ToArray' = Tail(ToArray)
    BY <2>12, <2>14, <2>15, SeqEqual
  <2>17. result' = Head(ToArray)
    <3>1. 1 \in 1..len
      BY <1>1, <1>4
    <3>2. ToArray[1] = buf[head]
      BY <1>1, <2>7, <3>1
    <3>. QED
      BY <2>3, <3>2
  <2>. QED
    BY <2>12, <2>13, <2>16, <2>17 DEF Queue!Shift
<1>. QED
  BY <1>3, <1>4

\* clear() drops every item.
LEMMA ClearStep ==
  ASSUME IInv, Clear
  PROVE  IInv' /\ Queue!Clear
<1>1. cap \in Nat \ {0}
  BY DEF IInv, SlotTypes
<1>2. /\ cap' = cap /\ head' = 0 /\ len' = 0 /\ result' = Undefined
      /\ buf' = [s \in 0..(cap - 1) |-> Undefined]
  BY DEF Clear
<1>3. cap' \in Nat \ {0} /\ head' \in 0..(cap' - 1) /\ len' \in 0..cap'
  BY <1>1, <1>2
<1>4. /\ buf' \in [0..(cap' - 1) -> Item \cup {Undefined}]
      /\ result' \in Item \cup {Undefined}
  BY <1>2
<1>5. ASSUME NEW s \in 0..(cap' - 1)
      PROVE  buf'[s] \in Item <=> \E i \in 0..(len' - 1) : s = (head' + i) % cap'
  BY <1>1, <1>2, ItemAssumption
<1>6. IInv' /\ ToArray' \in Seq(Item) /\ Len(ToArray') = len'
  BY <1>3, <1>4, <1>5, AfterStep
<1>7. ToArray' = <<>>
  BY <1>2, <1>6, EmptySeq
<1>. QED
  BY <1>2, <1>6, <1>7 DEF Queue!Clear

\* get() and peek() read an item.
LEMMA GetStep ==
  ASSUME IInv, NEW i \in Index, Get(i)
  PROVE  IInv' /\ Queue!Get(i)
<1>1. /\ cap \in Nat \ {0} /\ len \in 0..cap
  BY DEF IInv, SlotTypes
<1>2. /\ \A k \in 0..(len - 1) : At(k) \in Item
      /\ Len(ToArray) = len
      /\ \A k \in 1..len : ToArray[k] = At(k - 1)
  BY ArrayProperties
<1>3. i \in Int
  BY MaxLengthAssumption DEF Index
<1>4. At(i) = IF i \in 0..(Len(ToArray) - 1) THEN ToArray[i + 1] ELSE Undefined
  <2>1. CASE i \in 0..(len - 1)
    <3>1. i + 1 \in 1..len /\ (i + 1) - 1 = i
      BY <1>1, <2>1
    <3>. QED
      BY <1>2, <2>1, <3>1
  <2>2. CASE i \notin 0..(len - 1)
    <3>1. i < 0 \/ i >= len
      BY <1>1, <1>3, <2>2
    <3>. QED
      BY <1>2, <2>2, <3>1 DEF At
  <2>. QED
    BY <2>1, <2>2
<1>5. At(i) \in Item \cup {Undefined}
  <2>1. i \in 0..(len - 1) \/ i < 0 \/ i >= len
    BY <1>1, <1>3
  <2>. QED
    BY <1>2, <2>1 DEF At
<1>6. result' = At(i) /\ UNCHANGED <<cap, buf, head, len>>
  BY DEF Get
<1>7. IInv' /\ ToArray' = ToArray
  BY <1>5, <1>6, ReadStep
<1>. QED
  BY <1>4, <1>6, <1>7 DEF Queue!Get
-----------------------------------------------------------------------------
LEMMA InitIInv == Init => IInv /\ Queue!Init
<1>. SUFFICES ASSUME Init PROVE IInv /\ Queue!Init
  OBVIOUS
<1>1. PICK c \in Capacities : cap = Greater(MinCapacity, NextPowerOfTwo(c))
  BY DEF Init
<1>2. cap \in Nat \ {0}
  BY <1>1, CapacityAssumption, PowersDouble DEF Greater
<1>3. /\ head = 0 /\ len = 0 /\ result = Undefined
      /\ buf = [s \in 0..(cap - 1) |-> Undefined]
  BY DEF Init
<1>4. SlotTypes
  BY <1>2, <1>3 DEF SlotTypes
<1>5. OnlyUsedSlotsHoldItems
  <2>1. Used = {}
    BY <1>3 DEF Used
  <2>. QED
    BY <1>3, <2>1, ItemAssumption DEF OnlyUsedSlotsHoldItems
<1>6. IInv
  BY <1>4, <1>5 DEF IInv
<1>7. ToArray = <<>>
  BY <1>3, <1>6, BeforeStep
<1>. QED
  BY <1>3, <1>6, <1>7 DEF Queue!Init

LEMMA NextIInv == IInv /\ [Next]_vars => IInv' /\ [Queue!Next]_(Queue!vars)
<1>. SUFFICES ASSUME IInv, [Next]_vars
              PROVE  IInv' /\ [Queue!Next]_(Queue!vars)
  OBVIOUS
<1>1. ASSUME NEW x \in Item, Push(x) PROVE IInv' /\ Queue!Next
  BY <1>1, PushStep DEF Queue!Next
<1>2. ASSUME NEW x \in Item, Unshift(x) PROVE IInv' /\ Queue!Next
  BY <1>2, UnshiftStep DEF Queue!Next
<1>3. CASE Pop
  BY <1>3, PopStep DEF Queue!Next
<1>4. CASE Shift
  BY <1>4, ShiftStep DEF Queue!Next
<1>5. CASE Clear
  BY <1>5, ClearStep DEF Queue!Next
<1>6. ASSUME NEW i \in Index, Get(i) PROVE IInv' /\ Queue!Next
  BY <1>6, GetStep DEF Queue!Next
<1>7. CASE UNCHANGED vars
  <2>1. UNCHANGED <<cap, buf, head, len>> /\ result' = result
    BY <1>7 DEF vars
  <2>2. result' \in Item \cup {Undefined}
    BY <2>1 DEF IInv, SlotTypes
  <2>. QED
    BY <2>1, <2>2, ReadStep DEF Queue!vars
<1>. QED
  BY <1>1, <1>2, <1>3, <1>4, <1>5, <1>6, <1>7 DEF Next

\* A buffer that grows is full, and never holds more than MaxLength items.
LEMMA CapacityStep ==
  ASSUME SlotTypes, len = cap => cap < MaxCapacity, cap \in PowersOfTwo
  PROVE  CapWithRoom \in PowersOfTwo
  BY PowersDouble DEF CapWithRoom, SlotTypes

\* Whatever the capacity asked for and however often it doubles, it is a power
\* of two, up to 2^30: `& (cap - 1)' computes the slot that is meant.
THEOREM TypeCorrect == Spec => []TypeOK
<1>. DEFINE CapInv == cap \in PowersOfTwo
<1>1. Init => IInv /\ CapInv
  BY InitIInv, CapacityAssumption DEF Init, Greater
<1>2. IInv /\ CapInv /\ [Next]_vars => IInv' /\ CapInv'
  <2>. SUFFICES ASSUME IInv, CapInv, [Next]_vars PROVE CapInv'
    BY NextIInv
  <2>1. ASSUME NEW x \in Item, Push(x) \/ Unshift(x) PROVE CapInv'
    <3>1. cap' = CapWithRoom /\ len < MaxLength
      BY <2>1 DEF Push, Unshift
    <3>2. len = cap => cap < MaxCapacity
      BY <3>1, MaxLengthAssumption, PowersDouble DEF IInv, SlotTypes
    <3>. QED
      BY <3>1, <3>2, CapacityStep DEF IInv
  <2>2. CASE cap' = cap
    BY <2>2
  <2>. QED
    BY <2>1, <2>2 DEF Next, vars, Pop, Shift, Clear, Get
<1>3. IInv /\ CapInv => TypeOK
  BY DEF IInv, SlotTypes, TypeOK
<1>. HIDE DEF CapInv
<1>. QED
  BY <1>1, <1>2, <1>3, PTL DEF Spec

\* A slot holds an item exactly when it is in use: shift() and pop() leave
\* nothing behind, and push(), unshift() and a growth overwrite nothing.
THEOREM UsedSlotsHoldTheItems == Spec => []OnlyUsedSlotsHoldItems
<1>1. Init => IInv
  BY InitIInv
<1>2. IInv /\ [Next]_vars => IInv'
  BY NextIInv
<1>3. IInv => OnlyUsedSlotsHoldItems
  BY DEF IInv
<1>. QED
  BY <1>1, <1>2, <1>3, PTL DEF Spec

\* Whatever the growths and wraps, the operations are those of a
\* double-ended queue.
THEOREM RingBufferImplementsDeque == Spec => ImplementsDeque
<1>1. Init => IInv /\ Queue!Init
  BY InitIInv
<1>2. IInv /\ [Next]_vars => IInv' /\ [Queue!Next]_(Queue!vars)
  BY NextIInv
<1>. QED
  BY <1>1, <1>2, PTL DEF Spec, ImplementsDeque, Queue!Spec
=============================================================================
