-------------------------------- MODULE Deque --------------------------------
(***************************************************************************)
(* A double-ended queue: what RingBuffer promises to its callers.          *)
(***************************************************************************)
EXTENDS Integers, Sequences

CONSTANTS Item,       \* what a queue can hold
          Undefined,  \* what an operation returns when there is no item
          Place       \* the places that are read, some of them empty

VARIABLES items,      \* the queue
          result      \* what the last operation returned

vars == <<items, result>>

TypeOK == items \in Seq(Item) /\ result \in Item \cup {Undefined}

Init == items = <<>> /\ result = Undefined

Push(x) == items' = Append(items, x) /\ result' = Undefined

Unshift(x) == items' = <<x>> \o items /\ result' = Undefined

Pop ==
  IF items = <<>>
    THEN items' = items /\ result' = Undefined
    ELSE /\ items' = SubSeq(items, 1, Len(items) - 1)
         /\ result' = items[Len(items)]

Shift ==
  IF items = <<>>
    THEN items' = items /\ result' = Undefined
    ELSE items' = Tail(items) /\ result' = Head(items)

Clear == items' = <<>> /\ result' = Undefined

\* Reads the item at a place counted from 0.
Get(i) ==
  /\ items' = items
  /\ result' = IF i \in 0..(Len(items) - 1) THEN items[i + 1] ELSE Undefined

Next ==
  \/ \E x \in Item : Push(x) \/ Unshift(x)
  \/ Pop
  \/ Shift
  \/ Clear
  \/ \E i \in Place : Get(i)

Spec == Init /\ [][Next]_vars
=============================================================================
