-------------------------------- MODULE Fifo --------------------------------
(***************************************************************************)
(* What sources/queue.h promises its callers, without the array: a first-  *)
(* in first-out queue of at most Capacity items whose operations report    *)
(* failure (-1, NULL) instead of blocking, and change nothing when they    *)
(* fail.                                                                   *)
(***************************************************************************)
EXTENDS Integers, Sequences

CONSTANTS Item,       \* the pointers that are stored
          Capacity,   \* the length of the array
          Null        \* the NULL of a failed dequeue()

VARIABLES items,      \* the stored items, the oldest first
          ret         \* what the last call returned

vars == <<items, ret>>

Init == items = <<>> /\ ret = 0

EnqueueItem(x) ==
  \/ /\ Len(items) < Capacity
     /\ items' = Append(items, x)
     /\ ret' = 0
  \/ /\ Len(items) = Capacity
     /\ ret' = -1
     /\ UNCHANGED items

DequeueItem ==
  \/ /\ items # <<>>
     /\ ret' = Head(items)
     /\ items' = Tail(items)
  \/ /\ items = <<>>
     /\ ret' = Null
     /\ UNCHANGED items

Next == DequeueItem \/ \E x \in Item : EnqueueItem(x)

Spec == Init /\ [][Next]_vars
=============================================================================
