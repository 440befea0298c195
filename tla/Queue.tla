------------------------------- MODULE Queue --------------------------------
(***************************************************************************)
(* struct Queue of sources/queue.h used by one caller at a time, which is  *)
(* what the callers' critical section gives it: any sequence of enqueue()  *)
(* and dequeue() calls on a queue fresh from createQueue().                *)
(***************************************************************************)
EXTENDS QueueOps

CONSTANTS Item,       \* the pointers that are stored
          Places      \* the capacity given to createQueue()

ASSUME QueueAssumption ==
  /\ Places \in Nat \ {0}
  /\ Null \notin Item /\ Garbage \notin Item /\ Null # Garbage

VARIABLES fifo,       \* the struct Queue
          ret         \* what the last call returned

queueVars == <<fifo, ret>>

QueueInit ==
  /\ fifo = CreateQueue(Places)
  /\ ret = 0

EnqueueCall(x) ==
  /\ fifo' = Enqueue(fifo, x)
  /\ ret' = EnqueueResult(fifo)

DequeueCall ==
  /\ fifo' = Dequeue(fifo)
  /\ ret' = DequeueResult(fifo)

QueueNext == DequeueCall \/ \E x \in Item : EnqueueCall(x)

QueueSpec == QueueInit /\ [][QueueNext]_queueVars

-----------------------------------------------------------------------------
(* The fields keep the ranges the code relies on, and no call returns the  *)
(* content of a slot nobody wrote.                                         *)
QueueTypeOK ==
  /\ fifo \in QueueType(Item, Places)
  /\ ret \in Item \cup {Null, 0, -1}

(* front, rear and size of struct Queue stay consistent across any number  *)
(* of wrap-arounds: rear is always the slot size - 1 places after front,   *)
(* and every slot between them holds an item that was enqueued.            *)
Consistent == RearFollowsFront(fifo) /\ ItemsWritten(fifo, Item)

(* The array implements the bounded FIFO: every enqueue() and dequeue()    *)
(* returns what the abstract queue returns, in the order of insertion.     *)
Promised == INSTANCE Fifo WITH items <- Contents(fifo), Capacity <- Places

ImplementsFifo == Promised!Spec
=============================================================================
