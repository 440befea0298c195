------------------------------ MODULE QueueOps ------------------------------
(***************************************************************************)
(* The fixed-length circular queue of pointers of sources/queue.h, as      *)
(* operators on a record with the fields of struct Queue.  The server uses *)
(* it for the accepted connections (server.c) and for the handles of the   *)
(* thread pool (threads.h).                                                *)
(*                                                                         *)
(* front, rear and size are int and capacity is unsigned in the code.  A   *)
(* capacity of at least 1 that fits an int keeps every value below it, so  *)
(* plain integers are exact; n_threads is rejected when it is 0            *)
(* (server.c:87).                                                          *)
(***************************************************************************)
EXTENDS Integers, Sequences

CONSTANTS Null,     \* the NULL that dequeue() returns on failure
          Garbage   \* the content of an array slot malloc() returned and
                    \* nobody has written

-----------------------------------------------------------------------------

CreateQueue(capacity) ==
  [front    |-> 0,
   size     |-> 0,
   rear     |-> capacity - 1,
   capacity |-> capacity,
   array    |-> [i \in 0 .. capacity - 1 |-> Garbage]]

(* The "% queue->capacity" that keeps front and rear inside the array.      *)
Wrap(i, capacity) == i % capacity

IsFull(q) == q.size = q.capacity

IsEmpty(q) == q.size = 0

(***************************************************************************)
(* enqueue() and dequeue() change the queue and return a value: one        *)
(* operator for the queue they leave, one for the value they return.       *)
(***************************************************************************)
Put(q, item) ==
  LET rear == Wrap(q.rear + 1, q.capacity)
  IN  [q EXCEPT !.rear = rear, !.array[rear] = item, !.size = @ + 1]

PutNoWrap(q, item) ==                        \* mutant: the rear never wraps
  LET rear == IF q.rear + 1 = q.capacity THEN q.rear ELSE q.rear + 1
  IN  [q EXCEPT !.rear = rear, !.array[rear] = item, !.size = @ + 1]

EnqueueNoWrap(q, item) == IF IsFull(q) THEN q ELSE PutNoWrap(q, item)

Enqueue(q, item) == IF IsFull(q) THEN q ELSE Put(q, item)

EnqueueResult(q) == IF IsFull(q) THEN -1 ELSE 0

DequeueKeepsSize(q) ==                       \* mutant: size is not reduced
  IF IsEmpty(q) THEN q
  ELSE [q EXCEPT !.front = Wrap(@ + 1, q.capacity)]

Dequeue(q) ==
  IF IsEmpty(q) THEN q
  ELSE [q EXCEPT !.front = Wrap(@ + 1, q.capacity), !.size = @ - 1]

DequeueResultAtRear(q) ==                    \* mutant: the newest item
  IF IsEmpty(q) THEN Null ELSE q.array[q.rear]

DequeueResult(q) == IF IsEmpty(q) THEN Null ELSE q.array[q.front]

-----------------------------------------------------------------------------
(***************************************************************************)
(* What the queue means: its items from the oldest to the newest, and the  *)
(* shape in which front, rear and size must stay for it to mean that.      *)
(***************************************************************************)
Slot(q, i) == Wrap(q.front + (i - 1), q.capacity)

Contents(q) == [i \in 1 .. q.size |-> q.array[Slot(q, i)]]

QueueType(Item, capacity) ==
  [front    : 0 .. capacity - 1,
   size     : 0 .. capacity,
   rear     : 0 .. capacity - 1,
   capacity : {capacity},
   array    : [0 .. capacity - 1 -> Item \cup {Garbage}]]

(* rear is the slot of the newest item: size - 1 slots after front.        *)
RearFollowsFront(q) ==
  IF q.front + q.size = 0 THEN q.rear = q.capacity - 1
  ELSE q.rear = Wrap(q.front + q.size - 1, q.capacity)

(* Every slot between front and rear was written by enqueue().             *)
ItemsWritten(q, Item) == \A i \in 1 .. q.size : q.array[Slot(q, i)] \in Item

WellFormed(q, Item, capacity) ==
  /\ q \in QueueType(Item, capacity)
  /\ RearFollowsFront(q)
  /\ ItemsWritten(q, Item)
=============================================================================
