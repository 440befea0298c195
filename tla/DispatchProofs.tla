--------------------------- MODULE DispatchProofs ---------------------------
(***************************************************************************)
(* Theorems about the queue of connections, from the array of              *)
(* sources/queue.h to the hand-off of Dispatch, for every number of        *)
(* workers, descriptors, places of the queue and items, and for every set  *)
(* of failing calls unless a theorem says otherwise.                       *)
(***************************************************************************)
EXTENDS Dispatch, Queue, FiniteSetTheorems, SequenceTheorems, TLAPS

-----------------------------------------------------------------------------
(* The operators of QueueOps, for every capacity and every set of items:   *)
(* the queue stays well formed, and on Contents enqueue() is Append and    *)
(* dequeue() is Head and Tail.                                             *)

(* An index below twice the capacity wraps at most once: what the          *)
(* % queue->capacity of enqueue() and dequeue() computes.                  *)
LEMMA WrapOnce ==
  ASSUME NEW c \in Nat \ {0}, NEW x \in 0 .. (2 * c - 1)
  PROVE  /\ Wrap(x, c) = IF x < c THEN x ELSE x - c
         /\ Wrap(x, c) \in 0 .. c - 1
<1>1. CASE x < c
  BY <1>1 DEF Wrap
<1>2. CASE x >= c
  BY <1>2 DEF Wrap
<1> QED
  BY <1>1, <1>2

(* The slots of the stored items are inside the array and distinct.        *)
LEMMA SlotRange ==
  ASSUME NEW Elem, NEW c \in Nat \ {0}, NEW q \in QueueType(Elem, c),
         NEW i \in 1 .. c
  PROVE  /\ Slot(q, i) = IF q.front + (i - 1) < c THEN q.front + (i - 1)
                         ELSE q.front + (i - 1) - c
         /\ Slot(q, i) \in 0 .. c - 1
<1>1. q.front \in 0 .. c - 1 /\ q.capacity = c
  BY DEF QueueType
<1>2. q.front + (i - 1) \in 0 .. (2 * c - 1)
  BY <1>1
<1> QED
  BY <1>1, <1>2, WrapOnce DEF Slot

(* The items a well-formed queue stores form a sequence of length size.    *)
LEMMA ContentsIsSeq ==
  ASSUME NEW Elem, NEW c \in Nat \ {0}, NEW q, WellFormed(q, Elem, c)
  PROVE  /\ Contents(q) \in Seq(Elem)
         /\ Len(Contents(q)) = q.size
         /\ \A i \in 1 .. q.size : Contents(q)[i] = q.array[Slot(q, i)]
<1>1. q.size \in Nat
  BY DEF WellFormed, QueueType
<1>2. Contents(q) \in [1 .. q.size -> Elem]
  BY DEF WellFormed, ItemsWritten, Contents
<1> QED
  BY <1>1, <1>2 DEF Contents

(* A fresh queue is well formed and empty.                                 *)
LEMMA CreateQueueFacts ==
  ASSUME NEW Elem, NEW c \in Nat \ {0}
  PROVE  /\ WellFormed(CreateQueue(c), Elem, c)
         /\ Contents(CreateQueue(c)) = << >>
<1> DEFINE q == CreateQueue(c)
<1>1. q \in QueueType(Elem, c)
  BY DEF CreateQueue, QueueType
<1>2. RearFollowsFront(q) /\ ItemsWritten(q, Elem)
  BY DEF CreateQueue, RearFollowsFront, ItemsWritten
<1>3. Contents(q) = << >>
  BY DEF CreateQueue, Contents
<1> QED
  BY <1>1, <1>2, <1>3 DEF WellFormed

(* The arithmetic of enqueue(): with n items from slot f on, the slot after *)
(* the rear is the slot of item n + 1, and none of the n slots is that one. *)
LEMMA AdvanceRear ==
  ASSUME NEW c \in Nat \ {0}, NEW f \in 0 .. c - 1, NEW n \in 0 .. c - 1,
         NEW r \in 0 .. c - 1,
         IF f + n = 0 THEN r = c - 1 ELSE r = Wrap(f + n - 1, c)
  PROVE  /\ Wrap(r + 1, c) = Wrap(f + n, c)
         /\ Wrap(r + 1, c) \in 0 .. c - 1
         /\ \A i \in 1 .. n : /\ Wrap(f + (i - 1), c) # Wrap(f + n, c)
                              /\ Wrap(f + (i - 1), c) \in 0 .. c - 1
<1>1. /\ r + 1 \in 0 .. (2 * c - 1) /\ f + n \in 0 .. (2 * c - 1)
      /\ \A i \in 1 .. n : f + (i - 1) \in 0 .. (2 * c - 1)
  OBVIOUS
<1>2. /\ Wrap(r + 1, c) = IF r + 1 < c THEN r + 1 ELSE r + 1 - c
      /\ Wrap(f + n, c) = IF f + n < c THEN f + n ELSE f + n - c
      /\ Wrap(r + 1, c) \in 0 .. c - 1
  BY <1>1, WrapOnce
<1>3. Wrap(r + 1, c) = Wrap(f + n, c)
  <2>1. CASE f + n = 0
    BY <2>1, <1>2
  <2>2. CASE f + n # 0
    <3>1. f + n - 1 \in 0 .. (2 * c - 1)
      BY <2>2
    <3>2. r = IF f + n - 1 < c THEN f + n - 1 ELSE f + n - 1 - c
      BY <2>2, <3>1, WrapOnce
    <3> QED
      BY <3>2, <1>2
  <2> QED
    BY <2>1, <2>2
<1>4. ASSUME NEW i \in 1 .. n
      PROVE  /\ Wrap(f + (i - 1), c) # Wrap(f + n, c)
             /\ Wrap(f + (i - 1), c) \in 0 .. c - 1
  <2>1. /\ Wrap(f + (i - 1), c)
            = IF f + (i - 1) < c THEN f + (i - 1) ELSE f + (i - 1) - c
        /\ Wrap(f + (i - 1), c) \in 0 .. c - 1
    BY <1>1, WrapOnce
  <2> QED
    BY <2>1, <1>2
<1> QED
  BY <1>2, <1>3, <1>4

(* The arithmetic of dequeue(): moving front one slot on keeps rear the     *)
(* slot of the last of the n - 1 items left, and their slots.              *)
LEMMA AdvanceFront ==
  ASSUME NEW c \in Nat \ {0}, NEW f \in 0 .. c - 1, NEW n \in 1 .. c,
         NEW g, g = Wrap(f + 1, c)
  PROVE  /\ g \in 0 .. c - 1
         /\ IF g + (n - 1) = 0 THEN Wrap(f + n - 1, c) = c - 1
            ELSE Wrap(f + n - 1, c) = Wrap(g + (n - 1) - 1, c)
         /\ \A i \in 1 .. n - 1 : Wrap(g + (i - 1), c) = Wrap(f + i, c)
<1>1. CASE f + 1 < c
  <2>1. f + 1 \in 0 .. (2 * c - 1)
    BY <1>1
  <2>2. g = f + 1
    BY <1>1, <2>1, WrapOnce
  <2>3. g + (n - 1) = f + n /\ f + n # 0 /\ g + (n - 1) - 1 = f + n - 1
    BY <2>2
  <2>4. \A i \in 1 .. n - 1 : g + (i - 1) = f + i
    BY <2>2
  <2>5. \A i \in 1 .. n - 1 : Wrap(g + (i - 1), c) = Wrap(f + i, c)
    BY <2>4
  <2> QED
    BY <1>1, <2>2, <2>3, <2>5
<1>2. CASE f + 1 = c
  <2>1. f + 1 \in 0 .. (2 * c - 1) /\ f + n - 1 \in 0 .. (2 * c - 1)
    BY <1>2
  <2>2. g = 0
    BY <1>2, <2>1, WrapOnce
  <2>3. Wrap(f + n - 1, c) = IF n = 1 THEN c - 1 ELSE n - 2
    <3>1. Wrap(f + n - 1, c) = IF f + n - 1 < c THEN f + n - 1 ELSE f + n - 1 - c
      BY <2>1, WrapOnce
    <3> QED
      BY <3>1, <1>2
  <2>4. n # 1 => Wrap(n - 2, c) = n - 2
    <3>1. n # 1 => n - 2 \in 0 .. (2 * c - 1)
      OBVIOUS
    <3> QED
      BY <3>1, WrapOnce
  <2>5. ASSUME NEW i \in 1 .. n - 1
        PROVE  Wrap(i - 1, c) = Wrap(f + i, c)
    <3>1. i - 1 \in 0 .. (2 * c - 1) /\ f + i \in 0 .. (2 * c - 1)
      BY <1>2
    <3>2. Wrap(i - 1, c) = IF i - 1 < c THEN i - 1 ELSE i - 1 - c
      BY <3>1, WrapOnce
    <3>3. Wrap(f + i, c) = IF f + i < c THEN f + i ELSE f + i - c
      BY <3>1, WrapOnce
    <3> QED
      BY <3>2, <3>3, <1>2
  <2>6. g + (n - 1) - 1 = n - 2 /\ g + (n - 1) = n - 1
    BY <2>2
  <2>7. \A i \in 1 .. n - 1 : g + (i - 1) = i - 1
    BY <2>2
  <2> QED
    BY <2>2, <2>3, <2>4, <2>5, <2>6, <2>7
<1> QED
  BY <1>1, <1>2

(* The fields of a queue of the right type, as numbers.                    *)
LEMMA QueueFields ==
  ASSUME NEW Elem, NEW c \in Nat \ {0}, NEW q \in QueueType(Elem, c)
  PROVE  \E f \in 0 .. c - 1, n \in 0 .. c, r \in 0 .. c - 1,
            a \in [0 .. c - 1 -> Elem \cup {Garbage}] :
           q = [front |-> f, size |-> n, rear |-> r, capacity |-> c, array |-> a]
BY DEF QueueType

(* enqueue() on a queue that is not full adds the item after the others.   *)
LEMMA EnqueueFacts ==
  ASSUME NEW Elem, NEW c \in Nat \ {0}, NEW q, NEW x \in Elem,
         WellFormed(q, Elem, c), ~IsFull(q)
  PROVE  /\ WellFormed(Enqueue(q, x), Elem, c)
         /\ Enqueue(q, x).size = q.size + 1
         /\ \A i \in 1 .. q.size : Contents(Enqueue(q, x))[i] = Contents(q)[i]
         /\ Contents(Enqueue(q, x))[q.size + 1] = x
<1>1. PICK f \in 0 .. c - 1, n \in 0 .. c, r \in 0 .. c - 1,
           a \in [0 .. c - 1 -> Elem \cup {Garbage}] :
        q = [front |-> f, size |-> n, rear |-> r, capacity |-> c, array |-> a]
  BY QueueFields DEF WellFormed
<1> DEFINE r1 == Wrap(r + 1, c)
           q1 == [front |-> f, size |-> n + 1, rear |-> r1, capacity |-> c,
                  array |-> [a EXCEPT ![r1] = x]]
<1>2. Enqueue(q, x) = q1
  BY <1>1 DEF Enqueue, Put
<1>3. n \in 0 .. c - 1
  BY <1>1 DEF IsFull
<1>4. /\ r1 = Wrap(f + n, c)
      /\ r1 \in 0 .. c - 1
      /\ \A i \in 1 .. n : /\ Wrap(f + (i - 1), c) # r1
                           /\ Wrap(f + (i - 1), c) \in 0 .. c - 1
  <2>1. IF f + n = 0 THEN r = c - 1 ELSE r = Wrap(f + n - 1, c)
    BY <1>1 DEF WellFormed, RearFollowsFront
  <2>2. /\ Wrap(r + 1, c) = Wrap(f + n, c)
        /\ Wrap(r + 1, c) \in 0 .. c - 1
        /\ \A i \in 1 .. n : /\ Wrap(f + (i - 1), c) # Wrap(f + n, c)
                             /\ Wrap(f + (i - 1), c) \in 0 .. c - 1
    BY <2>1, <1>3, AdvanceRear
  <2> QED
    BY <2>2
<1> HIDE DEF r1
<1>5. /\ \A i \in 1 .. n + 1 : Slot(q1, i) = Wrap(f + (i - 1), c)
      /\ \A i \in 1 .. n : Slot(q, i) = Wrap(f + (i - 1), c)
  BY <1>1 DEF Slot
<1>6. Slot(q1, n + 1) = r1
  <2>1. n + 1 \in 1 .. n + 1 /\ f + ((n + 1) - 1) = f + n
    OBVIOUS
  <2> QED
    BY <2>1, <1>4, <1>5
<1>7. /\ \A i \in 1 .. n : q1.array[Slot(q1, i)] = q.array[Slot(q, i)]
      /\ q1.array[Slot(q1, n + 1)] = x
  <2>1. q1.array = [a EXCEPT ![r1] = x] /\ q.array = a
    BY <1>1
  <2> HIDE DEF q1
  <2>2. ASSUME NEW i \in 1 .. n
        PROVE  /\ Slot(q1, i) = Slot(q, i) /\ Slot(q, i) # r1
               /\ Slot(q, i) \in 0 .. c - 1
    <3>1. i \in 1 .. n + 1
      OBVIOUS
    <3>2. Slot(q1, i) = Wrap(f + (i - 1), c) /\ Slot(q, i) = Wrap(f + (i - 1), c)
      BY <1>5, <3>1
    <3> QED
      BY <1>4, <3>2
  <2> QED
    BY <2>1, <2>2, <1>4, <1>6
<1>8. WellFormed(q1, Elem, c)
  <2>1. q1 \in QueueType(Elem, c)
    BY <1>3, <1>4 DEF QueueType
  <2>2. RearFollowsFront(q1)
    <3>1. f + (n + 1) # 0 /\ f + (n + 1) - 1 = f + n
      OBVIOUS
    <3> QED
      BY <3>1, <1>4 DEF RearFollowsFront
  <2>3. ItemsWritten(q1, Elem)
    <3>1. \A i \in 1 .. n : q.array[Slot(q, i)] \in Elem
      BY <1>1 DEF WellFormed, ItemsWritten
    <3>2. q1.size = n + 1 /\ \A i \in 1 .. n + 1 : i \in 1 .. n \/ i = n + 1
      OBVIOUS
    <3> HIDE DEF q1
    <3> QED
      BY <1>7, <3>1, <3>2 DEF ItemsWritten
  <2> QED
    BY <2>1, <2>2, <2>3 DEF WellFormed
<1>9. /\ \A i \in 1 .. n : Contents(q1)[i] = Contents(q)[i]
      /\ Contents(q1)[n + 1] = x
  <2>1. q.size = n /\ q1.size = n + 1
    BY <1>1
  <2> HIDE DEF q1
  <2>2. \A i \in 1 .. n : Contents(q)[i] = q.array[Slot(q, i)]
    <3>1. \A i \in 1 .. q.size : Contents(q)[i] = q.array[Slot(q, i)]
      BY ContentsIsSeq
    <3> QED
      BY <2>1, <3>1
  <2>3. \A i \in 1 .. n + 1 : Contents(q1)[i] = q1.array[Slot(q1, i)]
    BY <1>8, <2>1, ContentsIsSeq
  <2>4. n + 1 \in 1 .. n + 1 /\ \A i \in 1 .. n : i \in 1 .. n + 1
    OBVIOUS
  <2> QED
    BY <1>7, <2>2, <2>3, <2>4
<1>10. q.size = n /\ q1.size = n + 1
  BY <1>1
<1> HIDE DEF q1
<1> QED
  BY <1>2, <1>8, <1>9, <1>10

(* enqueue() is Append on the items.                                       *)
LEMMA EnqueueAppends ==
  ASSUME NEW Elem, NEW c \in Nat \ {0}, NEW q, NEW x \in Elem,
         WellFormed(q, Elem, c), ~IsFull(q)
  PROVE  Contents(Enqueue(q, x)) = Append(Contents(q), x)
<1> DEFINE q1 == Enqueue(q, x)
           n  == q.size
<1>1. WellFormed(q1, Elem, c) /\ q1.size = n + 1
  <2>1. WellFormed(q1, Elem, c)
    BY EnqueueFacts
  <2>2. q.size \in Nat
    BY DEF WellFormed, QueueType
  <2>3. q1.size = n + 1
    BY <2>2 DEF Enqueue, Put, WellFormed, QueueType
  <2> QED
    BY <2>1, <2>3
<1>2. /\ \A i \in 1 .. n : Contents(q1)[i] = Contents(q)[i]
      /\ Contents(q1)[n + 1] = x
  <2>1. /\ \A i \in 1 .. q.size : Contents(Enqueue(q, x))[i] = Contents(q)[i]
        /\ Contents(Enqueue(q, x))[q.size + 1] = x
    BY EnqueueFacts
  <2> QED
    BY <2>1
<1>3. n \in Nat
  BY DEF WellFormed, QueueType
<1>4. Contents(q) \in Seq(Elem) /\ Len(Contents(q)) = n
  BY ContentsIsSeq
<1> HIDE DEF q1, n
<1>5. Contents(q1) \in Seq(Elem) /\ Len(Contents(q1)) = n + 1
  BY <1>1, ContentsIsSeq
<1>6. /\ Append(Contents(q), x) \in Seq(Elem)
      /\ Len(Append(Contents(q), x)) = n + 1
      /\ \A i \in 1 .. n : Append(Contents(q), x)[i] = Contents(q)[i]
      /\ Append(Contents(q), x)[n + 1] = x
  BY <1>4, AppendProperties
<1>7. \A i \in 1 .. n + 1 : i \in 1 .. n \/ i = n + 1
  BY <1>3
<1>8. \A i \in 1 .. n + 1 : Contents(q1)[i] = Append(Contents(q), x)[i]
  BY <1>2, <1>6, <1>7
<1>9. Contents(q1) = Append(Contents(q), x)
  BY <1>5, <1>6, <1>8, SeqEqual
<1> QED
  BY <1>9 DEF q1

(* dequeue() on a queue that is not empty removes the oldest item and      *)
(* returns it.                                                             *)
LEMMA DequeueFacts ==
  ASSUME NEW Elem, NEW c \in Nat \ {0}, NEW q, WellFormed(q, Elem, c),
         ~IsEmpty(q)
  PROVE  /\ WellFormed(Dequeue(q), Elem, c)
         /\ Contents(q) # << >>
         /\ Contents(Dequeue(q)) = Tail(Contents(q))
         /\ DequeueResult(q) = Head(Contents(q))
         /\ DequeueResult(q) \in Elem
<1>1. PICK f \in 0 .. c - 1, n \in 0 .. c, r \in 0 .. c - 1,
           a \in [0 .. c - 1 -> Elem \cup {Garbage}] :
        q = [front |-> f, size |-> n, rear |-> r, capacity |-> c, array |-> a]
  BY QueueFields DEF WellFormed
<1> DEFINE g  == Wrap(f + 1, c)
           q1 == [front |-> g, size |-> n - 1, rear |-> r, capacity |-> c,
                  array |-> a]
<1>2. Dequeue(q) = q1
  BY <1>1 DEF Dequeue, IsEmpty
<1>3. n \in 1 .. c
  BY <1>1 DEF IsEmpty
<1>4. /\ g \in 0 .. c - 1
      /\ IF g + (n - 1) = 0 THEN r = c - 1 ELSE r = Wrap(g + (n - 1) - 1, c)
      /\ \A i \in 1 .. n - 1 : Wrap(g + (i - 1), c) = Wrap(f + i, c)
  <2>1. r = Wrap(f + n - 1, c)
    BY <1>1, <1>3 DEF WellFormed, RearFollowsFront
  <2>2. g = Wrap(f + 1, c)
    OBVIOUS
  <2> HIDE DEF g
  <2> QED
    BY <2>1, <2>2, <1>3, AdvanceFront
<1> HIDE DEF g
<1>5. /\ \A i \in 1 .. n - 1 : Slot(q1, i) = Wrap(g + (i - 1), c)
      /\ \A i \in 1 .. n - 1 : Slot(q, i + 1) = Wrap(f + i, c)
      /\ Slot(q, 1) = f
  <2>1. \A i \in 1 .. n - 1 : f + ((i + 1) - 1) = f + i
    OBVIOUS
  <2>2. Wrap(f + (1 - 1), c) = f
    <3>1. f + (1 - 1) = f /\ f \in 0 .. (2 * c - 1) /\ f < c
      OBVIOUS
    <3> QED
      BY <3>1, WrapOnce
  <2> QED
    BY <1>1, <2>1, <2>2 DEF Slot
<1>6. \A i \in 1 .. n - 1 : Slot(q1, i) = Slot(q, i + 1)
  BY <1>4, <1>5
<1>7. WellFormed(q1, Elem, c)
  <2>1. q1 \in QueueType(Elem, c)
    BY <1>3, <1>4 DEF QueueType
  <2>2. RearFollowsFront(q1)
    BY <1>4 DEF RearFollowsFront
  <2>3. ItemsWritten(q1, Elem)
    <3>1. \A i \in 1 .. n : q.array[Slot(q, i)] \in Elem
      BY <1>1 DEF WellFormed, ItemsWritten
    <3>2. \A i \in 1 .. n - 1 : i + 1 \in 1 .. n
      OBVIOUS
    <3> QED
      BY <1>1, <1>6, <3>1, <3>2 DEF ItemsWritten
  <2> QED
    BY <2>1, <2>2, <2>3 DEF WellFormed
<1>8. /\ Contents(q) \in Seq(Elem) /\ Len(Contents(q)) = n
      /\ \A i \in 1 .. n : Contents(q)[i] = q.array[Slot(q, i)]
  <2>1. q.size = n
    BY <1>1
  <2> HIDE DEF q1
  <2>2. /\ Contents(q) \in Seq(Elem) /\ Len(Contents(q)) = q.size
        /\ \A i \in 1 .. q.size : Contents(q)[i] = q.array[Slot(q, i)]
    <3>1. WellFormed(q, Elem, c)
      OBVIOUS
    <3> QED
      BY ONLY <3>1, ContentsIsSeq, c \in Nat \ {0}
  <2> QED
    BY <2>1, <2>2
<1>9. Contents(q) # << >>
  BY <1>3, <1>8
<1>10. Contents(q1) = Tail(Contents(q))
  <2>1. q1.size = n - 1 /\ q1.array = q.array
    BY <1>1
  <2> HIDE DEF q1
  <2>2. /\ Contents(q1) \in Seq(Elem) /\ Len(Contents(q1)) = n - 1
        /\ \A i \in 1 .. n - 1 : Contents(q1)[i] = q.array[Slot(q1, i)]
    BY <2>1, <1>7, ContentsIsSeq
  <2>3. /\ Tail(Contents(q)) \in Seq(Elem)
        /\ Len(Tail(Contents(q))) = n - 1
        /\ \A i \in 1 .. n - 1 : Tail(Contents(q))[i] = Contents(q)[i + 1]
    BY <1>8, <1>9, HeadTailProperties
  <2>4. \A i \in 1 .. n - 1 : i + 1 \in 1 .. n
    OBVIOUS
  <2>5. \A i \in 1 .. n - 1 : Contents(q1)[i] = Tail(Contents(q))[i]
    BY <2>2, <2>3, <2>4, <1>6, <1>8
  <2> QED
    BY <2>2, <2>3, <2>5, SeqEqual
<1>11. DequeueResult(q) = Head(Contents(q)) /\ DequeueResult(q) \in Elem
  <2>1. Contents(q)[1] = a[f] /\ Contents(q)[1] \in Elem
    BY <1>1, <1>3, <1>5, <1>8 DEF WellFormed, ItemsWritten
  <2> QED
    BY <2>1, <1>1, <1>3, <1>8, <1>9 DEF DequeueResult, IsEmpty
<1> QED
  BY <1>2, <1>7, <1>9, <1>10, <1>11

-----------------------------------------------------------------------------
(* The queue: it is a bounded first-in first-out queue, for every capacity *)
(* and every set of items.                                                 *)

(* The inductive invariant: the queue is well formed.                      *)
QueueInv ==
  /\ WellFormed(fifo, Item, Places)
  /\ ret \in Item \cup {Null, 0, -1}

(* A fresh queue is well formed, and represents the empty abstract queue.  *)
LEMMA QueueInitLemma == QueueInit => QueueInv /\ Promised!Init
<1> SUFFICES ASSUME QueueInit PROVE QueueInv /\ Promised!Init
  OBVIOUS
<1>1. /\ WellFormed(CreateQueue(Places), Item, Places)
      /\ Contents(CreateQueue(Places)) = << >>
  BY QueueAssumption, CreateQueueFacts
<1> QED
  BY <1>1 DEF QueueInit, QueueInv, Promised!Init

(* Every enqueue() keeps the queue well formed and is a call of the        *)
(* abstract queue.                                                         *)
LEMMA EnqueueLemma ==
  ASSUME QueueInv, NEW x \in Item, EnqueueCall(x)
  PROVE  QueueInv' /\ Promised!EnqueueItem(x)
<1>1. /\ Contents(fifo) \in Seq(Item) /\ Len(Contents(fifo)) = fifo.size
      /\ fifo.size \in 0 .. Places /\ fifo.capacity = Places
  BY QueueAssumption, ContentsIsSeq DEF QueueInv, WellFormed, QueueType
<1>2. CASE IsFull(fifo)
  <2>1. fifo' = fifo /\ ret' = -1
    BY <1>2 DEF EnqueueCall, Enqueue, EnqueueResult
  <2>2. Len(Contents(fifo)) = Places
    BY <1>1, <1>2 DEF IsFull
  <2> QED
    BY <2>1, <2>2 DEF QueueInv, Promised!EnqueueItem
<1>3. CASE ~IsFull(fifo)
  <2>1. /\ WellFormed(fifo', Item, Places)
        /\ Contents(fifo') = Append(Contents(fifo), x)
    <3>1. WellFormed(fifo, Item, Places) /\ fifo' = Enqueue(fifo, x)
      BY DEF QueueInv, EnqueueCall
    <3>2. WellFormed(Enqueue(fifo, x), Item, Places)
      BY <1>3, <3>1, QueueAssumption, EnqueueFacts
    <3>3. Contents(Enqueue(fifo, x)) = Append(Contents(fifo), x)
      BY <1>3, <3>1, QueueAssumption, EnqueueAppends
    <3> QED
      BY <3>1, <3>2, <3>3
  <2>2. ret' = 0
    BY <1>3 DEF EnqueueCall, EnqueueResult
  <2>3. Len(Contents(fifo)) < Places
    BY <1>1, <1>3, QueueAssumption DEF IsFull
  <2> QED
    BY <2>1, <2>2, <2>3 DEF QueueInv, Promised!EnqueueItem
<1> QED
  BY <1>2, <1>3

(* Every dequeue() keeps the queue well formed and is a call of the        *)
(* abstract queue.                                                         *)
LEMMA DequeueLemma ==
  ASSUME QueueInv, DequeueCall
  PROVE  QueueInv' /\ Promised!DequeueItem
<1>1. CASE IsEmpty(fifo)
  <2>1. fifo' = fifo /\ ret' = Null
    BY <1>1 DEF DequeueCall, Dequeue, DequeueResult
  <2>2. Contents(fifo) = << >>
    BY <1>1 DEF IsEmpty, Contents
  <2> QED
    BY <2>1, <2>2 DEF QueueInv, Promised!DequeueItem
<1>2. CASE ~IsEmpty(fifo)
  <2>1. /\ WellFormed(fifo', Item, Places)
        /\ Contents(fifo) # << >>
        /\ Contents(fifo') = Tail(Contents(fifo))
        /\ ret' = Head(Contents(fifo))
        /\ ret' \in Item
    BY <1>2, QueueAssumption, DequeueFacts DEF QueueInv, DequeueCall
  <2> QED
    BY <2>1 DEF QueueInv, Promised!DequeueItem
<1> QED
  BY <1>1, <1>2

(* Every call keeps QueueInv and is a call of the abstract queue.          *)
LEMMA QueueStepLemma ==
  QueueInv /\ [QueueNext]_queueVars
    => QueueInv' /\ [Promised!Next]_(Promised!vars)
<1> SUFFICES ASSUME QueueInv, [QueueNext]_queueVars
             PROVE  QueueInv' /\ [Promised!Next]_(Promised!vars)
  OBVIOUS
<1>1. CASE DequeueCall
  BY <1>1, DequeueLemma DEF Promised!Next
<1>2. CASE \E x \in Item : EnqueueCall(x)
  BY <1>2, EnqueueLemma DEF Promised!Next
<1>3. CASE UNCHANGED queueVars
  BY <1>3 DEF queueVars, QueueInv, Promised!vars
<1> QED
  BY <1>1, <1>2, <1>3 DEF QueueNext

(* QueueInv holds after any sequence of calls.                             *)
LEMMA QueueInvLemma == QueueSpec => []QueueInv
BY QueueInitLemma, QueueStepLemma, PTL DEF QueueSpec

(* QueueTypeOK for every capacity: no sequence of calls takes an index of  *)
(* struct Queue outside the array, or returns a slot nobody wrote.         *)
THEOREM QueueTypeCorrect == QueueSpec => []QueueTypeOK
<1>1. QueueInv => QueueTypeOK
  BY DEF QueueInv, WellFormed, QueueTypeOK
<1> QED
  BY <1>1, QueueInvLemma, PTL

(* Consistent for every capacity: rear stays size - 1 slots after front    *)
(* and everything between them was enqueued.                               *)
THEOREM StaysConsistent == QueueSpec => []Consistent
<1>1. QueueInv => Consistent
  BY DEF QueueInv, WellFormed, Consistent
<1> QED
  BY <1>1, QueueInvLemma, PTL

(* queue.h implements the bounded first-in first-out queue.                *)
THEOREM QueueIsFifo == QueueSpec => ImplementsFifo
BY QueueInitLemma, QueueStepLemma, PTL
DEF QueueSpec, ImplementsFifo, Promised!Spec


-----------------------------------------------------------------------------
(* The hand-off.                                                           *)

(***************************************************************************)
(* TypeOK is not inductive: the queue must be well formed for a dequeued   *)
(* item to be a connection, and a thread has a connection exactly where    *)
(* the code uses it.                                                       *)
(***************************************************************************)
TypeInv ==
  /\ mpc \in MainCalls /\ mco \in Conns \cup {Null}
  /\ wpc \in [Workers -> WorkerCalls]
  /\ wco \in [Workers -> Conns \cup {Null}]
  /\ WellFormed(queue, Conns, Capacity)
  /\ sem \in 0 .. SemMax
  /\ cs \in Workers \cup {Main, NoThread}
  /\ fd \in [Conns -> {"open", "closed"}]
  /\ mpc # "accept" => mco \in Conns
  /\ \A w \in Workers : IF w \in Busy THEN wco[w] \in Conns ELSE wco[w] = Null

-----------------------------------------------------------------------------
(* The two calls that change the queue, seen from the entries.             *)

(* enqueue() either reports a full queue and leaves it alone, or adds the  *)
(* connection behind the others.                                           *)
LEMMA EnqueueEntries ==
  ASSUME TypeInv, NEW co \in Conns
  PROVE  /\ WellFormed(Enqueue(queue, co), Conns, Capacity)
         /\ EnqueueResult(queue) = -1 =>
              Enqueue(queue, co) = queue /\ queue.size = Capacity
         /\ EnqueueResult(queue) # -1 =>
              /\ queue.size < Capacity
              /\ Enqueue(queue, co).size = queue.size + 1
              /\ Contents(Enqueue(queue, co)) = Append(Contents(queue), co)
<1>1. /\ WellFormed(queue, Conns, Capacity) /\ queue.size \in 0 .. Capacity
      /\ queue.capacity = Capacity /\ Capacity \in Nat \ {0}
  BY DispatchAssumption DEF TypeInv, WellFormed, QueueType
<1>2. CASE IsFull(queue)
  BY <1>1, <1>2 DEF Enqueue, EnqueueResult, IsFull
<1>3. CASE ~IsFull(queue)
  <2>1. /\ WellFormed(Enqueue(queue, co), Conns, Capacity)
        /\ Contents(Enqueue(queue, co)) = Append(Contents(queue), co)
    <3>1. WellFormed(Enqueue(queue, co), Conns, Capacity)
      BY <1>1, <1>3, EnqueueFacts
    <3>2. Contents(Enqueue(queue, co)) = Append(Contents(queue), co)
      BY <1>1, <1>3, EnqueueAppends
    <3> QED
      BY <3>1, <3>2
  <2>2. queue.size < Capacity
    BY <1>1, <1>3 DEF IsFull
  <2>3. Enqueue(queue, co).size = queue.size + 1
    <3>1. /\ Contents(queue) \in Seq(Conns)
          /\ Len(Contents(queue)) = queue.size
      BY <1>1, ContentsIsSeq
    <3>2. Len(Append(Contents(queue), co)) = queue.size + 1
      BY <3>1
    <3>3. Len(Contents(Enqueue(queue, co))) = Enqueue(queue, co).size
      BY <1>1, <2>1, ContentsIsSeq
    <3> QED
      BY <2>1, <3>2, <3>3
  <2>4. EnqueueResult(queue) = 0
    BY <1>3 DEF EnqueueResult
  <2> QED
    BY <2>1, <2>2, <2>3, <2>4
<1> QED
  BY <1>2, <1>3

(* dequeue() either reports an empty queue, or removes the oldest entry    *)
(* and returns it.                                                         *)
LEMMA DequeueEntries ==
  ASSUME TypeInv
  PROVE  /\ WellFormed(Dequeue(queue), Conns, Capacity)
         /\ queue.size = 0 => DequeueResult(queue) = Null
         /\ queue.size # 0 =>
              /\ Dequeue(queue).size = queue.size - 1
              /\ Contents(queue) # << >>
              /\ Contents(Dequeue(queue)) = Tail(Contents(queue))
              /\ DequeueResult(queue) = Head(Contents(queue))
              /\ DequeueResult(queue) \in Conns
<1>1. /\ WellFormed(queue, Conns, Capacity) /\ queue.size \in 0 .. Capacity
      /\ Capacity \in Nat \ {0}
  BY DispatchAssumption DEF TypeInv, WellFormed, QueueType
<1>2. CASE IsEmpty(queue)
  BY <1>1, <1>2 DEF Dequeue, DequeueResult, IsEmpty
<1>3. CASE ~IsEmpty(queue)
  <2>1. /\ WellFormed(Dequeue(queue), Conns, Capacity)
        /\ Contents(queue) # << >>
        /\ Contents(Dequeue(queue)) = Tail(Contents(queue))
        /\ DequeueResult(queue) = Head(Contents(queue))
        /\ DequeueResult(queue) \in Conns
    BY <1>1, <1>3, DequeueFacts
  <2>2. queue.size # 0
    BY <1>3 DEF IsEmpty
  <2>3. Dequeue(queue).size = queue.size - 1
    <3>1. /\ Contents(queue) \in Seq(Conns)
          /\ Len(Contents(queue)) = queue.size
      BY <1>1, ContentsIsSeq
    <3>2. Len(Tail(Contents(queue))) = queue.size - 1
      BY <2>1, <3>1, HeadTailProperties
    <3>3. Len(Contents(Dequeue(queue))) = Dequeue(queue).size
      BY <1>1, <2>1, ContentsIsSeq
    <3> QED
      BY <2>1, <3>2, <3>3
  <2> QED
    BY <2>1, <2>2, <2>3
<1> QED
  BY <1>2, <1>3

-----------------------------------------------------------------------------
(* The threads start with the types of TypeInv.                            *)
LEMMA InitTypeInv == Init => TypeInv
<1> SUFFICES ASSUME Init PROVE TypeInv
  OBVIOUS
<1>1. WellFormed(CreateQueue(Capacity), Conns, Capacity)
  BY DispatchAssumption, CreateQueueFacts
<1>2. 0 \in 0 .. SemMax
  BY DispatchAssumption
<1> QED
  BY <1>1, <1>2 DEF Init, TypeInv, MainCalls, WorkerCalls, Busy

(* No step of main or of a worker leaves TypeInv.                          *)
LEMMA NextTypeInv == TypeInv /\ [Next]_vars => TypeInv'
<1> SUFFICES ASSUME TypeInv, [Next]_vars PROVE TypeInv'
  OBVIOUS
<1> USE DEF TypeInv, MainCalls, WorkerCalls, Busy
<1>1. CASE MainAccept
  BY <1>1 DEF MainAccept
<1>2. CASE MainNewConnection
  BY <1>2 DEF MainNewConnection, RejectConnection
<1>3. CASE MainEnterCs
  BY <1>3 DEF MainEnterCs, RejectConnection, Lock
<1>4. CASE MainEnqueue
  <2>1. mco \in Conns
    BY <1>4 DEF MainEnqueue
  <2>2. WellFormed(queue', Conns, Capacity)
    BY <1>4, <2>1, EnqueueEntries DEF MainEnqueue
  <2> QED
    BY <1>4, <2>1, <2>2 DEF MainEnqueue
<1>5. CASE MainSleep
  BY <1>5 DEF MainSleep
<1>6. CASE MainLeaveCs
  BY <1>6 DEF MainLeaveCs, RejectConnection, Unlock
<1>7. CASE MainIncrement
  <2>1. sem < SemMax => sem + 1 \in 0 .. SemMax
    BY DispatchAssumption
  <2> QED
    BY <1>7, <2>1 DEF MainIncrement, RejectConnection, SemHasRoom, SemPost
<1>8. ASSUME NEW w \in Workers, WaitSemaphore(w) PROVE TypeInv'
  <2>1. sem > 0 => sem - 1 \in 0 .. SemMax
    BY DispatchAssumption
  <2> QED
    BY <1>8, <2>1 DEF WaitSemaphore, Goto, SemWait
<1>9. ASSUME NEW w \in Workers, EnterCs(w) PROVE TypeInv'
  BY <1>9 DEF EnterCs, Goto, Lock
<1>10. ASSUME NEW w \in Workers, DequeueConnection(w) PROVE TypeInv'
  <2>1. WellFormed(queue', Conns, Capacity)
    BY <1>10, DequeueEntries DEF DequeueConnection
  <2>2. queue.size = 0 \/ queue.size # 0
    OBVIOUS
  <2>3. DequeueResult(queue) \in Conns \cup {Null}
    BY <2>2, DequeueEntries
  <2> QED
    BY <1>10, <2>1, <2>3, DispatchAssumption DEF DequeueConnection, Goto
<1>11. ASSUME NEW w \in Workers, LeaveCs(w) PROVE TypeInv'
  BY <1>11 DEF LeaveCs, CloseConnection, Goto, Unlock
<1>12. ASSUME NEW w \in Workers, Serve(w) PROVE TypeInv'
  BY <1>12 DEF Serve, CloseConnection, Goto
<1>13. CASE UNCHANGED vars
  BY <1>13 DEF vars
<1> QED
  BY <1>1, <1>2, <1>3, <1>4, <1>5, <1>6, <1>7, <1>8, <1>9, <1>10, <1>11,
     <1>12, <1>13 DEF Next, MainStep, WorkerStep

(* TypeInv holds in every state of the dispatch.                           *)
LEMMA TypeInvariant == Spec => []TypeInv
BY InitTypeInv, NextTypeInv, PTL DEF Spec

(* TypeOK in every reachable state: in particular no worker ever has NULL  *)
(* or an unwritten slot of the array as its connection, and the semaphore  *)
(* stays between 0 and its maximum.                                        *)
THEOREM TypeCorrect == Spec => []TypeOK
<1>1. TypeInv => TypeOK
  BY DEF TypeInv, TypeOK, WellFormed
<1> QED
  BY <1>1, TypeInvariant, PTL

-----------------------------------------------------------------------------
(* The critical section.                                                   *)

(* No step lets a second thread between enter_cs and leave_cs.             *)
LEMMA NextMutualExclusion ==
  TypeInv /\ MutualExclusion /\ [Next]_vars => MutualExclusion'
<1> SUFFICES ASSUME TypeInv, MutualExclusion, [Next]_vars
             PROVE  MutualExclusion'
  OBVIOUS
<1> USE DispatchAssumption DEF TypeInv, MutualExclusion
<1>1. CASE MainAccept
  BY <1>1 DEF MainAccept
<1>2. CASE MainNewConnection
  BY <1>2 DEF MainNewConnection, RejectConnection
<1>3. CASE MainEnterCs
  BY <1>3 DEF MainEnterCs, RejectConnection, Lock
<1>4. CASE MainEnqueue
  BY <1>4 DEF MainEnqueue
<1>5. CASE MainSleep
  BY <1>5 DEF MainSleep
<1>6. CASE MainLeaveCs
  BY <1>6 DEF MainLeaveCs, RejectConnection, Unlock
<1>7. CASE MainIncrement
  BY <1>7 DEF MainIncrement, RejectConnection, SemHasRoom, SemPost
<1>8. ASSUME NEW w \in Workers, WaitSemaphore(w) PROVE MutualExclusion'
  BY <1>8 DEF WaitSemaphore, Goto, SemWait
<1>9. ASSUME NEW w \in Workers, EnterCs(w) PROVE MutualExclusion'
  BY <1>9 DEF EnterCs, Goto, Lock
<1>10. ASSUME NEW w \in Workers, DequeueConnection(w) PROVE MutualExclusion'
  BY <1>10 DEF DequeueConnection, Goto
<1>11. ASSUME NEW w \in Workers, LeaveCs(w) PROVE MutualExclusion'
  BY <1>11 DEF LeaveCs, CloseConnection, Goto, Unlock
<1>12. ASSUME NEW w \in Workers, Serve(w) PROVE MutualExclusion'
  BY <1>12 DEF Serve, CloseConnection, Goto
<1>13. CASE UNCHANGED vars
  BY <1>13 DEF vars
<1> QED
  BY <1>1, <1>2, <1>3, <1>4, <1>5, <1>6, <1>7, <1>8, <1>9, <1>10, <1>11,
     <1>12, <1>13 DEF Next, MainStep, WorkerStep

(* connections_cs admits one thread at a time, whichever calls fail.       *)
THEOREM Exclusion == Spec => []MutualExclusion
<1>1. Init => MutualExclusion
  BY DEF Init, MutualExclusion
<1> QED
  BY <1>1, TypeInvariant, NextMutualExclusion, PTL DEF Spec

-----------------------------------------------------------------------------
(* Tokens and entries.                                                     *)

(* How the number of claimants changes when one worker moves.              *)
LEMMA ClaimantsChange ==
  ASSUME TypeInv, NEW w \in Workers, NEW call, Goto(w, call)
  PROVE  /\ Cardinality(Claimants) \in Nat
         /\ Cardinality(Claimants') \in Nat
         /\ Cardinality(Claimants') =
              IF call \in {"enter_cs", "dequeue"}
              THEN IF w \in Claimants THEN Cardinality(Claimants)
                   ELSE Cardinality(Claimants) + 1
              ELSE IF w \in Claimants THEN Cardinality(Claimants) - 1
                   ELSE Cardinality(Claimants)
<1>1. IsFiniteSet(Claimants) /\ IsFiniteSet(Claimants')
  BY DispatchAssumption, FS_Subset DEF Claimants
<1>2. Cardinality(Claimants) \in Nat /\ Cardinality(Claimants') \in Nat
  BY <1>1, FS_CardinalityType
<1>3. CASE call \in {"enter_cs", "dequeue"}
  <2>1. Claimants' = Claimants \cup {w}
    BY <1>3 DEF Claimants, Goto, TypeInv
  <2> QED
    BY <1>1, <1>2, <1>3, <2>1, FS_AddElement
<1>4. CASE call \notin {"enter_cs", "dequeue"}
  <2>1. Claimants' = Claimants \ {w}
    BY <1>4 DEF Claimants, Goto, TypeInv
  <2> QED
    BY <1>1, <1>2, <1>4, <2>1, FS_RemoveElement
<1> QED
  BY <1>2, <1>3, <1>4

(* No step makes more tokens than there are queued connections.            *)
LEMMA NextDequeueFindsEntry ==
  TypeInv /\ DequeueFindsEntry /\ [Next]_vars => DequeueFindsEntry'
<1> SUFFICES ASSUME TypeInv, DequeueFindsEntry, [Next]_vars
             PROVE  DequeueFindsEntry'
  OBVIOUS
<1> USE DEF DequeueFindsEntry, TokenOwed
<1>a. /\ sem \in Nat /\ queue.size \in Nat /\ Cardinality(Claimants) \in Nat
      /\ \A w \in Workers : w \in Claimants => Cardinality(Claimants) >= 1
  <2>1. sem \in Nat /\ queue.size \in Nat
    BY DispatchAssumption DEF TypeInv, WellFormed, QueueType
  <2>2. IsFiniteSet(Claimants)
    BY DispatchAssumption, FS_Subset DEF Claimants
  <2>3. Cardinality(Claimants) \in Nat
    BY <2>2, FS_CardinalityType
  <2>4. Cardinality(Claimants) = 0 => Claimants = {}
    BY <2>2, FS_EmptySet
  <2> QED
    BY <2>1, <2>3, <2>4
<1>b. wpc' = wpc => Claimants' = Claimants
  BY DEF Claimants
<1>1. CASE MainAccept
  BY <1>1, <1>a, <1>b DEF MainAccept
<1>2. CASE MainNewConnection
  BY <1>2, <1>a, <1>b DEF MainNewConnection, RejectConnection
<1>3. CASE MainEnterCs
  BY <1>3, <1>a, <1>b DEF MainEnterCs, RejectConnection, Lock
<1>4. CASE MainEnqueue
  <2>1. mco \in Conns
    BY <1>4 DEF MainEnqueue, TypeInv
  <2>2. CASE EnqueueResult(queue) = -1
    <3>1. queue' = queue
      BY <1>4, <2>1, <2>2, EnqueueEntries DEF MainEnqueue
    <3> QED
      BY <1>4, <2>2, <3>1, <1>a, <1>b DEF MainEnqueue
  <2>3. CASE EnqueueResult(queue) # -1
    <3>1. queue'.size = queue.size + 1
      BY <1>4, <2>1, <2>3, EnqueueEntries DEF MainEnqueue
    <3> QED
      BY <1>4, <2>3, <3>1, <1>a, <1>b DEF MainEnqueue
  <2> QED
    BY <2>2, <2>3
<1>5. CASE MainSleep
  BY <1>5, <1>a, <1>b DEF MainSleep
<1>6. CASE MainLeaveCs
  BY <1>6, <1>a, <1>b DEF MainLeaveCs, RejectConnection, Unlock
<1>7. CASE MainIncrement
  BY <1>7, <1>a, <1>b DEF MainIncrement, RejectConnection, SemHasRoom, SemPost
<1>8. ASSUME NEW w \in Workers, WaitSemaphore(w) PROVE DequeueFindsEntry'
  <2>1. w \notin Claimants /\ Goto(w, "enter_cs")
    BY <1>8 DEF WaitSemaphore, Claimants, SemWait
  <2>2. Cardinality(Claimants') = Cardinality(Claimants) + 1
    BY <2>1, ClaimantsChange
  <2> QED
    BY <1>8, <1>a, <2>2 DEF WaitSemaphore, SemWait
<1>9. ASSUME NEW w \in Workers, EnterCs(w) PROVE DequeueFindsEntry'
  <2>1. w \in Claimants /\ (Goto(w, "dequeue") \/ Goto(w, "wait"))
    BY <1>9 DEF EnterCs, Claimants, Lock
  <2>2. /\ Cardinality(Claimants') \in Nat
        /\ Cardinality(Claimants') <= Cardinality(Claimants)
    BY <2>1, <1>a, ClaimantsChange
  <2> QED
    BY <1>9, <1>a, <2>2 DEF EnterCs, Lock
<1>10. ASSUME NEW w \in Workers, DequeueConnection(w) PROVE DequeueFindsEntry'
  <2>1. w \in Claimants /\ (Goto(w, "leave_cs") \/ Goto(w, "wait"))
    BY <1>10 DEF DequeueConnection, Claimants
  <2>2. Cardinality(Claimants') = Cardinality(Claimants) - 1
    BY <2>1, ClaimantsChange
  <2>3. queue.size # 0
    BY <1>a, <2>1
  <2>4. queue'.size = queue.size - 1
    BY <1>10, <2>3, DequeueEntries DEF DequeueConnection
  <2> QED
    BY <1>10, <1>a, <2>2, <2>4 DEF DequeueConnection
<1>11. ASSUME NEW w \in Workers, LeaveCs(w) PROVE DequeueFindsEntry'
  <2>1. w \notin Claimants /\ (Goto(w, "serve") \/ Goto(w, "wait"))
    BY <1>11 DEF LeaveCs, Claimants, Unlock
  <2>2. Cardinality(Claimants') = Cardinality(Claimants)
    BY <2>1, ClaimantsChange
  <2> QED
    BY <1>11, <1>a, <2>2 DEF LeaveCs, Unlock
<1>12. ASSUME NEW w \in Workers, Serve(w) PROVE DequeueFindsEntry'
  <2>1. w \notin Claimants /\ (Goto(w, "wait") \/ Goto(w, "exited"))
    BY <1>12 DEF Serve, Claimants
  <2>2. Cardinality(Claimants') = Cardinality(Claimants)
    BY <2>1, ClaimantsChange
  <2> QED
    BY <1>12, <1>a, <2>2 DEF Serve
<1>13. CASE UNCHANGED vars
  BY <1>13, <1>a, <1>b DEF vars
<1> QED
  BY <1>1, <1>2, <1>3, <1>4, <1>5, <1>6, <1>7, <1>8, <1>9, <1>10, <1>11,
     <1>12, <1>13 DEF Next, MainStep, WorkerStep

(* Every token is covered by a queued connection, whichever calls fail:    *)
(* the worker that dequeues always finds one, so the path of               *)
(* server.c:220-223 that keeps the lock is never taken.                    *)
THEOREM TokensAreCovered == Spec => []DequeueFindsEntry
<1>1. Init => DequeueFindsEntry
  <2> SUFFICES ASSUME Init PROVE DequeueFindsEntry
    OBVIOUS
  <2>1. Claimants = {} /\ queue.size = 0 /\ TokenOwed = 0 /\ sem = 0
    BY DEF Init, Claimants, TokenOwed, CreateQueue
  <2> QED
    BY <2>1, FS_EmptySet DEF DequeueFindsEntry
<1> QED
  BY <1>1, TypeInvariant, NextDequeueFindsEntry, PTL DEF Spec

(* The token owed for a queued connection fits into the semaphore.         *)
LEMMA RoomForToken ==
  ASSUME SemMax >= Capacity, TypeInv, DequeueFindsEntry, MainIncrement
  PROVE  sem < SemMax
<1>1. /\ sem \in Nat /\ queue.size \in 0 .. Capacity /\ Capacity \in Nat
      /\ SemMax \in Nat
  BY DispatchAssumption DEF TypeInv, WellFormed, QueueType
<1>2. Cardinality(Claimants) \in Nat
  BY DispatchAssumption, FS_Subset, FS_CardinalityType DEF Claimants
<1>3. TokenOwed = 1
  BY DEF MainIncrement, TokenOwed, SemHasRoom, SemPost
<1> QED
  BY <1>1, <1>2, <1>3 DEF DequeueFindsEntry

(* With room in the semaphore for a full queue, increment_semaphore()      *)
(* never fails and always adds a token.  On Windows the room is 100        *)
(* (synchronization.h:6) whatever n_threads is.                            *)
THEOREM IncrementAlwaysUnlocks ==
  ASSUME SemMax >= Capacity
  PROVE  Spec => IncrementUnlocks
<1>1. TypeInv /\ DequeueFindsEntry /\ [Next]_vars
        => [MainIncrement => sem' = sem + 1]_vars
  BY RoomForToken DEF MainIncrement, SemHasRoom, SemPost
<1> QED
  BY <1>1, TypeInvariant, TokensAreCovered, PTL DEF Spec, IncrementUnlocks

(* Without failing calls no step takes a token that a queued connection    *)
(* needs.                                                                  *)
LEMMA NextNoEntryStranded ==
  ASSUME Faults = {}, SemMax >= Capacity,
         TypeInv, DequeueFindsEntry, NoEntryStranded, [Next]_vars
  PROVE  NoEntryStranded'
<1> USE DEF NoEntryStranded, TokenOwed, MayFail
<1>a. sem \in Nat /\ queue.size \in Nat /\ Cardinality(Claimants) \in Nat
  BY DispatchAssumption, FS_Subset, FS_CardinalityType
     DEF TypeInv, WellFormed, QueueType, Claimants
<1>b. wpc' = wpc => Claimants' = Claimants
  BY DEF Claimants
<1>1. CASE MainAccept
  BY <1>1, <1>a, <1>b DEF MainAccept
<1>2. CASE MainNewConnection
  BY <1>2, <1>a, <1>b DEF MainNewConnection
<1>3. CASE MainEnterCs
  BY <1>3, <1>a, <1>b DEF MainEnterCs, Lock
<1>4. CASE MainEnqueue
  <2>1. mco \in Conns
    BY <1>4 DEF MainEnqueue, TypeInv
  <2>2. CASE EnqueueResult(queue) = -1
    <3>1. queue' = queue
      BY <1>4, <2>1, <2>2, EnqueueEntries DEF MainEnqueue
    <3> QED
      BY <1>4, <2>2, <3>1, <1>a, <1>b DEF MainEnqueue
  <2>3. CASE EnqueueResult(queue) # -1
    <3>1. queue'.size = queue.size + 1
      BY <1>4, <2>1, <2>3, EnqueueEntries DEF MainEnqueue
    <3> QED
      BY <1>4, <2>3, <3>1, <1>a, <1>b DEF MainEnqueue
  <2> QED
    BY <2>2, <2>3
<1>5. CASE MainSleep
  BY <1>5, <1>a, <1>b DEF MainSleep
<1>6. CASE MainLeaveCs
  BY <1>6, <1>a, <1>b DEF MainLeaveCs, Unlock
<1>7. CASE MainIncrement
  <2>1. sem < SemMax
    BY <1>7, RoomForToken
  <2> QED
    BY <1>7, <1>a, <1>b, <2>1 DEF MainIncrement, SemHasRoom, SemPost
<1>8. ASSUME NEW w \in Workers, WaitSemaphore(w) PROVE NoEntryStranded'
  <2>1. w \notin Claimants /\ Goto(w, "enter_cs")
    BY <1>8 DEF WaitSemaphore, Claimants, SemWait
  <2>2. Cardinality(Claimants') = Cardinality(Claimants) + 1
    BY <2>1, ClaimantsChange
  <2> QED
    BY <1>8, <1>a, <2>2 DEF WaitSemaphore, SemWait
<1>9. ASSUME NEW w \in Workers, EnterCs(w) PROVE NoEntryStranded'
  <2>1. w \in Claimants /\ Goto(w, "dequeue")
    BY <1>9 DEF EnterCs, Claimants, Lock
  <2>2. Cardinality(Claimants') = Cardinality(Claimants)
    BY <2>1, ClaimantsChange
  <2> QED
    BY <1>9, <1>a, <2>2 DEF EnterCs, Lock
<1>10. ASSUME NEW w \in Workers, DequeueConnection(w) PROVE NoEntryStranded'
  <2>1. w \in Claimants /\ (Goto(w, "leave_cs") \/ Goto(w, "wait"))
    BY <1>10 DEF DequeueConnection, Claimants
  <2>2. /\ Cardinality(Claimants') \in Nat
        /\ Cardinality(Claimants') = Cardinality(Claimants) - 1
    BY <2>1, ClaimantsChange
  <2>3. queue.size # 0
    BY <1>a, <2>2 DEF DequeueFindsEntry
  <2>4. queue'.size = queue.size - 1
    BY <1>10, <2>3, DequeueEntries DEF DequeueConnection
  <2> QED
    BY <1>10, <1>a, <2>2, <2>4 DEF DequeueConnection
<1>11. ASSUME NEW w \in Workers, LeaveCs(w) PROVE NoEntryStranded'
  <2>1. w \notin Claimants /\ Goto(w, "serve")
    BY <1>11 DEF LeaveCs, Claimants, Unlock
  <2>2. Cardinality(Claimants') = Cardinality(Claimants)
    BY <2>1, ClaimantsChange
  <2> QED
    BY <1>11, <1>a, <2>2 DEF LeaveCs, Unlock
<1>12. ASSUME NEW w \in Workers, Serve(w) PROVE NoEntryStranded'
  <2>1. w \notin Claimants /\ Goto(w, "wait")
    BY <1>12 DEF Serve, Claimants
  <2>2. Cardinality(Claimants') = Cardinality(Claimants)
    BY <2>1, ClaimantsChange
  <2> QED
    BY <1>12, <1>a, <2>2 DEF Serve
<1>13. CASE UNCHANGED vars
  BY <1>13, <1>a, <1>b DEF vars
<1> QED
  BY <1>1, <1>2, <1>3, <1>4, <1>5, <1>6, <1>7, <1>8, <1>9, <1>10, <1>11,
     <1>12, <1>13 DEF Next, MainStep, WorkerStep

(* When no call fails and the semaphore has room for a full queue, every   *)
(* queued connection has a token, a worker that took one, or main on its   *)
(* way to increment_semaphore(): no connection waits with all workers      *)
(* asleep.                                                                 *)
THEOREM NothingStranded ==
  ASSUME Faults = {}, SemMax >= Capacity
  PROVE  Spec => []NoEntryStranded
<1>1. Init => NoEntryStranded
  <2> SUFFICES ASSUME Init PROVE NoEntryStranded
    OBVIOUS
  <2>1. Claimants = {} /\ queue.size = 0 /\ TokenOwed = 0 /\ sem = 0
    BY DEF Init, Claimants, TokenOwed, CreateQueue
  <2> QED
    BY <2>1, FS_EmptySet DEF NoEntryStranded
<1>2. TypeInv /\ DequeueFindsEntry /\ NoEntryStranded /\ [Next]_vars
        => NoEntryStranded'
  BY NextNoEntryStranded
<1> QED
  BY <1>1, <1>2, TypeInvariant, TokensAreCovered, PTL DEF Spec

-----------------------------------------------------------------------------
(***************************************************************************)
(* Ownership of the connections, and the proof that Dispatch implements    *)
(* Handoff.  Both need that nothing is closed by a thread that no longer   *)
(* owns it: that leave_cs() does not fail, and that the semaphore has room *)
(* for a full queue.  That nobody else touches the connection a worker     *)
(* serves needs only the second.                                           *)
(***************************************************************************)

(***************************************************************************)
(* Ownership is inductive together with the facts about types and tokens:  *)
(* the tokens keep increment_semaphore() from failing after the connection *)
(* has been handed over.                                                   *)
(***************************************************************************)
Ownership == OwnedOnce /\ OwnedIsOpen

HandoffInv == TypeInv /\ DequeueFindsEntry /\ Ownership

(* A connection that is not queued goes behind the others.                 *)
LEMMA QueuedAfterEnqueue ==
  ASSUME TypeInv, NEW co \in Conns, queue' = Enqueue(queue, co),
         EnqueueResult(queue) # -1
  PROVE  /\ Queued' = Queued \cup {co}
         /\ (\A i, j \in 1 .. queue.size : i # j => Entries[i] # Entries[j])
              /\ co \notin Queued
            => \A i, j \in 1 .. queue'.size : i # j => Entries'[i] # Entries'[j]
<1> DEFINE n == queue.size
<1>1. n \in Nat
  BY DEF TypeInv, WellFormed, QueueType
<1>2. queue'.size = n + 1
  BY EnqueueEntries
<1>3. Entries \in Seq(Conns) /\ Len(Entries) = n
  BY DispatchAssumption, ContentsIsSeq DEF Entries, TypeInv
<1>4. Entries' = Append(Entries, co)
  BY EnqueueEntries DEF Entries
<1>5. Queued = {Entries[i] : i \in 1 .. n}
  BY DEF Queued
<1> HIDE DEF n
<1>6. /\ \A i \in 1 .. n : Entries'[i] = Entries[i]
      /\ Entries'[n + 1] = co
  BY <1>3, <1>4, AppendProperties
<1>7. \A i \in 1 .. n + 1 : i \in 1 .. n \/ i = n + 1
  BY <1>1
<1>8. n + 1 \in 1 .. n + 1 /\ \A i \in 1 .. n : i \in 1 .. n + 1
  BY <1>1
<1>9. Queued' = {Entries'[i] : i \in 1 .. n + 1}
  BY <1>2 DEF Queued
<1>10. Queued' = Queued \cup {co}
  BY <1>7, <1>8, <1>5, <1>9, <1>6
<1>11. ASSUME \A i, j \in 1 .. n : i # j => Entries[i] # Entries[j],
              co \notin Queued,
              NEW i \in 1 .. n + 1, NEW j \in 1 .. n + 1, i # j
       PROVE  Entries'[i] # Entries'[j]
  BY <1>7, <1>5, <1>6, <1>11
<1> QED
  BY <1>2, <1>10, <1>11 DEF n

(* The oldest connection leaves, and the others stay.                      *)
LEMMA QueuedAfterDequeue ==
  ASSUME TypeInv, queue' = Dequeue(queue), queue.size # 0,
         \A i, j \in 1 .. queue.size : i # j => Entries[i] # Entries[j]
  PROVE  /\ DequeueResult(queue) \in Queued
         /\ Queued' = Queued \ {DequeueResult(queue)}
         /\ \A i, j \in 1 .. queue'.size : i # j => Entries'[i] # Entries'[j]
<1> DEFINE n == queue.size
           c == DequeueResult(queue)
<1>1. n \in Nat \ {0}
  BY DispatchAssumption DEF TypeInv, WellFormed, QueueType
<1>2. queue'.size = n - 1
  BY DequeueEntries
<1>3. Entries \in Seq(Conns) /\ Len(Entries) = n
  BY DispatchAssumption, ContentsIsSeq DEF Entries, TypeInv
<1>4. Entries' = Tail(Entries) /\ c = Head(Entries) /\ Entries # << >>
  BY DequeueEntries DEF Entries
<1>5. Queued = {Entries[i] : i \in 1 .. n}
  BY DEF Queued
<1>6. Queued' = {Entries'[i] : i \in 1 .. n - 1}
  BY <1>2 DEF Queued
<1>7. \A i, j \in 1 .. n : i # j => Entries[i] # Entries[j]
  OBVIOUS
<1> HIDE DEF n, c
<1>8. \A i \in 1 .. n - 1 : Entries'[i] = Entries[i + 1]
  BY <1>3, <1>4, HeadTailProperties
<1>9. c = Entries[1] /\ 1 \in 1 .. n
  BY <1>1, <1>3, <1>4
<1>10. \A i \in 1 .. n - 1 : i + 1 \in 1 .. n /\ i + 1 # 1
  BY <1>1
<1>11. \A i \in 1 .. n : i = 1 \/ \E j \in 1 .. n - 1 : i = j + 1
  <2> SUFFICES ASSUME NEW i \in 1 .. n, i # 1
               PROVE  \E j \in 1 .. n - 1 : i = j + 1
    OBVIOUS
  <2>1. i - 1 \in 1 .. n - 1 /\ i = (i - 1) + 1
    BY <1>1
  <2> QED
    BY <2>1
<1>12. c \in Queued
  BY <1>5, <1>9
<1>13. c \notin Queued'
  BY <1>6, <1>7, <1>8, <1>9, <1>10
<1>14. Queued' \subseteq Queued
  BY <1>5, <1>6, <1>8, <1>10
<1>15. Queued \subseteq Queued' \cup {c}
  BY <1>5, <1>6, <1>8, <1>9, <1>11
<1>16. \A i, j \in 1 .. n - 1 : i # j => Entries'[i] # Entries'[j]
  <2>1. \A i, j \in 1 .. n - 1 : i # j => i + 1 # j + 1
    BY <1>1
  <2> QED
    BY <1>7, <1>8, <1>10, <2>1
<1>17. Queued' = Queued \ {c}
  BY <1>12, <1>13, <1>14, <1>15
<1> QED
  BY <1>2, <1>12, <1>16, <1>17 DEF c

-----------------------------------------------------------------------------
(* Before the first accept() nobody owns anything.                         *)
LEMMA InitHandoffInv == Init => HandoffInv
<1> SUFFICES ASSUME Init PROVE HandoffInv
  OBVIOUS
<1>1. /\ queue.size = 0 /\ Claimants = {} /\ Busy = {}
      /\ ~MainOwns /\ TokenOwed = 0
  BY DEF Init, CreateQueue, Claimants, Busy, MainOwns, TokenOwed
<1>2. DequeueFindsEntry
  BY <1>1, FS_EmptySet DEF Init, DequeueFindsEntry
<1>3. Ownership
  BY <1>1 DEF Ownership, OwnedOnce, OwnedIsOpen, Queued
<1> QED
  BY <1>2, <1>3, InitTypeInv DEF HandoffInv

(* The thread that calls leave_cs() in this step leaves the section.       *)
LeavesCs ==
  /\ mpc = "leave_cs" => mpc' \in {"leave_cs", "increment"}
  /\ \A w \in Workers : wpc[w] = "leave_cs" => wpc'[w] \in {"leave_cs", "serve"}

(* No step of a thread takes away or closes what another one owns.         *)
LEMMA NextOwnership ==
  ASSUME SemMax >= Capacity, HandoffInv, [Next]_vars, LeavesCs
  PROVE  Ownership'
<1> USE DEF HandoffInv, Ownership, OwnedOnce, OwnedIsOpen, MainOwns, Busy
<1>a. TypeInv'
  BY NextTypeInv
<1>b. queue' = queue => Queued' = Queued /\ Entries' = Entries
  BY DEF Queued, Entries
<1>c. Queued \subseteq Conns
  <2>1. Entries \in Seq(Conns) /\ Len(Entries) = queue.size
    BY DispatchAssumption, ContentsIsSeq DEF Entries, TypeInv
  <2> QED
    BY <2>1 DEF Queued
<1>d. ASSUME MainOwns, RejectConnection, UNCHANGED <<wpc, wco, queue>>
      PROVE  Ownership'
  <2>1. mco \in Conns /\ mco \notin Queued /\ \A w \in Busy : wco[w] # mco
    BY <1>d
  <2>2. \A c \in Conns : c # mco => fd'[c] = fd[c]
    BY <1>d DEF RejectConnection, TypeInv
  <2>3. ~MainOwns'
    BY <1>d DEF RejectConnection
  <2>4. Busy' = Busy /\ wco' = wco
    BY <1>d
  <2>5. OwnedOnce'
    BY <1>d, <1>b, <2>3, <2>4
  <2>6. OwnedIsOpen'
    BY <1>d, <1>b, <1>c, <2>1, <2>2, <2>3, <2>4
  <2> QED
    BY <2>5, <2>6
<1>1. CASE MainAccept
  BY <1>1, <1>b, <1>c DEF MainAccept, TypeInv
<1>2. CASE MainNewConnection
  BY <1>2, <1>b, <1>d DEF MainNewConnection, TypeInv
<1>3. CASE MainEnterCs
  BY <1>3, <1>b, <1>d DEF MainEnterCs, TypeInv, Lock
<1>4. CASE MainEnqueue
  <2>1. mco \in Conns /\ queue' = Enqueue(queue, mco)
    BY <1>4 DEF MainEnqueue, TypeInv
  <2>2. CASE EnqueueResult(queue) = -1
    <3>1. queue' = queue
      BY <2>1, <2>2, EnqueueEntries
    <3> QED
      BY <1>4, <1>b, <2>2, <3>1 DEF MainEnqueue, TypeInv
  <2>3. CASE EnqueueResult(queue) # -1
    <3>1. /\ Queued' = Queued \cup {mco}
          /\ \A i, j \in 1 .. queue'.size : i # j => Entries'[i] # Entries'[j]
      BY <1>4, <2>1, <2>3, QueuedAfterEnqueue DEF MainEnqueue
    <3> QED
      BY <1>4, <2>3, <3>1 DEF MainEnqueue, TypeInv
  <2> QED
    BY <2>2, <2>3
<1>5. CASE MainSleep
  BY <1>5, <1>b DEF MainSleep, TypeInv
<1>6. CASE MainLeaveCs
  BY <1>6, <1>b DEF MainLeaveCs, LeavesCs, RejectConnection, TypeInv, Unlock
<1>7. CASE MainIncrement
  <2>1. sem < SemMax
    BY <1>7, RoomForToken
  <2> QED
    BY <1>7, <1>b, <2>1 DEF MainIncrement, TypeInv, SemHasRoom, SemPost
<1>8. ASSUME NEW w \in Workers, WaitSemaphore(w) PROVE Ownership'
  BY <1>8, <1>b DEF WaitSemaphore, Goto, TypeInv, SemWait
<1>9. ASSUME NEW w \in Workers, EnterCs(w) PROVE Ownership'
  BY <1>9, <1>b DEF EnterCs, Goto, TypeInv, Lock
<1>10. ASSUME NEW w \in Workers, DequeueConnection(w) PROVE Ownership'
  <2>1. CASE queue.size = 0
    <3>1. queue' = queue /\ DequeueResult(queue) = Null
      BY <1>10, <2>1
      DEF DequeueConnection, Dequeue, DequeueResult, IsEmpty
    <3> QED
      BY <1>10, <1>b, <3>1 DEF DequeueConnection, Goto, TypeInv
  <2>2. CASE queue.size # 0
    <3>1. DequeueResult(queue) \in Conns /\ DequeueResult(queue) # Null
      BY <2>2, DequeueEntries, DispatchAssumption
    <3>2. queue' = Dequeue(queue)
      BY <1>10 DEF DequeueConnection
    <3>3. /\ DequeueResult(queue) \in Queued
          /\ Queued' = Queued \ {DequeueResult(queue)}
          /\ \A i, j \in 1 .. queue'.size : i # j => Entries'[i] # Entries'[j]
      BY <2>2, <3>2, QueuedAfterDequeue
    <3>4. /\ wpc' = [wpc EXCEPT ![w] = "leave_cs"]
          /\ wco' = [wco EXCEPT ![w] = DequeueResult(queue)]
      BY <1>10, <3>1 DEF DequeueConnection, Goto
    <3> QED
      BY <1>10, <3>1, <3>3, <3>4 DEF DequeueConnection, TypeInv
  <2> QED
    BY <2>1, <2>2
<1>11. ASSUME NEW w \in Workers, LeaveCs(w) PROVE Ownership'
  BY <1>11, <1>b DEF LeaveCs, LeavesCs, Goto, TypeInv, Unlock
<1>12. ASSUME NEW w \in Workers, Serve(w) PROVE Ownership'
  <2>1. w \in Busy /\ Busy' = Busy \ {w}
    BY <1>12 DEF Serve, Goto, TypeInv
  <2>2. \A v \in Busy' : wco'[v] = wco[v] /\ wco[v] # wco[w]
    BY <1>12, <2>1 DEF Serve, CloseConnection, TypeInv
  <2>3. \A c \in Conns : c # wco[w] => fd'[c] = fd[c]
    BY <1>12 DEF Serve, CloseConnection, TypeInv
  <2>4. wco[w] \notin Queued /\ (MainOwns => mco # wco[w])
    BY <2>1
  <2>5. UNCHANGED <<mpc, mco, queue>>
    BY <1>12 DEF Serve
  <2>6. OwnedOnce'
    BY <1>b, <2>1, <2>2, <2>5
  <2>7. OwnedIsOpen'
    BY <1>b, <1>c, <2>1, <2>2, <2>3, <2>4, <2>5
  <2> QED
    BY <2>6, <2>7
<1>13. CASE UNCHANGED vars
  BY <1>13, <1>b DEF vars
<1> QED
  BY <1>1, <1>2, <1>3, <1>4, <1>5, <1>6, <1>7, <1>8, <1>9, <1>10, <1>11,
     <1>12, <1>13 DEF Next, MainStep, WorkerStep

(* leave_cs() does what it should when it cannot fail.                     *)
LEMMA LeaveCsWorks ==
  ASSUME "leave_cs" \notin Faults, TypeInv, [Next]_vars
  PROVE  LeavesCs
<1> USE DEF LeavesCs, TypeInv, MayFail
<1>1. CASE MainStep \/ MainAccept
  BY <1>1 DEF MainAccept, MainStep, MainNewConnection, MainEnterCs,
     MainEnqueue, MainSleep, MainLeaveCs, MainIncrement
<1>2. ASSUME NEW w \in Workers, WorkerStep(w) \/ Serve(w) PROVE LeavesCs
  BY <1>2 DEF WorkerStep, Serve, WaitSemaphore, EnterCs, DequeueConnection,
     LeaveCs, Goto
<1>3. CASE UNCHANGED vars
  BY <1>3 DEF vars
<1> QED
  BY <1>1, <1>2, <1>3 DEF Next

(* HandoffInv holds in every state while leave_cs works.                   *)
LEMMA HandoffInvariant ==
  ASSUME "leave_cs" \notin Faults, SemMax >= Capacity
  PROVE  Spec => []HandoffInv
<1>1. HandoffInv /\ [Next]_vars => HandoffInv'
  <2>1. HandoffInv /\ [Next]_vars => TypeInv' /\ DequeueFindsEntry'
    BY NextTypeInv, NextDequeueFindsEntry DEF HandoffInv
  <2>2. HandoffInv /\ [Next]_vars => LeavesCs
    BY LeaveCsWorks DEF HandoffInv
  <2>3. HandoffInv /\ [Next]_vars => Ownership'
    BY <2>2, NextOwnership
  <2> QED
    BY <2>1, <2>3 DEF HandoffInv
<1> QED
  BY <1>1, InitHandoffInv, PTL DEF Spec

(* A connection never has two owners, when leave_cs() cannot fail and the  *)
(* semaphore has room for a full queue; other calls may fail.              *)
THEOREM OneOwner ==
  ASSUME "leave_cs" \notin Faults, SemMax >= Capacity
  PROVE  Spec => []OwnedOnce
<1>1. HandoffInv => OwnedOnce
  BY DEF HandoffInv, Ownership
<1> QED
  BY <1>1, HandoffInvariant, PTL

(* Under the same conditions nothing is closed under its owner: a worker   *)
(* never serves a descriptor the kernel may have given to another client.  *)
THEOREM OwnersHaveOpenConnections ==
  ASSUME "leave_cs" \notin Faults, SemMax >= Capacity
  PROVE  Spec => []OwnedIsOpen
<1>1. HandoffInv => OwnedIsOpen
  BY DEF HandoffInv, Ownership
<1> QED
  BY <1>1, HandoffInvariant, PTL

-----------------------------------------------------------------------------
(* Dispatch implements Handoff.                                            *)

(* The line and the workers' connections of Handoff, in terms of Dispatch. *)
LEMMA AbstractState ==
  ASSUME TypeInv
  PROVE  /\ Entries \in Seq(Conns) /\ Len(Entries) = queue.size
         /\ Abstract!InLine = Queued
         /\ Abstract!Taken = {wco[w] : w \in Busy}
<1>1. Entries \in Seq(Conns) /\ Len(Entries) = queue.size
  BY DispatchAssumption, ContentsIsSeq DEF Entries, TypeInv
<1>2. Abstract!InLine = Queued
  BY <1>1 DEF Abstract!InLine, Queued
<1>3. \A w \in Workers : wco[w] # Null <=> w \in Busy
  BY DispatchAssumption DEF TypeInv
<1>4. Busy \subseteq Workers
  BY DEF Busy
<1>5. Abstract!Taken = {wco[w] : w \in Busy}
  BY <1>3, <1>4 DEF Abstract!Taken
<1> QED
  BY <1>1, <1>2, <1>5

(* The dispatch starts as the abstract hand-off does.                      *)
LEMMA InitRefinement == Init => Abstract!Init
<1> SUFFICES ASSUME Init PROVE Abstract!Init
  OBVIOUS
<1>1. Contents(CreateQueue(Capacity)) = << >>
  BY DispatchAssumption, CreateQueueFacts
<1> QED
  BY <1>1 DEF Init, Abstract!Init, Entries

(* Queueing submits, dequeueing takes, closing finishes; every other step  *)
(* is invisible.                                                           *)
LEMMA StepRefinement ==
  ASSUME HandoffInv, [Next]_vars
  PROVE  [Abstract!Next]_(Abstract!vars)
<1>a. TypeInv /\ OwnedOnce
  BY DEF HandoffInv, Ownership
<1>b. queue' = queue /\ wco' = wco => UNCHANGED Abstract!vars
  BY DEF Entries, Abstract!vars
<1>c. ASSUME NEW w \in Workers, w \in Busy, UNCHANGED queue,
             wco' = [wco EXCEPT ![w] = Null]
      PROVE  Abstract!Finish(w)
  <2>1. wco[w] # Null
    BY <1>a, <1>c, DispatchAssumption DEF TypeInv
  <2>2. Entries' = Entries
    BY <1>c DEF Entries
  <2> QED
    BY <1>c, <2>1, <2>2 DEF Abstract!Finish
<1>1. CASE MainAccept
  BY <1>1, <1>b DEF MainAccept
<1>2. CASE MainNewConnection
  BY <1>2, <1>b DEF MainNewConnection
<1>3. CASE MainEnterCs
  BY <1>3, <1>b DEF MainEnterCs, Lock
<1>4. CASE MainEnqueue
  <2>1. mco \in Conns /\ queue' = Enqueue(queue, mco) /\ wco' = wco
    BY <1>4, <1>a DEF MainEnqueue, TypeInv
  <2>2. CASE EnqueueResult(queue) = -1
    <3>1. queue' = queue
      BY <1>a, <2>1, <2>2, EnqueueEntries
    <3> QED
      BY <1>b, <2>1, <3>1
  <2>3. CASE EnqueueResult(queue) # -1
    <3>1. queue.size < Capacity /\ Entries' = Append(Entries, mco)
      BY <1>a, <2>1, <2>3, EnqueueEntries DEF Entries
    <3>2. mco \notin Abstract!InLine \cup Abstract!Taken
      BY <1>4, <1>a, AbstractState DEF MainEnqueue, MainOwns, OwnedOnce
    <3>3. Len(Entries) < Capacity
      BY <1>a, <3>1, AbstractState
    <3>4. Abstract!Submit(mco)
      BY <2>1, <3>1, <3>2, <3>3 DEF Abstract!Submit
    <3> QED
      BY <2>1, <3>4 DEF Abstract!Next
  <2> QED
    BY <2>2, <2>3
<1>5. CASE MainSleep
  BY <1>5, <1>b DEF MainSleep
<1>6. CASE MainLeaveCs
  BY <1>6, <1>b DEF MainLeaveCs, Unlock
<1>7. CASE MainIncrement
  BY <1>7, <1>b DEF MainIncrement, SemHasRoom, SemPost
<1>8. ASSUME NEW w \in Workers, WaitSemaphore(w)
      PROVE  [Abstract!Next]_(Abstract!vars)
  BY <1>8, <1>b DEF WaitSemaphore, SemWait
<1>9. ASSUME NEW w \in Workers, EnterCs(w)
      PROVE  [Abstract!Next]_(Abstract!vars)
  BY <1>9, <1>b DEF EnterCs, Lock
<1>10. ASSUME NEW w \in Workers, DequeueConnection(w)
       PROVE  [Abstract!Next]_(Abstract!vars)
  <2>1. wco[w] = Null
    BY <1>10, <1>a DEF DequeueConnection, TypeInv, Busy
  <2>2. /\ queue' = Dequeue(queue)
        /\ wco' = [wco EXCEPT ![w] = DequeueResult(queue)]
    BY <1>10 DEF DequeueConnection
  <2>3. CASE queue.size = 0
    <3>1. queue' = queue /\ DequeueResult(queue) = Null
      BY <2>2, <2>3 DEF Dequeue, DequeueResult, IsEmpty
    <3>2. wco' = wco
      BY <1>a, <2>1, <2>2, <3>1 DEF TypeInv
    <3> QED
      BY <1>b, <3>1, <3>2
  <2>4. CASE queue.size # 0
    <3>1. /\ Entries # << >>
          /\ Entries' = Tail(Entries)
          /\ DequeueResult(queue) = Head(Entries)
      BY <1>a, <2>2, <2>4, DequeueEntries DEF Entries
    <3>2. Abstract!Take(w)
      BY <2>1, <2>2, <3>1 DEF Abstract!Take
    <3> QED
      BY <3>2 DEF Abstract!Next
  <2> QED
    BY <2>3, <2>4
<1>11. ASSUME NEW w \in Workers, LeaveCs(w)
       PROVE  [Abstract!Next]_(Abstract!vars)
  <2>1. w \in Busy /\ queue' = queue
    BY <1>11 DEF LeaveCs, Busy, Unlock
  <2>2. wco' = wco \/ wco' = [wco EXCEPT ![w] = Null]
    BY <1>11 DEF LeaveCs, CloseConnection, Unlock
  <2> QED
    BY <1>b, <1>c, <2>1, <2>2 DEF Abstract!Next
<1>12. ASSUME NEW w \in Workers, Serve(w)
       PROVE  [Abstract!Next]_(Abstract!vars)
  <2>1. w \in Busy /\ queue' = queue
    BY <1>12 DEF Serve, Busy
  <2>2. wco' = [wco EXCEPT ![w] = Null]
    BY <1>12 DEF Serve, CloseConnection
  <2> QED
    BY <1>c, <2>1, <2>2 DEF Abstract!Next
<1>13. CASE UNCHANGED vars
  BY <1>13, <1>b DEF vars
<1> QED
  BY <1>1, <1>2, <1>3, <1>4, <1>5, <1>6, <1>7, <1>8, <1>9, <1>10, <1>11,
     <1>12, <1>13 DEF Next, MainStep, WorkerStep

(* The semaphore, the lock and the array queue implement the hand-off:     *)
(* each connection is taken by one worker, in the order of acceptance.     *)
THEOREM Refinement ==
  ASSUME "leave_cs" \notin Faults, SemMax >= Capacity
  PROVE  Spec => ImplementsHandoff
<1>1. HandoffInv /\ [Next]_vars => [Abstract!Next]_(Abstract!vars)
  BY StepRefinement
<1> QED
  BY <1>1, InitRefinement, HandoffInvariant, PTL
     DEF Spec, ImplementsHandoff, Abstract!Spec

-----------------------------------------------------------------------------
(* The connection that is served, when leave_cs() may fail.  The thread    *)
(* for which it fails closes a connection that may still be queued, and    *)
(* keeps the lock: from then on nothing is enqueued or dequeued, so those  *)
(* that were taken before stay alone.                                      *)

LockKept ==
  \/ cs = NoThread
  \/ cs = Main /\ mpc \in {"enqueue", "sleep", "leave_cs"}
  \/ cs \in Workers /\ wpc[cs] \in {"dequeue", "leave_cs"}

Serving == {w \in Workers : wpc[w] = "serve"}

ServedPart ==
  /\ ServedAlone
  /\ MainOwns => mco \notin {wco[w] : w \in Serving}
  /\ mpc = "leave_cs" => mco \in Queued

ServiceInv ==
  /\ TypeInv /\ DequeueFindsEntry /\ MutualExclusion
  /\ LockKept => Ownership
  /\ ServedPart

(* A lost lock stays lost.                                                 *)
LEMMA LockStaysLost ==
  ASSUME TypeInv, MutualExclusion, ~LockKept, [Next]_vars
  PROVE  ~LockKept'
<1> USE DispatchAssumption DEF TypeInv, MutualExclusion, LockKept
<1>1. CASE MainStep \/ MainAccept
  BY <1>1 DEF MainAccept, MainStep, MainNewConnection, MainEnterCs,
     MainEnqueue, MainSleep, MainLeaveCs, MainIncrement, RejectConnection,
     Lock, Unlock
<1>2. ASSUME NEW w \in Workers, WorkerStep(w) \/ Serve(w) PROVE ~LockKept'
  BY <1>2 DEF WorkerStep, Serve, WaitSemaphore, EnterCs, DequeueConnection,
     LeaveCs, Goto, Lock, Unlock
<1>3. CASE UNCHANGED vars
  BY <1>3 DEF vars
<1> QED
  BY <1>1, <1>2, <1>3 DEF Next

(* While the lock is kept connections have one owner.                      *)
LEMMA OwnershipWhileKept ==
  ASSUME SemMax >= Capacity, ServiceInv, [Next]_vars, LockKept'
  PROVE  Ownership'
<1>1. LockKept
  BY LockStaysLost DEF ServiceInv
<1>2. LeavesCs
  <2> USE DispatchAssumption DEF ServiceInv, TypeInv, MutualExclusion,
          LockKept, LeavesCs
  <2>1. CASE MainStep \/ MainAccept
    BY <2>1 DEF MainAccept, MainStep, MainNewConnection, MainEnterCs,
       MainEnqueue, MainSleep, MainLeaveCs, MainIncrement, RejectConnection,
       Unlock
  <2>2. ASSUME NEW w \in Workers, WorkerStep(w) \/ Serve(w) PROVE LeavesCs
    BY <2>2 DEF WorkerStep, Serve, WaitSemaphore, EnterCs, DequeueConnection,
       LeaveCs, CloseConnection, Goto, Unlock
  <2>3. CASE UNCHANGED vars
    BY <2>3 DEF vars
  <2> QED
    BY <2>1, <2>2, <2>3 DEF Next
<1> QED
  BY <1>1, <1>2, NextOwnership DEF ServiceInv, HandoffInv

(* No thread touches a connection that is served.                          *)
LEMMA NextServedPart ==
  ASSUME SemMax >= Capacity, ServiceInv, [Next]_vars
  PROVE  ServedPart'
<1> USE DispatchAssumption DEF ServiceInv, TypeInv, ServedPart, ServedAlone,
        MainOwns, Serving, Busy
<1>a. queue' = queue => Queued' = Queued
  BY DEF Queued, Entries
<1>b. Queued \subseteq Conns
  <2>1. Entries \in Seq(Conns) /\ Len(Entries) = queue.size
    BY ContentsIsSeq DEF Entries
  <2> QED
    BY <2>1 DEF Queued
<1>1. CASE MainAccept
  BY <1>1, <1>a DEF MainAccept
<1>2. CASE MainNewConnection
  BY <1>2, <1>a DEF MainNewConnection, RejectConnection
<1>3. CASE MainEnterCs
  BY <1>3, <1>a DEF MainEnterCs, RejectConnection, Lock
<1>4. CASE MainEnqueue
  <2>1. mco \in Conns /\ queue' = Enqueue(queue, mco)
    BY <1>4 DEF MainEnqueue
  <2>2. CASE EnqueueResult(queue) = -1
    <3>1. queue' = queue
      BY <2>1, <2>2, EnqueueEntries
    <3> QED
      BY <1>4, <1>a, <2>2, <3>1 DEF MainEnqueue
  <2>3. CASE EnqueueResult(queue) # -1
    <3>1. Queued' = Queued \cup {mco}
      BY <1>4, <2>1, <2>3, QueuedAfterEnqueue
    <3> QED
      BY <1>4, <2>3, <3>1 DEF MainEnqueue
  <2> QED
    BY <2>2, <2>3
<1>5. CASE MainSleep
  BY <1>5, <1>a DEF MainSleep
<1>6. CASE MainLeaveCs
  BY <1>6, <1>a, <1>b DEF MainLeaveCs, RejectConnection, Unlock
<1>7. CASE MainIncrement
  <2>1. sem < SemMax
    BY <1>7, RoomForToken
  <2> QED
    BY <1>7, <1>a, <2>1 DEF MainIncrement, SemHasRoom, SemPost
<1>8. ASSUME NEW w \in Workers, WaitSemaphore(w) PROVE ServedPart'
  BY <1>8, <1>a DEF WaitSemaphore, Goto, SemWait
<1>9. ASSUME NEW w \in Workers, EnterCs(w) PROVE ServedPart'
  BY <1>9, <1>a DEF EnterCs, Goto, Lock
<1>10. ASSUME NEW w \in Workers, DequeueConnection(w) PROVE ServedPart'
  <2>1. cs = w /\ w # Main /\ mpc # "leave_cs" /\ LockKept
    BY <1>10 DEF DequeueConnection, MutualExclusion, LockKept
  <2>2. queue' = Dequeue(queue)
    BY <1>10 DEF DequeueConnection
  <2>3. CASE queue.size = 0
    <3>1. queue' = queue /\ DequeueResult(queue) = Null
      BY <2>2, <2>3 DEF Dequeue, DequeueResult, IsEmpty
    <3> QED
      BY <1>10, <1>a, <2>1, <3>1 DEF DequeueConnection, Goto
  <2>4. CASE queue.size # 0
    <3>1. DequeueResult(queue) \in Conns /\ DequeueResult(queue) # Null
      BY <2>4, DequeueEntries
    <3>2. /\ DequeueResult(queue) \in Queued
          /\ Queued' = Queued \ {DequeueResult(queue)}
      BY <2>1, <2>2, <2>4, QueuedAfterDequeue DEF Ownership, OwnedOnce
    <3>3. /\ wpc' = [wpc EXCEPT ![w] = "leave_cs"]
          /\ wco' = [wco EXCEPT ![w] = DequeueResult(queue)]
          /\ UNCHANGED <<mpc, mco, fd>>
      BY <1>10, <3>1 DEF DequeueConnection, Goto
    <3> QED
      BY <2>1, <3>1, <3>2, <3>3
  <2> QED
    BY <2>3, <2>4
<1>11. ASSUME NEW w \in Workers, LeaveCs(w) PROVE ServedPart'
  <2>1. wpc[w] = "leave_cs" /\ cs = w /\ mpc # "leave_cs" /\ LockKept
    BY <1>11 DEF LeaveCs, MutualExclusion, LockKept
  <2>2. /\ fd[wco[w]] = "open" /\ wco[w] \notin Queued
        /\ \A v \in Busy \ {w} : wco[v] # wco[w]
        /\ MainOwns => mco # wco[w]
    BY <2>1 DEF Ownership, OwnedOnce, OwnedIsOpen
  <2>3. CASE Unlock /\ Goto(w, "serve") /\ UNCHANGED <<wco, fd>>
    BY <1>11, <1>a, <2>1, <2>2, <2>3 DEF LeaveCs, Goto
  <2>4. CASE CloseConnection(w) /\ Goto(w, "wait")
    BY <1>11, <1>a, <2>1, <2>2, <2>4 DEF LeaveCs, Goto, CloseConnection
  <2> QED
    BY <1>11, <2>3, <2>4 DEF LeaveCs
<1>12. ASSUME NEW w \in Workers, Serve(w) PROVE ServedPart'
  BY <1>12, <1>a DEF Serve, CloseConnection, Goto
<1>13. CASE UNCHANGED vars
  BY <1>13, <1>a DEF vars
<1> QED
  BY <1>1, <1>2, <1>3, <1>4, <1>5, <1>6, <1>7, <1>8, <1>9, <1>10, <1>11,
     <1>12, <1>13 DEF Next, MainStep, WorkerStep

(* Whatever fails, nobody closes or takes the connection that a worker     *)
(* serves, as long as the semaphore has room for a full queue.             *)
THEOREM AloneWhileServed ==
  ASSUME SemMax >= Capacity
  PROVE  Spec => []ServedAlone
<1>1. Init => ServiceInv
  <2> SUFFICES ASSUME Init PROVE ServiceInv
    OBVIOUS
  <2>1. HandoffInv
    BY InitHandoffInv
  <2> QED
    BY <2>1 DEF HandoffInv, ServiceInv, ServedPart, Init, MutualExclusion,
       ServedAlone, MainOwns
<1>2. ServiceInv /\ [Next]_vars => ServiceInv'
  <2> SUFFICES ASSUME ServiceInv, [Next]_vars PROVE ServiceInv'
    OBVIOUS
  <2>1. TypeInv' /\ DequeueFindsEntry' /\ MutualExclusion'
    BY NextTypeInv, NextDequeueFindsEntry, NextMutualExclusion DEF ServiceInv
  <2>2. LockKept' => Ownership'
    BY OwnershipWhileKept
  <2>3. ServedPart'
    BY NextServedPart
  <2> QED
    BY <2>1, <2>2, <2>3 DEF ServiceInv, ServedPart
<1>3. ServiceInv => ServedAlone
  BY DEF ServiceInv, ServedPart
<1> QED
  BY <1>1, <1>2, <1>3, PTL DEF Spec
=============================================================================
