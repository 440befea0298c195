-------------------------- MODULE ThreeStageProofs --------------------------
(***************************************************************************)
(* Theorems about ThreeStage, for any number of pairs, of messages and of  *)
(* places in a queue, and for every variant of the queue objects.          *)
(***************************************************************************)
EXTENDS ThreeStage, SequenceTheorems, TLAPS

-----------------------------------------------------------------------------
(* Types.                                                                  *)

Messages == Pairs \X Nat

Items == Messages \cup Seq(Messages) \cup {NoMsg}

Places == {"idle", "enter", "outside", "wait", "ended", "killed"}

CallRecords ==
  [op : {"none", "get", "put"}, q : Queues \cup {NoMsg}, at : Places, msg : Items]

QueueRecords(k) ==
  [first : 0 .. QSize[k] - 1, last : 0 .. QSize[k] - 1, array : [0 .. QSize[k] - 1 -> Items],
   guard : Threads \cup {NoThread}, ne : BOOLEAN, nf : BOOLEAN]

QueuesTyped ==
  /\ q = [k \in Queues |-> q[k]]
  /\ \A k \in Queues : q[k] \in QueueRecords(k)

CallsTyped == call \in [Threads -> CallRecords]

(* The variants that wait without limit either set an auto-reset event or  *)
(* leave the guard and wait in one call.                                   *)
Variants ==
  [soaw : BOOLEAN, polls : BOOLEAN, announce : {"PulseEvent", "SetEvent"},
   guard : {"mutex", "critical section"}, events : {"manual reset", "auto-reset"}]

BuildTyped ==
  /\ build \in Variants
  /\ \/ build.polls
     \/ build.announce = "SetEvent" /\ build.events = "auto-reset"
     \/ build.announce = "PulseEvent" /\ build.events = "manual reset" /\ build.soaw

LEMMA BuildsAreTyped == build \in Builds => BuildTyped
<1> SUFFICES ASSUME build \in Builds PROVE BuildTyped
  OBVIOUS
<1>1. CASE build = Linked(Mutex_Pulse, Mutex_Pulse_objects)
  BY <1>1 DEF Linked, BuildTyped, Variants, Mutex_Pulse, Mutex_Pulse_objects
<1>2. CASE build = Linked(CS_Pulse, CS_Pulse_objects)
  BY <1>2 DEF Linked, BuildTyped, Variants, CS_Pulse, CS_Pulse_objects
<1>3. CASE build = Linked(SOAW_Pulse, SOAW_Pulse_objects)
  BY <1>3 DEF Linked, BuildTyped, Variants, SOAW_Pulse, SOAW_Pulse_objects
<1>4. CASE build = Linked(Mutex_Set, Mutex_Set_objects)
  BY <1>4 DEF Linked, BuildTyped, Variants, Mutex_Set, Mutex_Set_objects
<1>5. CASE build = Linked(CS_Set, CS_Set_objects)
  BY <1>5 DEF Linked, BuildTyped, Variants, CS_Set, CS_Set_objects
<1>6. CASE build = Linked(SOAW_Set, SOAW_Set_objects)
  BY <1>6 DEF Linked, BuildTyped, Variants, SOAW_Set, SOAW_Set_objects
<1> QED BY <1>1, <1>2, <1>3, <1>4, <1>5, <1>6 DEF Builds

-----------------------------------------------------------------------------
(* The queues.  As q_full() is written a queue holds one message or none,  *)
(* whatever its size: in every queue the indices are equal or `last` is    *)
(* one slot ahead.                                                         *)

OneMessage == \A k \in Queues : q_empty(k) \/ q_full(k)

LEMMA NextSlot ==
  ASSUME NEW n \in Nat \ {0, 1}, NEW i \in 0 .. n - 1
  PROVE  (i + 1) % n = IF i = n - 1 THEN 0 ELSE i + 1
<1>1. CASE i = n - 1
  BY <1>1
<1>2. CASE i # n - 1
  BY <1>2
<1> QED BY <1>1, <1>2

LEMMA SizeTyped == ASSUME NEW k \in Queues PROVE QSize[k] \in Nat \ {0, 1}
BY QueueObjAssumption

LEMMA OneAhead ==
  ASSUME NEW n \in Nat \ {0, 1}, NEW first \in 0 .. n - 1, NEW last \in 0 .. n - 1
  PROVE  (last - first = 1 \/ (first = n - 1 /\ last = 0)) <=> last = (first + 1) % n
BY NextSlot

LEMMA FullIsOne ==
  ASSUME QueuesTyped, NEW k \in Queues
  PROVE  q_full(k) <=> q[k].last = (q[k].first + 1) % QSize[k]
<1>1. q[k].first \in 0 .. QSize[k] - 1 /\ q[k].last \in 0 .. QSize[k] - 1
  BY DEF QueuesTyped, QueueRecords
<1> QED BY <1>1, SizeTyped, OneAhead DEF q_full

LEMMA FullOrEmpty ==
  ASSUME QueuesTyped, NEW k \in Queues
  PROVE  ~(q_empty(k) /\ q_full(k))
<1>1. q[k].first \in 0 .. QSize[k] - 1 /\ q[k].last \in 0 .. QSize[k] - 1
  BY DEF QueuesTyped, QueueRecords
<1> QED BY <1>1, SizeTyped DEF q_full, q_empty

LEMMA FullOrEmptyNext ==
  ASSUME QueuesTyped', NEW k \in Queues
  PROVE  q_full(k)' => ~q_empty(k)'
<1>1. q'[k].first \in 0 .. QSize[k] - 1 /\ q'[k].last \in 0 .. QSize[k] - 1
  BY DEF QueuesTyped, QueueRecords
<1> QED BY <1>1, SizeTyped DEF q_full, q_empty

LEMMA RemoveEffect ==
  ASSUME QueuesTyped, NEW k \in Queues, q_full(k)
  PROVE  /\ q_remove(k) \in QueueRecords(k)
         /\ q_remove(k).first = q_remove(k).last
         /\ q_remove(k).ne = q[k].ne /\ q_remove(k).nf = q[k].nf
<1>1. q[k] \in QueueRecords(k)
  BY DEF QueuesTyped
<1>2. q[k].last = (q[k].first + 1) % QSize[k]
  BY FullIsOne
<1> QED BY <1>1, <1>2 DEF QueueRecords, q_remove

LEMMA InsertEffect ==
  ASSUME QueuesTyped, NEW k \in Queues, q_empty(k), NEW m \in Items
  PROVE  /\ q_insert(k, m) \in QueueRecords(k)
         /\ q_insert(k, m).first = q[k].first
         /\ q_insert(k, m).last = (q[k].first + 1) % QSize[k]
         /\ q_insert(k, m).array[q[k].first] = m
         /\ q_insert(k, m).ne = q[k].ne /\ q_insert(k, m).nf = q[k].nf
<1>1. q[k] \in QueueRecords(k)
  BY DEF QueuesTyped
<1>2. q[k].last = q[k].first /\ ~q_full(k)
  BY FullOrEmpty DEF q_empty
<1>3. (q[k].first + 1) % QSize[k] \in 0 .. QSize[k] - 1
  BY <1>1, SizeTyped, NextSlot DEF QueueRecords
<1> QED BY <1>1, <1>2, <1>3 DEF QueueRecords, q_insert

-----------------------------------------------------------------------------
(* The calls: which thread is in which call on which queue.                *)

InCall(t, op, k) ==
  call[t].op = op /\ call[t].q = k /\ call[t].at \in {"enter", "outside", "wait"}

(* A call that goes on, at the same place or woken.                        *)
Untouched(o) ==
  \/ call'[o] = call[o]
  \/ At(o, "wait") /\ call'[o] = [call[o] EXCEPT !.at = "enter"]

OtherQueuesStay(k) ==
  /\ DOMAIN q' = Queues
  /\ \A j \in Queues \ {k} : q'[j] = q[j]

CallsStay(ts) ==
  /\ DOMAIN call' = Threads
  /\ \A o \in Threads \ ts : Untouched(o)

LEMMA TransferCalls ==
  ASSUME CallsTyped, NEW t \in Threads, NEW next \in CallRecords, Transfer(t, next)
  PROVE  CallsTyped' /\ CallsStay({t}) /\ call'[t] = next
<1>1. PICK woken \in SUBSET Threads :
        /\ \A o \in woken : At(o, "wait")
        /\ call' = [Woken(woken) EXCEPT ![t] = next]
  BY DEF Transfer, Waiting
<1>2. Woken(woken) \in [Threads -> CallRecords]
  BY DEF CallsTyped, CallRecords, Woken, Places
<1>3. \A o \in Threads : Woken(woken)[o] = IF o \in woken THEN [call[o] EXCEPT !.at = "enter"] ELSE call[o]
  BY DEF Woken
<1> QED BY <1>1, <1>2, <1>3 DEF CallsTyped, CallsStay, Untouched

LEMMA GetEffect ==
  ASSUME QueuesTyped, OneMessage, NEW k \in Queues, NEW t \in Threads, NEW next,
         InCall(t, "get", k), Transfer(t, next)
  PROVE  /\ At(t, "enter") /\ q_full(k) /\ ~q_empty(k)
         /\ QueuesTyped' /\ OtherQueuesStay(k) /\ q_empty(k)'
<1>1. At(t, "enter") /\ ~q_empty(k) /\ q_full(k)
  BY DEF Transfer, CanEnter, Blocked, InCall, OneMessage
<1>2. PICK stays \in BOOLEAN : q' = [q EXCEPT ![k] = [q_remove(k) EXCEPT !.nf = stays]]
  BY DEF Transfer, Moved, InCall, Announces
<1>3. /\ q_remove(k) \in QueueRecords(k) /\ q_remove(k).first = q_remove(k).last
  BY <1>1, RemoveEffect
<1>4. q = [j \in Queues |-> q[j]] /\ \A j \in Queues : q[j] \in QueueRecords(j)
  BY DEF QueuesTyped
<1>5. /\ q'[k] \in QueueRecords(k) /\ q'[k].first = q'[k].last
  BY <1>2, <1>3, <1>4 DEF QueueRecords
<1>6. OtherQueuesStay(k)
  BY <1>2, <1>4 DEF OtherQueuesStay
<1> QED BY <1>1, <1>2, <1>4, <1>5, <1>6 DEF QueuesTyped, OtherQueuesStay, q_empty

LEMMA PutEffect ==
  ASSUME QueuesTyped, OneMessage, NEW k \in Queues, NEW t \in Threads, NEW next,
         InCall(t, "put", k), call[t].msg \in Items, Transfer(t, next)
  PROVE  /\ At(t, "enter") /\ q_empty(k) /\ ~q_full(k)
         /\ QueuesTyped' /\ OtherQueuesStay(k) /\ q_full(k)' /\ Oldest(k)' = call[t].msg
<1>1. At(t, "enter") /\ ~q_full(k) /\ q_empty(k)
  BY DEF Transfer, CanEnter, Blocked, InCall, OneMessage
<1>2. PICK stays \in BOOLEAN : q' = [q EXCEPT ![k] = [q_insert(k, call[t].msg) EXCEPT !.ne = stays]]
  BY DEF Transfer, Moved, InCall, Announces
<1>3. /\ q_insert(k, call[t].msg) \in QueueRecords(k)
      /\ q_insert(k, call[t].msg).first = q[k].first
      /\ q_insert(k, call[t].msg).last = (q[k].first + 1) % QSize[k]
      /\ q_insert(k, call[t].msg).array[q[k].first] = call[t].msg
  BY <1>1, InsertEffect
<1>4. q = [j \in Queues |-> q[j]] /\ \A j \in Queues : q[j] \in QueueRecords(j)
  BY DEF QueuesTyped
<1>5. /\ q'[k] \in QueueRecords(k)
      /\ q'[k].last = (q'[k].first + 1) % QSize[k] /\ q'[k].array[q'[k].first] = call[t].msg
  BY <1>2, <1>3, <1>4 DEF QueueRecords
<1>6. OtherQueuesStay(k)
  BY <1>2, <1>4 DEF OtherQueuesStay
<1>7. QueuesTyped'
  BY <1>2, <1>4, <1>5, <1>6 DEF QueuesTyped, OtherQueuesStay
<1>8. q_full(k)'
  <2>1. q'[k].first \in 0 .. QSize[k] - 1 /\ q'[k].last \in 0 .. QSize[k] - 1
    BY <1>5 DEF QueueRecords
  <2> QED BY <1>5, <2>1, SizeTyped, OneAhead DEF q_full
<1> QED BY <1>1, <1>5, <1>6, <1>7, <1>8 DEF Oldest

(* A call that does not return leaves the messages of all queues alone.    *)
SameMessages ==
  /\ DOMAIN q' = Queues
  /\ \A j \in Queues :
       q'[j].first = q[j].first /\ q'[j].last = q[j].last /\ q'[j].array = q[j].array

CallGoesOn(t) ==
  /\ DOMAIN call' = Threads
  /\ \A o \in Threads \ {t} : call'[o] = call[o]
  /\ call[t].at \in {"enter", "outside", "wait"}
  /\ \E place \in {"enter", "outside", "wait"} : call'[t] = [call[t] EXCEPT !.at = place]

LEMMA WaitEffect ==
  ASSUME QueuesTyped, CallsTyped, NEW t \in Threads, WaitOnEvent(t),
         call[t].at \in {"enter", "outside", "wait"},
         call[t].op \in {"get", "put"}, call[t].q \in Queues
  PROVE  QueuesTyped' /\ SameMessages /\ CallGoesOn(t)
<1> DEFINE k == call[t].q
<1>1. q = [j \in Queues |-> q[j]] /\ \A j \in Queues : q[j] \in QueueRecords(j)
  BY DEF QueuesTyped
<1>2. CallGoesOn(t)
  BY DEF WaitOnEvent, CallGoesOn, CallsTyped
<1>3. PICK set \in BOOLEAN : q' = [q EXCEPT ![k].ne = set] \/ q' = [q EXCEPT ![k].nf = set]
  <2>1. \/ q' = [q EXCEPT ![k].ne = (q[k].ne /\ ~AutoReset)]
        \/ q' = [q EXCEPT ![k].nf = (q[k].nf /\ ~AutoReset)]
    BY <1>1 DEF WaitOnEvent, WaitsFor
  <2>2. (q[k].ne /\ ~AutoReset) \in BOOLEAN /\ (q[k].nf /\ ~AutoReset) \in BOOLEAN
    OBVIOUS
  <2> QED BY <2>1, <2>2
<1>4. k \in Queues
  OBVIOUS
<1> HIDE DEF k
<1>5. q'[k] \in QueueRecords(k)
  <2>1. q'[k] = [q[k] EXCEPT !.ne = set] \/ q'[k] = [q[k] EXCEPT !.nf = set]
    BY <1>1, <1>3, <1>4
  <2>2. q[k] \in QueueRecords(k)
    BY <1>1, <1>4
  <2> QED BY ONLY <2>1, <2>2, set \in BOOLEAN DEF QueueRecords
<1>6. /\ DOMAIN q' = Queues /\ \A j \in Queues \ {k} : q'[j] = q[j]
      /\ q'[k].first = q[k].first /\ q'[k].last = q[k].last /\ q'[k].array = q[k].array
  BY <1>1, <1>3, <1>4 DEF QueueRecords
<1>7. q' = [j \in Queues |-> q'[j]]
  BY <1>1, <1>3
<1> QED BY <1>1, <1>2, <1>4, <1>5, <1>6, <1>7 DEF QueuesTyped, SameMessages

LEMMA PendingEffect ==
  ASSUME QueuesTyped, CallsTyped, NEW t \in Threads, Pending(t),
         call[t].at \in {"enter", "outside", "wait"} =>
           call[t].op \in {"get", "put"} /\ call[t].q \in Queues
  PROVE  QueuesTyped' /\ CallsTyped' /\ SameMessages /\ CallGoesOn(t)
<1>1. call[t].at \in {"enter", "outside", "wait"}
  BY DEF Pending, Leave, StartWait, Poll, CanEnter, At
<1>2. call[t].op \in {"get", "put"} /\ call[t].q \in Queues
  BY <1>1
<1>3. \/ WaitOnEvent(t)
      \/ /\ q' = q
         /\ \E place \in {"enter", "outside", "wait"} : call' = [call EXCEPT ![t].at = place]
  BY DEF Pending, Leave, StartWait, Poll
<1>4. QueuesTyped' /\ SameMessages /\ CallGoesOn(t)
  <2>1. CASE WaitOnEvent(t)
    BY <1>1, <1>2, <2>1, WaitEffect
  <2>2. CASE /\ q' = q
             /\ \E place \in {"enter", "outside", "wait"} : call' = [call EXCEPT ![t].at = place]
    BY <1>1, <2>2 DEF QueuesTyped, SameMessages, CallGoesOn, CallsTyped
  <2> QED BY <1>3, <2>1, <2>2
<1>5. CallsTyped'
  <2>1. PICK place \in {"enter", "outside", "wait"} : call'[t] = [call[t] EXCEPT !.at = place]
    BY <1>4 DEF CallGoesOn
  <2>2. call'[t] \in CallRecords
    BY <2>1 DEF CallsTyped, CallRecords, Places
  <2>3. call' = [o \in Threads |-> call'[o]]
    BY <1>3 DEF WaitOnEvent, CallsTyped
  <2> QED BY <1>4, <2>2, <2>3 DEF CallGoesOn, CallsTyped
<1> QED BY <1>4, <1>5

-----------------------------------------------------------------------------
(* The threads.                                                            *)

LEMMA Cast ==
  /\ \A p \in Pairs : Producer(p) \in Threads /\ Consumer(p) \in Threads
  /\ \A p \in Pairs : Producer(p) \in Workers /\ Consumer(p) \in Workers
  /\ Transmitter \in Threads /\ Receiver \in Threads /\ Transmitter # Receiver
  /\ \A p \in Pairs : Transmitter \notin {Producer(p), Consumer(p)}
  /\ \A p \in Pairs : Receiver \notin {Producer(p), Consumer(p)}
  /\ \A p, o \in Pairs : Producer(p) # Consumer(o)
  /\ \A p, o \in Pairs : Producer(p) = Producer(o) => p = o
  /\ \A p, o \in Pairs : Consumer(p) = Consumer(o) => p = o
  /\ \A t \in Threads :
       t \in {Transmitter, Receiver} \/ \E p \in Pairs : t \in {Producer(p), Consumer(p)}
<1>1. \A p \in Pairs : Producer(p) \in Workers /\ Consumer(p) \in Workers
  BY DEF Producer, Consumer, Workers
<1>2. Threads = Workers \cup {Transmitter, Receiver}
  BY ThreeStageAssumption DEF Workers
<1>3. Transmitter \notin Workers /\ Receiver \notin Workers /\ Transmitter # Receiver
  BY ThreeStageAssumption DEF Workers
<1>4. \A t \in Workers : \E p \in Pairs : t \in {Producer(p), Consumer(p)}
  BY DEF Producer, Consumer, Workers
<1>5. /\ \A p, o \in Pairs : Producer(p) # Consumer(o)
      /\ \A p, o \in Pairs : Producer(p) = Producer(o) => p = o
      /\ \A p, o \in Pairs : Consumer(p) = Consumer(o) => p = o
  BY DEF Producer, Consumer
<1> QED BY <1>1, <1>2, <1>3, <1>4, <1>5

LEMMA QueueNames ==
  /\ "p2tq" \in Queues /\ "t2rq" \in Queues /\ Pairs \subseteq Queues
  /\ "p2tq" \notin Pairs /\ "t2rq" \notin Pairs
  /\ Queues = {"p2tq", "t2rq"} \cup Pairs
BY ThreeStageAssumption

Running == boss \in {"producers", "consumers", "terminate"}

ProducerIn(p) ==
  \/ At(Producer(p), "ended")
  \/ InCall(Producer(p), "put", "p2tq") /\ call[Producer(p)].msg = <<p, work_done[Producer(p)]>>

ConsumerIn(p) == At(Consumer(p), "ended") \/ InCall(Consumer(p), "get", p)

TransmitterIn ==
  \/ InCall(Transmitter, "get", "p2tq")
  \/ InCall(Transmitter, "put", "t2rq") /\ call[Transmitter].msg = block /\ block # <<>>

ReceiverIn ==
  \/ InCall(Receiver, "get", "t2rq") /\ unpacked = <<>>
  \/ \E p \in Pairs :
       /\ InCall(Receiver, "put", p)
       /\ call[Receiver].msg \in Messages /\ call[Receiver].msg[1] = p

(* What main waited for has happened.                                      *)
Phases ==
  /\ boss # "producers" => AllEnded("producer")
  /\ boss \notin {"producers", "consumers"} => AllEnded("consumer")
  /\ ~Running => At(Transmitter, "killed") /\ At(Receiver, "killed")

Roles ==
  /\ \A p \in Pairs : ProducerIn(p) /\ ConsumerIn(p)
  /\ Running => TransmitterIn /\ ReceiverIn
  /\ Phases

DataTyped ==
  /\ goal \in [Pairs -> Nat]
  /\ boss \in {"producers", "consumers", "terminate", "destroy", "done"}
  /\ work_done \in [Workers -> Nat]
  /\ block \in Seq(Messages) /\ unpacked \in Seq(Messages)
  /\ got \in [Pairs -> Seq(Messages)]

ContentsTyped ==
  /\ \A p \in Pairs : ~q_empty(p) => Oldest(p) \in Messages
  /\ ~q_empty("p2tq") => Oldest("p2tq") \in Messages
  /\ ~q_empty("t2rq") => Oldest("t2rq") \in Seq(Messages) \ {<<>>}

(* The types, what the queues may hold and which thread is in which call.  *)
TypeInv ==
  /\ BuildTyped /\ QueuesTyped /\ CallsTyped /\ DataTyped
  /\ OneMessage /\ ContentsTyped /\ Roles

(* What a step leaves of a call and of a queue.                            *)
Kept(o) ==
  /\ call'[o].op = call[o].op /\ call'[o].q = call[o].q /\ call'[o].msg = call[o].msg
  /\ \/ call'[o].at = call[o].at
     \/ {call'[o].at, call[o].at} \subseteq {"enter", "outside", "wait"}

SameContent(j) ==
  (q_empty(j)' <=> q_empty(j)) /\ (q_full(j)' <=> q_full(j)) /\ Oldest(j)' = Oldest(j)

LEMMA UntouchedIsKept ==
  ASSUME CallsTyped, NEW o \in Threads, Untouched(o) PROVE Kept(o)
BY DEF CallsTyped, CallRecords, Untouched, Kept, At

LEMMA GoesOnIsKept ==
  ASSUME CallsTyped, NEW t \in Threads, CallGoesOn(t) PROVE \A o \in Threads : Kept(o)
<1>1. call[t] \in CallRecords
  BY DEF CallsTyped
<1>2. Kept(t)
  BY <1>1 DEF CallGoesOn, CallRecords, Kept
<1> QED BY <1>2 DEF CallGoesOn, Kept

LEMMA KeptInCall ==
  ASSUME NEW o, Kept(o)
  PROVE  /\ \A op, k : InCall(o, op, k) => InCall(o, op, k)'
         /\ At(o, "ended") => At(o, "ended")'
         /\ At(o, "killed") => At(o, "killed")'
         /\ call'[o].msg = call[o].msg
BY DEF Kept, InCall, At

LEMMA OthersSame ==
  ASSUME NEW k \in Queues, OtherQueuesStay(k)
  PROVE  \A j \in Queues \ {k} : SameContent(j)
BY DEF OtherQueuesStay, SameContent, q_empty, q_full, Oldest

LEMMA AllSame ==
  ASSUME SameMessages PROVE \A j \in Queues : SameContent(j)
BY DEF SameMessages, SameContent, q_empty, q_full, Oldest

(* The roles of the threads whose call a step keeps.                       *)
LEMMA RolesKept ==
  ASSUME Roles
  PROVE  /\ \A p \in Pairs :
              /\ Kept(Producer(p)) /\ work_done'[Producer(p)] = work_done[Producer(p)]
                   => ProducerIn(p)'
              /\ Kept(Consumer(p)) => ConsumerIn(p)'
         /\ Running /\ Kept(Transmitter) /\ block' = block => TransmitterIn'
         /\ Running /\ Kept(Receiver) /\ unpacked' = unpacked => ReceiverIn'
<1>1. ASSUME NEW p \in Pairs, Kept(Producer(p)), work_done'[Producer(p)] = work_done[Producer(p)]
      PROVE  ProducerIn(p)'
  BY <1>1, KeptInCall DEF Roles, ProducerIn
<1>2. ASSUME NEW p \in Pairs, Kept(Consumer(p)) PROVE ConsumerIn(p)'
  BY <1>2, KeptInCall DEF Roles, ConsumerIn
<1>3. ASSUME Running, Kept(Transmitter), block' = block PROVE TransmitterIn'
  BY <1>3, KeptInCall DEF Roles, TransmitterIn
<1>4. ASSUME Running, Kept(Receiver), unpacked' = unpacked PROVE ReceiverIn'
  <2>1. ReceiverIn
    BY <1>4 DEF Roles
  <2>2. CASE InCall(Receiver, "get", "t2rq") /\ unpacked = <<>>
    BY <1>4, <2>2, KeptInCall DEF ReceiverIn
  <2>3. ASSUME NEW p \in Pairs, InCall(Receiver, "put", p),
               call[Receiver].msg \in Messages, call[Receiver].msg[1] = p
        PROVE  ReceiverIn'
    <3>1. InCall(Receiver, "put", p)' /\ call'[Receiver].msg = call[Receiver].msg
      BY <1>4, <2>3, KeptInCall
    <3> QED BY <2>3, <3>1 DEF ReceiverIn
  <2> QED BY <2>1, <2>2, <2>3 DEF ReceiverIn
<1> QED BY <1>1, <1>2, <1>3, <1>4

LEMMA GetContents ==
  ASSUME OneMessage, ContentsTyped, NEW k \in Queues, OtherQueuesStay(k), q_empty(k)'
  PROVE  OneMessage' /\ ContentsTyped'
BY OthersSame, QueueNames DEF OneMessage, ContentsTyped, SameContent

LEMMA PutContents ==
  ASSUME QueuesTyped', OneMessage, ContentsTyped, NEW k \in Queues, OtherQueuesStay(k), q_full(k)',
         k = "t2rq" => Oldest(k)' \in Seq(Messages) \ {<<>>},
         k # "t2rq" => Oldest(k)' \in Messages
  PROVE  OneMessage' /\ ContentsTyped'
<1>1. OneMessage'
  BY OthersSame DEF OneMessage, SameContent
<1>2. \A p \in Pairs : (~q_empty(p) => Oldest(p) \in Messages)'
  BY OthersSame, QueueNames DEF ContentsTyped, SameContent
<1>3. (~q_empty("p2tq") => Oldest("p2tq") \in Messages)'
  BY OthersSame, QueueNames DEF ContentsTyped, SameContent
<1>4. (~q_empty("t2rq") => Oldest("t2rq") \in Seq(Messages) \ {<<>>})'
  BY OthersSame, QueueNames DEF ContentsTyped, SameContent
<1> QED BY <1>1, <1>2, <1>3, <1>4 DEF ContentsTyped

LEMMA PhasesKept ==
  ASSUME Phases, boss' = boss, NEW t, At(t, "enter"), \A o \in Threads \ {t} : Kept(o)
  PROVE  Phases'
<1>1. ASSUME NEW o \in Threads, At(o, "ended") \/ At(o, "killed")
      PROVE  /\ At(o, "ended") => At(o, "ended")'
             /\ At(o, "killed") => At(o, "killed")'
  BY <1>1, KeptInCall DEF At
<1>2. \A p \in Pairs : <<p, "producer">> \in Threads /\ <<p, "consumer">> \in Threads
  BY Cast DEF Producer, Consumer
<1>3. boss # "producers" => AllEnded("producer")'
  BY <1>1, <1>2 DEF Phases, AllEnded
<1>4. boss \notin {"producers", "consumers"} => AllEnded("consumer")'
  BY <1>1, <1>2 DEF Phases, AllEnded
<1>5. ~Running => At(Transmitter, "killed")' /\ At(Receiver, "killed")'
  BY <1>1, Cast DEF Phases
<1> QED BY <1>3, <1>4, <1>5 DEF Phases, Running

LEMMA StaysKept ==
  ASSUME CallsTyped, NEW t \in Threads, CallsStay({t})
  PROVE  \A o \in Threads \ {t} : Kept(o)
BY UntouchedIsKept DEF CallsStay

LEMMA NextCalls ==
  /\ Ended \in CallRecords
  /\ \A k \in Queues : Get(k) \in CallRecords
  /\ \A k \in Queues, m \in Items : Put(k, m) \in CallRecords
BY DEF Ended, NoCall, Get, Put, CallRecords, Places, Items

LEMMA ProduceTyped ==
  ASSUME TypeInv, NEW p \in Pairs, Produce(p)
  PROVE  /\ TypeInv'
         /\ InCall(Producer(p), "put", "p2tq") /\ call[Producer(p)].msg = <<p, work_done[Producer(p)]>>
         /\ q_empty("p2tq") /\ OtherQueuesStay("p2tq")
         /\ q_full("p2tq")' /\ Oldest("p2tq")' = <<p, work_done[Producer(p)]>>
         /\ \A o \in Threads \ {Producer(p)} : Kept(o)
<1> DEFINE t == Producer(p)
           next == PutOrEnd(p, work_done[t] + 1)
<1>1. t \in Threads /\ t \in Workers /\ Transfer(t, next)
  BY Cast DEF Produce
<1>2. At(t, "enter")
  BY <1>1 DEF Transfer, CanEnter
<1>3. InCall(t, "put", "p2tq") /\ call[t].msg = <<p, work_done[t]>>
  BY <1>2 DEF TypeInv, Roles, ProducerIn, At
<1>4. work_done[t] \in Nat
  BY <1>1 DEF TypeInv, DataTyped
<1>5. call[t].msg \in Messages /\ call[t].msg \in Items
  BY <1>3, <1>4 DEF Messages, Items
<1>6. next \in CallRecords
  BY <1>4, NextCalls, QueueNames DEF PutOrEnd, Messages, Items
<1>7. /\ q_empty("p2tq") /\ QueuesTyped' /\ OtherQueuesStay("p2tq")
      /\ q_full("p2tq")' /\ Oldest("p2tq")' = call[t].msg
  BY <1>1, <1>3, <1>5, QueueNames, PutEffect DEF TypeInv
<1>8. CallsTyped' /\ CallsStay({t}) /\ call'[t] = next
  BY <1>1, <1>6, TransferCalls DEF TypeInv
<1>9. \A o \in Threads \ {t} : Kept(o)
  BY <1>1, <1>8, StaysKept DEF TypeInv
<1>10. OneMessage' /\ ContentsTyped'
  BY <1>5, <1>7, QueueNames, PutContents DEF TypeInv
<1>11. work_done' = [work_done EXCEPT ![t] = @ + 1]
       /\ UNCHANGED <<build, goal, boss, block, unpacked, got>>
  BY DEF Produce
<1>12. DataTyped' /\ BuildTyped'
  <2>1. work_done' \in [Workers -> Nat]
    BY <1>1, <1>4, <1>11 DEF TypeInv, DataTyped
  <2>2. DataTyped'
    BY <1>11, <2>1 DEF TypeInv, DataTyped
  <2> QED BY <1>11, <2>2 DEF TypeInv, BuildTyped
<1>13. Phases'
  BY <1>2, <1>9, <1>11, PhasesKept DEF TypeInv, Roles
<1>14. ProducerIn(p)'
  <2>1. work_done'[t] = work_done[t] + 1
    BY <1>1, <1>11 DEF TypeInv, DataTyped
  <2>2. goal' = goal
    BY <1>11
  <2>3. CASE work_done[t] + 1 < goal[p]
    BY <1>8, <2>1, <2>3 DEF PutOrEnd, Put, ProducerIn, InCall
  <2>4. CASE ~(work_done[t] + 1 < goal[p])
    BY <1>8, <2>4 DEF PutOrEnd, Ended, NoCall, ProducerIn, At
  <2> QED BY <2>3, <2>4
<1>15. Roles'
  <2>1. \A o \in Pairs : ProducerIn(o)' /\ ConsumerIn(o)'
    <3> SUFFICES ASSUME NEW o \in Pairs PROVE ProducerIn(o)' /\ ConsumerIn(o)'
      OBVIOUS
    <3>1. ConsumerIn(o)'
      BY <1>9, Cast, RolesKept DEF TypeInv
    <3>2. CASE o # p
      <4>1. Producer(o) \in Threads \ {t} /\ Producer(o) \in Workers
        BY <3>2, Cast
      <4>2. work_done'[Producer(o)] = work_done[Producer(o)]
        BY <4>1, <1>11 DEF TypeInv, DataTyped
      <4> QED BY <1>9, <3>1, <4>1, <4>2, RolesKept DEF TypeInv
    <3> QED BY <1>14, <3>1, <3>2
  <2>2. Running' => TransmitterIn' /\ ReceiverIn'
    BY <1>9, <1>11, Cast, RolesKept DEF TypeInv, Running
  <2> QED BY <1>13, <2>1, <2>2 DEF Roles
<1> QED BY <1>3, <1>7, <1>8, <1>9, <1>10, <1>12, <1>15 DEF TypeInv

LEMMA ConsumeTyped ==
  ASSUME TypeInv, NEW p \in Pairs, Consume(p)
  PROVE  /\ TypeInv'
         /\ InCall(Consumer(p), "get", p)
         /\ ~q_empty(p) /\ OtherQueuesStay(p) /\ q_empty(p)'
         /\ \A o \in Threads \ {Consumer(p)} : Kept(o)
<1> DEFINE t == Consumer(p)
           next == GetOrEnd(p, work_done[t] + 1)
<1>1. t \in Threads /\ t \in Workers /\ Transfer(t, next)
  BY Cast DEF Consume
<1>2. At(t, "enter")
  BY <1>1 DEF Transfer, CanEnter
<1>3. InCall(t, "get", p)
  BY <1>2 DEF TypeInv, Roles, ConsumerIn, At
<1>4. work_done[t] \in Nat
  BY <1>1 DEF TypeInv, DataTyped
<1>5. next \in CallRecords
  BY NextCalls, QueueNames DEF GetOrEnd
<1>6. ~q_empty(p) /\ QueuesTyped' /\ OtherQueuesStay(p) /\ q_empty(p)'
  BY <1>1, <1>3, QueueNames, GetEffect DEF TypeInv
<1>7. CallsTyped' /\ CallsStay({t}) /\ call'[t] = next
  BY <1>1, <1>5, TransferCalls DEF TypeInv
<1>8. \A o \in Threads \ {t} : Kept(o)
  BY <1>1, <1>7, StaysKept DEF TypeInv
<1>9. OneMessage' /\ ContentsTyped'
  BY <1>6, QueueNames, GetContents DEF TypeInv
<1>10. /\ work_done' = [work_done EXCEPT ![t] = @ + 1]
       /\ got' = [got EXCEPT ![p] = Append(@, Oldest(p))]
       /\ UNCHANGED <<build, goal, boss, block, unpacked>>
  BY DEF Consume
<1>11. DataTyped' /\ BuildTyped'
  <2>1. work_done' \in [Workers -> Nat]
    BY <1>1, <1>4, <1>10 DEF TypeInv, DataTyped
  <2>2. Oldest(p) \in Messages /\ got[p] \in Seq(Messages)
    BY <1>6 DEF TypeInv, ContentsTyped, DataTyped
  <2>3. Append(got[p], Oldest(p)) \in Seq(Messages)
    BY <2>2, AppendProperties
  <2>4. got' \in [Pairs -> Seq(Messages)]
    BY <1>10, <2>3 DEF TypeInv, DataTyped
  <2>5. DataTyped'
    BY <1>10, <2>1, <2>4 DEF TypeInv, DataTyped
  <2> QED BY <1>10, <2>5 DEF TypeInv, BuildTyped
<1>12. Phases'
  BY <1>2, <1>8, <1>10, PhasesKept DEF TypeInv, Roles
<1>13. ConsumerIn(p)'
  <2>1. CASE work_done[t] + 1 < goal[p]
    BY <1>7, <2>1 DEF GetOrEnd, Get, ConsumerIn, InCall
  <2>2. CASE ~(work_done[t] + 1 < goal[p])
    BY <1>7, <2>2 DEF GetOrEnd, Ended, NoCall, ConsumerIn, At
  <2> QED BY <2>1, <2>2
<1>14. Roles'
  <2>1. \A o \in Pairs : ProducerIn(o)' /\ ConsumerIn(o)'
    <3> SUFFICES ASSUME NEW o \in Pairs PROVE ProducerIn(o)' /\ ConsumerIn(o)'
      OBVIOUS
    <3>1. Producer(o) \in Threads \ {t} /\ Producer(o) \in Workers
      BY Cast
    <3>2. work_done'[Producer(o)] = work_done[Producer(o)]
      BY <1>10, <3>1 DEF TypeInv, DataTyped
    <3>3. ProducerIn(o)'
      BY <1>8, <3>1, <3>2, RolesKept DEF TypeInv
    <3>4. CASE o # p
      <4>1. Consumer(o) \in Threads \ {t}
        BY <3>4, Cast
      <4> QED BY <1>8, <3>3, <4>1, RolesKept DEF TypeInv
    <3> QED BY <1>13, <3>3, <3>4
  <2>2. Running' => TransmitterIn' /\ ReceiverIn'
    BY <1>8, <1>10, Cast, RolesKept DEF TypeInv, Running
  <2> QED BY <1>12, <2>1, <2>2 DEF Roles
<1> QED BY <1>3, <1>6, <1>7, <1>8, <1>9, <1>11, <1>14 DEF TypeInv

(* A step of the transmitter or the receiver leaves the other roles.       *)
LEMMA MiddleRoles ==
  ASSUME TypeInv, NEW t \in {Transmitter, Receiver}, boss' = boss, work_done' = work_done,
         At(t, "enter"), \A o \in Threads \ {t} : Kept(o)
  PROVE  /\ Running /\ Running' /\ Phases'
         /\ \A p \in Pairs : ProducerIn(p)' /\ ConsumerIn(p)'
<1>1. Phases'
  BY PhasesKept DEF TypeInv, Roles
<1>2. Running /\ Running'
  BY DEF TypeInv, Roles, Phases, At, Running
<1>3. \A p \in Pairs : ProducerIn(p)' /\ ConsumerIn(p)'
  BY Cast, RolesKept DEF TypeInv
<1> QED BY <1>1, <1>2, <1>3

LEMMA TransmitTyped ==
  ASSUME TypeInv, Transmit
  PROVE  /\ TypeInv' /\ Running
         /\ \A o \in Threads \ {Transmitter} : Kept(o)
         /\ \/ /\ InCall(Transmitter, "get", "p2tq")
               /\ ~q_empty("p2tq") /\ OtherQueuesStay("p2tq") /\ q_empty("p2tq")'
               /\ block' = Append(block, Oldest("p2tq"))
            \/ /\ InCall(Transmitter, "put", "t2rq")
               /\ q_empty("t2rq") /\ OtherQueuesStay("t2rq") /\ q_full("t2rq")'
               /\ Oldest("t2rq")' = block /\ block' = <<>>
<1> DEFINE t == Transmitter
           packed == IF call[t].op = "get" THEN Append(block, Oldest("p2tq")) ELSE <<>>
           next == IF Len(packed) = TBLOCK_SIZE THEN Put("t2rq", packed) ELSE Get("p2tq")
<1>1. t \in Threads /\ Transfer(t, next)
  BY Cast DEF Transmit
<1>2. At(t, "enter")
  BY <1>1 DEF Transfer, CanEnter
<1>3. Running /\ TransmitterIn
  BY <1>2 DEF TypeInv, Roles, Phases, At
<1>4. block' = packed /\ UNCHANGED <<build, goal, boss, work_done, unpacked, got>>
  BY DEF Transmit
<1>5. /\ packed \in Seq(Messages)
      /\ \/ /\ InCall(t, "get", "p2tq")
            /\ ~q_empty("p2tq") /\ QueuesTyped' /\ OtherQueuesStay("p2tq") /\ q_empty("p2tq")'
            /\ packed = Append(block, Oldest("p2tq")) /\ OneMessage' /\ ContentsTyped'
         \/ /\ InCall(t, "put", "t2rq")
            /\ q_empty("t2rq") /\ QueuesTyped' /\ OtherQueuesStay("t2rq") /\ q_full("t2rq")'
            /\ Oldest("t2rq")' = block /\ packed = <<>> /\ OneMessage' /\ ContentsTyped'
  <2>1. CASE InCall(t, "get", "p2tq")
    <3>1. ~q_empty("p2tq") /\ QueuesTyped' /\ OtherQueuesStay("p2tq") /\ q_empty("p2tq")'
      BY <1>1, <2>1, QueueNames, GetEffect DEF TypeInv
    <3>2. packed = Append(block, Oldest("p2tq"))
      BY <2>1 DEF InCall
    <3>3. Oldest("p2tq") \in Messages /\ block \in Seq(Messages)
      BY <3>1 DEF TypeInv, ContentsTyped, DataTyped
    <3>4. OneMessage' /\ ContentsTyped'
      BY <3>1, QueueNames, GetContents DEF TypeInv
    <3> QED BY <2>1, <3>1, <3>2, <3>3, <3>4, AppendProperties
  <2>2. CASE InCall(t, "put", "t2rq") /\ call[t].msg = block /\ block # <<>>
    <3>1. call[t].msg \in Items
      BY <2>2 DEF TypeInv, DataTyped, Items
    <3>2. /\ q_empty("t2rq") /\ QueuesTyped' /\ OtherQueuesStay("t2rq") /\ q_full("t2rq")'
          /\ Oldest("t2rq")' = call[t].msg
      BY <1>1, <2>2, <3>1, QueueNames, PutEffect DEF TypeInv
    <3>3. packed = <<>>
      BY <2>2 DEF InCall
    <3>4. OneMessage' /\ ContentsTyped'
      BY <2>2, <3>2, QueueNames, PutContents DEF TypeInv, DataTyped
    <3> QED BY <2>2, <3>2, <3>3, <3>4
  <2> QED BY <1>3, <2>1, <2>2 DEF TransmitterIn
<1>6. next \in CallRecords
  BY <1>5, NextCalls, QueueNames DEF Items
<1>7. CallsTyped' /\ CallsStay({t}) /\ call'[t] = next
  BY <1>1, <1>6, TransferCalls DEF TypeInv
<1>8. \A o \in Threads \ {t} : Kept(o)
  BY <1>1, <1>7, StaysKept DEF TypeInv
<1>9. DataTyped' /\ BuildTyped'
  <2>1. DataTyped'
    BY <1>4, <1>5 DEF TypeInv, DataTyped
  <2> QED BY <1>4, <2>1 DEF TypeInv, BuildTyped
<1>10. Running' /\ Phases' /\ \A p \in Pairs : ProducerIn(p)' /\ ConsumerIn(p)'
  BY <1>2, <1>4, <1>8, MiddleRoles
<1>11. ReceiverIn'
  BY <1>3, <1>4, <1>8, Cast, RolesKept DEF TypeInv
<1>12. TransmitterIn'
  <2>1. CASE Len(packed) = TBLOCK_SIZE
    <3>1. packed # <<>>
      BY <2>1, ThreeStageAssumption
    <3> HIDE DEF packed
    <3> QED BY <1>4, <1>7, <2>1, <3>1 DEF Put, TransmitterIn, InCall
  <2>2. CASE Len(packed) # TBLOCK_SIZE
    <3> HIDE DEF packed
    <3> QED BY <1>7, <2>2 DEF Get, TransmitterIn, InCall
  <2> QED BY <2>1, <2>2
<1>13. Roles'
  BY <1>10, <1>11, <1>12 DEF Roles
<1> QED BY <1>3, <1>4, <1>5, <1>7, <1>8, <1>9, <1>13 DEF TypeInv

LEMMA ReceiveTyped ==
  ASSUME TypeInv, Receive
  PROVE  /\ TypeInv' /\ Running /\ Unsent \in Seq(Messages)
         /\ \A o \in Threads \ {Receiver} : Kept(o)
         /\ call'[Receiver] = SendNext(IF Unsent = <<>> THEN <<>> ELSE Head(Unsent))
         /\ \/ /\ InCall(Receiver, "get", "t2rq") /\ unpacked = <<>>
               /\ ~q_empty("t2rq") /\ OtherQueuesStay("t2rq") /\ q_empty("t2rq")'
               /\ Unsent = Oldest("t2rq")
            \/ \E p \in Pairs :
                 /\ InCall(Receiver, "put", p)
                 /\ call[Receiver].msg \in Messages /\ call[Receiver].msg[1] = p
                 /\ q_empty(p) /\ OtherQueuesStay(p) /\ q_full(p)'
                 /\ Oldest(p)' = call[Receiver].msg /\ Unsent = unpacked
<1> DEFINE t == Receiver
           message == IF Unsent = <<>> THEN <<>> ELSE Head(Unsent)
           next == SendNext(message)
<1>1. t \in Threads /\ Transfer(t, next)
  BY Cast DEF Receive
<1>2. At(t, "enter")
  BY <1>1 DEF Transfer, CanEnter
<1>3. Running /\ ReceiverIn
  BY <1>2 DEF TypeInv, Roles, Phases, At
<1>4. /\ unpacked' = IF Unsent = <<>> THEN <<>> ELSE Tail(Unsent)
      /\ UNCHANGED <<build, goal, boss, work_done, block, got>>
  BY DEF Receive
<1>5. \/ /\ InCall(t, "get", "t2rq") /\ unpacked = <<>>
         /\ ~q_empty("t2rq") /\ QueuesTyped' /\ OtherQueuesStay("t2rq") /\ q_empty("t2rq")'
         /\ Unsent = Oldest("t2rq") /\ OneMessage' /\ ContentsTyped' /\ Unsent \in Seq(Messages)
      \/ \E p \in Pairs :
           /\ InCall(t, "put", p)
           /\ call[t].msg \in Messages /\ call[t].msg[1] = p
           /\ q_empty(p) /\ QueuesTyped' /\ OtherQueuesStay(p) /\ q_full(p)'
           /\ Oldest(p)' = call[t].msg /\ Unsent = unpacked
           /\ OneMessage' /\ ContentsTyped' /\ Unsent \in Seq(Messages)
  <2>1. CASE InCall(t, "get", "t2rq") /\ unpacked = <<>>
    <3>1. ~q_empty("t2rq") /\ QueuesTyped' /\ OtherQueuesStay("t2rq") /\ q_empty("t2rq")'
      BY <1>1, <2>1, QueueNames, GetEffect DEF TypeInv
    <3>2. Unsent = Oldest("t2rq")
      BY <2>1 DEF InCall, Unsent
    <3>3. Oldest("t2rq") \in Seq(Messages)
      BY <3>1 DEF TypeInv, ContentsTyped
    <3>4. OneMessage' /\ ContentsTyped'
      BY <3>1, QueueNames, GetContents DEF TypeInv
    <3> QED BY <2>1, <3>1, <3>2, <3>3, <3>4
  <2>2. ASSUME NEW p \in Pairs, InCall(t, "put", p), call[t].msg \in Messages, call[t].msg[1] = p
        PROVE  /\ InCall(t, "put", p)
               /\ call[t].msg \in Messages /\ call[t].msg[1] = p
               /\ q_empty(p) /\ QueuesTyped' /\ OtherQueuesStay(p) /\ q_full(p)'
               /\ Oldest(p)' = call[t].msg /\ Unsent = unpacked
               /\ OneMessage' /\ ContentsTyped' /\ Unsent \in Seq(Messages)
    <3>1. call[t].msg \in Items
      BY <2>2 DEF Items
    <3>2. /\ q_empty(p) /\ QueuesTyped' /\ OtherQueuesStay(p) /\ q_full(p)'
          /\ Oldest(p)' = call[t].msg
      BY <1>1, <2>2, <3>1, QueueNames, PutEffect DEF TypeInv
    <3>3. Unsent = unpacked
      BY <2>2 DEF InCall, Unsent
    <3>4. OneMessage' /\ ContentsTyped'
      BY <2>2, <3>2, QueueNames, PutContents DEF TypeInv
    <3> QED BY <2>2, <3>2, <3>3, <3>4 DEF TypeInv, DataTyped
  <2> QED BY <1>3, <2>1, <2>2 DEF ReceiverIn
<1>6. Unsent \in Seq(Messages) /\ OneMessage' /\ ContentsTyped' /\ QueuesTyped'
  BY <1>5
<1>7. Unsent # <<>> => /\ Head(Unsent) \in Messages /\ Head(Unsent) # <<>>
                       /\ Head(Unsent)[1] \in Pairs
  <2> SUFFICES ASSUME Unsent # <<>>
               PROVE  /\ Head(Unsent) \in Messages /\ Head(Unsent) # <<>>
                      /\ Head(Unsent)[1] \in Pairs
    OBVIOUS
  <2>1. Head(Unsent) \in Messages
    BY <1>6, HeadTailProperties
  <2> QED BY <2>1 DEF Messages
<1>8. next \in CallRecords
  <2>1. CASE Unsent = <<>>
    BY <2>1, NextCalls, QueueNames DEF SendNext
  <2>2. CASE Unsent # <<>>
    BY <1>7, <2>2, NextCalls, QueueNames DEF SendNext, Items
  <2> QED BY <2>1, <2>2
<1>9. CallsTyped' /\ CallsStay({t}) /\ call'[t] = next
  BY <1>1, <1>8, TransferCalls DEF TypeInv
<1>10. \A o \in Threads \ {t} : Kept(o)
  BY <1>1, <1>9, StaysKept DEF TypeInv
<1>11. DataTyped' /\ BuildTyped'
  <2>1. unpacked' \in Seq(Messages)
    BY <1>4, <1>6, HeadTailProperties
  <2>2. DataTyped'
    BY <1>4, <2>1 DEF TypeInv, DataTyped
  <2> QED BY <1>4, <2>2 DEF TypeInv, BuildTyped
<1>12. Running' /\ Phases' /\ \A p \in Pairs : ProducerIn(p)' /\ ConsumerIn(p)'
  BY <1>2, <1>4, <1>10, MiddleRoles
<1>13. TransmitterIn'
  BY <1>3, <1>4, <1>10, Cast, RolesKept DEF TypeInv
<1>14. ReceiverIn'
  <2>1. CASE Unsent = <<>>
    BY <1>4, <1>9, <2>1 DEF SendNext, Get, ReceiverIn, InCall
  <2>2. CASE Unsent # <<>>
    <3>1. next = Put(Head(Unsent)[1], Head(Unsent))
      BY <1>7, <2>2 DEF SendNext
    <3> HIDE DEF next
    <3>2. /\ call'[t].op = "put" /\ call'[t].q = Head(Unsent)[1]
          /\ call'[t].at = "enter" /\ call'[t].msg = Head(Unsent)
      BY <1>9, <3>1 DEF Put
    <3> QED BY <1>7, <2>2, <3>2 DEF ReceiverIn, InCall
  <2> QED BY <2>1, <2>2
<1>15. Roles'
  BY <1>12, <1>13, <1>14 DEF Roles
<1>16. TypeInv'
  BY <1>6, <1>9, <1>11, <1>15 DEF TypeInv
<1> QED BY <1>3, <1>5, <1>6, <1>9, <1>10, <1>16

(* A thread that is inside a call is in one on an existing queue.          *)
LEMMA InACall ==
  ASSUME TypeInv, NEW t \in Threads, call[t].at \in {"enter", "outside", "wait"}
  PROVE  call[t].op \in {"get", "put"} /\ call[t].q \in Queues
<1>1. CASE t \in {Transmitter, Receiver}
  <2>1. Running
    BY <1>1 DEF TypeInv, Roles, Phases, At
  <2>2. TransmitterIn /\ ReceiverIn
    BY <2>1 DEF TypeInv, Roles
  <2>3. t = Transmitter => call[t].op \in {"get", "put"} /\ call[t].q \in Queues
    BY <2>2, QueueNames DEF TransmitterIn, InCall
  <2>4. t = Receiver => call[t].op \in {"get", "put"} /\ call[t].q \in Queues
    BY <2>2, QueueNames DEF ReceiverIn, InCall
  <2> QED BY <1>1, <2>3, <2>4
<1>2. ASSUME NEW p \in Pairs, t \in {Producer(p), Consumer(p)}
      PROVE  call[t].op \in {"get", "put"} /\ call[t].q \in Queues
  BY <1>2, QueueNames DEF TypeInv, Roles, ProducerIn, ConsumerIn, InCall, At
<1> QED BY <1>1, <1>2, Cast

LEMMA PendingTyped ==
  ASSUME TypeInv, NEW t \in Threads, StaysInCall(t)
  PROVE  /\ TypeInv' /\ SameMessages
         /\ \A o \in Threads : Kept(o)
<1>1. QueuesTyped' /\ CallsTyped' /\ SameMessages /\ CallGoesOn(t)
  BY InACall, PendingEffect DEF TypeInv, StaysInCall
<1>2. \A o \in Threads : Kept(o)
  BY <1>1, GoesOnIsKept DEF TypeInv
<1>3. OneMessage' /\ ContentsTyped'
  BY <1>1, AllSame, QueueNames DEF TypeInv, OneMessage, ContentsTyped, SameContent
<1>4. UNCHANGED <<build, goal, boss, work_done, block, unpacked, got>>
  BY DEF StaysInCall, Pending, appVars
<1>5. DataTyped'
  BY <1>4 DEF TypeInv, DataTyped
<1>6. BuildTyped'
  BY <1>4 DEF TypeInv, BuildTyped
<1>7. Phases'
  <2>1. \A o \in Threads : /\ At(o, "ended") => At(o, "ended")'
                           /\ At(o, "killed") => At(o, "killed")'
    BY <1>2, KeptInCall
  <2>2. \A p \in Pairs : <<p, "producer">> \in Threads /\ <<p, "consumer">> \in Threads
    BY Cast DEF Producer, Consumer
  <2>3. boss # "producers" => AllEnded("producer")'
    BY <2>1, <2>2 DEF TypeInv, Roles, Phases, AllEnded
  <2>4. boss \notin {"producers", "consumers"} => AllEnded("consumer")'
    BY <2>1, <2>2 DEF TypeInv, Roles, Phases, AllEnded
  <2>5. ~Running => At(Transmitter, "killed")' /\ At(Receiver, "killed")'
    BY <2>1, Cast DEF TypeInv, Roles, Phases
  <2> QED BY <1>4, <2>3, <2>4, <2>5 DEF Phases, Running
<1>8. \A p \in Pairs : ProducerIn(p)' /\ ConsumerIn(p)'
  BY <1>2, <1>4, Cast, RolesKept DEF TypeInv
<1>9. Running' => TransmitterIn' /\ ReceiverIn'
  BY <1>2, <1>4, Cast, RolesKept DEF TypeInv, Running
<1>10. Roles'
  BY <1>7, <1>8, <1>9 DEF Roles
<1> QED BY <1>1, <1>2, <1>3, <1>5, <1>6, <1>10 DEF TypeInv

LEMMA KillEffect ==
  ASSUME QueuesTyped, CallsTyped, NEW inside \in SUBSET {Transmitter, Receiver},
         KilledInside({Transmitter, Receiver}, inside)
  PROVE  /\ QueuesTyped' /\ CallsTyped' /\ SameMessages
         /\ At(Transmitter, "killed")' /\ At(Receiver, "killed")'
         /\ \A p \in Pairs : Kept(Producer(p)) /\ Kept(Consumer(p))
<1>1. inside \subseteq Threads
  BY Cast
<1>2. q = [j \in Queues |-> q[j]] /\ \A j \in Queues : q[j] \in QueueRecords(j)
  BY DEF QueuesTyped
<1>3. DOMAIN q' = Queues /\ q' = [j \in Queues |-> q'[j]]
  BY DEF KilledInside
<1>4. \A j \in Queues : q'[j] = q[j] \/ \E o \in Threads : q'[j] = [q[j] EXCEPT !.guard = o]
  <2> SUFFICES ASSUME NEW j \in Queues
               PROVE  q'[j] = q[j] \/ \E o \in Threads : q'[j] = [q[j] EXCEPT !.guard = o]
    OBVIOUS
  <2>1. CASE \E o \in inside : call[o].q = j
    <3>1. (CHOOSE o \in inside : call[o].q = j) \in inside
      BY <2>1
    <3> QED BY <1>1, <2>1, <3>1 DEF KilledInside
  <2>2. CASE ~\E o \in inside : call[o].q = j
    BY <2>2 DEF KilledInside
  <2> QED BY <2>1, <2>2
<1>5. \A j \in Queues :
        /\ q'[j] \in QueueRecords(j)
        /\ q'[j].first = q[j].first /\ q'[j].last = q[j].last /\ q'[j].array = q[j].array
  <2> SUFFICES ASSUME NEW j \in Queues
               PROVE  /\ q'[j] \in QueueRecords(j)
                      /\ q'[j].first = q[j].first /\ q'[j].last = q[j].last
                      /\ q'[j].array = q[j].array
    OBVIOUS
  <2>1. q[j] \in QueueRecords(j)
    BY <1>2
  <2>2. q'[j] = q[j] \/ \E o \in Threads : q'[j] = [q[j] EXCEPT !.guard = o]
    BY <1>4
  <2> QED BY <2>1, <2>2 DEF QueueRecords
<1>6. QueuesTyped' /\ SameMessages
  BY <1>3, <1>5 DEF QueuesTyped, SameMessages
<1>7. call' = [t \in Threads |-> IF t \in {Transmitter, Receiver}
                                 THEN [NoCall EXCEPT !.at = "killed"] ELSE call[t]]
  BY DEF KilledInside
<1>8. [NoCall EXCEPT !.at = "killed"] \in CallRecords
  BY DEF NoCall, CallRecords, Places, Items
<1>9. CallsTyped'
  BY <1>7, <1>8 DEF CallsTyped
<1>10. At(Transmitter, "killed")' /\ At(Receiver, "killed")'
  BY <1>7, Cast DEF At, NoCall
<1>11. \A p \in Pairs : Kept(Producer(p)) /\ Kept(Consumer(p))
  <2> SUFFICES ASSUME NEW p \in Pairs PROVE Kept(Producer(p)) /\ Kept(Consumer(p))
    OBVIOUS
  <2>1. call'[Producer(p)] = call[Producer(p)] /\ call'[Consumer(p)] = call[Consumer(p)]
    BY <1>7, Cast
  <2> QED BY <2>1 DEF Kept
<1> QED BY <1>6, <1>9, <1>10, <1>11

LEMMA BossTyped ==
  ASSUME TypeInv, Boss
  PROVE  TypeInv' /\ SameMessages /\ got' = got
<1>1. CASE BossWaits
  <2>1. UNCHANGED <<build, goal, q, call, work_done, block, unpacked, got>>
    BY <1>1 DEF BossWaits
  <2>2. /\ boss' \in {"consumers", "terminate"} /\ Running
        /\ AllEnded("producer") /\ (boss' = "terminate" => AllEnded("consumer"))
    BY <1>1 DEF BossWaits, TypeInv, Roles, Phases, Running
  <2>3. QueuesTyped' /\ CallsTyped' /\ SameMessages /\ BuildTyped'
    BY <2>1 DEF TypeInv, QueuesTyped, CallsTyped, SameMessages, BuildTyped
  <2>4. OneMessage' /\ ContentsTyped'
    BY <2>3, AllSame, QueueNames DEF TypeInv, OneMessage, ContentsTyped, SameContent
  <2>5. DataTyped'
    BY <2>1, <2>2 DEF TypeInv, DataTyped
  <2>6. Phases'
    BY <2>1, <2>2 DEF Phases, Running, AllEnded, At
  <2>7. Roles'
    BY <2>1, <2>2, <2>6 DEF TypeInv, Roles, ProducerIn, ConsumerIn, TransmitterIn, ReceiverIn,
                            InCall, At
  <2> QED BY <2>1, <2>3, <2>4, <2>5, <2>7 DEF TypeInv
<1>2. CASE BossTerminates
  <2>1. PICK inside \in SUBSET {Transmitter, Receiver} : KilledInside({Transmitter, Receiver}, inside)
    BY <1>2 DEF BossTerminates
  <2>2. /\ boss = "terminate" /\ boss' = "destroy"
        /\ UNCHANGED <<build, goal, work_done, block, unpacked, got>>
    BY <1>2 DEF BossTerminates
  <2>3. /\ QueuesTyped' /\ CallsTyped' /\ SameMessages
        /\ At(Transmitter, "killed")' /\ At(Receiver, "killed")'
        /\ \A p \in Pairs : Kept(Producer(p)) /\ Kept(Consumer(p))
    BY <2>1, KillEffect DEF TypeInv
  <2>4. OneMessage' /\ ContentsTyped'
    BY <2>3, AllSame, QueueNames DEF TypeInv, OneMessage, ContentsTyped, SameContent
  <2>5. DataTyped'
    BY <2>2 DEF TypeInv, DataTyped
  <2>6. BuildTyped'
    BY <2>2 DEF TypeInv, BuildTyped
  <2>7. \A p \in Pairs : ProducerIn(p)' /\ ConsumerIn(p)'
    BY <2>2, <2>3, RolesKept DEF TypeInv
  <2>8. \A p \in Pairs : /\ At(Producer(p), "ended") => At(Producer(p), "ended")'
                         /\ At(Consumer(p), "ended") => At(Consumer(p), "ended")'
    BY <2>3, KeptInCall
  <2>9. AllEnded("producer")' /\ AllEnded("consumer")'
    <3>1. AllEnded("producer") /\ AllEnded("consumer")
      BY <2>2 DEF TypeInv, Roles, Phases
    <3> QED BY <2>8, <3>1 DEF AllEnded, Producer, Consumer
  <2>10. Roles'
    BY <2>2, <2>3, <2>7, <2>9 DEF Roles, Phases, Running
  <2> QED BY <2>2, <2>3, <2>4, <2>5, <2>6, <2>10 DEF TypeInv
<1>3. CASE BossDestroys
  <2>1. UNCHANGED <<build, goal, q, call, work_done, block, unpacked, got>>
    BY <1>3 DEF BossDestroys
  <2>2. boss = "destroy" /\ boss' = "done"
    BY <1>3 DEF BossDestroys
  <2>3. QueuesTyped' /\ CallsTyped' /\ SameMessages /\ BuildTyped'
    BY <2>1 DEF TypeInv, QueuesTyped, CallsTyped, SameMessages, BuildTyped
  <2>4. OneMessage' /\ ContentsTyped'
    BY <2>3, AllSame, QueueNames DEF TypeInv, OneMessage, ContentsTyped, SameContent
  <2>5. DataTyped'
    BY <2>1, <2>2 DEF TypeInv, DataTyped
  <2>6. Phases'
    BY <2>1, <2>2 DEF TypeInv, Roles, Phases, Running, AllEnded, At
  <2>7. Roles'
    BY <2>1, <2>2, <2>6 DEF TypeInv, Roles, Running, ProducerIn, ConsumerIn, InCall, At
  <2> QED BY <2>1, <2>3, <2>4, <2>5, <2>7 DEF TypeInv
<1> QED BY <1>1, <1>2, <1>3 DEF Boss

LEMMA InitTyped == Init => TypeInv
<1> SUFFICES ASSUME Init PROVE TypeInv
  OBVIOUS
<1>1. BuildTyped
  BY BuildsAreTyped DEF Init, QueueInit
<1>2. q = [k \in Queues |-> q_initialize(k)]
  BY DEF Init, QueueInit
<1>3. QueuesTyped /\ \A k \in Queues : q_empty(k)
  <2>1. \A k \in Queues : q[k] = q_initialize(k)
    BY <1>2
  <2>2. \A k \in Queues : q_initialize(k) \in QueueRecords(k)
    BY SizeTyped DEF q_initialize, QueueRecords, Items
  <2>3. \A k \in Queues : q_initialize(k).first = q_initialize(k).last
    BY DEF q_initialize
  <2> QED BY <1>2, <2>1, <2>2, <2>3 DEF QueuesTyped, q_empty
<1>4. OneMessage /\ ContentsTyped
  BY <1>3, QueueNames DEF OneMessage, ContentsTyped
<1>5. DataTyped
  <2>1. goal \in [Pairs -> Nat]
    BY ThreeStageAssumption DEF Init
  <2>2. <<>> \in Seq(Messages)
    OBVIOUS
  <2> QED BY <2>1, <2>2 DEF Init, DataTyped
<1>6. call = [t \in Threads |-> FirstCall(t)]
  BY DEF Init, QueueInit
<1>7. /\ call[Transmitter] = Get("p2tq") /\ call[Receiver] = Get("t2rq")
      /\ \A p \in Pairs : call[Producer(p)] = PutOrEnd(p, 0) /\ call[Consumer(p)] = GetOrEnd(p, 0)
  BY <1>6, Cast DEF FirstCall, Producer, Consumer
<1>8. \A p \in Pairs : PutOrEnd(p, 0) \in CallRecords /\ GetOrEnd(p, 0) \in CallRecords
  BY NextCalls, QueueNames DEF PutOrEnd, GetOrEnd, Messages, Items
<1>9. CallsTyped
  <2>1. \A t \in Threads : call[t] \in CallRecords
    BY <1>7, <1>8, Cast, NextCalls, QueueNames
  <2> QED BY <1>6, <2>1 DEF CallsTyped
<1>10. \A p \in Pairs : ProducerIn(p) /\ ConsumerIn(p)
  <2> SUFFICES ASSUME NEW p \in Pairs PROVE ProducerIn(p) /\ ConsumerIn(p)
    OBVIOUS
  <2>1. work_done[Producer(p)] = 0
    BY Cast DEF Init
  <2>2. call[Producer(p)] = PutOrEnd(p, 0) /\ call[Consumer(p)] = GetOrEnd(p, 0)
    BY <1>7
  <2>3. CASE 0 < goal[p]
    <3>1. call[Producer(p)] = Put("p2tq", <<p, 0>>) /\ call[Consumer(p)] = Get(p)
      BY <2>2, <2>3 DEF PutOrEnd, GetOrEnd
    <3> QED BY <2>1, <3>1 DEF Put, Get, ProducerIn, ConsumerIn, InCall
  <2>4. CASE ~(0 < goal[p])
    <3>1. call[Producer(p)] = Ended /\ call[Consumer(p)] = Ended
      BY <2>2, <2>4 DEF PutOrEnd, GetOrEnd
    <3> QED BY <3>1 DEF Ended, NoCall, ProducerIn, ConsumerIn, At
  <2> QED BY <2>3, <2>4
<1>11. TransmitterIn /\ ReceiverIn
  BY <1>7 DEF Init, Get, TransmitterIn, ReceiverIn, InCall
<1>12. Roles
  BY <1>10, <1>11 DEF Init, Roles, Phases, Running
<1> QED BY <1>1, <1>3, <1>4, <1>5, <1>9, <1>12 DEF TypeInv

LEMMA TypeInvStutters == TypeInv /\ UNCHANGED vars => TypeInv'
<1> SUFFICES ASSUME TypeInv, UNCHANGED vars PROVE TypeInv'
  OBVIOUS
<1>1. UNCHANGED <<build, q, call, goal, boss, work_done, block, unpacked, got>>
  BY DEF vars, appVars
<1>2. BuildTyped' /\ QueuesTyped' /\ CallsTyped' /\ DataTyped'
  BY <1>1 DEF TypeInv, BuildTyped, QueuesTyped, CallsTyped, DataTyped
<1>3. SameMessages
  BY <1>1 DEF TypeInv, QueuesTyped, SameMessages
<1>4. OneMessage' /\ ContentsTyped'
  BY <1>3, AllSame, QueueNames DEF TypeInv, OneMessage, ContentsTyped, SameContent
<1>5. Roles'
  BY <1>1 DEF TypeInv, Roles, Phases, Running, AllEnded, ProducerIn, ConsumerIn, TransmitterIn,
              ReceiverIn, InCall, At
<1> QED BY <1>2, <1>4, <1>5 DEF TypeInv

LEMMA TypeInvStep == TypeInv /\ Next => TypeInv'
<1> SUFFICES ASSUME TypeInv, Next PROVE TypeInv'
  OBVIOUS
<1>1. CASE Boss
  BY <1>1, BossTyped
<1>2. ASSUME NEW t \in Threads, ThreadStep(t) PROVE TypeInv'
  BY <1>2, PendingTyped, TransmitTyped, ReceiveTyped, ProduceTyped, ConsumeTyped DEF ThreadStep
<1> QED BY <1>1, <1>2 DEF Next

(* The invariant on which the others rest: the types, and that a queue     *)
(* holds one message at most, of the kind that belongs there, and every    *)
(* thread is in the call that the code of its loop makes.                  *)
THEOREM TypeCorrect == Spec => []TypeInv
<1>1. TypeInv /\ [Next]_vars => TypeInv'
  BY TypeInvStep, TypeInvStutters
<1> QED BY <1>1, InitTyped, PTL DEF Spec

-----------------------------------------------------------------------------
(* Numbered messages in a sequence.                                        *)

(* The messages of pair p in s are those numbered from a up to b - 1, in   *)
(* order: n[i] is the number after those among the first i entries.        *)
Carries(s, p, a, b) ==
  \E n \in [0 .. Len(s) -> Nat] :
    /\ n[0] = a /\ n[Len(s)] = b
    /\ \A i \in 1 .. Len(s) :
         IF s[i][1] = p THEN s[i] = <<p, n[i - 1]>> /\ n[i] = n[i - 1] + 1
                        ELSE n[i] = n[i - 1]

LEMMA CarriesNothing ==
  ASSUME NEW p, NEW a \in Nat PROVE Carries(<<>>, p, a, a)
<1> DEFINE n == [i \in 0 .. 0 |-> a]
<1>1. Len(<<>>) = 0
  OBVIOUS
<1>2. n \in [0 .. Len(<<>>) -> Nat] /\ n[0] = a /\ n[Len(<<>>)] = a
  BY <1>1
<1>3. \A i \in 1 .. Len(<<>>) : FALSE
  BY <1>1
<1> HIDE DEF n
<1> QED BY <1>2, <1>3 DEF Carries

LEMMA CarriesLast ==
  ASSUME NEW s \in Seq(Messages), NEW m \in Messages, NEW p, NEW a, NEW b \in Nat,
         Carries(s, p, a, b), m[1] = p => m[2] = b
  PROVE  Carries(s \o <<m>>, p, a, IF m[1] = p THEN b + 1 ELSE b)
<1> DEFINE c == IF m[1] = p THEN b + 1 ELSE b
           t == s \o <<m>>
<1>1. PICK n \in [0 .. Len(s) -> Nat] :
        /\ n[0] = a /\ n[Len(s)] = b
        /\ \A i \in 1 .. Len(s) :
             IF s[i][1] = p THEN s[i] = <<p, n[i - 1]>> /\ n[i] = n[i - 1] + 1
                            ELSE n[i] = n[i - 1]
  BY DEF Carries
<1>2. /\ Len(s) \in Nat /\ Len(t) = Len(s) + 1
      /\ \A i \in 1 .. Len(s) : t[i] = s[i]
      /\ t[Len(s) + 1] = m
  <2>1. <<m>> \in Seq(Messages) /\ Len(<<m>>) = 1 /\ <<m>>[1] = m
    OBVIOUS
  <2> QED BY <2>1, ConcatProperties
<1>3. m = <<m[1], m[2]>>
  BY DEF Messages
<1> DEFINE f == [i \in 0 .. Len(t) |-> IF i <= Len(s) THEN n[i] ELSE c]
<1>4. c \in Nat
  OBVIOUS
<1> HIDE DEF t, c
<1>5. f \in [0 .. Len(t) -> Nat] /\ f[0] = a /\ f[Len(t)] = c
  BY <1>1, <1>2, <1>4
<1>6. ASSUME NEW i \in 1 .. Len(t)
      PROVE  IF t[i][1] = p THEN t[i] = <<p, f[i - 1]>> /\ f[i] = f[i - 1] + 1
                            ELSE f[i] = f[i - 1]
  <2>1. CASE i <= Len(s)
    <3>1. i \in 1 .. Len(s) /\ t[i] = s[i] /\ f[i] = n[i] /\ f[i - 1] = n[i - 1]
      BY <1>2, <2>1
    <3> QED BY <1>1, <3>1
  <2>2. CASE i = Len(s) + 1
    <3>1. t[i] = m /\ f[i] = c /\ f[i - 1] = b
      BY <1>1, <1>2, <2>2
    <3>2. m[1] = p => m = <<p, b>>
      BY <1>3
    <3> QED BY <3>1, <3>2 DEF c
  <2> QED BY <1>2, <2>1, <2>2
<1> HIDE DEF f
<1> QED BY <1>5, <1>6 DEF Carries, t, c

LEMMA CarriesFirst ==
  ASSUME NEW s \in Seq(Messages), NEW m \in Messages, NEW p, NEW a \in Nat, NEW b,
         Carries(<<m>> \o s, p, a, b)
  PROVE  /\ m[1] = p => m = <<p, a>>
         /\ Carries(s, p, IF m[1] = p THEN a + 1 ELSE a, b)
<1> DEFINE c == IF m[1] = p THEN a + 1 ELSE a
           t == <<m>> \o s
<1>1. PICK n \in [0 .. Len(t) -> Nat] :
        /\ n[0] = a /\ n[Len(t)] = b
        /\ \A i \in 1 .. Len(t) :
             IF t[i][1] = p THEN t[i] = <<p, n[i - 1]>> /\ n[i] = n[i - 1] + 1
                            ELSE n[i] = n[i - 1]
  BY DEF Carries
<1>2. /\ Len(s) \in Nat /\ Len(t) = Len(s) + 1
      /\ \A i \in 1 .. Len(s) : t[i + 1] = s[i]
      /\ t[1] = m
  <2>1. <<m>> \in Seq(Messages) /\ Len(<<m>>) = 1 /\ <<m>>[1] = m
    OBVIOUS
  <2>2. /\ Len(t) = 1 + Len(s)
        /\ \A i \in 1 .. 1 + Len(s) : t[i] = IF i <= 1 THEN <<m>>[i] ELSE s[i - 1]
    BY <2>1, ConcatProperties
  <2> HIDE DEF t
  <2> QED BY <2>1, <2>2
<1> DEFINE f == [i \in 0 .. Len(s) |-> n[i + 1]]
<1> HIDE DEF t
<1>3. IF m[1] = p THEN m = <<p, n[0]>> /\ n[1] = n[0] + 1 ELSE n[1] = n[0]
  <2>1. 1 \in 1 .. Len(t) /\ 1 - 1 = 0
    BY <1>2
  <2> QED BY <1>1, <1>2, <2>1
<1>4. (m[1] = p => m = <<p, a>>) /\ n[1] = c
  BY <1>1, <1>3
<1> HIDE DEF c
<1>5. f \in [0 .. Len(s) -> Nat] /\ f[0] = c /\ f[Len(s)] = b
  BY <1>1, <1>2, <1>4
<1>6. ASSUME NEW i \in 1 .. Len(s)
      PROVE  IF s[i][1] = p THEN s[i] = <<p, f[i - 1]>> /\ f[i] = f[i - 1] + 1
                            ELSE f[i] = f[i - 1]
  <2>1. /\ i + 1 \in 1 .. Len(t) /\ t[i + 1] = s[i]
        /\ f[i] = n[i + 1] /\ f[i - 1] = n[(i + 1) - 1]
    BY <1>2
  <2> QED BY <1>1, <2>1
<1> HIDE DEF f
<1>7. Carries(s, p, c, b)
  BY <1>5, <1>6 DEF Carries
<1> QED BY <1>4, <1>7 DEF c

-----------------------------------------------------------------------------
(* The messages on their way, from the receiver back to the producers.     *)

Sending == IF call[Receiver].op = "put" THEN <<call[Receiver].msg>> ELSE <<>>

Shipped == IF q_empty("t2rq") THEN <<>> ELSE Oldest("t2rq")

Offered == IF q_empty("p2tq") THEN <<>> ELSE <<Oldest("p2tq")>>

InTransit == (Sending \o unpacked) \o (Shipped \o (block \o Offered))

(* The messages of the pair that have passed the receiver.                 *)
Reached(p) == IF q_empty(p) THEN Len(got[p]) ELSE Len(got[p]) + 1

Flows(p) ==
  /\ ~q_empty(p) => Oldest(p) = <<p, Len(got[p])>>
  /\ Carries(InTransit, p, Reached(p), work_done[Producer(p)])

(* Every consumer has the first messages of its producer; the rest of what *)
(* was produced is on its way, each message once and in order.             *)
FlowInv == DeliveredInOrder /\ (Running => \A p \in Pairs : Flows(p))

LEMMA OnTheirWay ==
  ASSUME TypeInv, Running
  PROVE  /\ Sending \in Seq(Messages) /\ unpacked \in Seq(Messages)
         /\ Shipped \in Seq(Messages) /\ block \in Seq(Messages) /\ Offered \in Seq(Messages)
<1>1. unpacked \in Seq(Messages) /\ block \in Seq(Messages)
  BY DEF TypeInv, DataTyped
<1>2. Shipped \in Seq(Messages) /\ Offered \in Seq(Messages)
  BY DEF TypeInv, ContentsTyped, Shipped, Offered
<1>3. call[Receiver].op = "put" => call[Receiver].msg \in Messages
  BY DEF TypeInv, Roles, ReceiverIn, InCall
<1>4. Sending \in Seq(Messages)
  BY <1>3 DEF Sending
<1> QED BY <1>1, <1>2, <1>4

LEMMA TransitTyped ==
  ASSUME TypeInv, Running PROVE InTransit \in Seq(Messages)
<1>1. Sending \o unpacked \in Seq(Messages) /\ block \o Offered \in Seq(Messages)
  BY OnTheirWay, ConcatProperties
<1>2. Shipped \o (block \o Offered) \in Seq(Messages)
  BY <1>1, OnTheirWay, ConcatProperties
<1> QED BY <1>1, <1>2, ConcatProperties DEF InTransit

LEMMA ReachedTyped ==
  ASSUME TypeInv, NEW p \in Pairs
  PROVE  /\ Len(got[p]) \in Nat /\ Reached(p) \in Nat /\ work_done[Producer(p)] \in Nat
         /\ Reached(p) = IF q_empty(p) THEN Len(got[p]) ELSE Len(got[p]) + 1
<1>1. got[p] \in Seq(Messages)
  BY DEF TypeInv, DataTyped
<1>2. work_done[Producer(p)] \in Nat
  BY Cast DEF TypeInv, DataTyped
<1> QED BY <1>1, <1>2 DEF Reached

(* What the moves of a message do to the sequence of those on their way.   *)
LEMMA JoinsAtTheEnd ==
  ASSUME NEW s \in Seq(Messages), NEW t \in Seq(Messages), NEW u \in Seq(Messages),
         NEW m \in Messages
  PROVE  s \o (t \o (u \o <<m>>)) = (s \o (t \o (u \o <<>>))) \o <<m>>
<1>1. <<m>> \in Seq(Messages) /\ t \o u \in Seq(Messages) /\ u \o <<>> = u
  BY ConcatProperties, ConcatEmptySeq
<1>2. t \o (u \o <<m>>) = (t \o u) \o <<m>>
  BY <1>1, ConcatAssociative
<1>3. s \o ((t \o u) \o <<m>>) = (s \o (t \o u)) \o <<m>>
  BY <1>1, ConcatAssociative
<1> QED BY <1>1, <1>2, <1>3

LEMMA MovesIntoBlock ==
  ASSUME NEW u \in Seq(Messages), NEW m \in Messages
  PROVE  Append(u, m) \o <<>> = u \o <<m>>
<1>1. Append(u, m) \in Seq(Messages) /\ Append(u, m) = u \o <<m>>
  BY AppendProperties, AppendIsConcat
<1> QED BY <1>1, ConcatEmptySeq

LEMMA MovesIntoQueue ==
  ASSUME NEW u \in Seq(Messages), NEW v \in Seq(Messages)
  PROVE  u \o (<<>> \o v) = <<>> \o (u \o v)
<1>1. u \o v \in Seq(Messages)
  BY ConcatProperties
<1> QED BY <1>1, ConcatEmptySeq

LEMMA HeadFirst ==
  ASSUME NEW u \in Seq(Messages), u # <<>>
  PROVE  <<Head(u)>> \o Tail(u) = u
<1> DEFINE h == <<Head(u)>>
           t == Tail(u)
<1>1. /\ Head(u) \in Messages /\ t \in Seq(Messages) /\ Len(t) = Len(u) - 1
      /\ \A i \in 1 .. Len(t) : t[i] = u[i + 1]
      /\ Head(u) = u[1] /\ Len(u) \in Nat
  BY HeadTailProperties
<1>2. h \in Seq(Messages) /\ Len(h) = 1 /\ h[1] = u[1]
  BY <1>1
<1> HIDE DEF h, t
<1>3. /\ h \o t \in Seq(Messages) /\ Len(h \o t) = Len(u)
      /\ \A i \in 1 .. Len(u) : (h \o t)[i] = IF i <= 1 THEN h[i] ELSE t[i - 1]
  <2>1. /\ h \o t \in Seq(Messages) /\ Len(h \o t) = Len(h) + Len(t)
        /\ \A i \in 1 .. Len(h) + Len(t) :
             (h \o t)[i] = IF i <= Len(h) THEN h[i] ELSE t[i - Len(h)]
    <3>1. h \in Seq(Messages) /\ t \in Seq(Messages)
      BY <1>1, <1>2
    <3> QED BY ONLY <3>1, ConcatProperties
  <2>2. Len(h) = 1 /\ Len(h) + Len(t) = Len(u)
    BY <1>1, <1>2
  <2> QED BY ONLY <2>1, <2>2
<1>4. \A i \in 1 .. Len(u) : (h \o t)[i] = u[i]
  <2> SUFFICES ASSUME NEW i \in 1 .. Len(u) PROVE (h \o t)[i] = u[i]
    OBVIOUS
  <2>1. CASE i = 1
    BY <1>2, <1>3, <2>1
  <2>2. CASE i # 1
    <3>1. i - 1 \in 1 .. Len(t) /\ (i - 1) + 1 = i
      BY <1>1, <2>2
    <3> QED BY <1>1, <1>3, <2>2, <3>1
  <2> QED BY <2>1, <2>2
<1>5. h \o t = u
  BY <1>3, <1>4, SeqEqual
<1> QED BY <1>5 DEF h, t

LEMMA LeavesAtTheHead ==
  ASSUME NEW m \in Messages, NEW u \in Seq(Messages), NEW v \in Seq(Messages)
  PROVE  (<<m>> \o u) \o v = <<m>> \o (u \o v)
<1>1. <<m>> \in Seq(Messages)
  OBVIOUS
<1> QED BY <1>1, ConcatAssociative

(* What a step that keeps a call or the content of a queue leaves alone.   *)
LEMMA PartsKept ==
  /\ Kept(Receiver) => Sending' = Sending
  /\ SameContent("t2rq") => Shipped' = Shipped
  /\ SameContent("p2tq") => Offered' = Offered
  /\ \A p : SameContent(p) /\ got'[p] = got[p] => Reached(p)' = Reached(p)
BY DEF Kept, SameContent, Sending, Shipped, Offered, Reached

LEMMA PairKept ==
  ASSUME NEW p, Flows(p), SameContent(p), got'[p] = got[p],
         work_done'[Producer(p)] = work_done[Producer(p)], InTransit' = InTransit
  PROVE  Flows(p)'
<1>1. Reached(p)' = Reached(p)
  BY PartsKept
<1> QED BY <1>1 DEF Flows, SameContent

LEMMA ProduceFlows ==
  ASSUME TypeInv, FlowInv, NEW p \in Pairs, Produce(p)
  PROVE  FlowInv'
<1> DEFINE t == Producer(p)
           m == <<p, work_done[t]>>
<1>1. /\ q_empty("p2tq") /\ OtherQueuesStay("p2tq")
      /\ q_full("p2tq")' /\ Oldest("p2tq")' = m /\ QueuesTyped'
      /\ \A o \in Threads \ {t} : Kept(o)
  BY ProduceTyped DEF TypeInv
<1>2. /\ work_done' = [work_done EXCEPT ![t] = @ + 1]
      /\ boss' = boss /\ block' = block /\ unpacked' = unpacked /\ got' = got
  BY DEF Produce
<1>3. \A o \in Pairs : work_done'[Producer(o)] =
                         IF o = p THEN work_done[Producer(o)] + 1 ELSE work_done[Producer(o)]
  BY <1>2, Cast DEF TypeInv, DataTyped
<1>4. DeliveredInOrder'
  BY <1>2 DEF FlowInv, DeliveredInOrder
<1>5. ASSUME Running PROVE \A o \in Pairs : Flows(o)'
  <2>1. m \in Messages
    BY ReachedTyped DEF Messages
  <2>2. ~q_empty("p2tq")'
    BY <1>1, QueueNames, FullOrEmptyNext
  <2>3. Offered = <<>> /\ Offered' = <<m>>
    BY <1>1, <2>2 DEF Offered
  <2>4. Sending' = Sending /\ Shipped' = Shipped
    BY <1>1, Cast, OthersSame, QueueNames, PartsKept
  <2>5. InTransit' = InTransit \o <<m>>
    <3>1. /\ Sending \o unpacked \in Seq(Messages)
          /\ Shipped \in Seq(Messages) /\ block \in Seq(Messages)
      BY <1>5, OnTheirWay, ConcatProperties
    <3> QED BY <1>2, <2>1, <2>3, <2>4, <3>1, JoinsAtTheEnd DEF InTransit
  <2>6. InTransit \in Seq(Messages)
    BY <1>5, TransitTyped
  <2> SUFFICES ASSUME NEW o \in Pairs PROVE Flows(o)'
    OBVIOUS
  <2>7. SameContent(o) /\ Reached(o)' = Reached(o)
    BY <1>1, <1>2, OthersSame, QueueNames, PartsKept
  <2>8. Flows(o)
    BY <1>5 DEF FlowInv
  <2>9. Carries(InTransit \o <<m>>, o, Reached(o), work_done'[Producer(o)])
    <3>1. Carries(InTransit, o, Reached(o), work_done[Producer(o)])
      BY <2>8 DEF Flows
    <3>2. m[1] = p /\ m[2] = work_done[Producer(p)]
      OBVIOUS
    <3>3. /\ work_done[Producer(o)] \in Nat
          /\ m[1] = o => m[2] = work_done[Producer(o)]
      BY <3>2, ReachedTyped
    <3>4. work_done'[Producer(o)] =
            IF m[1] = o THEN work_done[Producer(o)] + 1 ELSE work_done[Producer(o)]
      BY <1>3, <3>2
    <3> HIDE DEF m
    <3> QED BY <2>1, <2>6, <3>1, <3>3, <3>4, CarriesLast
  <2> QED BY <1>2, <2>5, <2>7, <2>8, <2>9 DEF Flows, SameContent
<1> QED BY <1>2, <1>4, <1>5 DEF FlowInv, Running

LEMMA ConsumeFlows ==
  ASSUME TypeInv, FlowInv, NEW p \in Pairs, Consume(p)
  PROVE  FlowInv'
<1> DEFINE t == Consumer(p)
           m == <<p, Len(got[p])>>
<1>1. /\ InCall(t, "get", p) /\ At(t, "enter")
      /\ ~q_empty(p) /\ OtherQueuesStay(p) /\ q_empty(p)'
      /\ \A o \in Threads \ {t} : Kept(o)
  BY ConsumeTyped DEF Consume, Transfer, CanEnter
<1>2. /\ work_done' = [work_done EXCEPT ![t] = @ + 1]
      /\ got' = [got EXCEPT ![p] = Append(@, Oldest(p))]
      /\ boss' = boss /\ block' = block /\ unpacked' = unpacked
  BY DEF Consume
<1>3. Running
  BY <1>1 DEF TypeInv, Roles, Phases, AllEnded, Consumer, At, DataTyped, Running
<1>4. /\ \A o \in Pairs : work_done'[Producer(o)] = work_done[Producer(o)]
      /\ \A o \in Pairs \ {p} : got'[o] = got[o]
      /\ got'[p] = Append(got[p], Oldest(p))
  BY <1>2, Cast DEF TypeInv, DataTyped
<1>5. Flows(p) /\ Oldest(p) = m
  BY <1>1, <1>3 DEF FlowInv, Flows
<1>6. got[p] \in Seq(Messages) /\ Len(got[p]) \in Nat /\ m \in Messages
  BY ReachedTyped DEF TypeInv, DataTyped, Messages
<1> HIDE DEF m
<1>7. /\ Len(got'[p]) = Len(got[p]) + 1
      /\ \A i \in 1 .. Len(got[p]) : got'[p][i] = got[p][i]
      /\ got'[p][Len(got[p]) + 1] = m
      /\ got'[p] \in Seq(Messages)
  BY <1>4, <1>5, <1>6, AppendProperties
<1>8. DeliveredInOrder'
  <2> SUFFICES ASSUME NEW o \in Pairs
               PROVE  got'[o] = [i \in 1 .. Len(got'[o]) |-> <<o, i - 1>>]
    BY DEF DeliveredInOrder
  <2>1. CASE o # p
    BY <1>4, <2>1 DEF FlowInv, DeliveredInOrder
  <2>2. CASE o = p
    <3>1. \A i \in 1 .. Len(got[p]) : got[p][i] = <<p, i - 1>>
      BY DEF FlowInv, DeliveredInOrder
    <3>2. \A i \in 1 .. Len(got'[p]) : got'[p][i] = <<p, i - 1>>
      <4> SUFFICES ASSUME NEW i \in 1 .. Len(got'[p]) PROVE got'[p][i] = <<p, i - 1>>
        OBVIOUS
      <4>1. CASE i <= Len(got[p])
        BY <1>6, <1>7, <3>1, <4>1
      <4>2. CASE i = Len(got[p]) + 1
        BY <1>6, <1>7, <4>2 DEF m
      <4> QED BY <1>6, <1>7, <4>1, <4>2
    <3>3. got'[p] = [i \in 1 .. Len(got'[p]) |-> got'[p][i]]
      BY <1>7
    <3> QED BY <2>2, <3>2, <3>3
  <2> QED BY <2>1, <2>2
<1>9. InTransit' = InTransit
  <2>1. SameContent("t2rq") /\ SameContent("p2tq") /\ Kept(Receiver)
    BY <1>1, Cast, OthersSame, QueueNames
  <2> QED BY <1>2, <2>1, PartsKept DEF InTransit
<1>10. Flows(p)'
  <2>1. Reached(p)' = Reached(p)
    BY <1>1, <1>7 DEF Reached
  <2> QED BY <1>1, <1>4, <1>5, <1>9, <2>1 DEF Flows
<1>11. ASSUME NEW o \in Pairs \ {p} PROVE Flows(o)'
  <2>1. SameContent(o) /\ Flows(o)
    BY <1>1, <1>3, <1>11, OthersSame, QueueNames DEF FlowInv
  <2> QED BY <1>4, <1>9, <1>11, <2>1, PairKept
<1> QED BY <1>8, <1>10, <1>11 DEF FlowInv

LEMMA TransmitFlows ==
  ASSUME TypeInv, FlowInv, Transmit
  PROVE  FlowInv'
<1>1. /\ TypeInv' /\ Running
      /\ \A o \in Threads \ {Transmitter} : Kept(o)
      /\ \/ /\ InCall(Transmitter, "get", "p2tq")
            /\ ~q_empty("p2tq") /\ OtherQueuesStay("p2tq") /\ q_empty("p2tq")'
            /\ block' = Append(block, Oldest("p2tq"))
         \/ /\ InCall(Transmitter, "put", "t2rq")
            /\ q_empty("t2rq") /\ OtherQueuesStay("t2rq") /\ q_full("t2rq")'
            /\ Oldest("t2rq")' = block /\ block' = <<>>
  BY TransmitTyped
<1>2. UNCHANGED <<goal, boss, work_done, unpacked, got>>
  BY DEF Transmit
<1>3. Kept(Receiver) /\ Sending' = Sending
  BY <1>1, Cast, PartsKept
<1>4. /\ Shipped \in Seq(Messages) /\ block \in Seq(Messages) /\ Offered \in Seq(Messages)
  BY <1>1, OnTheirWay
<1>5. InTransit' = InTransit /\ \A p \in Pairs : SameContent(p)
  <2>1. CASE /\ ~q_empty("p2tq") /\ OtherQueuesStay("p2tq") /\ q_empty("p2tq")'
             /\ block' = Append(block, Oldest("p2tq"))
    <3>1. Oldest("p2tq") \in Messages
      BY <2>1 DEF TypeInv, ContentsTyped
    <3>2. Offered = <<Oldest("p2tq")>> /\ Offered' = <<>>
      BY <2>1 DEF Offered
    <3>3. block' \o Offered' = block \o Offered
      BY <1>4, <2>1, <3>1, <3>2, MovesIntoBlock
    <3>4. \A j \in Queues \ {"p2tq"} : SameContent(j)
      BY <2>1, OthersSame, QueueNames
    <3>5. Shipped' = Shipped
      BY <3>4, QueueNames, ThreeStageAssumption, PartsKept
    <3> QED BY <1>2, <1>3, <3>3, <3>4, <3>5, QueueNames DEF InTransit
  <2>2. CASE /\ q_empty("t2rq") /\ OtherQueuesStay("t2rq") /\ q_full("t2rq")'
             /\ Oldest("t2rq")' = block /\ block' = <<>>
    <3>1. ~q_empty("t2rq")'
      BY <1>1, <2>2, QueueNames, FullOrEmptyNext DEF TypeInv
    <3>2. Shipped = <<>> /\ Shipped' = block
      BY <2>2, <3>1 DEF Shipped
    <3>3. \A j \in Queues \ {"t2rq"} : SameContent(j)
      BY <2>2, OthersSame, QueueNames
    <3>4. Offered' = Offered
      BY <3>3, QueueNames, PartsKept
    <3>5. Shipped' \o (block' \o Offered') = Shipped \o (block \o Offered)
      BY <1>4, <2>2, <3>2, <3>4, MovesIntoQueue
    <3> QED BY <1>2, <1>3, <3>3, <3>5, QueueNames DEF InTransit
  <2> QED BY <1>1, <2>1, <2>2
<1>6. \A p \in Pairs : Flows(p)'
  BY <1>1, <1>2, <1>5, PairKept DEF FlowInv
<1>7. DeliveredInOrder'
  BY <1>2 DEF FlowInv, DeliveredInOrder
<1> QED BY <1>6, <1>7 DEF FlowInv

LEMMA ReceiveFlows ==
  ASSUME TypeInv, FlowInv, Receive
  PROVE  FlowInv'
<1> DEFINE rest == IF Unsent = <<>> THEN <<>> ELSE Tail(Unsent)
           first == IF Unsent = <<>> THEN <<>> ELSE <<Head(Unsent)>>
           tail == block \o Offered
<1>1. /\ TypeInv' /\ Running /\ Unsent \in Seq(Messages)
      /\ \A o \in Threads \ {Receiver} : Kept(o)
      /\ call'[Receiver] = SendNext(IF Unsent = <<>> THEN <<>> ELSE Head(Unsent))
      /\ \/ /\ InCall(Receiver, "get", "t2rq") /\ unpacked = <<>>
            /\ ~q_empty("t2rq") /\ OtherQueuesStay("t2rq") /\ q_empty("t2rq")'
            /\ Unsent = Oldest("t2rq")
         \/ \E p \in Pairs :
              /\ InCall(Receiver, "put", p)
              /\ call[Receiver].msg \in Messages /\ call[Receiver].msg[1] = p
              /\ q_empty(p) /\ OtherQueuesStay(p) /\ q_full(p)'
              /\ Oldest(p)' = call[Receiver].msg /\ Unsent = unpacked
  BY ReceiveTyped
<1>2. unpacked' = rest /\ UNCHANGED <<goal, boss, work_done, block, got>>
  BY DEF Receive
<1>3. Shipped \in Seq(Messages) /\ tail \in Seq(Messages)
  BY <1>1, OnTheirWay, ConcatProperties
<1>4. Sending' = first
  <2>1. CASE Unsent = <<>>
    BY <1>1, <2>1 DEF SendNext, Get, Sending
  <2>2. CASE Unsent # <<>>
    <3>1. Head(Unsent) # <<>>
      <4>1. Head(Unsent) \in Messages
        BY <1>1, <2>2, HeadTailProperties
      <4> QED BY <4>1 DEF Messages
    <3>2. call'[Receiver] = Put(Head(Unsent)[1], Head(Unsent))
      BY <1>1, <2>2, <3>1 DEF SendNext
    <3> QED BY <2>2, <3>2 DEF Put, Sending
  <2> QED BY <2>1, <2>2
<1>5. Sending' \o unpacked' = Unsent
  <2>1. CASE Unsent = <<>>
    BY <1>2, <1>4, <2>1
  <2>2. CASE Unsent # <<>>
    BY <1>1, <1>2, <1>4, <2>2, HeadFirst
  <2> QED BY <2>1, <2>2
<1> HIDE DEF rest, first
<1>6. DeliveredInOrder'
  BY <1>2 DEF FlowInv, DeliveredInOrder
<1>7. CASE /\ InCall(Receiver, "get", "t2rq") /\ unpacked = <<>>
           /\ ~q_empty("t2rq") /\ OtherQueuesStay("t2rq") /\ q_empty("t2rq")'
           /\ Unsent = Oldest("t2rq")
  <2>1. \A j \in Queues \ {"t2rq"} : SameContent(j)
    BY <1>7, OthersSame, QueueNames
  <2>2. Offered' = Offered
    BY <2>1, QueueNames, PartsKept
  <2>3. Sending = <<>> /\ Shipped = Unsent /\ Shipped' = <<>>
    BY <1>7 DEF InCall, Sending, Shipped
  <2>4. InTransit = Unsent \o tail
    <3>1. Sending \o unpacked = <<>>
      BY <1>7, <2>3
    <3>2. Unsent \o tail \in Seq(Messages)
      BY <1>1, <1>3, ConcatProperties
    <3> QED BY <2>3, <3>1, <3>2, ConcatEmptySeq DEF InTransit
  <2>5. InTransit' = Unsent \o tail
    BY <1>2, <1>3, <1>5, <2>2, <2>3, ConcatEmptySeq DEF InTransit
  <2>6. \A p \in Pairs : SameContent(p)
    BY <2>1, QueueNames
  <2> HIDE DEF tail
  <2>7. \A p \in Pairs : Flows(p)'
    BY <1>1, <1>2, <2>4, <2>5, <2>6, PairKept DEF FlowInv
  <2> QED BY <1>6, <2>7 DEF FlowInv
<1>8. ASSUME NEW p \in Pairs,
             InCall(Receiver, "put", p),
             call[Receiver].msg \in Messages, call[Receiver].msg[1] = p,
             q_empty(p), OtherQueuesStay(p), q_full(p)',
             Oldest(p)' = call[Receiver].msg, Unsent = unpacked
      PROVE  FlowInv'
  <2> DEFINE m == call[Receiver].msg
             end == Shipped \o tail
  <2>1. \A j \in Queues \ {p} : SameContent(j)
    BY <1>8, OthersSame, QueueNames
  <2>2. Offered' = Offered /\ Shipped' = Shipped
    BY <1>8, <2>1, QueueNames, PartsKept
  <2>3. Sending = <<m>>
    BY <1>8 DEF InCall, Sending
  <2>4. m \in Messages /\ m[1] = p /\ unpacked \in Seq(Messages) /\ end \in Seq(Messages)
    BY <1>1, <1>3, <1>8, ConcatProperties
  <2>5. InTransit' = unpacked \o end
    BY <1>2, <1>5, <1>8, <2>2 DEF InTransit
  <2>6. InTransit = <<m>> \o InTransit'
    <3>1. InTransit = (<<m>> \o unpacked) \o end
      BY <2>3 DEF InTransit
    <3> HIDE DEF m, end
    <3> QED BY <2>4, <2>5, <3>1, LeavesAtTheHead
  <2>7. InTransit' \in Seq(Messages)
    <3> HIDE DEF end
    <3> QED BY <2>4, <2>5, ConcatProperties
  <2>8. ~q_empty(p)' /\ Oldest(p)' = m
    BY <1>1, <1>8, QueueNames, FullOrEmptyNext DEF TypeInv
  <2> HIDE DEF m, end
  <2>9. ASSUME NEW o \in Pairs
        PROVE  /\ m[1] = o => m = <<o, Reached(o)>>
               /\ Carries(InTransit', o, IF m[1] = o THEN Reached(o) + 1 ELSE Reached(o),
                          work_done[Producer(o)])
    <3>1. Carries(<<m>> \o InTransit', o, Reached(o), work_done[Producer(o)])
      BY <1>1, <2>6 DEF FlowInv, Flows
    <3>2. Reached(o) \in Nat
      BY ReachedTyped
    <3> QED BY <2>4, <2>7, <3>1, <3>2, CarriesFirst
  <2>10. Flows(p)'
    <3>1. Reached(p) = Len(got[p]) /\ Reached(p)' = Len(got[p]) + 1
      BY <1>2, <1>8, <2>8 DEF Reached
    <3>2. m = <<p, Len(got[p])>>
      BY <2>4, <2>9, <3>1
    <3>3. Carries(InTransit', p, Reached(p)', work_done[Producer(p)])
      BY <2>4, <2>9, <3>1
    <3> QED BY <1>2, <2>8, <3>2, <3>3 DEF Flows
  <2>11. ASSUME NEW o \in Pairs \ {p} PROVE Flows(o)'
    <3>1. SameContent(o) /\ Reached(o)' = Reached(o) /\ Flows(o)
      BY <1>1, <1>2, <2>1, <2>11, QueueNames, PartsKept DEF FlowInv
    <3>2. Carries(InTransit', o, Reached(o), work_done[Producer(o)])
      BY <2>4, <2>9, <2>11
    <3> QED BY <1>2, <3>1, <3>2 DEF Flows, SameContent
  <2> QED BY <1>6, <2>10, <2>11 DEF FlowInv
<1> QED BY <1>1, <1>7, <1>8

(* A step that moves no message.                                           *)
LEMMA NothingMoves ==
  ASSUME FlowInv, SameMessages, got' = got,
         Running' => /\ Running /\ Kept(Receiver)
                     /\ UNCHANGED <<work_done, block, unpacked>>
  PROVE  FlowInv'
<1>1. DeliveredInOrder'
  BY DEF FlowInv, DeliveredInOrder
<1>2. ASSUME Running', NEW p \in Pairs PROVE Flows(p)'
  <2>1. SameContent("t2rq") /\ SameContent("p2tq") /\ SameContent(p)
    BY AllSame, QueueNames
  <2>2. InTransit' = InTransit
    BY <1>2, <2>1, PartsKept DEF InTransit
  <2> QED BY <1>2, <2>1, <2>2, PairKept DEF FlowInv
<1> QED BY <1>1, <1>2 DEF FlowInv

LEMMA InitFlows == Init => FlowInv
<1> SUFFICES ASSUME Init PROVE FlowInv
  OBVIOUS
<1>1. TypeInv
  BY InitTyped
<1>2. \A k \in Queues : q_empty(k)
  BY DEF Init, QueueInit, q_initialize, q_empty
<1>3. call[Receiver] = Get("t2rq")
  BY Cast DEF Init, QueueInit, FirstCall
<1>4. InTransit = <<>>
  BY <1>2, <1>3, QueueNames DEF Init, InTransit, Sending, Shipped, Offered, Get
<1>5. ASSUME NEW p \in Pairs PROVE Flows(p) /\ got[p] = <<>>
  <2>1. got[p] = <<>> /\ work_done[Producer(p)] = 0 /\ q_empty(p)
    BY <1>2, Cast, QueueNames DEF Init
  <2>2. Reached(p) = 0
    BY <2>1 DEF Reached
  <2> QED BY <1>4, <2>1, <2>2, CarriesNothing DEF Flows
<1>6. DeliveredInOrder
  BY <1>5 DEF DeliveredInOrder
<1> QED BY <1>5, <1>6 DEF FlowInv

LEMMA FlowStep == TypeInv /\ FlowInv /\ [Next]_vars => FlowInv'
<1> SUFFICES ASSUME TypeInv, FlowInv, [Next]_vars PROVE FlowInv'
  OBVIOUS
<1>1. CASE Boss
  <2>1. SameMessages /\ got' = got
    BY <1>1, BossTyped
  <2>2. Running' => /\ Running /\ Kept(Receiver) /\ UNCHANGED <<work_done, block, unpacked>>
    BY <1>1 DEF Boss, BossWaits, BossTerminates, BossDestroys, Running, Kept
  <2> QED BY <2>1, <2>2, NothingMoves
<1>2. ASSUME NEW t \in Threads, StaysInCall(t) PROVE FlowInv'
  <2>1. SameMessages /\ Kept(Receiver)
    BY <1>2, Cast, PendingTyped
  <2>2. UNCHANGED <<got, boss, work_done, block, unpacked>>
    BY <1>2 DEF StaysInCall, appVars
  <2> QED BY <2>1, <2>2, NothingMoves DEF Running
<1>3. ASSUME NEW t \in Threads, ThreadStep(t) PROVE FlowInv'
  BY <1>2, <1>3, TransmitFlows, ReceiveFlows, ProduceFlows, ConsumeFlows DEF ThreadStep
<1>4. CASE UNCHANGED vars
  <2>1. UNCHANGED <<q, call, got, boss, work_done, block, unpacked>>
    BY <1>4 DEF vars, appVars
  <2>2. SameMessages /\ Kept(Receiver)
    BY <2>1 DEF SameMessages, Kept, TypeInv, QueuesTyped
  <2> QED BY <2>1, <2>2, NothingMoves DEF Running
<1> QED BY <1>1, <1>3, <1>4 DEF Next

(* Every consumer gets the messages of its producer, once and in order,    *)
(* through three queues, two copies and a block.                           *)
THEOREM Delivery == Spec => []DeliveredInOrder
<1>1. FlowInv => DeliveredInOrder
  BY DEF FlowInv
<1> QED BY <1>1, InitFlows, FlowStep, TypeCorrect, PTL DEF Spec

-----------------------------------------------------------------------------
(* Signals.                                                                *)

Ops == {"get", "put"}

Sleeping(t, op, k) == call[t].op = op /\ call[t].q = k /\ call[t].at \in {"outside", "wait"}

Entering(t, op, k) == call[t].op = op /\ call[t].q = k /\ call[t].at = "enter"

CanGo(op, k) == IF op = "get" THEN ~q_empty(k) ELSE ~q_full(k)

Event(op, k) == IF op = "get" THEN q[k].ne ELSE q[k].nf

Signalled(op, k) == Event(op, k) \/ \E o \in Threads : Entering(o, op, k)

(* Where leaving the guard and waiting is one call nobody is between them. *)
NobodyBetween == build.soaw => \A t \in Threads : call[t].at # "outside"

(* A thread that has left the guard to wait, for what is there now, is one *)
(* for which the event is set, or another one is about to enter.  The      *)
(* threads that have not begun to wait count too: an event that is not set *)
(* when the last of them begins would be a lost signal.                    *)
SignalInv ==
  /\ NobodyBetween
  /\ ~build.polls => \A k \in Queues, op \in Ops :
       (\E t \in Threads : Sleeping(t, op, k)) /\ CanGo(op, k) => Signalled(op, k)

Other(op) == IF op = "get" THEN "put" ELSE "get"

(* Who is woken by a transfer, or finds the event set.                     *)
LEMMA TransferSignals ==
  ASSUME TypeInv, NobodyBetween, ~build.polls,
         NEW k \in Queues, NEW op \in Ops, NEW t \in Threads, NEW next,
         InCall(t, op, k), Transfer(t, next), next.at \in {"enter", "ended"},
         NEW s \in Threads, Sleeping(s, Other(op), k)'
  PROVE  Signalled(Other(op), k)'
<1> DEFINE sleepers == Waiting(k, Announces(op))
           released == IF AutoReset /\ sleepers # {} THEN {{w} : w \in sleepers} ELSE {sleepers}
           stays == build.announce = "SetEvent" /\ (sleepers = {} \/ ~AutoReset)
<1>1. /\ At(t, "enter") /\ call[t].op = op /\ call[t].q = k
      /\ q' = [q EXCEPT ![k] = [Moved(t) EXCEPT ![Announces(op)] = stays]]
      /\ \E woken \in released : call' = [Woken(woken) EXCEPT ![t] = next]
  BY DEF Transfer, CanEnter, InCall
<1>2. PICK woken \in released : call' = [Woken(woken) EXCEPT ![t] = next]
  BY <1>1
<1>3. Announces(op) = WaitsFor(Other(op))
  BY DEF Ops, Announces, WaitsFor, Other
<1>4. \A o \in Threads : o \in sleepers <=>
        At(o, "wait") /\ call[o].q = k /\ call[o].op = Other(op)
  <2> SUFFICES ASSUME NEW o \in Threads
               PROVE  o \in sleepers <=> At(o, "wait") /\ call[o].q = k /\ call[o].op = Other(op)
    OBVIOUS
  <2>1. At(o, "wait") => call[o].op \in Ops
    BY InACall DEF At, Ops
  <2> QED BY <2>1 DEF Ops, Waiting, Announces, WaitsFor, Other
<1>5. /\ \A w \in woken : w \in sleepers
      /\ sleepers # {} => woken # {}
      /\ sleepers = {} => woken = {}
  BY <1>2
<1>6. /\ call'[t] = next
      /\ \A o \in Threads \ {t} :
           call'[o] = IF o \in woken THEN [call[o] EXCEPT !.at = "enter"] ELSE call[o]
  BY <1>2 DEF Woken, TypeInv, CallsTyped
<1> HIDE DEF sleepers, released
<1>7. stays => Event(Other(op), k)'
  <2> SUFFICES ASSUME stays PROVE Event(Other(op), k)'
    OBVIOUS
  <2>1. q' = [q EXCEPT ![k] = [Moved(t) EXCEPT ![Announces(op)] = TRUE]]
    BY <1>1
  <2>2. q'[k] = [Moved(t) EXCEPT ![Announces(op)] = TRUE]
    BY <2>1 DEF TypeInv, QueuesTyped
  <2>3. CASE op = "get"
    <3>1. Moved(t) \in QueueRecords(k)
      BY <1>1, <2>3, GetEffect, RemoveEffect DEF TypeInv, Moved
    <3>2. q'[k] = [Moved(t) EXCEPT !.nf = TRUE]
      BY <2>2, <2>3 DEF Announces
    <3>3. q'[k].nf
      BY <3>1, <3>2 DEF QueueRecords
    <3> QED BY <2>3, <3>3 DEF Event, Other
  <2>4. CASE op = "put"
    <3>1. call[t].msg \in Items
      BY DEF TypeInv, CallsTyped, CallRecords
    <3>2. Moved(t) \in QueueRecords(k)
      BY <1>1, <2>4, <3>1, PutEffect, InsertEffect DEF TypeInv, Moved
    <3>3. q'[k] = [Moved(t) EXCEPT !.ne = TRUE]
      BY <2>2, <2>4 DEF Announces
    <3>4. q'[k].ne
      BY <3>2, <3>3 DEF QueueRecords
    <3> QED BY <2>4, <3>4 DEF Event, Other
  <2> QED BY <2>3, <2>4 DEF Ops
<1>8. CASE sleepers # {}
  <2>1. PICK w \in woken : w \in sleepers
    BY <1>5, <1>8
  <2>2. w \in Threads
    BY <2>1 DEF sleepers, Waiting
  <2>3. At(w, "wait") /\ call[w].q = k /\ call[w].op = Other(op)
    BY <1>4, <2>1, <2>2
  <2>4. w # t
    BY <1>1, <2>3 DEF At
  <2>5. call'[w] = [call[w] EXCEPT !.at = "enter"] /\ call[w] \in CallRecords
    BY <1>6, <2>1, <2>2, <2>4 DEF TypeInv, CallsTyped
  <2>6. Entering(w, Other(op), k)'
    BY <2>3, <2>5 DEF Entering, CallRecords
  <2> QED BY <2>2, <2>6 DEF Signalled
<1>9. CASE sleepers = {} /\ ~stays
  <2>1. build.soaw
    BY <1>9 DEF TypeInv, BuildTyped, Variants
  <2>2. s # t
    BY <1>6 DEF Sleeping
  <2>3. call'[s] = call[s]
    BY <1>5, <1>6, <1>9, <2>2
  <2>4. call[s].op = Other(op) /\ call[s].q = k /\ call[s].at \in {"outside", "wait"}
    BY <2>3 DEF Sleeping
  <2>5. ~At(s, "wait")
    BY <1>4, <1>9, <2>4
  <2> QED BY <2>1, <2>4, <2>5 DEF NobodyBetween, At
<1> QED BY <1>7, <1>8, <1>9 DEF Signalled

LEMMA TransferKeepsSignals ==
  ASSUME TypeInv, SignalInv, build' = build, NEW t \in Threads, NEW next \in CallRecords,
         Transfer(t, next), next.at \in {"enter", "ended"}
  PROVE  SignalInv'
<1>1. At(t, "enter")
  BY DEF Transfer, CanEnter
<1>2. PICK op \in Ops, k \in Queues : InCall(t, op, k)
  BY <1>1, InACall DEF At, InCall, Ops
<1>3. CallsStay({t}) /\ call'[t] = next
  BY TransferCalls DEF TypeInv
<1>4. \A o \in Threads \ {t} :
        /\ call'[o].op = call[o].op /\ call'[o].q = call[o].q
        /\ call'[o].at = call[o].at \/ (call[o].at = "wait" /\ call'[o].at = "enter")
  BY <1>3 DEF CallsStay, Untouched, At, TypeInv, CallsTyped, CallRecords
<1>5. NobodyBetween'
  BY <1>3, <1>4 DEF SignalInv, NobodyBetween
<1>6. /\ OtherQueuesStay(k) /\ ~CanGo(op, k)'
  <2>1. CASE op = "get"
    BY <1>2, <2>1, GetEffect DEF TypeInv, CanGo
  <2>2. CASE op = "put"
    <3>1. call[t].msg \in Items
      BY DEF TypeInv, CallsTyped, CallRecords
    <3> QED BY <1>2, <2>2, <3>1, PutEffect DEF TypeInv, CanGo
  <2> QED BY <2>1, <2>2 DEF Ops
<1>7. ASSUME ~build.polls, NEW j \in Queues, NEW o \in Ops, NEW s \in Threads,
             Sleeping(s, o, j)', CanGo(o, j)'
      PROVE  Signalled(o, j)'
  <2>1. CASE j = k
    <3>1. o = Other(op)
      BY <1>6, <1>7, <2>1 DEF Ops, Other
    <3> QED BY <1>2, <1>7, <2>1, <3>1, TransferSignals DEF SignalInv
  <2>2. CASE j # k
    <3>1. s # t
      BY <1>3, <1>7 DEF Sleeping
    <3>2. Sleeping(s, o, j)
      BY <1>4, <1>7, <3>1 DEF Sleeping
    <3>3. q'[j] = q[j]
      BY <1>6, <2>2 DEF OtherQueuesStay
    <3>4. CanGo(o, j)
      BY <1>7, <3>3 DEF CanGo, q_empty, q_full
    <3>5. Signalled(o, j)
      BY <1>7, <3>2, <3>4 DEF SignalInv
    <3>6. CASE Event(o, j)
      BY <3>3, <3>6 DEF Signalled, Event
    <3>7. ASSUME NEW w \in Threads, Entering(w, o, j) PROVE Signalled(o, j)'
      <4>1. w # t
        BY <1>2, <2>2, <3>7 DEF Entering, InCall
      <4>2. Entering(w, o, j)'
        BY <1>4, <3>7, <4>1 DEF Entering
      <4> QED BY <4>2 DEF Signalled
    <3> QED BY <3>5, <3>6, <3>7 DEF Signalled
  <2> QED BY <2>1, <2>2
<1> QED BY <1>5, <1>7 DEF SignalInv

LEMMA PendingKeepsSignals ==
  ASSUME TypeInv, SignalInv, NEW t \in Threads, StaysInCall(t)
  PROVE  SignalInv'
<1>1. build' = build /\ (Leave(t) \/ StartWait(t) \/ Poll(t))
  BY DEF StaysInCall, Pending
<1>2. SameMessages /\ CallGoesOn(t)
  BY InACall, PendingEffect DEF TypeInv, StaysInCall
<1>3. PICK place \in {"enter", "outside", "wait"} : call'[t] = [call[t] EXCEPT !.at = place]
  BY <1>2 DEF CallGoesOn
<1>4. PICK op \in Ops, k \in Queues : InCall(t, op, k)
  BY <1>2, InACall DEF CallGoesOn, InCall, Ops
<1>5. /\ \A o \in Threads \ {t} : call'[o] = call[o]
      /\ call'[t].op = op /\ call'[t].q = k /\ call'[t].at = place
  BY <1>2, <1>3, <1>4 DEF CallGoesOn, InCall, TypeInv, CallsTyped, CallRecords
<1>6. \A j \in Queues, o \in Ops : CanGo(o, j)' <=> CanGo(o, j)
  BY <1>2, AllSame DEF CanGo, SameContent
<1>7. \A j \in Queues, o \in Ops : j # k \/ o # op => Event(o, j)' = Event(o, j)
  <2>1. \/ q' = q
        \/ q' = [q EXCEPT ![k][WaitsFor(op)] = @ /\ ~AutoReset]
    BY <1>1, <1>4 DEF Leave, StartWait, Poll, WaitOnEvent, InCall
  <2>2. CASE q' = q
    BY <2>2 DEF Event
  <2>3. CASE q' = [q EXCEPT ![k][WaitsFor(op)] = @ /\ ~AutoReset]
    <3>1. PICK set : q' = [q EXCEPT ![k][WaitsFor(op)] = set]
      BY <2>3
    <3>2. q[k] \in QueueRecords(k) /\ DOMAIN q = Queues
      BY DEF TypeInv, QueuesTyped
    <3>3. q'[k] = [q[k] EXCEPT ![WaitsFor(op)] = set] /\ \A j \in Queues \ {k} : q'[j] = q[j]
      BY <3>1, <3>2
    <3>4. \A o \in Ops : o # op => Event(o, k)' = Event(o, k)
      BY <3>2, <3>3 DEF Event, Ops, WaitsFor, QueueRecords
    <3> QED BY <3>3, <3>4 DEF Event
  <2> QED BY <2>1, <2>2, <2>3
<1>8. NobodyBetween'
  <2>1. build.soaw => place # "outside"
    <3>1. CASE Leave(t)
      BY <1>3, <1>5, <3>1 DEF Leave, WaitOnEvent, TypeInv, CallsTyped, CallRecords
    <3>2. CASE StartWait(t) \/ Poll(t)
      BY <1>3, <1>5, <3>2 DEF StartWait, Poll, WaitOnEvent, TypeInv, CallsTyped, CallRecords
    <3> QED BY <1>1, <3>1, <3>2
  <2> QED BY <1>1, <1>5, <2>1 DEF SignalInv, NobodyBetween
<1>9. ASSUME ~build.polls, NEW j \in Queues, NEW o \in Ops, NEW s \in Threads,
             Sleeping(s, o, j)', CanGo(o, j)'
      PROVE  Signalled(o, j)'
  <2>1. CASE j = k /\ o = op
    <3>1. CanGo(op, k)
      BY <1>6, <1>9, <2>1
    <3>2. StartWait(t)
      BY <1>1, <1>4, <1>9, <3>1 DEF Leave, Poll, Blocked, CanGo, InCall, Ops
    <3>3. At(t, "outside") /\ call[t].op = op /\ call[t].q = k
      BY <1>4, <3>2 DEF StartWait, InCall
    <3>4. place = IF Event(op, k) THEN "enter" ELSE "wait"
      <4>1. call' = [call EXCEPT ![t].at = IF q[k][WaitsFor(op)] THEN "enter" ELSE "wait"]
        BY <3>2, <3>3 DEF StartWait, WaitOnEvent
      <4>2. call'[t].at = IF q[k][WaitsFor(op)] THEN "enter" ELSE "wait"
        BY <4>1 DEF TypeInv, CallsTyped, CallRecords
      <4>3. q[k][WaitsFor(op)] <=> Event(op, k)
        BY DEF Event, WaitsFor, Ops
      <4> QED BY <1>5, <4>2, <4>3
    <3>5. Signalled(op, k)
      BY <1>4, <1>9, <3>1, <3>3 DEF SignalInv, Sleeping, At
    <3>6. CASE Event(op, k)
      BY <1>5, <2>1, <3>4, <3>6 DEF Signalled, Entering
    <3>7. ASSUME NEW w \in Threads, Entering(w, op, k) PROVE Signalled(o, j)'
      <4>1. w # t
        BY <3>3, <3>7 DEF Entering, At
      <4>2. Entering(w, op, k)'
        BY <1>5, <3>7, <4>1 DEF Entering
      <4> QED BY <2>1, <4>2 DEF Signalled
    <3> QED BY <3>5, <3>6, <3>7 DEF Signalled
  <2>2. CASE j # k \/ o # op
    <3>1. s # t
      BY <1>5, <1>9, <2>2 DEF Sleeping
    <3>2. Sleeping(s, o, j) /\ CanGo(o, j)
      BY <1>5, <1>6, <1>9, <3>1 DEF Sleeping
    <3>3. Signalled(o, j)
      BY <1>9, <3>2 DEF SignalInv
    <3>4. CASE Event(o, j)
      BY <1>7, <2>2, <3>4 DEF Signalled
    <3>5. ASSUME NEW w \in Threads, Entering(w, o, j) PROVE Signalled(o, j)'
      <4>1. w # t
        BY <1>4, <2>2, <3>5 DEF Entering, InCall
      <4>2. Entering(w, o, j)'
        BY <1>5, <3>5, <4>1 DEF Entering
      <4> QED BY <4>2 DEF Signalled
    <3> QED BY <3>3, <3>4, <3>5 DEF Signalled
  <2> QED BY <2>1, <2>2
<1> QED BY <1>1, <1>8, <1>9 DEF SignalInv

LEMMA BossKeepsSignals ==
  ASSUME TypeInv, SignalInv, Boss
  PROVE  SignalInv'
<1>1. CASE BossTerminates
  <2>1. TypeInv' /\ boss' = "destroy"
    BY <1>1, BossTyped DEF BossTerminates
  <2>2. /\ At(Transmitter, "killed")' /\ At(Receiver, "killed")'
        /\ AllEnded("producer")' /\ AllEnded("consumer")'
    BY <2>1 DEF TypeInv, Roles, Phases, Running
  <2>3. \A t \in Threads : call'[t].at \in {"ended", "killed"}
    BY <2>2, Cast DEF AllEnded, At, Producer, Consumer
  <2> QED BY <2>3 DEF SignalInv, NobodyBetween, Sleeping
<1>2. CASE BossWaits \/ BossDestroys
  <2>1. UNCHANGED <<build, q, call>>
    BY <1>2 DEF BossWaits, BossDestroys
  <2> QED BY <2>1 DEF SignalInv, NobodyBetween, Sleeping, Entering, Signalled, Event, CanGo,
                      q_empty, q_full
<1> QED BY <1>1, <1>2 DEF Boss

LEMMA InitSignals == Init => SignalInv
<1> SUFFICES ASSUME Init PROVE SignalInv
  OBVIOUS
<1>1. \A t \in Threads : call[t] = FirstCall(t)
  BY DEF Init, QueueInit
<1>2. \A t \in Threads : call[t].at \in {"enter", "ended"}
  <2>1. call[Transmitter] = Get("p2tq") /\ call[Receiver] = Get("t2rq")
    BY <1>1, Cast DEF FirstCall
  <2>2. \A p \in Pairs : /\ call[Producer(p)] = PutOrEnd(p, 0)
                         /\ call[Consumer(p)] = GetOrEnd(p, 0)
    BY <1>1, Cast DEF FirstCall, Producer, Consumer
  <2>3. Ended.at = "ended" /\ \A k, m : Get(k).at = "enter" /\ Put(k, m).at = "enter"
    BY DEF Ended, NoCall, Get, Put
  <2>4. \A p : PutOrEnd(p, 0).at \in {"enter", "ended"} /\ GetOrEnd(p, 0).at \in {"enter", "ended"}
    BY <2>3 DEF PutOrEnd, GetOrEnd
  <2> QED BY <2>1, <2>2, <2>3, <2>4, Cast
<1> QED BY <1>2 DEF SignalInv, NobodyBetween, Sleeping

LEMMA SignalStep == TypeInv /\ SignalInv /\ [Next]_vars => SignalInv'
<1> SUFFICES ASSUME TypeInv, SignalInv, [Next]_vars PROVE SignalInv'
  OBVIOUS
<1>1. /\ Ended.at = "ended"
      /\ \A k, m : Get(k).at = "enter" /\ Put(k, m).at = "enter"
  BY DEF Ended, NoCall, Get, Put
<1>2. ASSUME NEW t \in Threads, NEW next, Transfer(t, next), TypeInv',
             next.at \in {"enter", "ended"}, build' = build
      PROVE  SignalInv'
  <2>1. call'[t] = next
    BY <1>2 DEF Transfer, Woken, TypeInv, CallsTyped
  <2>2. next \in CallRecords
    BY <1>2, <2>1 DEF TypeInv, CallsTyped
  <2> QED BY <1>2, <2>2, TransferKeepsSignals
<1>3. ASSUME NEW p \in Pairs, Produce(p) PROVE SignalInv'
  <2> DEFINE next == PutOrEnd(p, work_done[Producer(p)] + 1)
  <2>1. Transfer(Producer(p), next) /\ build' = build /\ TypeInv'
    BY <1>3, ProduceTyped DEF Produce
  <2>2. next.at \in {"enter", "ended"}
    BY <1>1 DEF PutOrEnd
  <2> HIDE DEF next
  <2> QED BY <1>2, <2>1, <2>2, Cast
<1>4. ASSUME NEW p \in Pairs, Consume(p) PROVE SignalInv'
  <2> DEFINE next == GetOrEnd(p, work_done[Consumer(p)] + 1)
  <2>1. Transfer(Consumer(p), next) /\ build' = build /\ TypeInv'
    BY <1>4, ConsumeTyped DEF Consume
  <2>2. next.at \in {"enter", "ended"}
    BY <1>1 DEF GetOrEnd
  <2> HIDE DEF next
  <2> QED BY <1>2, <2>1, <2>2, Cast
<1>5. ASSUME Transmit PROVE SignalInv'
  <2> DEFINE packed == IF call[Transmitter].op = "get" THEN Append(block, Oldest("p2tq")) ELSE <<>>
             next == IF Len(packed) = TBLOCK_SIZE THEN Put("t2rq", packed) ELSE Get("p2tq")
  <2>1. Transfer(Transmitter, next) /\ build' = build /\ TypeInv'
    BY <1>5, TransmitTyped DEF Transmit
  <2>2. next.at \in {"enter", "ended"}
    BY <1>1
  <2> HIDE DEF next
  <2> QED BY <1>2, <2>1, <2>2, Cast
<1>6. ASSUME Receive PROVE SignalInv'
  <2> DEFINE next == SendNext(IF Unsent = <<>> THEN <<>> ELSE Head(Unsent))
  <2>1. Transfer(Receiver, next) /\ build' = build /\ TypeInv'
    BY <1>6, ReceiveTyped DEF Receive
  <2>2. next.at \in {"enter", "ended"}
    BY <1>1 DEF SendNext
  <2> HIDE DEF next
  <2> QED BY <1>2, <2>1, <2>2, Cast
<1>7. CASE UNCHANGED vars
  <2>1. UNCHANGED <<build, q, call>>
    BY <1>7 DEF vars
  <2> QED BY <2>1 DEF SignalInv, NobodyBetween, Sleeping, Entering, Signalled, Event, CanGo,
                      q_empty, q_full
<1>8. ASSUME NEW t \in Threads, ThreadStep(t) PROVE SignalInv'
  BY <1>3, <1>4, <1>5, <1>6, <1>8, PendingKeepsSignals DEF ThreadStep
<1> QED BY <1>7, <1>8, BossKeepsSignals DEF Next

(* Whatever the guard and the event calls of the variant, a thread never   *)
(* sleeps on an event, without a limit, while it could go on and no other  *)
(* thread is about to take what is there.                                  *)
THEOREM SignalsAreKept == Spec => []NoLostSignal
<1>1. TypeInv /\ SignalInv => NoLostSignal
  <2> SUFFICES ASSUME TypeInv, SignalInv, NEW k \in Queues, NEW t \in Threads,
                      At(t, "wait"), call[t].q = k, ~Blocked(t), ~build.polls
               PROVE  \/ q[k][WaitsFor(call[t].op)]
                      \/ \E o \in Awake(k) : call[o].op = call[t].op
    BY DEF NoLostSignal
  <2>1. call[t].op \in Ops
    BY InACall DEF At, Ops
  <2>2. Sleeping(t, call[t].op, k) /\ CanGo(call[t].op, k)
    BY <2>1 DEF Sleeping, At, Blocked, CanGo, Ops
  <2>3. Signalled(call[t].op, k)
    BY <2>1, <2>2 DEF SignalInv
  <2>4. CASE Event(call[t].op, k)
    BY <2>1, <2>4 DEF Event, WaitsFor, Ops
  <2>5. ASSUME NEW o \in Threads, Entering(o, call[t].op, k)
        PROVE  \E w \in Awake(k) : call[w].op = call[t].op
    BY <2>5 DEF Entering, Awake
  <2> QED BY <2>3, <2>4, <2>5 DEF Signalled
<1> QED BY <1>1, InitSignals, SignalStep, TypeCorrect, PTL DEF Spec
=============================================================================
