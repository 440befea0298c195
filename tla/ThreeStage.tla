----------------------------- MODULE ThreeStage -----------------------------
(***************************************************************************)
(* The three-stage pipeline of Win32SmpEd2/CHAPTR10/ThreeStage.c on the    *)
(* queue objects of module QueueObj: producers, the transmitter, which     *)
(* packs messages into blocks, the receiver, which unpacks them, and the   *)
(* consumers.  A message is its producer, which is also its destination,   *)
(* and its sequence number.                                                *)
(***************************************************************************)
EXTENDS QueueObj

CONSTANTS Pairs,        \* the numbers of the producer-consumer pairs
          Goals,        \* the command lines: the messages of each pair, 0 if npc leaves it out
          TBLOCK_SIZE,  \* the messages of a block
          Transmitter, Receiver   \* the two threads between them

ASSUME ThreeStageAssumption ==
  /\ IsFiniteSet(Pairs) /\ Goals \subseteq [Pairs -> Nat] /\ TBLOCK_SIZE \in Nat \ {0}
  /\ Threads = Pairs \X {"producer", "consumer"} \cup {Transmitter, Receiver}
  /\ Transmitter # Receiver
  /\ {Transmitter, Receiver} \cap (Pairs \X {"producer", "consumer"}) = {}
  /\ Queues = {"p2tq", "t2rq"} \cup Pairs
  /\ {"p2tq", "t2rq"} \cap Pairs = {}

VARIABLES
  goal,       \* the command line
  boss,       \* what main waits for
  work_done,  \* of each producer and consumer
  block,      \* the messages the transmitter packed
  unpacked,   \* the messages the receiver has still to send
  got         \* history: what each consumer received

appVars == <<goal, boss, work_done, block, unpacked, got>>
vars == <<build, q, call, appVars>>

Producer(p) == <<p, "producer">>
Consumer(p) == <<p, "consumer">>
Workers == Pairs \X {"producer", "consumer"}

Ended == [NoCall EXCEPT !.at = "ended"]

PutOrEnd(p, done) == IF done < goal[p] THEN Put("p2tq", <<p, done>>) ELSE Ended

GetOrEnd(p, done) == IF done < goal[p] THEN Get(p) ELSE Ended

FirstCall(t) ==
  CASE t = Transmitter -> Get("p2tq")
    [] t = Receiver -> Get("t2rq")
    [] OTHER -> IF t[2] = "producer" THEN PutOrEnd(t[1], 0) ELSE GetOrEnd(t[1], 0)

Init ==
  /\ goal \in Goals
  /\ QueueInit([t \in Threads |-> FirstCall(t)])
  /\ boss = "producers"
  /\ work_done = [t \in Workers |-> 0]
  /\ block = <<>> /\ unpacked = <<>>
  /\ got = [p \in Pairs |-> <<>>]

-----------------------------------------------------------------------------
(* The threads: a call returns and its caller goes on to the next one.     *)

(* producer()                                                              *)
Produce(p) ==
  LET t == Producer(p)
  IN  /\ Transfer(t, PutOrEnd(p, work_done[t] + 1))
      /\ work_done' = [work_done EXCEPT ![t] = @ + 1]
      /\ UNCHANGED <<build, goal, boss, block, unpacked, got>>

(* consumer()                                                              *)
Consume(p) ==
  LET t == Consumer(p)
  IN  /\ Transfer(t, GetOrEnd(p, work_done[t] + 1))
      /\ work_done' = [work_done EXCEPT ![t] = @ + 1]
      /\ got' = [got EXCEPT ![p] = Append(@, Oldest(p))]
      /\ UNCHANGED <<build, goal, boss, block, unpacked>>

(* transmitter(): packs the message it got, or sent a full block.          *)
Transmit ==
  LET packed == IF call[Transmitter].op = "get" THEN Append(block, Oldest("p2tq")) ELSE <<>>
  IN  /\ Transfer(Transmitter, IF Len(packed) = TBLOCK_SIZE THEN Put("t2rq", packed) ELSE Get("p2tq"))
      /\ block' = packed
      /\ UNCHANGED <<build, goal, boss, work_done, unpacked, got>>

(* What the receiver has to send once its call returned.                   *)
Unsent == IF call[Receiver].op = "get" THEN Oldest("t2rq") ELSE unpacked

SendNext(message) == IF message = <<>> THEN Get("t2rq") ELSE Put(message[1], message)

ReceiveReversed ==                  \* mutant: unpacks from the last message
  LET rest == Unsent
  IN  /\ Transfer(Receiver, SendNext(IF rest = <<>> THEN <<>> ELSE rest[Len(rest)]))
      /\ unpacked' = IF rest = <<>> THEN <<>> ELSE SubSeq(rest, 1, Len(rest) - 1)
      /\ UNCHANGED <<build, goal, boss, work_done, block, got>>

(* receiver(): the messages of a block go to their destinations in order.  *)
Receive ==
  LET rest == Unsent
  IN  /\ Transfer(Receiver, SendNext(IF rest = <<>> THEN <<>> ELSE Head(rest)))
      /\ unpacked' = IF rest = <<>> THEN <<>> ELSE Tail(rest)
      /\ UNCHANGED <<build, goal, boss, work_done, block, got>>

-----------------------------------------------------------------------------
(* main(): waits for the producers and for the consumers, terminates the   *)
(* two other threads wherever they are, and destroys the queues.           *)

AllEnded(role) == \A p \in Pairs : At(<<p, role>>, "ended")

BossWaits ==
  /\ \/ boss = "producers" /\ AllEnded("producer") /\ boss' = "consumers"
     \/ boss = "consumers" /\ AllEnded("consumer") /\ boss' = "terminate"
  /\ UNCHANGED <<build, goal, q, call, work_done, block, unpacked, got>>

BossTerminates ==
  /\ boss = "terminate" /\ boss' = "destroy"
  /\ \E inside \in SUBSET {Transmitter, Receiver} : KilledInside({Transmitter, Receiver}, inside)
  /\ UNCHANGED <<build, goal, work_done, block, unpacked, got>>

BossDestroys ==
  /\ boss = "destroy" /\ boss' = "done"
  /\ \A k \in Queues : CanDestroy(k)
  /\ UNCHANGED <<build, goal, q, call, work_done, block, unpacked, got>>

Boss == BossWaits \/ BossTerminates \/ BossDestroys

StaysInCall(t) == Pending(t) /\ UNCHANGED appVars

ThreadStep(t) ==
  \/ StaysInCall(t)
  \/ t = Transmitter /\ Transmit
  \/ t = Receiver /\ Receive
  \/ \E p \in Pairs : t = Producer(p) /\ Produce(p)
  \/ \E p \in Pairs : t = Consumer(p) /\ Consume(p)

Next == Boss \/ \E t \in Threads : ThreadStep(t)

(* The scheduler runs every thread that can run, and a guard that is free  *)
(* again and again is given to every thread that wants it.                 *)
Spec ==
  /\ Init /\ [][Next]_vars
  /\ WF_vars(Boss)
  /\ \A t \in Threads : WF_vars(ThreadStep(t))

-----------------------------------------------------------------------------
(* ThreeStage.c:7-14, "each message is tagged with the consumer that       *)
(* should receive it": across three queues, two copies and a block every   *)
(* consumer gets exactly the messages of its producer, once and in order.  *)
DeliveredInOrder ==
  \A p \in Pairs : got[p] = [i \in 1 .. Len(got[p]) |-> <<p, i - 1>>]

(* QueueObjSig.c:11-13, "the signal model does not have to worry about     *)
(* lost signals": whichever variant is linked, a thread does not sleep on  *)
(* an event while its condition holds and nobody is about to signal.       *)
Awake(k) == {t \in Threads : call[t].q = k /\ call[t].at \in {"enter", "outside"}}

NoLostSignal ==
  \A k \in Queues, t \in Threads :
    At(t, "wait") /\ call[t].q = k /\ ~Blocked(t) /\ ~build.polls
      => \/ q[k][WaitsFor(call[t].op)]
         \/ \E o \in Awake(k) : call[o].op = call[t].op

(* The program ends when the messages fill whole blocks, unless a thread   *)
(* that was terminated took a critical section with it.                    *)
ProgramEnds == <>(boss = "done" \/ (build.guard = "critical section" /\ boss = "destroy"))
=============================================================================
