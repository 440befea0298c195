-------------------------- MODULE TestMsgEmulation --------------------------
(***************************************************************************)
(* A process of Win32SmpEd2/msg_emulation/msg_emulation_test.c: main() and *)
(* its producer, its consumer or both, as sequences of calls.              *)
(*                                                                         *)
(* mq_table is a static variable (msg_emulation.c:85; "open issues:        *)
(* process sharing", line 22): every process has a table of its own, so    *)
(* the threads here are those of one process.  A second process has no     *)
(* part in its queue, whatever msg_emulation_test.c:8-15 plans with it.    *)
(***************************************************************************)
EXTENDS MsgEmulation

CONSTANTS
  MSGQ_KEY,
  Goals,       \* the numbers of messages the user may ask for
  QueueBytes,  \* the limit that main() gives the queue
  MessageSize

ASSUME TestAssumption == Goals \subseteq Nat /\ QueueBytes \in Nat /\ MessageSize \in Nat

UserRW == {<<"user", "r">>, <<"user", "w">>}

Get(key, flags) == [op |-> "msgget", key |-> key, msgflg |-> flags]

Open == Get(MSGQ_KEY, {})

(* "It may already have been created, simply open it."                     *)
CreateOrOpen ==
  <<Get(MSGQ_KEY, UserRW \cup {<<"IPC", "CREAT">>, <<"IPC", "EXCL">>}),
    [Open EXCEPT !.op = "msgget_again"]>>

Ctl(cmd) == [op |-> "msgctl", cmd |-> cmd]

CtlSet(bytes, user, rights) ==
  [op |-> "msgctl", cmd |-> "IPC_SET", msg_qbytes |-> bytes, mode |-> rights,
   uid |-> user, cuid |-> user, gid |-> user]

SetSize == <<Ctl("IPC_STAT"), CtlSet(QueueBytes, 0, UserRW), Ctl("IPC_STAT")>>

Repeated(n, c) == [i \in 1 .. n |-> c]

Transfer(call, type, size) == [op |-> call, type |-> type, msgsz |-> size, nowait |-> FALSE]

producer(goal) == <<Open>> \o Repeated(goal, Transfer("msgsnd", 1, MessageSize))

consumer(goal) == <<Open>> \o Repeated(goal, Transfer("msgrcv", 1, MessageSize))

(* main() waits for its threads; "the consumer can remove the message      *)
(* queue", when the process has no producer.                               *)
Ending(producers, consumers) ==
  [i \in DOMAIN (producers \o consumers) |->
     [op |-> "pthread_join", thread |-> (producers \o consumers)[i], left |-> 0]]
    \o IF producers = <<>> THEN <<Open, Open, Ctl("IPC_RMID")>> ELSE <<>>

(* The threads begin when main() has set up the queue.                     *)
Process(main, producers, consumers, goal) ==
  LET end == Ending(producers, consumers)
      begin == <<[op |-> "pthread_join", thread |-> main, left |-> Len(end)]>>
  IN  [t \in Threads |->
         IF t = main THEN CreateOrOpen \o SetSize \o end
         ELSE IF t \in Range(producers) THEN begin \o producer(goal)
         ELSE IF t \in Range(consumers) THEN begin \o consumer(goal)
         ELSE <<>>]

Main == CHOOSE t \in Threads : TRUE

Workers == Threads \ {Main}

(* argv: one or no producer and consumer, and not "both np and nc be 0".   *)
MatchedPrograms ==
  {Process(Main, <<p[1]>>, <<p[2]>>, goal) :
     p \in {q \in Workers \X Workers : q[1] # q[2]}, goal \in Goals}

TestPrograms ==
  {Process(Main, <<p>>, <<>>, goal) : p \in Workers, goal \in Goals} \cup
  {Process(Main, <<>>, <<c>>, goal) : c \in Workers, goal \in Goals} \cup
  MatchedPrograms

-----------------------------------------------------------------------------
(* msg_emulation_test.c:6-17: a process with a producer and a consumer of  *)
(* the same goal ends, and leaves its queue empty: the limit that main()   *)
(* gave the queue lets every message pass.                                 *)
TestEnds ==
  script \in MatchedPrograms =>
    <>(/\ \A t \in Threads : script[t] = <<>>
       /\ \A i \in Slots : mq[i].key = MSGQ_KEY => mq[i].msgs = <<>>)
=============================================================================
