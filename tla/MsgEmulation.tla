---------------------------- MODULE MsgEmulation ----------------------------
(***************************************************************************)
(* The emulation of the UNIX message queues in                             *)
(* Win32SmpEd2/msg_emulation/msg_emulation.c: one table of queues, one     *)
(* mutex and three condition variables for all of them, and the calls      *)
(* msgget, msgsnd, msgrcv, msgctl and em_set_all_ids of several threads.   *)
(*                                                                         *)
(* What a thread does between taking q_guard and waiting or giving it back *)
(* is one step.  A message is its type, its length and who sent it; the    *)
(* bits of msgflg and of a mode are pairs.  Error numbers and times are    *)
(* left out.                                                               *)
(***************************************************************************)
EXTENDS Integers, SequencesExt, FiniteSetsExt

CONSTANTS
  Threads,
  Programs,                \* the sequences of calls the threads make
  MSG_MAX_NUMBER_QUEUES, MQ_MAX_BYTES_IN_SYSTEM, MQ_MAX_BYTES_IN_QUEUE,
  MQ_MAX_MESSAGE_SIZE,
  LongSize,                \* sizeof (long), the type field of a message
  IPC_PRIVATE, NoKey,      \* the key of a private queue and of an empty slot
  NoThread

ASSUME MsgEmulationAssumption ==
  /\ NoThread \notin Threads
  /\ {MSG_MAX_NUMBER_QUEUES, MQ_MAX_BYTES_IN_QUEUE, LongSize} \subseteq Nat \ {0}
  /\ {MQ_MAX_BYTES_IN_SYSTEM, MQ_MAX_MESSAGE_SIZE} \subseteq Nat
  /\ IPC_PRIVATE # NoKey

(* Every thread has a sequence of calls; sizes are those of a size_t, the  *)
(* limit of a queue is unsigned.                                           *)
AllCalls == UNION {Range(p[t]) : p \in Programs, t \in Threads}

ASSUME ProgramsAssumption ==
  /\ Programs \subseteq [Threads -> Seq(AllCalls)]
  /\ \A c \in AllCalls :
       /\ c.op \in {"msgsnd", "msgrcv"} => c.type \in Int /\ c.msgsz \in Nat
       /\ c.op = "msgctl" => (c.cmd = "IPC_SET" => c.msg_qbytes \in Nat)

VARIABLES
  build,      \* "windows": the macros of thread_emulation.h; "pthreads"
  mq,         \* the table of the queues
  q_current, b_current,    \* its counters
  q_guard,    \* the thread that kept the mutex when its call returned
  script,     \* the calls each thread has still to make, the current one first
  id,         \* the identifier its last msgget returned
  ids,        \* its user, effective user and group
  waits,      \* the condition variable the current call waits for
  sent, got,  \* history: the messages put in and taken from each queue
  irregular,  \* history: what happened that the byte counts do not follow
  shared      \* history: the queues that two calls used at the same time

table == <<mq, q_current, b_current>>
history == <<sent, got, irregular>>
vars == <<build, table, q_guard, script, id, ids, waits, history, shared>>

Slots == 1 .. MSG_MAX_NUMBER_QUEUES

EmptySlot ==
  [key |-> NoKey, msg_busy |-> FALSE, cuid |-> 0, uid |-> 0, gid |-> 0, mode |-> {},
   msgs |-> <<>>, msg_cbytes |-> 0, msg_qnum |-> 0, msg_qbytes |-> 0]

(* InitializeMqTable() or once_init_routine(), and ThreadIdInit().         *)
Init ==
  /\ build \in {"windows", "pthreads"}
  /\ mq = [i \in Slots |-> EmptySlot] /\ q_current = 0 /\ b_current = 0
  /\ q_guard = NoThread
  /\ script \in Programs
  /\ id = [t \in Threads |-> 0]
  /\ ids = [t \in Threads |-> [uid |-> 0, euid |-> 0, gid |-> 0]]
  /\ waits = [t \in Threads |-> "nothing"]
  /\ sent = [i \in Slots |-> <<>>] /\ got = [i \in Slots |-> <<>>]
  /\ irregular = {} /\ shared = {}

-----------------------------------------------------------------------------
(* The helpers, all called with the mutex locked.                          *)

msgq_valid(i) == i \in Slots /\ mq[i].key # NoKey

(* op "r" or "w"                                                           *)
msgq_access(t, i, op) ==
  \/ ids[t].uid = mq[i].uid /\ <<"user", op>> \in mq[i].mode
  \/ ids[t].gid = mq[i].gid /\ <<"group", op>> \in mq[i].mode
  \/ <<"other", op>> \in mq[i].mode

(* Op 0: every bit of msgflg, IPC_CREAT included, must be in the mode.     *)
msgq_grants(i, msgflg) == msgflg \subseteq mq[i].mode

MayChange(t, i) == ids[t].euid \in {mq[i].cuid, mq[i].uid, 0}

not_full(queue, total, msgsz, hysteresis) ==
  LET h == Min({hysteresis, queue.msg_qbytes \div 4})
  IN  /\ msgsz + h + LongSize + total < MQ_MAX_BYTES_IN_SYSTEM
      /\ msgsz + h + LongSize + queue.msg_cbytes < queue.msg_qbytes

message_exists(i) == msgq_valid(i) /\ mq[i].msg_qnum > 0

(* The bytes a call adds to the counts: a message of no bytes, sent or     *)
(* received, adds the type field and is not counted.                       *)
Bytes(msgsz) == IF msgsz < 0 THEN msgsz - LongSize ELSE msgsz + LongSize

CountedOnce(queue, msgsz) ==        \* mutant: the type field is not given back
  [queue EXCEPT !.msg_cbytes = @ + msgsz + IF msgsz < 0 THEN 0 ELSE LongSize,
                !.msg_qnum = IF msgsz > 0 THEN @ + 1 ELSE IF msgsz < 0 THEN @ - 1 ELSE @]

update_status(queue, msgsz) ==
  [queue EXCEPT !.msg_cbytes = @ + Bytes(msgsz),
                !.msg_qnum = IF msgsz > 0 THEN @ + 1 ELSE IF msgsz < 0 THEN @ - 1 ELSE @]

PlaceMessageInQueue(queue, message) == [queue EXCEPT !.msgs = Append(@, message)]

(* The first message of the type, the first of all for type 0.             *)
Matching(i, msgtyp) ==
  {n \in DOMAIN mq[i].msgs : msgtyp = 0 \/ (msgtyp > 0 /\ mq[i].msgs[n].type = msgtyp)}

TakesNewest(i, msgtyp) == Max(Matching(i, msgtyp))   \* mutant: scans from the other end

Takes(i, msgtyp) == Min(Matching(i, msgtyp))

GetMessageFromQueue(queue, n) == [queue EXCEPT !.msgs = RemoveAt(@, n)]

msgq_lookup(key) == {i \in Slots : mq[i].key = key}

msgq_add(t, key, msgflg) ==
  [EmptySlot EXCEPT !.key = key, !.cuid = ids[t].uid, !.uid = ids[t].uid, !.gid = ids[t].gid,
     !.mode = msgflg \ {<<"IPC", "CREAT">>, <<"IPC", "EXCL">>}, !.msg_qbytes = MQ_MAX_BYTES_IN_QUEUE]

-----------------------------------------------------------------------------
(* The calls: how they begin, wait and return.                             *)

Call(t) == Head(script[t])

(* A Windows mutex can be taken again by its owner and is abandoned when   *)
(* the owner ends.                                                         *)
CanLock(t) ==
  IF q_guard = NoThread THEN TRUE
  ELSE build = "windows" /\ (q_guard = t \/ script[q_guard] = <<>>)

Calls(t, op) ==
  /\ script[t] # <<>> /\ Call(t).op = op
  /\ waits[t] \in {"nothing", "q_guard"} /\ CanLock(t)

Begins(t) == waits[t] = "nothing"

Unlocked(t) == q_guard' = IF q_guard = t THEN t ELSE NoThread

(* pthread_cond_broadcast() of the variables cvs.                          *)
Broadcast(cvs) == [o \in Threads |-> IF waits[o] \in cvs THEN "q_guard" ELSE waits[o]]

Returns(t, cvs) ==
  /\ script' = [script EXCEPT ![t] = Tail(@)]
  /\ waits' = [Broadcast(cvs) EXCEPT ![t] = "nothing"]
  /\ Unlocked(t)

WaitsOn(t, cv) ==
  /\ waits' = [waits EXCEPT ![t] = cv]
  /\ Unlocked(t)
  /\ UNCHANGED script

(* CV_TIMEOUT of the Windows macro.                                        *)
Timeout(t) ==
  /\ build = "windows" /\ waits[t] \notin {"nothing", "q_guard"}
  /\ waits' = [waits EXCEPT ![t] = "q_guard"]
  /\ UNCHANGED <<build, table, q_guard, script, id, ids, history, shared>>

SetIds(t) ==
  /\ script[t] # <<>> /\ Call(t).op = "em_set_all_ids"
  /\ ids' = [ids EXCEPT ![t] = Call(t).ids]
  /\ script' = [script EXCEPT ![t] = Tail(@)]
  /\ UNCHANGED <<build, table, q_guard, id, waits, history, shared>>

-----------------------------------------------------------------------------
(* msgget(): whatever msgflg says a missing queue is created, because the  *)
(* test of IPC_CREAT binds as msgflg & (IPC_CREAT == 0).                   *)
FreeSlots == {i \in Slots : mq[i].key = NoKey}

Created(t, i) ==
  /\ mq' = [mq EXCEPT ![i] = msgq_add(t, Call(t).key, Call(t).msgflg)]
  /\ q_current' = q_current + 1
  /\ id' = [id EXCEPT ![t] = i]
  /\ sent' = [sent EXCEPT ![i] = <<>>] /\ got' = [got EXCEPT ![i] = <<>>]
  /\ UNCHANGED <<b_current, irregular>>

Found(t, i) ==
  LET refused == {<<"IPC", "CREAT">>, <<"IPC", "EXCL">>} \subseteq Call(t).msgflg
                 \/ ~msgq_grants(i, Call(t).msgflg)
  IN  /\ id' = [id EXCEPT ![t] = IF refused THEN -1 ELSE i]
      /\ UNCHANGED <<table, history>>

msgget(t, op) ==
  LET found == IF Call(t).key = IPC_PRIVATE THEN {} ELSE msgq_lookup(Call(t).key)
  IN  /\ Calls(t, op)
      /\ IF found # {} THEN Found(t, Min(found))
         ELSE IF q_current <= MSG_MAX_NUMBER_QUEUES /\ FreeSlots # {}
         THEN Created(t, Min(FreeSlots))
         ELSE id' = [id EXCEPT ![t] = -1] /\ UNCHANGED <<table, history>>
      /\ Returns(t, {})
      /\ UNCHANGED <<build, ids, shared>>

-----------------------------------------------------------------------------
(* msgsnd()                                                                *)

SendRefused(t, i) ==
  \/ ~msgq_valid(i) \/ Call(t).type < 1 \/ Call(t).msgsz > MQ_MAX_MESSAGE_SIZE
  \/ ~msgq_access(t, i, "w")
  \/ ~not_full(mq[i], b_current, Call(t).msgsz, 0) /\ Call(t).nowait

Message(t) == [type |-> Call(t).type, mlength |-> Call(t).msgsz, from |-> t, left |-> Len(script[t])]

SentTo(t, i, cvs) ==
  /\ mq' = [mq EXCEPT ![i] =
       [update_status(PlaceMessageInQueue(@, Message(t)), Call(t).msgsz) EXCEPT !.msg_busy = FALSE]]
  /\ b_current' = b_current + Bytes(Call(t).msgsz)
  /\ sent' = [sent EXCEPT ![i] = Append(@, Message(t))]
  /\ irregular' = irregular \cup IF Call(t).msgsz = 0 THEN {"empty"} ELSE {}
  /\ Returns(t, cvs)
  /\ UNCHANGED <<q_current, got>>

SentQuietly(t, i) == SentTo(t, i, {"e_q_not_busy"})     \* mutant: receivers are not woken

Sent(t, i) == SentTo(t, i, {"e_qne", "e_q_not_busy"})

(* msg_busy is a flag: it is cleared for every other user of the queue.    *)
NotBusy(i) == mq' = [mq EXCEPT ![i].msg_busy = FALSE]

Uses(t, i) == shared' = IF Begins(t) /\ mq[i].msg_busy THEN shared \cup {i} ELSE shared

msgsnd(t) ==
  LET i == id[t]
  IN  /\ Calls(t, "msgsnd")
      /\ IF Begins(t) /\ SendRefused(t, i)
         THEN /\ NotBusy(i) /\ Returns(t, {"e_q_not_busy"})
              /\ UNCHANGED <<q_current, b_current, history>>
         ELSE IF not_full(mq[i], b_current, Call(t).msgsz, 0) THEN Sent(t, i)
         ELSE /\ mq' = [mq EXCEPT ![i].msg_busy = IF Begins(t) THEN TRUE ELSE @]
              /\ WaitsOn(t, "e_qnf")
              /\ UNCHANGED <<q_current, b_current, history>>
      /\ Uses(t, i)
      /\ UNCHANGED <<build, id, ids>>

-----------------------------------------------------------------------------
(* msgrcv()                                                                *)

ReceiveRefused(t, i) ==
  \/ ~msgq_valid(i) \/ Call(t).msgsz > MQ_MAX_MESSAGE_SIZE
  \/ ~msgq_access(t, i, "r")
  \/ ~message_exists(i) /\ Call(t).nowait

ReceivedQuietly(t, i, queue, n) ==  \* mutant: senders are not woken
  /\ mq' = [mq EXCEPT ![i] = [update_status(queue, -n) EXCEPT !.msg_busy = FALSE]]
  /\ b_current' = b_current + Bytes(-n)
  /\ Returns(t, {"e_q_not_busy"})

(* The end of the call with `queue` as its queue and n bytes transferred:  *)
(* senders are woken when a quarter of the queue, or the longest message,  *)
(* would fit.                                                              *)
Received(t, i, queue, n) ==
  LET counted == update_status(queue, -n)
      total == b_current + Bytes(-n)
      room == not_full(counted, total, 0, MQ_MAX_MESSAGE_SIZE)
  IN  /\ mq' = [mq EXCEPT ![i] = [counted EXCEPT !.msg_busy = FALSE]]
      /\ b_current' = total
      /\ Returns(t, {"e_q_not_busy"} \cup IF room THEN {"e_qnf"} ELSE {})

ReceiveMessage(t, i, n) ==
  LET message == mq[i].msgs[n]
      bytes == Min({message.mlength, Call(t).msgsz})
      taken == GetMessageFromQueue(mq[i], n)
  IN  /\ got' = [got EXCEPT ![i] = Append(@, message)]
      /\ irregular' = irregular \cup
           (IF bytes < message.mlength THEN {"truncated"} ELSE {}) \cup
           (IF bytes = 0 THEN {"empty"} ELSE {})
      /\ IF bytes > 0 \/ Call(t).nowait THEN Received(t, i, taken, bytes)
         ELSE /\ mq' = [mq EXCEPT ![i] = [taken EXCEPT !.msg_busy = IF Begins(t) THEN TRUE ELSE @]]
              /\ WaitsOn(t, "e_qne") /\ UNCHANGED b_current

NoMessage(t, i) ==
  /\ IF Call(t).nowait
     THEN Received(t, i, mq[i], 0) /\ irregular' = irregular \cup {"missed"}
     ELSE /\ mq' = [mq EXCEPT ![i].msg_busy = IF Begins(t) THEN TRUE ELSE @]
          /\ WaitsOn(t, "e_qne") /\ UNCHANGED <<b_current, irregular>>
  /\ UNCHANGED got

msgrcv(t) ==
  LET i == id[t]
      matching == message_exists(i) /\ Matching(i, Call(t).type) # {}
  IN  /\ Calls(t, "msgrcv")
      /\ IF Begins(t) /\ ReceiveRefused(t, i)
         THEN /\ NotBusy(i) /\ Returns(t, {"e_q_not_busy"})
              /\ UNCHANGED <<b_current, got, irregular>>
         ELSE IF matching THEN ReceiveMessage(t, i, Takes(i, Call(t).type))
         ELSE NoMessage(t, i)
      /\ Uses(t, i)
      /\ UNCHANGED <<build, q_current, id, ids, sent>>

-----------------------------------------------------------------------------
(* msgctl(): on an identifier that is not valid it returns with the mutex. *)

CtlInvalid(t) ==
  /\ q_guard' = t
  /\ script' = [script EXCEPT ![t] = Tail(@)]
  /\ waits' = [waits EXCEPT ![t] = "nothing"]
  /\ UNCHANGED <<table, history>>

(* IPC_SET: the limit of the queue is raised by user 0 only.               *)
SetQueue(t, i) ==
  LET limit == IF Call(t).msg_qbytes > mq[i].msg_qbytes /\ ids[t].uid # 0 THEN mq[i].msg_qbytes
               ELSE Call(t).msg_qbytes
  IN  /\ mq' = IF ~MayChange(t, i) THEN mq
               ELSE [mq EXCEPT ![i] = [@ EXCEPT !.uid = Call(t).uid, !.cuid = Call(t).cuid, !.gid = Call(t).gid,
                                                !.mode = Call(t).mode, !.msg_qbytes = limit]]
      /\ Returns(t, {})
      /\ UNCHANGED <<q_current, b_current, history>>

Removed(t, i) ==
  /\ mq' = [mq EXCEPT ![i] = EmptySlot]
  /\ irregular' = irregular \cup IF mq[i].msg_cbytes # 0 THEN {"removed"} ELSE {}
  /\ Returns(t, {}) /\ UNCHANGED <<q_current, b_current, sent, got>>

RemoveAtOnce(t, i) ==               \* mutant: does not wait for the busy flag
  IF MayChange(t, i) THEN Removed(t, i) ELSE Returns(t, {}) /\ UNCHANGED <<table, history>>

(* IPC_RMID: msgq_remove() clears the slot and leaves q_current and        *)
(* b_current as they are.                                                  *)
RemoveQueue(t, i) ==
  IF Begins(t) /\ ~MayChange(t, i) THEN Returns(t, {}) /\ UNCHANGED <<table, history>>
  ELSE IF mq[i].msg_busy THEN WaitsOn(t, "e_q_not_busy") /\ UNCHANGED <<table, history>>
  ELSE Removed(t, i)

msgctl(t) ==
  LET i == id[t]
  IN  /\ Calls(t, "msgctl")
      /\ IF Begins(t) /\ ~msgq_valid(i) THEN CtlInvalid(t)
         ELSE IF Call(t).cmd = "IPC_SET" THEN SetQueue(t, i)
         ELSE IF Call(t).cmd = "IPC_RMID" THEN RemoveQueue(t, i)
         ELSE Returns(t, {}) /\ UNCHANGED <<table, history>>
      /\ UNCHANGED <<build, id, ids, shared>>

-----------------------------------------------------------------------------
(* A thread whose msgget failed gives up, or makes the call it has for     *)
(* that case only.                                                         *)
HasAnother(t) == script[t] # <<>> /\ Call(t).op = "msgget_again"

Aborts(t) ==
  /\ script[t] # <<>> /\ ~HasAnother(t)
  /\ script' = [script EXCEPT ![t] = <<>>]
  /\ UNCHANGED <<build, table, q_guard, id, ids, waits, history, shared>>

(* pthread_create() and pthread_join(): what a thread does begins when     *)
(* another has come so far.                                                *)
Awaits(t) ==
  /\ script[t] # <<>> /\ Call(t).op = "pthread_join"
  /\ Len(script[Call(t).thread]) <= Call(t).left
  /\ script' = [script EXCEPT ![t] = Tail(@)]
  /\ UNCHANGED <<build, table, q_guard, id, ids, waits, history, shared>>

NeedsNoOther(t) ==
  /\ HasAnother(t)
  /\ script' = [script EXCEPT ![t] = Tail(@)]
  /\ UNCHANGED <<build, table, q_guard, id, ids, waits, history, shared>>

Step(t) ==
  IF id[t] = -1 THEN Aborts(t) \/ msgget(t, "msgget_again")
  ELSE \/ SetIds(t) \/ msgget(t, "msgget") \/ msgsnd(t) \/ msgrcv(t) \/ msgctl(t)
       \/ NeedsNoOther(t) \/ Awaits(t) \/ Timeout(t)

Next == \E t \in Threads : Step(t)

(* Every thread that can go on does, and the mutex is given to each thread *)
(* that waits for it.                                                      *)
Spec == Init /\ [][Next]_vars /\ \A t \in Threads : WF_vars(Step(t))

-----------------------------------------------------------------------------
(* The messages of one type, in their order.                               *)
OfType(messages, type) ==
  LET upTo[n \in 0 .. Len(messages)] ==
        IF n = 0 THEN <<>>
        ELSE IF messages[n].type = type THEN Append(upTo[n - 1], messages[n])
        ELSE upTo[n - 1]
  IN  upTo[Len(messages)]

(* The sum of the first n numbers.                                         *)
Total(numbers, n) ==
  LET upTo[k \in 0 .. n] == IF k = 0 THEN 0 ELSE upTo[k - 1] + numbers[k]
  IN  upTo[n]

BytesOf(messages) ==
  Total([n \in DOMAIN messages |-> messages[n].mlength + LongSize], Len(messages))

(* The list of a queue, msg_emulation.c:161-266: what was taken from it    *)
(* and what is in it are, type by type, what was sent to it in the same    *)
(* order, whatever was received by type, cut short or waited for.          *)
NothingLostOrReordered ==
  \A i \in Slots : msgq_valid(i) =>
    \A type \in {m.type : m \in Range(sent[i])} :
      OfType(got[i], type) \o OfType(mq[i].msgs, type) = OfType(sent[i], type)

(* msg_emulation.c:138 and 144-156, the counts that decide who may send    *)
(* and receive: they are the messages and bytes that are there as long as  *)
(* no message was empty, cut short, asked for in vain or removed with its  *)
(* queue.                                                                  *)
CountsAgree ==
  irregular = {} =>
    /\ \A i \in Slots : /\ mq[i].msg_qnum = Len(mq[i].msgs)
                        /\ mq[i].msg_cbytes = BytesOf(mq[i].msgs)
    /\ b_current = Total([i \in Slots |-> mq[i].msg_cbytes], MSG_MAX_NUMBER_QUEUES)

(* msg_emulation.c:864-869: a queue is not removed while a call waits on   *)
(* it.  The flag msg_busy says so of a queue that two calls never used at  *)
(* once; the first of two that leaves takes it away from the other.        *)
WaitingOn(i) ==
  {t \in Threads : waits[t] # "nothing" /\ id[t] = i /\ Call(t).op \in {"msgsnd", "msgrcv"}}

NotRemovedUnshared == \A i \in Slots \ shared : WaitingOn(i) # {} => msgq_valid(i)

(* Producers and consumers as those of msg_emulation_test.c: they open one *)
(* queue, a receiver takes messages of one type, as many as are sent, and  *)
(* every message fits.                                                     *)
CallsMade == UNION {{<<t, n>> : n \in DOMAIN script[t]} : t \in Threads}

Made(c) == script[c[1]][c[2]]

MadeOf(op, type) == {c \in CallsMade : Made(c).op = op /\ Made(c).type = type}

Paired ==
  /\ \A c, d \in CallsMade : c[2] = 1 /\ d[2] = 1 => Made(c) = Made(d) /\ Made(c).op = "msgget"
  /\ \A c \in CallsMade :
       c[2] > 1 => /\ Made(c).op \in {"msgsnd", "msgrcv"} /\ ~Made(c).nowait
                   /\ Made(c).type > 0 /\ Made(c).msgsz > 0
                   /\ \A d \in CallsMade :
                        d[2] > 1 /\ d[1] = c[1] /\ Made(c).op = "msgrcv" =>
                          Made(d).op = "msgrcv" /\ Made(d).type = Made(c).type
                   /\ Cardinality(MadeOf("msgsnd", Made(c).type))
                        = Cardinality(MadeOf("msgrcv", Made(c).type))

AllEnd == <>(\A t \in Threads : script[t] = <<>>)

(* Every call of such programs returns: no broadcast is missed, and the    *)
(* hysteresis of e_qnf keeps nobody waiting for ever.                      *)
ScriptsEnd == Paired => AllEnd
=============================================================================
