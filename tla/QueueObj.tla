------------------------------ MODULE QueueObj ------------------------------
(***************************************************************************)
(* The synchronised queue object of Win32SmpEd2/CHAPTR10: q_get() and      *)
(* q_put() of QueueObj.c and of its five variants, which differ in the     *)
(* lock and in how they wait and signal.  Every call of the programs waits *)
(* without limit (MaxWait = INFINITE), so no call times out.               *)
(*                                                                         *)
(* What a thread does inside the guard nobody else can see before it       *)
(* leaves the guard: it is one step.  A thread that found nothing to do    *)
(* leaves the guard and then waits, two steps between which a signal may   *)
(* come, unless SignalObjectAndWait() does both.                           *)
(***************************************************************************)
EXTENDS Integers, Sequences, FiniteSets

CONSTANTS Threads,   \* the threads that call the queues
          Queues,    \* the queues
          QSize,     \* q_size of each queue
          NoThread,  \* the owner of a free guard
          NoMsg      \* the content of a slot or of a call without message

ASSUME QueueObjAssumption ==
  /\ NoThread \notin Threads
  /\ QSize \in [Queues -> Nat \ {0, 1}]

VARIABLES
  build,  \* the variant the program is linked with
  q,      \* the fields of each queue; ne and nf: the event is set
  call    \* the call each thread is in

(* The variants of the calls: whether leaving the guard and waiting is one *)
(* call, whether the wait polls, and which event call announces a change.  *)
Mutex_Pulse == [soaw |-> FALSE, polls |-> TRUE,  announce |-> "PulseEvent"]
CS_Pulse    == [soaw |-> FALSE, polls |-> TRUE,  announce |-> "PulseEvent"]
SOAW_Pulse  == [soaw |-> TRUE,  polls |-> FALSE, announce |-> "PulseEvent"]
Mutex_Set   == [soaw |-> FALSE, polls |-> FALSE, announce |-> "SetEvent"]
CS_Set      == [soaw |-> FALSE, polls |-> FALSE, announce |-> "SetEvent"]
SOAW_Set    == [soaw |-> TRUE,  polls |-> FALSE, announce |-> "SetEvent"]

(* What q_initialize() creates for them and q_destroy() frees: the guard   *)
(* and the reset mode of the events.                                       *)
Mutex_Pulse_objects == [guard |-> "mutex", events |-> "manual reset"]
CS_Pulse_objects    == [guard |-> "critical section", events |-> "manual reset"]
SOAW_Pulse_objects  == [guard |-> "mutex", events |-> "manual reset"]
Mutex_Set_objects   == [guard |-> "mutex", events |-> "auto-reset"]
CS_Set_objects      == [guard |-> "critical section", events |-> "auto-reset"]
SOAW_Set_objects    == [guard |-> "mutex", events |-> "auto-reset"]

Linked(calls, objects) ==
  [soaw |-> calls.soaw, polls |-> calls.polls, announce |-> calls.announce,
   guard |-> objects.guard, events |-> objects.events]

Builds ==
  {Linked(Mutex_Pulse, Mutex_Pulse_objects), Linked(CS_Pulse, CS_Pulse_objects),
   Linked(SOAW_Pulse, SOAW_Pulse_objects), Linked(Mutex_Set, Mutex_Set_objects),
   Linked(CS_Set, CS_Set_objects), Linked(SOAW_Set, SOAW_Set_objects)}

AutoReset == build.events = "auto-reset"

-----------------------------------------------------------------------------
(* The array.                                                              *)

q_initialize(k) ==
  [first |-> 0, last |-> 0, array |-> [i \in 0 .. QSize[k] - 1 |-> NoMsg],
   guard |-> NoThread, ne |-> FALSE, nf |-> FALSE]

q_empty(k) == q[k].first = q[k].last

(* One slot is left free by intention; as it is written the test is true   *)
(* of a queue that holds one message.                                      *)
q_full(k) ==
  \/ q[k].last - q[k].first = 1
  \/ q[k].first = QSize[k] - 1 /\ q[k].last = 0

q_remove(k) == [q[k] EXCEPT !.first = (@ + 1) % QSize[k]]

q_insert(k, msg) ==
  IF q_full(k) THEN q[k]
  ELSE [q[k] EXCEPT !.array[q[k].last] = msg, !.last = (@ + 1) % QSize[k]]

-----------------------------------------------------------------------------
(* The calls.                                                              *)

NoCall == [op |-> "none", q |-> NoMsg, at |-> "idle", msg |-> NoMsg]

Get(k) == [op |-> "get", q |-> k, at |-> "enter", msg |-> NoMsg]

Put(k, m) == [op |-> "put", q |-> k, at |-> "enter", msg |-> m]

At(t, place) == call[t].at = place

(* The two events of a queue: the one a call waits for and the one it sets.*)
WaitsFor(op) == IF op = "get" THEN "ne" ELSE "nf"

Announces(op) == IF op = "get" THEN "nf" ELSE "ne"

Waiting(k, event) ==
  {t \in Threads : At(t, "wait") /\ call[t].q = k /\ WaitsFor(call[t].op) = event}

Woken(ts) == [t \in Threads |-> IF t \in ts THEN [call[t] EXCEPT !.at = "enter"] ELSE call[t]]

(* The calls the threads make first.                                       *)
QueueInit(first) ==
  /\ build \in Builds
  /\ q = [k \in Queues |-> q_initialize(k)]
  /\ call = first

Blocked(t) == IF call[t].op = "get" THEN q_empty(call[t].q) ELSE q_full(call[t].q)

CanEnter(t) == At(t, "enter") /\ q[call[t].q].guard = NoThread

(* WaitForSingleObject() on an event: one that is set lets a thread pass,  *)
(* and is reset then if it is an auto-reset event.                         *)
WaitOnEvent(t) ==
  LET event == WaitsFor(call[t].op)
      k == call[t].q
  IN  /\ q' = [q EXCEPT ![k][event] = @ /\ ~AutoReset]
      /\ call' = [call EXCEPT ![t].at = IF q[k][event] THEN "enter" ELSE "wait"]

(* Nothing to do: the guard is left, by SignalObjectAndWait() into the wait.*)
Leave(t) ==
  /\ CanEnter(t) /\ Blocked(t)
  /\ IF build.soaw THEN WaitOnEvent(t)
     ELSE call' = [call EXCEPT ![t].at = "outside"] /\ UNCHANGED q

StartWait(t) == At(t, "outside") /\ WaitOnEvent(t)

(* CV_TIMEOUT: the wait ends without a signal and the test is repeated.    *)
Poll(t) ==
  /\ build.polls /\ At(t, "wait")
  /\ call' = [call EXCEPT ![t].at = "enter"]
  /\ UNCHANGED q

Moved(t) ==
  IF call[t].op = "get" THEN q_remove(call[t].q) ELSE q_insert(call[t].q, call[t].msg)

Oldest(k) == q[k].array[q[k].first]

TransferSilently(t, next) ==        \* mutant: the other side is not signalled
  /\ CanEnter(t) /\ ~Blocked(t)
  /\ q' = [q EXCEPT ![call[t].q] = Moved(t)]
  /\ call' = [call EXCEPT ![t] = next]

TransferPulses(t, next) ==          \* mutant: PulseEvent() for threads that wait without limit
  /\ CanEnter(t) /\ ~Blocked(t)
  /\ q' = [q EXCEPT ![call[t].q] = Moved(t)]
  /\ call' = [Woken(Waiting(call[t].q, Announces(call[t].op))) EXCEPT ![t] = next]

(* The message moves, the event is signalled, the guard is left and the    *)
(* call returns: `next` is the call its thread makes then.  The event      *)
(* releases every thread that waits, or one if it is an auto-reset event;  *)
(* after SetEvent() it stays set unless it was reset by the one released.  *)
Transfer(t, next) ==
  /\ CanEnter(t) /\ ~Blocked(t)
  /\ LET k == call[t].q
         event == Announces(call[t].op)
         sleepers == Waiting(k, event)
         released == IF AutoReset /\ sleepers # {} THEN {{w} : w \in sleepers} ELSE {sleepers}
         stays == build.announce = "SetEvent" /\ (sleepers = {} \/ ~AutoReset)
     IN  /\ q' = [q EXCEPT ![k] = [Moved(t) EXCEPT ![event] = stays]]
         /\ \E woken \in released : call' = [Woken(woken) EXCEPT ![t] = next]

(* The steps of a call that does not return yet.                           *)
Pending(t) ==
  /\ Leave(t) \/ StartWait(t) \/ Poll(t)
  /\ UNCHANGED build

(* TerminateThread() of the threads ts, of which those in `inside` are     *)
(* inside a guard, which they keep.                                        *)
KilledInside(ts, inside) ==
  /\ \A t \in inside : CanEnter(t)
  /\ \A t, o \in inside : call[t].q = call[o].q => t = o
  /\ call' = [t \in Threads |-> IF t \in ts THEN [NoCall EXCEPT !.at = "killed"] ELSE call[t]]
  /\ q' = [k \in Queues |->
             IF \E t \in inside : call[t].q = k
             THEN [q[k] EXCEPT !.guard = CHOOSE t \in inside : call[t].q = k] ELSE q[k]]

(* q_destroy() enters the guard: the mutex of a dead thread is abandoned   *)
(* to the next one, a critical section is not.                             *)
CanDestroy(k) == q[k].guard = NoThread \/ build.guard = "mutex"
=============================================================================
