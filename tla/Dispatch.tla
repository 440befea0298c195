------------------------------ MODULE Dispatch ------------------------------
(***************************************************************************)
(* How sources/server.c hands an accepted connection to a thread of the    *)
(* pool.  The main thread accepts, queues the connection inside the        *)
(* critical section connections_cs and increments the semaphore; a worker  *)
(* waits on the semaphore, dequeues inside the same critical section and   *)
(* serves the connection (thread_exec).                                    *)
(*                                                                         *)
(* One action is what a thread does between two calls that other threads   *)
(* can observe.  struct Connection is represented by the descriptor it     *)
(* carries; a descriptor that was closed can be returned by a later        *)
(* accept().  The dialogue with the client (authentication, command,       *)
(* results, log) is one step here, Serve.                                  *)
(*                                                                         *)
(* sem_wait() interrupted by a signal makes the worker repeat the call     *)
(* (lines 209-212): a step that changes nothing.                           *)
(***************************************************************************)
EXTENDS QueueOps, FiniteSets

CONSTANTS Workers,    \* the threads that create_thread_pool() started
          Conns,      \* descriptors that accept() can return
          Capacity,   \* the n_threads given to createQueue()
          SemMax,     \* the largest value of the semaphore
          Faults,     \* the calls that may fail, by name
          Main,       \* the main thread
          NoThread    \* the owner of a free critical section

FallibleCalls == {"new_connection", "enter_cs", "leave_cs", "send"}

ASSUME DispatchAssumption ==
  /\ IsFiniteSet(Workers)
  /\ Main \notin Workers /\ NoThread \notin Workers /\ Main # NoThread
  /\ Null \notin Conns /\ Garbage \notin Conns /\ Null # Garbage
  /\ Capacity \in Nat \ {0}
  /\ SemMax \in Nat
  /\ Faults \subseteq FallibleCalls

VARIABLES
  mpc,     \* the next call of the main thread
  mco,     \* the connection of its current iteration
  wpc,     \* the next call of each worker
  wco,     \* the connection each worker took from the queue
  queue,   \* connections
  sem,     \* the value of the semaphore
  cs,      \* the thread inside connections_cs
  fd       \* whether each descriptor is open in the server

vars == <<mpc, mco, wpc, wco, queue, sem, cs, fd>>

MainCalls ==
  {"accept", "new_connection", "enter_cs", "enqueue", "sleep", "leave_cs",
   "increment"}

WorkerCalls ==
  {"wait", "enter_cs", "dequeue", "leave_cs", "serve", "exited"}

MayFail(call) == call \in Faults

Init ==
  /\ mpc = "accept" /\ mco = Null
  /\ wpc = [w \in Workers |-> "wait"]
  /\ wco = [w \in Workers |-> Null]
  /\ queue = CreateQueue(Capacity)
  /\ sem = 0
  /\ cs = NoThread
  /\ fd = [c \in Conns |-> "closed"]

-----------------------------------------------------------------------------
(* The calls of sources/synchronization.h that succeed.                    *)

Lock(t) == cs = NoThread /\ cs' = t

Unlock == cs' = NoThread

SemWait == sem > 0 /\ sem' = sem - 1

SemHasRoom == sem < SemMax

SemPost == sem' = sem + 1

-----------------------------------------------------------------------------
(* The main thread: the accept loop of main().                             *)

(* send_error(), close() and continue: the error path of the loop.         *)
RejectConnection ==
  /\ fd' = [fd EXCEPT ![mco] = "closed"]
  /\ mco' = Null
  /\ mpc' = "accept"

MainAccept ==
  /\ mpc = "accept"
  /\ \E c \in Conns :
       /\ fd[c] = "closed"
       /\ fd' = [fd EXCEPT ![c] = "open"]
       /\ mco' = c
  /\ mpc' = "new_connection"
  /\ UNCHANGED <<wpc, wco, queue, sem, cs>>

MainNewConnection ==
  /\ mpc = "new_connection"
  /\ \/ mpc' = "enter_cs" /\ UNCHANGED <<mco, fd>>
     \/ MayFail("new_connection") /\ RejectConnection
  /\ UNCHANGED <<wpc, wco, queue, sem, cs>>

MainEnterCs ==
  /\ mpc = "enter_cs"
  /\ \/ Lock(Main) /\ mpc' = "enqueue" /\ UNCHANGED <<mco, fd>>
     \/ MayFail("enter_cs") /\ RejectConnection /\ UNCHANGED cs
  /\ UNCHANGED <<wpc, wco, queue, sem>>

MainEnqueue ==
  /\ mpc = "enqueue"
  /\ queue' = Enqueue(queue, mco)
  /\ mpc' = IF EnqueueResult(queue) = -1 THEN "sleep" ELSE "leave_cs"
  /\ UNCHANGED <<mco, wpc, wco, sem, cs, fd>>

MainSleep ==
  /\ mpc = "sleep"
  /\ mpc' = "enqueue"
  /\ UNCHANGED <<mco, wpc, wco, queue, sem, cs, fd>>

MainLeaveCsNoToken ==       \* mutant: the semaphore is not incremented
  /\ mpc = "leave_cs"
  /\ Unlock
  /\ mpc' = "accept"
  /\ mco' = Null
  /\ UNCHANGED <<wpc, wco, queue, sem, fd>>

MainLeaveCs ==
  /\ mpc = "leave_cs"
  /\ \/ Unlock /\ mpc' = "increment" /\ UNCHANGED <<mco, fd>>
     \/ MayFail("leave_cs") /\ RejectConnection /\ UNCHANGED cs
  /\ UNCHANGED <<wpc, wco, queue, sem>>

MainIncrement ==
  /\ mpc = "increment"
  /\ IF SemHasRoom
     THEN SemPost /\ mpc' = "accept" /\ mco' = Null /\ UNCHANGED fd
     ELSE RejectConnection /\ UNCHANGED sem
  /\ UNCHANGED <<wpc, wco, queue, cs>>

MainStep ==
  \/ MainNewConnection \/ MainEnterCs \/ MainEnqueue \/ MainSleep
  \/ MainLeaveCs \/ MainIncrement

-----------------------------------------------------------------------------
(* A worker: one iteration of the loop of thread_exec().                   *)

Goto(w, call) == wpc' = [wpc EXCEPT ![w] = call]

(* close() and free() of the worker's connection.                          *)
CloseConnection(w) ==
  /\ fd' = [fd EXCEPT ![wco[w]] = "closed"]
  /\ wco' = [wco EXCEPT ![w] = Null]

WaitSemaphoreKeepsToken(w) ==       \* mutant: several workers on one token
  /\ wpc[w] = "wait" /\ sem > 0
  /\ Goto(w, "enter_cs")
  /\ UNCHANGED <<mpc, mco, wco, queue, sem, cs, fd>>

WaitSemaphore(w) ==
  /\ wpc[w] = "wait"
  /\ SemWait
  /\ Goto(w, "enter_cs")
  /\ UNCHANGED <<mpc, mco, wco, queue, cs, fd>>

EnterCsAnyway(w) ==                 \* mutant: the lock is not waited for
  /\ wpc[w] = "enter_cs"
  /\ cs' = w
  /\ Goto(w, "dequeue")
  /\ UNCHANGED <<mpc, mco, wco, queue, sem, fd>>

EnterCs(w) ==
  /\ wpc[w] = "enter_cs"
  /\ \/ Lock(w) /\ Goto(w, "dequeue")
     \/ MayFail("enter_cs") /\ Goto(w, "wait") /\ UNCHANGED cs
  /\ UNCHANGED <<mpc, mco, wco, queue, sem, fd>>

(* An empty queue sends the worker back to the semaphore still inside the  *)
(* critical section.                                                       *)
DequeueConnection(w) ==
  /\ wpc[w] = "dequeue"
  /\ queue' = Dequeue(queue)
  /\ LET co == DequeueResult(queue)
     IN  /\ wco' = [wco EXCEPT ![w] = co]
         /\ Goto(w, IF co = Null THEN "wait" ELSE "leave_cs")
  /\ UNCHANGED <<mpc, mco, sem, cs, fd>>

LeaveCsNoContinue(w) ==             \* mutant: closes and serves all the same
  /\ wpc[w] = "leave_cs"
  /\ \/ Unlock /\ Goto(w, "serve") /\ UNCHANGED <<wco, fd>>
     \/ /\ MayFail("leave_cs") /\ Goto(w, "serve") /\ UNCHANGED <<cs, wco>>
        /\ fd' = [fd EXCEPT ![wco[w]] = "closed"]
  /\ UNCHANGED <<mpc, mco, queue, sem>>

LeaveCs(w) ==
  /\ wpc[w] = "leave_cs"
  /\ \/ Unlock /\ Goto(w, "serve") /\ UNCHANGED <<wco, fd>>
     \/ /\ MayFail("leave_cs") /\ CloseConnection(w)
        /\ Goto(w, "wait") /\ UNCHANGED cs
  /\ UNCHANGED <<mpc, mco, queue, sem>>

(* A failed send() of the code or of the result leaves the loop: the       *)
(* thread ends and the connection stays open.                              *)
Serve(w) ==
  /\ wpc[w] = "serve"
  /\ \/ CloseConnection(w) /\ Goto(w, "wait")
     \/ /\ MayFail("send") /\ Goto(w, "exited")
        /\ wco' = [wco EXCEPT ![w] = Null] /\ UNCHANGED fd
  /\ UNCHANGED <<mpc, mco, queue, sem, cs>>

WorkerStep(w) ==
  WaitSemaphore(w) \/ EnterCs(w) \/ DequeueConnection(w) \/ LeaveCs(w)

Next ==
  \/ MainAccept \/ MainStep
  \/ \E w \in Workers : WorkerStep(w) \/ Serve(w)

Spec == Init /\ [][Next]_vars

(* The scheduler runs every thread that can run.  No client has to         *)
(* connect, and none has to finish its dialogue.                           *)
LiveSpec ==
  Spec /\ WF_vars(MainStep) /\ \A w \in Workers : WF_vars(WorkerStep(w))

(* Every client sends what its dialogue asks for or goes away.             *)
ClientsFinish == \A w \in Workers : WF_vars(Serve(w))

ServedSpec == LiveSpec /\ ClientsFinish

-----------------------------------------------------------------------------
(* Vocabulary of the properties.                                           *)

Entries == Contents(queue)

Queued == {Entries[i] : i \in 1 .. queue.size}

(* The workers that have a connection of their own.                        *)
Busy == {w \in Workers : wpc[w] \in {"leave_cs", "serve"}}

(* The workers that took a token and have not used it yet.                 *)
Claimants == {w \in Workers : wpc[w] \in {"enter_cs", "dequeue"}}

(* The main thread owns its connection until it is in the queue ...        *)
MainOwns == mpc \in {"new_connection", "enter_cs", "enqueue", "sleep"}

(* ... and then still owes it a token.                                     *)
TokenOwed == IF mpc \in {"leave_cs", "increment"} THEN 1 ELSE 0

TypeOK ==
  /\ mpc \in MainCalls /\ mco \in Conns \cup {Null}
  /\ wpc \in [Workers -> WorkerCalls]
  /\ wco \in [Workers -> Conns \cup {Null}]
  /\ queue \in QueueType(Conns, Capacity)
  /\ sem \in 0 .. SemMax
  /\ cs \in Workers \cup {Main, NoThread}
  /\ fd \in [Conns -> {"open", "closed"}]

(* connections_cs (server.c:215-224, 490-501) admits one thread at a time  *)
(* between enter_cs and leave_cs, on every error path.                     *)
MutualExclusion ==
  /\ mpc \in {"enqueue", "sleep", "leave_cs"} => cs = Main
  /\ \A w \in Workers : wpc[w] \in {"dequeue", "leave_cs"} => cs = w

(* Every token, spent or not, is covered by a queued connection, whichever *)
(* calls failed: a worker past the semaphore never meets the empty queue   *)
(* of server.c:220-223, which it would leave with the lock held.           *)
DequeueFindsEntry ==
  sem + Cardinality(Claimants) + TokenOwed <= queue.size

(* When no call fails no queued connection lacks its token: a connection   *)
(* cannot sit in the queue with every worker asleep on the semaphore.      *)
NoEntryStranded ==
  queue.size <= sem + Cardinality(Claimants) + TokenOwed

(* A connection has one owner: the main thread, one place of the queue or  *)
(* one worker.  Nobody closes or serves the connection of another, and the *)
(* same descriptor is never queued twice.                                  *)
OwnedOnce ==
  /\ \A i, j \in 1 .. queue.size : i # j => Entries[i] # Entries[j]
  /\ \A v, w \in Busy : v # w => wco[v] # wco[w]
  /\ \A w \in Busy : wco[w] \notin Queued
  /\ MainOwns => mco \notin Queued \cup {wco[w] : w \in Busy}

(* No owner is left with a descriptor that was closed under it, which the  *)
(* next accept() could return for another client.                          *)
OwnedIsOpen ==
  /\ \A c \in Queued : fd[c] = "open"
  /\ \A w \in Busy : wco[w] \in Conns /\ fd[wco[w]] = "open"
  /\ MainOwns => mco \in Conns /\ fd[mco] = "open"

(* Whatever fails, the connection a worker serves is open, and no other    *)
(* worker and no entry of the queue refers to it.                          *)
ServedAlone ==
  \A w \in Workers : wpc[w] = "serve" =>
    /\ fd[wco[w]] = "open"
    /\ wco[w] \notin Queued
    /\ \A v \in Busy \ {w} : wco[v] # wco[w]

(* The comment of server.c:507, "Increment semaphore: unlocks a thread.":  *)
(* the call that follows a successful enqueue adds a token.                *)
IncrementUnlocks == [][MainIncrement => sem' = sem + 1]_vars

(* The semaphore, the lock and the array implement the hand-off: oldest    *)
(* connection first, to exactly one worker.                                *)
Abstract == INSTANCE Handoff WITH
  Nobody  <- Null,
  line    <- Entries,
  serving <- wco

ImplementsHandoff == Abstract!Spec

(* The queue is never full when main comes with a connection.              *)
AlwaysRoom == [](mpc # "sleep")

(* An accepted connection is eventually closed when clients do their part. *)
AcceptedIsClosed ==
  AlwaysRoom /\ ClientsFinish =>
    \A c \in Conns : fd[c] = "open" ~> fd[c] = "closed"

(* The comment of server.c:496, "Wait if could not enqueue.": the wait for *)
(* room in a full queue ends with the connection in the queue.             *)
WaitForRoomEnds == mpc = "sleep" ~> mpc = "leave_cs"
=============================================================================
