---------------------------- MODULE TestMultiSem ----------------------------
(***************************************************************************)
(* The test program of Win32SmpEd2/CHAPTR10/TestMultiSem.c over module     *)
(* MultiSem: processes with producers, which release units, consumers,     *)
(* which wait for them, the monitor and the handler of control-c.          *)
(***************************************************************************)
EXTENDS MultiSem, Functions

CONSTANTS Consumers, Producers,  \* the roles of the threads
          Ctrl,      \* the thread of the control handler
          Inputs,    \* what the users enter: SemMax, SemInitial, FirstCFS, Name, and
                     \* which of the Consumers and Producers there are
          Rounds     \* bound: the calls of a thread before control-c

ASSUME TestAssumption ==
  /\ Roles = Consumers \cup Producers \cup {Ctrl}
  /\ Consumers \cap Producers = {} /\ Ctrl \notin Consumers \cup Producers
  /\ Inputs \subseteq [Processes ->
       [SemMax : Int, SemInitial : Int, FirstCFS : BOOLEAN, Name : Names \cup {NoName},
        Consumers : SUBSET Consumers, Producers : SUBSET Producers]]
  /\ Rounds \in Nat

VARIABLES
  input,        \* of each process
  Exit,         \* of each process
  rounds,       \* the calls each thread has made; of Ctrl the releases to make
  NumProduced, NumConsumed,   \* of each process
  startCount,   \* history: the count each state began with
  users,        \* history: the processes that have used it since
  overlapped    \* history: two creations of named semaphores overlapped

testVars == <<input, Exit, rounds, NumProduced, NumConsumed, startCount, users, overlapped>>
vars == <<libVars, testVars>>

Init ==
  /\ LibInit
  /\ input \in Inputs
  /\ Exit = [p \in Processes |-> FALSE]
  /\ rounds = [t \in Threads |-> 0]
  /\ NumProduced = [p \in Processes |-> 0]
  /\ NumConsumed = [p \in Processes |-> 0]
  /\ startCount = [s \in Slots \cup Processes |-> 0]
  /\ users = [s \in Slots \cup Processes |-> {}]
  /\ overlapped = FALSE

Overlaps(p) ==
  /\ input[p].Name # NoName
  /\ \E o \in Processes \ {p} : stage[o] = "creating" /\ input[o].Name # NoName

(* main() up to the creation of the semaphore; bad parameters end it.      *)
MainCreates(p) ==
  /\ IF Valid(input[p].SemInitial, input[p].SemMax)
     THEN AllocSynchHandle(p, input[p].Name, input[p].FirstCFS)
     ELSE /\ stage[p] = "new" /\ stage' = [stage EXCEPT ![p] = "refused"]
          /\ UNCHANGED <<version, handle, state, objects, call>>
  /\ overlapped' = (overlapped \/ Overlaps(p))
  /\ UNCHANGED <<input, Exit, rounds, NumProduced, NumConsumed, startCount, users>>

RunningOn(s) == {o \in Processes : stage[o] = "running" /\ handle[o].hState = s}

MainStarts(p) ==
  /\ CreateSemaphoreMW(p, input[p].SemInitial, input[p].SemMax)
  /\ NumProduced' = [NumProduced EXCEPT ![p] = input[p].SemInitial]
  /\ startCount' = IF handle[p].fresh
                   THEN [startCount EXCEPT ![handle[p].hState] = input[p].SemInitial]
                   ELSE startCount
  /\ users' = [users EXCEPT ![handle[p].hState] =
                 IF handle[p].fresh THEN {p} \cup RunningOn(handle[p].hState) ELSE @ \cup {p}]
  /\ UNCHANGED <<input, Exit, rounds, NumConsumed, overlapped>>

(* A random number of units: one more than SemMax when rand() is RAND_MAX. *)
Units(p) == 1 .. input[p].SemMax + 1

Running(t) == stage[Proc(t)] = "running"

(* while (!Exit): the next call, or the end of the thread.                 *)
Started(t) == t[2] \in input[Proc(t)].Consumers \cup input[Proc(t)].Producers

MayCall(t) == Running(t) /\ Started(t) /\ At(t, "idle") /\ ~Exit[Proc(t)] /\ rounds[t] < Rounds

Counted(t) == rounds' = [rounds EXCEPT ![t] = @ + 1]

Produces(t) ==
  /\ t[2] \in Producers /\ MayCall(t)
  /\ \E n \in Units(Proc(t)) : ReleaseSemaphoreMW(t, n, CallAt("returned", n))
  /\ Counted(t)
  /\ UNCHANGED <<input, Exit, NumProduced, NumConsumed, startCount, users, overlapped>>

Consumes(t) ==
  /\ t[2] \in Consumers /\ MayCall(t)
  /\ \E n \in Units(Proc(t)) : WaitForSemaphoreMW(t, n)
  /\ Counted(t)
  /\ UNCHANGED <<input, Exit, NumProduced, NumConsumed, startCount, users, overlapped>>

(* The statistics of a call that succeeded, in a step of their own.  The   *)
(* result WAIT_ABANDONED_0 is not WAIT_OBJECT_0.                           *)
Counts(t) ==
  /\ At(t, "returned")
  /\ IF call[t].abandoned THEN UNCHANGED <<NumProduced, NumConsumed>>
     ELSE IF t[2] \in Producers
     THEN /\ NumProduced' = [NumProduced EXCEPT ![Proc(t)] = @ + call[t].n]
          /\ UNCHANGED NumConsumed
     ELSE /\ NumConsumed' = [NumConsumed EXCEPT ![Proc(t)] = @ + call[t].n]
          /\ UNCHANGED NumProduced
  /\ call' = [call EXCEPT ![t] = NoCall]
  /\ UNCHANGED <<version, stage, handle, state, objects, input, Exit, rounds, startCount, users,
                 overlapped>>

ThreadEnds(t) ==
  /\ Started(t) /\ Running(t) /\ At(t, "idle") /\ Exit[Proc(t)]
  /\ call' = [call EXCEPT ![t].at = "ended"]
  /\ UNCHANGED <<version, stage, handle, state, objects, testVars>>

(* CtrlcHandler(): Exit is set, then one unit is released per consumer.    *)
CtrlC(p) ==
  /\ stage[p] = "running" /\ ~Exit[p]
  /\ Exit' = [Exit EXCEPT ![p] = TRUE]
  /\ rounds' = [rounds EXCEPT ![<<p, Ctrl>>] = Cardinality(input[p].Consumers)]
  /\ UNCHANGED <<libVars, input, NumProduced, NumConsumed, startCount, users, overlapped>>

CtrlReleasesNone(p) ==              \* mutant: the units are not released
  LET t == <<p, Ctrl>>
  IN  /\ Running(t) /\ rounds[t] > 0
      /\ ReleaseSemaphoreMW(t, 0, NoCall)
      /\ rounds' = [rounds EXCEPT ![t] = @ - 1]
      /\ UNCHANGED <<input, Exit, NumProduced, NumConsumed, startCount, users, overlapped>>

CtrlReleases(p) ==
  LET t == <<p, Ctrl>>
  IN  /\ Running(t) /\ rounds[t] > 0
      /\ ReleaseSemaphoreMW(t, 1, NoCall)
      /\ rounds' = [rounds EXCEPT ![t] = @ - 1]
      /\ UNCHANGED <<input, Exit, NumProduced, NumConsumed, startCount, users, overlapped>>

Ended(p) == \A t \in Threads : Proc(t) = p /\ Started(t) => At(t, "ended")

(* main() after its waits for the threads.                                 *)
MainCloses(p) ==
  /\ Ended(p)
  /\ CloseSynchHandle(p)
  /\ UNCHANGED testVars

Pending(t) == InWait(t) /\ UNCHANGED testVars

ThreadStep(t) == Produces(t) \/ Consumes(t) \/ Pending(t) \/ Counts(t) \/ ThreadEnds(t)

MainStep(p) == MainCreates(p) \/ MainStarts(p) \/ MainCloses(p)

Next ==
  \/ \E t \in Threads : ThreadStep(t)
  \/ \E p \in Processes : MainStep(p) \/ CtrlC(p) \/ CtrlReleases(p)

(* Every thread runs, a limit on a wait expires, and a thread that waits   *)
(* without one for a mutex that others take again and again gets it.       *)
Fairness ==
  /\ \A t \in Threads : WF_vars(ThreadStep(t))
  /\ \A p \in Processes : WF_vars(MainStep(p)) /\ SF_vars(CtrlReleases(p))

Spec == Init /\ [][Next]_vars /\ Fairness

-----------------------------------------------------------------------------
(* MonitorTh(), at a moment when no thread is between its call and its     *)
(* statistics, and over all the processes that share a count.              *)

Settled(p) == \A t \in Threads : Proc(t) = p => ~At(t, "returned") /\ ~At(t, "pulse")

(* The monitor is a thread of a process that runs.  All the users know the *)
(* count by one name: one of another name that was given the entry while   *)
(* they had it has written the count anew.                                 *)
Monitored(s) ==
  /\ \E p \in users[s] : stage[p] = "running"
  /\ \A p \in users[s] : Settled(p)
  /\ \A p \in Processes : ~Exit[p]
  /\ \A p, o \in users[s] : handle[p].lpName = handle[o].lpName

Net == [p \in Processes |-> NumProduced[p] - input[p].SemInitial - NumConsumed[p]]

ExcessCount(s) == SumFunctionOnSet(Net, users[s]) - (state[s].CurCount - startCount[s])

Discrepancy(s) ==
  \/ Monitored(s) /\ ExcessCount(s) # 0
  \/ state[s].CurCount \notin 0 .. state[s].MaxCount

-----------------------------------------------------------------------------
(* What the monitor tests, TestMultiSem.c:269, "For Correctness, we must   *)
(* have: Produced == Consumed + CurCount", and the count stays between 0   *)
(* and the maximum.  After control-c the first need not hold: a handler    *)
(* releases units that no statistics show, and a thread that ends can      *)
(* leave a mutex abandoned, whose next owner takes units uncounted.        *)
ConsistencyTest == \A s \in Slots \cup Processes : ~Discrepancy(s)

(* Two processes that use one name use one count, as long as no two        *)
(* creations overlap: AllocSynchHandle() takes the entry under the table's *)
(* mutex and CreateSemaphoreMW() writes the name into it after the mutex   *)
(* is left.  Until then a second creation of that name takes an entry of   *)
(* its own, and one of the name that the entry had before takes this one.  *)
OneCountPerName ==
  \A p, o \in Processes :
    /\ stage[p] = "running" /\ stage[o] = "running"
    /\ handle[p].lpName = handle[o].lpName /\ handle[p].lpName # NoName
    /\ ~overlapped
    => handle[p].hState = handle[o].hState

Before(t) == call[t].at \in {"outside", "event", "again"}

(* MultiSem.c:57: a first come, first served semaphore gives no units to   *)
(* another thread while one that came before waits for the event.  Every   *)
(* process that shares the count has to have asked for it.                 *)
FirstComeFirstServed ==
  [][\A t, o \in Threads :
       /\ t # o /\ Before(t) /\ UsesMutexa(t) /\ UsesMutexa(o)
       /\ Key(Proc(t)) = Key(Proc(o))
       => ~(Enough(o) /\ call'[o].n = call[o].n)]_vars

Waiters(p) ==
  {t \in Threads : Proc(t) = p /\ call[t].at \notin {"idle", "pulse", "returned", "ended"}}

AskedFor(p) == SumFunctionOnSet([t \in Threads |-> call[t].n], Waiters(p))

ToCome(p) == rounds[<<p, Ctrl>>]

(* What is asked for is there or to be released, nobody else can take it,  *)
(* and the maximum does not refuse a release that is needed.               *)
UnitsForAll(p) ==
  LET s == state[handle[p].hState]
  IN  /\ \A o \in Processes \ {p} : stage[o] \in {"refused", "exited"} \/ input[o].Name = NoName
      /\ AskedFor(p) <= s.CurCount + ToCome(p) /\ AskedFor(p) <= s.MaxCount

(* Control-c came while every consumer of a nameless semaphore waited for  *)
(* one unit.                                                               *)
OneUnitEach(p) ==
  /\ input[p].Name = NoName
  /\ \A c \in input[p].Consumers : <<p, c>> \in Waiters(p) /\ call[<<p, c>>].n = 1
  /\ Cardinality(input[p].Consumers) <= state[handle[p].hState].MaxCount

(* TestMultiSem.c:331, "Assure that all Consumer threads are not blocked   *)
(* waiting on a semaphore so that they have a chance to shut down": after  *)
(* control-c the process ends if the handler's one unit for each consumer, *)
(* with the units that are left, is what they ask for, and no other        *)
(* process takes them.  If they ask for more, one can wait for ever.  The  *)
(* defective library may lock up and is left out.                          *)
ControlCEnds ==
  \A p \in Processes :
    version = MultiSemx /\ Exit[p] /\ (UnitsForAll(p) \/ OneUnitEach(p)) ~> stage[p] = "exited"
=============================================================================
