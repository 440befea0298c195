------------------------------ MODULE MultiSem ------------------------------
(***************************************************************************)
(* The multiple wait semaphore of Win32SmpEd2/CHAPTR10: a counter, a mutex *)
(* and an auto-reset event, and a second mutex for first come, first       *)
(* served semaphores.  Named semaphores keep their counter in a table that *)
(* all processes map.  The library exists twice: MultiSemx.c and, headed   *)
(* as the defective version, MultiSem.c.                                   *)
(*                                                                         *)
(* A process creates one semaphore and its threads use its handle.  What a *)
(* thread does while it owns hMutex and cannot block is one step.          *)
(***************************************************************************)
EXTENDS Integers, FiniteSets

CONSTANTS Processes,
          Roles,     \* the threads of each process
          Names,     \* the names of semaphores; NoName for a nameless one
          NoName,
          Slots,     \* the numbers of the table's entries, SYNCH_MAX_NUMBER of them
          NoThread   \* the owner of a free mutex

Threads == Processes \X Roles

ASSUME MultiSemAssumption ==
  /\ IsFiniteSet(Processes) /\ IsFiniteSet(Roles)
  /\ Slots \subseteq Nat /\ IsFiniteSet(Slots)
  /\ NoName \notin Names /\ Processes \cap (Names \cup Slots) = {}
  /\ NoThread \notin Threads

VARIABLES
  version,  \* the library the programs are linked with
  stage,    \* of each process: new, refused, creating, running, exited
  handle,   \* what CreateSemaphoreMW() was called with, and where the state is
  state,    \* of the entries of the table and of the nameless semaphores
  objects,  \* the mutexes and the event of each name and of each nameless semaphore
  call      \* the call each thread is in

libVars == <<version, stage, handle, state, objects, call>>

(* The two libraries: hMutexa before hMutex; the wait for the event ends   *)
(* by itself; SetEvent() instead of PulseEvent() to pass a signal on.      *)
MultiSemx == [outer |-> TRUE, polls |-> TRUE, sets |-> TRUE]
Defective == [outer |-> FALSE, polls |-> FALSE, sets |-> FALSE]

FreeMutex == [owner |-> NoThread, depth |-> 0]

NewObjects(signalled) == [mutex |-> FreeMutex, mutexa |-> FreeMutex, event |-> signalled]

NoState == [RefCount |-> 0, lpName |-> NoName, CurCount |-> 0, MaxCount |-> 0]

(* Where a call is, what it asks for, and whether the mutex it owned last  *)
(* was abandoned.                                                          *)
CallAt(place, n) == [at |-> place, n |-> n, abandoned |-> FALSE]

NoCall == CallAt("idle", 0)

LibInit ==
  /\ version \in {MultiSemx, Defective}
  /\ stage = [p \in Processes |-> "new"]
  /\ handle = [p \in Processes |-> [lpName |-> NoName, fcfs |-> FALSE, hState |-> p, fresh |-> TRUE]]
  /\ state = [s \in Slots \cup Processes |-> NoState]
  /\ objects = [k \in Names \cup Processes |-> NewObjects(FALSE)]
  /\ call = [t \in Threads |-> NoCall]

-----------------------------------------------------------------------------
(* Creation.                                                               *)

Live(p) == stage[p] \in {"creating", "running"}

(* Whose kernel objects the handle of p opens.                             *)
Key(p) == IF handle[p].lpName = NoName THEN p ELSE handle[p].lpName

(* CreateFileMapping(): if no process with a name has the table, it begins *)
(* as zeros.                                                               *)
Table(p) ==
  IF \E o \in Processes \ {p} : Live(o) /\ handle[o].lpName # NoName THEN state
  ELSE [s \in DOMAIN state |-> IF s \in Slots THEN NoState ELSE state[s]]

Named(table, name) == {s \in Slots : table[s].lpName = name}

Free(table) == {s \in Slots : table[s].RefCount <= 0}

First(slots) == CHOOSE s \in slots : \A o \in slots : s <= o

(* Where AllocSynchHandle() puts the state: the entry of that name, else   *)
(* the first free one, else the handle itself.                             *)
Entry(p, table, name) ==
  CASE name = NoName -> p
    [] name # NoName /\ Named(table, name) # {} -> First(Named(table, name))
    [] name # NoName /\ Named(table, name) = {} /\ Free(table) # {} -> First(Free(table))
    [] OTHER -> p

(* AllocSynchHandle(), under the mutex of the table: an entry counts one   *)
(* reference more.                                                         *)
AllocSynchHandle(p, name, fcfs) ==
  LET table == Table(p)
      s == Entry(p, table, name)
  IN  /\ stage[p] = "new"
      /\ stage' = [stage EXCEPT ![p] = "creating"]
      /\ handle' = [handle EXCEPT ![p] = [lpName |-> name, fcfs |-> fcfs, hState |-> s,
                                          fresh |-> name = NoName \/ Named(table, name) = {}]]
      /\ state' = IF s \in Slots THEN [table EXCEPT ![s].RefCount = @ + 1] ELSE table
      /\ UNCHANGED <<version, objects, call>>

(* Kernel objects of a name exist while a process has them open.           *)
Opened(p) == \E o \in Processes \ {p} : stage[o] = "running" /\ Key(o) = Key(p)

CreateNameless(p, initial, max) ==  \* mutant: the name is not written
  /\ stage[p] = "creating"
  /\ stage' = [stage EXCEPT ![p] = "running"]
  /\ objects' = IF Opened(p) THEN objects ELSE [objects EXCEPT ![Key(p)] = NewObjects(initial > 0)]
  /\ state' = IF ~handle[p].fresh THEN state
              ELSE [state EXCEPT ![handle[p].hState] = [@ EXCEPT !.CurCount = initial, !.MaxCount = max]]
  /\ UNCHANGED <<version, handle, call>>

(* The rest of CreateSemaphoreMW(): the objects are created or opened, and *)
(* the state of a new entry is written, its name with it.                  *)
CreateSemaphoreMW(p, initial, max) ==
  /\ stage[p] = "creating"
  /\ stage' = [stage EXCEPT ![p] = "running"]
  /\ objects' = IF Opened(p) THEN objects ELSE [objects EXCEPT ![Key(p)] = NewObjects(initial > 0)]
  /\ state' = IF ~handle[p].fresh THEN state
              ELSE [state EXCEPT ![handle[p].hState] =
                      [@ EXCEPT !.lpName = handle[p].lpName, !.CurCount = initial, !.MaxCount = max]]
  /\ UNCHANGED <<version, handle, call>>

Valid(initial, max) == initial <= max /\ max >= 0 /\ initial >= 0

(* CloseSynchHandle(), with the end of the process that follows: one       *)
(* reference less; the name stays in the table.                            *)
CloseSynchHandle(p) ==
  /\ stage[p] = "running"
  /\ stage' = [stage EXCEPT ![p] = "exited"]
  /\ state' = IF handle[p].hState \in Slots
              THEN [state EXCEPT ![handle[p].hState].RefCount = @ - 1] ELSE state
  /\ UNCHANGED <<version, handle, objects, call>>

-----------------------------------------------------------------------------
(* The objects of a semaphore.                                             *)

Proc(t) == t[1]

Count(t) == state[handle[Proc(t)].hState].CurCount

Limit(t) == state[handle[Proc(t)].hState].MaxCount

Objects(t) == objects[Key(Proc(t))]

SetCount(t, n) == state' = [state EXCEPT ![handle[Proc(t)].hState].CurCount = n]

At(t, place) == call[t].at = place

(* WAIT_ABANDONED_0: the thread that owned the mutex has ended.            *)
Abandoned(mutex) == mutex.owner # NoThread /\ At(mutex.owner, "ended")

CanOwn(mutex, t) == mutex.owner \in {NoThread, t} \/ Abandoned(mutex)

Owned(mutex, t) == [owner |-> t, depth |-> IF mutex.owner = t THEN mutex.depth + 1 ELSE 1]

Released(mutex) == IF mutex.depth = 1 THEN FreeMutex ELSE [mutex EXCEPT !.depth = @ - 1]

Sleepers(t) == {o \in Threads : At(o, "event") /\ Key(Proc(o)) = Key(Proc(t))}

(* The signal wakes one thread that sleeps; without one SetEvent() stays   *)
(* for the next, PulseEvent() is lost.                                     *)
WokenOne(t) == IF Sleepers(t) = {} THEN {{}} ELSE {{o} : o \in Sleepers(t)}

EventAfter(t, sets) == sets /\ (Sleepers(t) = {} \/ Objects(t).event)

(* Thread t goes on with `next`, its objects are `after`, and, if units    *)
(* are left, the event is signalled.                                       *)
GoesOn(t, next, after, signals, sets) ==
  /\ objects' = [objects EXCEPT ![Key(Proc(t))] =
                   IF signals THEN [after EXCEPT !.event = EventAfter(t, sets)] ELSE after]
  /\ \E woken \in IF signals THEN WokenOne(t) ELSE {{}} :
       call' = [o \in Threads |->
                  CASE o = t -> next
                    [] o \in woken \ {t} -> [call[o] EXCEPT !.at = "again"]
                    [] OTHER -> call[o]]
  /\ UNCHANGED <<version, stage, handle>>

Goes(t, place) == [call[t] EXCEPT !.at = place]

GoesOwning(t, place, mutex) == [Goes(t, place) EXCEPT !.abandoned = Abandoned(mutex)]

-----------------------------------------------------------------------------
(* A call that took or released its units returns to a caller that counts  *)
(* them; one that failed changes nothing and leaves its caller idle.       *)

ReleaseUnchecked(t, n, next) ==     \* mutant: the maximum is not tested
  /\ At(t, "idle")
  /\ CanOwn(Objects(t).mutex, t)
  /\ SetCount(t, Count(t) + n)
  /\ GoesOn(t, next, Objects(t), TRUE, TRUE)

(* ReleaseSemaphoreMW(), in one step: nothing in it waits once it owns the *)
(* mutex.  `next` is where its caller goes on after a success.             *)
ReleaseSemaphoreMW(t, n, next) ==
  LET ok == Count(t) + n <= Limit(t) /\ n > 0
  IN  /\ At(t, "idle")
      /\ CanOwn(Objects(t).mutex, t)
      /\ SetCount(t, IF ok THEN Count(t) + n ELSE Count(t))
      /\ GoesOn(t, IF ok THEN next ELSE NoCall, Objects(t), ok, TRUE)

-----------------------------------------------------------------------------
(* WaitForSemaphoreMW(), with a limit on each of its waits.                *)

UsesMutexa(t) == handle[Proc(t)].fcfs

FirstMutex(t) == IF UsesMutexa(t) /\ version.outer THEN "mutexa" ELSE "mutex"

WaitForSemaphoreMW(t, n) ==
  /\ At(t, "idle")
  /\ call' = [call EXCEPT ![t] =
                IF n <= 0 \/ n > Limit(t) THEN NoCall ELSE CallAt(FirstMutex(t), n)]
  /\ UNCHANGED <<version, stage, handle, state, objects>>

OwnMutexa(t) ==
  /\ At(t, "mutexa") /\ CanOwn(Objects(t).mutexa, t)
  /\ GoesOn(t, GoesOwning(t, IF version.outer THEN "mutex" ELSE "test", Objects(t).mutexa),
            [Objects(t) EXCEPT !.mutexa = Owned(@, t)], FALSE, FALSE)
  /\ UNCHANGED state

OwnMutex(t) ==
  /\ At(t, "mutex") /\ CanOwn(Objects(t).mutex, t)
  /\ GoesOn(t, GoesOwning(t, IF UsesMutexa(t) /\ ~version.outer THEN "mutexa" ELSE "test",
                          Objects(t).mutex),
            [Objects(t) EXCEPT !.mutex = Owned(@, t)], FALSE, FALSE)
  /\ UNCHANGED state

NotEnoughForAll(t) ==               \* mutant: hMutexa is left before the wait
  /\ At(t, "test") /\ Count(t) < call[t].n
  /\ GoesOn(t, Goes(t, "outside"),
            [Objects(t) EXCEPT !.mutex = Released(@), !.mutexa = FreeMutex], FALSE, FALSE)
  /\ UNCHANGED state

NotEnoughAtEqual(t) ==              \* mutant: the loop runs while CurCount <= cSemRequest
  /\ At(t, "test") /\ Count(t) <= call[t].n
  /\ GoesOn(t, Goes(t, "outside"), [Objects(t) EXCEPT !.mutex = Released(@)], FALSE, FALSE)
  /\ UNCHANGED state

(* Too few units: the mutex is left, hMutexa is not.                       *)
NotEnough(t) ==
  /\ At(t, "test") /\ Count(t) < call[t].n
  /\ GoesOn(t, Goes(t, "outside"), [Objects(t) EXCEPT !.mutex = Released(@)], FALSE, FALSE)
  /\ UNCHANGED state

Freed(t, o) ==
  [o EXCEPT !.mutex = Released(@), !.mutexa = IF UsesMutexa(t) THEN Released(@) ELSE @]

(* The units are taken and both mutexes left.  The library passes the      *)
(* signal on before that, its defective version after it, in PulseLate.    *)
Enough(t) ==
  /\ At(t, "test") /\ Count(t) >= call[t].n
  /\ SetCount(t, Count(t) - call[t].n)
  /\ GoesOn(t, IF version.sets THEN Goes(t, "returned") ELSE Goes(t, "pulse"),
            Freed(t, Objects(t)), version.sets /\ Count(t) > call[t].n, TRUE)

PulseLate(t) ==
  /\ At(t, "pulse")
  /\ GoesOn(t, Goes(t, "returned"), Objects(t), Count(t) > 0, FALSE)
  /\ UNCHANGED state

(* The thread waits for the event, which may be signalled already.         *)
StartWait(t) ==
  /\ At(t, "outside")
  /\ GoesOn(t, Goes(t, IF Objects(t).event THEN "again" ELSE "event"),
            [Objects(t) EXCEPT !.event = FALSE], FALSE, FALSE)
  /\ UNCHANGED state

(* The limit of the wait for the event: the loop goes on.                  *)
Poll(t) ==
  /\ At(t, "event") /\ version.polls
  /\ GoesOn(t, Goes(t, "again"), Objects(t), FALSE, FALSE)
  /\ UNCHANGED state

(* The thread owns the mutex again and passes the signal on if any unit is *)
(* there.                                                                  *)
OwnMutexAgain(t) ==
  /\ At(t, "again") /\ CanOwn(Objects(t).mutex, t)
  /\ GoesOn(t, GoesOwning(t, "test", Objects(t).mutex),
            [Objects(t) EXCEPT !.mutex = Owned(@, t)], Count(t) > 0, version.sets)
  /\ UNCHANGED state

(* The limit of a wait for a mutex: WAIT_TIMEOUT is returned, and what the *)
(* thread owned it goes on owning.                                         *)
TimesOut(t) ==
  /\ \/ At(t, "mutexa") /\ ~CanOwn(Objects(t).mutexa, t)
     \/ call[t].at \in {"mutex", "again"} /\ ~CanOwn(Objects(t).mutex, t)
  /\ GoesOn(t, NoCall, Objects(t), FALSE, FALSE)
  /\ UNCHANGED state

InWait(t) ==
  \/ OwnMutexa(t) \/ OwnMutex(t) \/ NotEnough(t) \/ Enough(t) \/ PulseLate(t)
  \/ StartWait(t) \/ Poll(t) \/ OwnMutexAgain(t) \/ TimesOut(t)
=============================================================================
