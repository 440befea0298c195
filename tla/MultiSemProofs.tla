--------------------------- MODULE MultiSemProofs ---------------------------
(***************************************************************************)
(* The multiple wait semaphore of Win32SmpEd2/CHAPTR10, for any processes, *)
(* threads, names and table: types, the order of first come, first served  *)
(* semaphores, one count for one name, and the account of the units.       *)
(***************************************************************************)
EXTENDS TestMultiSem, FiniteSetTheorems, WellFoundedInduction, TLAPS

(***************************************************************************)
(* Types.                                                                  *)
(***************************************************************************)
Places ==
  {"idle", "mutexa", "mutex", "test", "outside", "event", "again", "pulse", "returned", "ended"}

CallType == [at : Places, n : Int, abandoned : BOOLEAN]

MutexType == [owner : Threads \cup {NoThread}, depth : Int]

ObjectsType == [mutex : MutexType, mutexa : MutexType, event : BOOLEAN]

HandleType ==
  [lpName : Names \cup {NoName}, fcfs : BOOLEAN, hState : Slots \cup Processes, fresh : BOOLEAN]

StateType == [RefCount : Int, lpName : Names \cup {NoName}, CurCount : Int, MaxCount : Int]

InputType ==
  [SemMax : Int, SemInitial : Int, FirstCFS : BOOLEAN, Name : Names \cup {NoName},
   Consumers : SUBSET Consumers, Producers : SUBSET Producers]

LibTypeOK ==
  /\ version \in {MultiSemx, Defective}
  /\ stage \in [Processes -> {"new", "refused", "creating", "running", "exited"}]
  /\ handle \in [Processes -> HandleType]
  /\ state \in [Slots \cup Processes -> StateType]
  /\ objects \in [Names \cup Processes -> ObjectsType]
  /\ call \in [Threads -> CallType]

TestTypeOK ==
  /\ input \in [Processes -> InputType]
  /\ Exit \in [Processes -> BOOLEAN]
  /\ rounds \in [Threads -> Int]
  /\ NumProduced \in [Processes -> Int]
  /\ NumConsumed \in [Processes -> Int]
  /\ startCount \in [Slots \cup Processes -> Int]
  /\ users \in [Slots \cup Processes -> SUBSET Processes]
  /\ overlapped \in BOOLEAN

TypeOK == LibTypeOK /\ TestTypeOK

(* A thread of a process uses the objects of one key.                      *)
LEMMA KeyType ==
  ASSUME LibTypeOK
  PROVE  /\ \A t \in Threads : Proc(t) \in Processes
         /\ \A p \in Processes : Key(p) \in Names \cup Processes
<1>1. \A t \in Threads : Proc(t) \in Processes
  BY DEF Threads, Proc
<1>2. ASSUME NEW p \in Processes PROVE Key(p) \in Names \cup Processes
  BY <1>2 DEF LibTypeOK, HandleType, Key
<1> QED
  BY <1>1, <1>2

(* The objects of a thread and the count behind its handle are typed.      *)
LEMMA ObjectsHaveType ==
  ASSUME LibTypeOK, NEW t \in Threads
  PROVE  /\ Objects(t) \in ObjectsType
         /\ Count(t) \in Int /\ Limit(t) \in Int
         /\ call[t] \in CallType /\ call[t].n \in Int
         /\ handle[Proc(t)].hState \in Slots \cup Processes
         /\ UsesMutexa(t) \in BOOLEAN
<1>1. Proc(t) \in Processes /\ Key(Proc(t)) \in Names \cup Processes
  BY KeyType
<1>2. handle[Proc(t)] \in HandleType
  BY <1>1 DEF LibTypeOK
<1>3. handle[Proc(t)].hState \in Slots \cup Processes /\ handle[Proc(t)].fcfs \in BOOLEAN
  BY <1>2 DEF HandleType
<1>4. state[handle[Proc(t)].hState] \in StateType
  BY <1>3 DEF LibTypeOK
<1>5. call[t] \in CallType
  BY DEF LibTypeOK
<1>6. objects[Key(Proc(t))] \in ObjectsType
  BY <1>1 DEF LibTypeOK
<1> QED
  BY <1>3, <1>4, <1>5, <1>6 DEF Objects, Count, Limit, StateType, CallType, UsesMutexa

LEMMA VersionType ==
  ASSUME LibTypeOK
  PROVE  version.outer \in BOOLEAN /\ version.sets \in BOOLEAN
<1>1. CASE version = MultiSemx
  BY <1>1 DEF MultiSemx
<1>2. CASE version = Defective
  BY <1>2 DEF Defective
<1> QED
  BY <1>1, <1>2 DEF LibTypeOK

(* Taking, leaving and freeing a mutex.                                    *)
LEMMA MutexFacts ==
  ASSUME NEW m \in MutexType, NEW t \in Threads
  PROVE  /\ Owned(m, t) \in MutexType /\ Owned(m, t).owner = t
         /\ Released(m) \in MutexType
         /\ FreeMutex \in MutexType
BY DEF MutexType, Owned, Released, FreeMutex

(* What a step through GoesOn() does to the objects and to the calls.      *)
GoesOnEffect(t, next, after) ==
  /\ UNCHANGED <<version, stage, handle>>
  /\ objects' \in [Names \cup Processes -> ObjectsType]
  /\ \A k \in Names \cup Processes : k # Key(Proc(t)) => objects'[k] = objects[k]
  /\ objects'[Key(Proc(t))].mutexa = after.mutexa
  /\ call' \in [Threads -> CallType]
  /\ call'[t] = next
  /\ \A o \in Threads \ {t} :
       call'[o] = call[o] \/ (call[o].at = "event" /\ call'[o].at = "again")

LEMMA GoesOnFacts ==
  ASSUME LibTypeOK, NEW t \in Threads, NEW next \in CallType, NEW after \in ObjectsType,
         NEW signals \in BOOLEAN, NEW sets \in BOOLEAN,
         GoesOn(t, next, after, signals, sets)
  PROVE  GoesOnEffect(t, next, after)
<1> DEFINE e == EventAfter(t, sets)
           new == IF signals THEN [after EXCEPT !.event = e] ELSE after
<1>1. Key(Proc(t)) \in Names \cup Processes
  BY KeyType
<1>2. e \in BOOLEAN
  BY DEF EventAfter
<1>3. new \in ObjectsType /\ new.mutexa = after.mutexa
  <2> HIDE DEF e
  <2> QED BY <1>2 DEF ObjectsType
<1>4. objects' = [objects EXCEPT ![Key(Proc(t))] = new]
  BY DEF GoesOn
<1>5. /\ objects' \in [Names \cup Processes -> ObjectsType]
      /\ \A k \in Names \cup Processes : k # Key(Proc(t)) => objects'[k] = objects[k]
      /\ objects'[Key(Proc(t))] = new
  <2> HIDE DEF new
  <2> QED BY <1>1, <1>3, <1>4 DEF LibTypeOK
<1>6. PICK woken :
        call' = [o \in Threads |->
                   CASE o = t -> next
                     [] o \in woken \ {t} -> [call[o] EXCEPT !.at = "again"]
                     [] OTHER -> call[o]]
        /\ woken \in (IF signals THEN WokenOne(t) ELSE {{}})
  BY DEF GoesOn
<1>7. \A o \in woken : call[o].at = "event"
  BY <1>6 DEF WokenOne, Sleepers, At
<1>8. \A o \in Threads : /\ call[o] \in CallType /\ [call[o] EXCEPT !.at = "again"] \in CallType
                         /\ [call[o] EXCEPT !.at = "again"].at = "again"
  BY DEF LibTypeOK, CallType, Places
<1>9. /\ call' \in [Threads -> CallType]
      /\ call'[t] = next
      /\ \A o \in Threads \ {t} :
           call'[o] = call[o] \/ (call[o].at = "event" /\ call'[o].at = "again")
  <2> DEFINE val(o) == CASE o = t -> next
                         [] o \in woken \ {t} -> [call[o] EXCEPT !.at = "again"]
                         [] OTHER -> call[o]
  <2>1. val(t) = next
    <3> DEFINE again == [call[t] EXCEPT !.at = "again"]
    <3> HIDE DEF again
    <3> QED OBVIOUS
  <2>2. ASSUME NEW o \in Threads \ {t}
        PROVE  val(o) = IF o \in woken THEN [call[o] EXCEPT !.at = "again"] ELSE call[o]
    <3> DEFINE again == [call[o] EXCEPT !.at = "again"]
    <3> HIDE DEF again
    <3> QED OBVIOUS
  <2>3. call' = [o \in Threads |-> val(o)]
    BY <1>6
  <2> HIDE DEF val
  <2>4. \A o \in Threads : val(o) \in CallType
    BY <2>1, <2>2, <1>8
  <2> QED
    BY <2>1, <2>2, <2>3, <2>4, <1>7, <1>8
<1>10. UNCHANGED <<version, stage, handle>>
  BY DEF GoesOn
<1> QED
  BY <1>3, <1>5, <1>9, <1>10 DEF GoesOnEffect

-----------------------------------------------------------------------------
(* Creation.                                                               *)

(* First() is the least of some entries.                                   *)
LEMMA FirstIsOne ==
  ASSUME NEW S \in SUBSET Nat, S # {}
  PROVE  First(S) \in S
<1> DEFINE R == OpToRel(<, Nat)
<1>1. IsWellFoundedOn(R, Nat)
  BY NatLessThanWellFounded
<1> HIDE DEF R
<1>2. PICK x \in S : \A y \in S : ~ (<<y, x>> \in R)
  BY <1>1, WFMin
<1>3. ASSUME NEW y \in S PROVE x <= y
  <2>1. x \in Nat /\ y \in Nat
    OBVIOUS
  <2>2. y < x => <<y, x>> \in R
    BY <2>1 DEF R, OpToRel
  <2> QED BY <1>2, <2>1, <2>2
<1> QED
  BY <1>3 DEF First

(* The table a process sees, and the entry it is given.                    *)
LEMMA TableFacts ==
  ASSUME LibTypeOK, NEW p \in Processes, NEW name \in Names \cup {NoName}
  PROVE  /\ Table(p) \in [Slots \cup Processes -> StateType]
         /\ Named(Table(p), name) \subseteq Slots
         /\ Free(Table(p)) \subseteq Slots
         /\ Entry(p, Table(p), name) \in Slots \cup {p}
<1>1. NoState \in StateType
  BY DEF NoState, StateType
<1>2. Table(p) \in [Slots \cup Processes -> StateType]
  BY <1>1 DEF LibTypeOK, Table
<1>3. Named(Table(p), name) \subseteq Slots /\ Free(Table(p)) \subseteq Slots
  BY DEF Named, Free
<1>4. Slots \subseteq Nat
  BY MultiSemAssumption
<1>5. Named(Table(p), name) # {} => First(Named(Table(p), name)) \in Slots
  BY <1>3, <1>4, FirstIsOne
<1>6. Free(Table(p)) # {} => First(Free(Table(p))) \in Slots
  BY <1>3, <1>4, FirstIsOne
<1>7. \/ name = NoName /\ Entry(p, Table(p), name) = p
      \/ /\ name # NoName /\ Named(Table(p), name) # {}
         /\ Entry(p, Table(p), name) = First(Named(Table(p), name))
      \/ /\ name # NoName /\ Named(Table(p), name) = {} /\ Free(Table(p)) # {}
         /\ Entry(p, Table(p), name) = First(Free(Table(p)))
      \/ /\ name # NoName /\ Named(Table(p), name) = {} /\ Free(Table(p)) = {}
         /\ Entry(p, Table(p), name) = p
  BY DEF Entry
<1> QED
  BY <1>2, <1>3, <1>5, <1>6, <1>7

LEMMA AllocType ==
  ASSUME LibTypeOK, NEW p \in Processes, NEW name \in Names \cup {NoName}, NEW fcfs \in BOOLEAN,
         AllocSynchHandle(p, name, fcfs)
  PROVE  LibTypeOK'
<1> DEFINE table == Table(p)
           s == Entry(p, table, name)
           fresh == name = NoName \/ Named(table, name) = {}
<1>1. table \in [Slots \cup Processes -> StateType] /\ s \in Slots \cup {p}
  BY TableFacts
<1>2. /\ stage' = [stage EXCEPT ![p] = "creating"]
      /\ handle' = [handle EXCEPT ![p] = [lpName |-> name, fcfs |-> fcfs, hState |-> s,
                                          fresh |-> fresh]]
      /\ state' = IF s \in Slots THEN [table EXCEPT ![s].RefCount = @ + 1] ELSE table
      /\ UNCHANGED <<version, objects, call>>
  BY DEF AllocSynchHandle
<1>3. fresh \in BOOLEAN
  OBVIOUS
<1> HIDE DEF table, s, fresh
<1>4. handle' \in [Processes -> HandleType]
  BY <1>1, <1>2, <1>3 DEF LibTypeOK, HandleType
<1>5. state' \in [Slots \cup Processes -> StateType]
  <2>1. CASE s \in Slots
    <3>1. table[s] \in StateType
      BY <1>1, <2>1
    <3>2. [table[s] EXCEPT !.RefCount = @ + 1] \in StateType
      BY <3>1 DEF StateType
    <3> QED BY <1>1, <1>2, <2>1, <3>2
  <2> QED BY <1>1, <1>2, <2>1
<1> QED
  BY <1>2, <1>4, <1>5 DEF LibTypeOK

LEMMA CreateType ==
  ASSUME LibTypeOK, NEW p \in Processes, NEW initial \in Int, NEW max \in Int,
         CreateSemaphoreMW(p, initial, max)
  PROVE  LibTypeOK'
<1>1. handle[p].hState \in Slots \cup Processes /\ handle[p].lpName \in Names \cup {NoName}
  BY DEF LibTypeOK, HandleType
<1>2. Key(p) \in Names \cup Processes
  BY KeyType
<1> DEFINE signalled == initial > 0
<1>3. NewObjects(signalled) \in ObjectsType
  <2>1. signalled \in BOOLEAN
    OBVIOUS
  <2> HIDE DEF signalled
  <2> QED BY <2>1 DEF NewObjects, ObjectsType, FreeMutex, MutexType
<1>4. objects' \in [Names \cup Processes -> ObjectsType]
  BY <1>2, <1>3 DEF CreateSemaphoreMW, LibTypeOK
<1>5. state' \in [Slots \cup Processes -> StateType]
  <2> DEFINE s == handle[p].hState
             new == [state[s] EXCEPT !.lpName = handle[p].lpName, !.CurCount = initial, !.MaxCount = max]
  <2>1. state[s] \in StateType
    BY <1>1 DEF LibTypeOK
  <2>2. new \in StateType
    BY <1>1, <2>1 DEF StateType
  <2>3. state' = IF ~handle[p].fresh THEN state ELSE [state EXCEPT ![s] = new]
    BY DEF CreateSemaphoreMW
  <2> HIDE DEF new
  <2> QED BY <1>1, <2>2, <2>3 DEF LibTypeOK
<1> QED
  BY <1>4, <1>5 DEF CreateSemaphoreMW, LibTypeOK

LEMMA CloseType ==
  ASSUME LibTypeOK, NEW p \in Processes, CloseSynchHandle(p)
  PROVE  LibTypeOK'
<1> DEFINE s == handle[p].hState
<1>1. s \in Slots => [state[s] EXCEPT !.RefCount = @ - 1] \in StateType
  BY DEF LibTypeOK, StateType
<1>2. state' = IF s \in Slots THEN [state EXCEPT ![s] = [state[s] EXCEPT !.RefCount = @ - 1]] ELSE state
  BY DEF CloseSynchHandle
<1>3. state' \in [Slots \cup Processes -> StateType]
  BY <1>1, <1>2 DEF LibTypeOK
<1> QED
  BY <1>3 DEF CloseSynchHandle, LibTypeOK

(* Writing a count leaves the rest of the table alone.                     *)
LEMMA SetCountFacts ==
  ASSUME LibTypeOK, NEW t \in Threads, NEW n \in Int, SetCount(t, n)
  PROVE  /\ state' \in [Slots \cup Processes -> StateType]
         /\ \A s \in Slots \cup Processes :
              state'[s].lpName = state[s].lpName /\ state'[s].RefCount = state[s].RefCount
<1> DEFINE s == handle[Proc(t)].hState
           new == [state[s] EXCEPT !.CurCount = n]
<1>1. s \in Slots \cup Processes
  BY ObjectsHaveType
<1>2. state[s] \in StateType
  BY <1>1 DEF LibTypeOK
<1>3. new \in StateType /\ new.lpName = state[s].lpName /\ new.RefCount = state[s].RefCount
  BY <1>2 DEF StateType
<1>4. state' = [state EXCEPT ![s] = new]
  BY DEF SetCount
<1> HIDE DEF new, s
<1> QED
  BY <1>1, <1>3, <1>4 DEF LibTypeOK

-----------------------------------------------------------------------------
(* What a step of a thread does, as far as the order of arrival and the    *)
(* table are concerned.                                                    *)

HoldsMutexa(t) ==
  /\ UsesMutexa(t)
  /\ \/ call[t].at \in {"test", "outside", "event", "again"}
     \/ call[t].at = "mutex" /\ version.outer

(* A thread outside its calls.                                             *)
Away(t) == call[t].at \in {"idle", "ended"}

LibEffect(t) ==
  /\ UNCHANGED <<version, stage, handle>>
  /\ \A k \in Names \cup Processes : k # Key(Proc(t)) => objects'[k] = objects[k]
  /\ \A o \in Threads \ {t} :
       call'[o] = call[o] \/ (call[o].at = "event" /\ call'[o].at = "again")
  /\ \A s \in Slots \cup Processes :
       state'[s].lpName = state[s].lpName /\ state'[s].RefCount = state[s].RefCount
  /\ \/ objects'[Key(Proc(t))].mutexa = objects[Key(Proc(t))].mutexa
     \/ CanOwn(objects[Key(Proc(t))].mutexa, t)
  /\ HoldsMutexa(t)' => objects'[Key(Proc(t))].mutexa.owner = t

(* mutexa belongs to the threads that have taken it and not left it.       *)
OwnersHold == \A t \in Threads : HoldsMutexa(t) => Objects(t).mutexa.owner = t

(* The step of a thread through GoesOn(), which leaves mutexa as it was or *)
(* was free to change it.                                                  *)
LEMMA EffectOfGoesOn ==
  ASSUME LibTypeOK, NEW t \in Threads, NEW next \in CallType, NEW after \in ObjectsType,
         NEW signals \in BOOLEAN, NEW sets \in BOOLEAN,
         GoesOn(t, next, after, signals, sets),
         \/ UNCHANGED state
         \/ \E n \in Int : SetCount(t, n),
         after.mutexa = Objects(t).mutexa \/ CanOwn(Objects(t).mutexa, t),
         UsesMutexa(t)
           /\ (next.at \in {"test", "outside", "event", "again"} \/ (next.at = "mutex" /\ version.outer))
           => after.mutexa.owner = t
  PROVE  LibTypeOK' /\ LibEffect(t) /\ call'[t] = next
<1>1. GoesOnEffect(t, next, after)
  BY GoesOnFacts
<1>2. /\ state' \in [Slots \cup Processes -> StateType]
      /\ \A s \in Slots \cup Processes :
           state'[s].lpName = state[s].lpName /\ state'[s].RefCount = state[s].RefCount
  BY SetCountFacts DEF LibTypeOK
<1>3. LibTypeOK'
  BY <1>1, <1>2 DEF LibTypeOK, GoesOnEffect
<1>4. HoldsMutexa(t)' => objects'[Key(Proc(t))].mutexa.owner = t
  BY <1>1 DEF HoldsMutexa, UsesMutexa, GoesOnEffect
<1>5. \/ objects'[Key(Proc(t))].mutexa = objects[Key(Proc(t))].mutexa
      \/ CanOwn(objects[Key(Proc(t))].mutexa, t)
  BY <1>1 DEF Objects, GoesOnEffect
<1>6. LibEffect(t) /\ call'[t] = next
  BY <1>1, <1>2, <1>4, <1>5 DEF LibEffect, GoesOnEffect
<1> QED
  BY <1>3, <1>6

(* Where a thread goes on.                                                 *)
LEMMA GoesFacts ==
  ASSUME LibTypeOK, NEW t \in Threads, NEW place \in Places
  PROVE  /\ Goes(t, place) \in CallType /\ Goes(t, place).at = place
         /\ \A mutex : /\ GoesOwning(t, place, mutex) \in CallType
                       /\ GoesOwning(t, place, mutex).at = place
<1>1. Goes(t, place) \in CallType /\ Goes(t, place).at = place
  BY DEF LibTypeOK, CallType, Goes
<1>2. ASSUME NEW mutex
      PROVE  GoesOwning(t, place, mutex) \in CallType /\ GoesOwning(t, place, mutex).at = place
  <2> DEFINE abandoned == Abandoned(mutex)
             next == Goes(t, place)
  <2>1. abandoned \in BOOLEAN
    BY DEF Abandoned, At
  <2> HIDE DEF abandoned, next
  <2>2. [next EXCEPT !.abandoned = abandoned] \in CallType
        /\ [next EXCEPT !.abandoned = abandoned].at = next.at
    BY <1>1, <2>1 DEF CallType, next
  <2> QED BY <1>1, <2>2 DEF GoesOwning, abandoned, next
<1> QED
  BY <1>1, <1>2

LEMMA ReleaseStep ==
  ASSUME LibTypeOK, NEW t \in Threads, NEW n \in Int, NEW next \in CallType,
         next.at \in {"idle", "returned"}, ReleaseSemaphoreMW(t, n, next)
  PROVE  LibTypeOK' /\ LibEffect(t) /\ call'[t] \in {next, NoCall}
<1> DEFINE ok == Count(t) + n <= Limit(t) /\ n > 0
           goes == IF ok THEN next ELSE NoCall
<1>1. Objects(t) \in ObjectsType /\ Count(t) \in Int
  BY ObjectsHaveType
<1>2. goes \in CallType /\ goes.at \in {"idle", "returned"}
  BY DEF NoCall, CallAt, CallType, Places
<1>3. GoesOn(t, goes, Objects(t), ok, TRUE)
  BY DEF ReleaseSemaphoreMW
<1>4. \E m \in Int : SetCount(t, m)
  <2>1. Count(t) + n \in Int
    BY <1>1
  <2> QED BY <1>1, <2>1 DEF ReleaseSemaphoreMW
<1>5. ok \in BOOLEAN /\ goes \in {next, NoCall}
  OBVIOUS
<1> HIDE DEF ok, goes
<1>6. LibTypeOK' /\ LibEffect(t) /\ call'[t] = goes
  BY <1>1, <1>2, <1>3, <1>4, <1>5, EffectOfGoesOn
<1> QED
  BY <1>5, <1>6

LEMMA WaitStep ==
  ASSUME LibTypeOK, NEW t \in Threads, NEW n \in Int, WaitForSemaphoreMW(t, n)
  PROVE  LibTypeOK' /\ LibEffect(t)
<1> DEFINE next == IF n <= 0 \/ n > Limit(t) THEN NoCall ELSE CallAt(FirstMutex(t), n)
<1>1. version.outer \in BOOLEAN
  BY VersionType
<1>2. next \in CallType
  BY DEF FirstMutex, CallType, Places, NoCall, CallAt
<1>3. UsesMutexa(t) => next.at \in {"idle", "mutexa"} \/ (next.at = "mutex" /\ ~version.outer)
  BY <1>1 DEF FirstMutex, NoCall, CallAt
<1>4. call' = [call EXCEPT ![t] = next] /\ UNCHANGED <<version, stage, handle, state, objects>>
  BY DEF WaitForSemaphoreMW
<1> HIDE DEF next
<1>5. LibTypeOK' /\ call'[t] = next
  BY <1>2, <1>4 DEF LibTypeOK
<1>6. ~HoldsMutexa(t)'
  BY <1>3, <1>4, <1>5 DEF HoldsMutexa, UsesMutexa
<1>7. \A o \in Threads \ {t} : call'[o] = call[o]
  BY <1>4 DEF LibTypeOK
<1> QED
  BY <1>4, <1>5, <1>6, <1>7 DEF LibEffect

(* The steps of WaitForSemaphoreMW() after its beginning.                  *)
LEMMA InWaitStep ==
  ASSUME LibTypeOK, OwnersHold, NEW t \in Threads, InWait(t)
  PROVE  LibTypeOK' /\ LibEffect(t) /\ ~Away(t)
<1>1. /\ Objects(t) \in ObjectsType /\ Count(t) \in Int
      /\ Objects(t).mutex \in MutexType /\ Objects(t).mutexa \in MutexType
      /\ UsesMutexa(t) \in BOOLEAN /\ call[t].n \in Int
      /\ version.outer \in BOOLEAN /\ version.sets \in BOOLEAN
  BY ObjectsHaveType, VersionType DEF ObjectsType
<1>2. UsesMutexa(t) /\ call[t].at \in {"test", "outside", "event", "again"} => Objects(t).mutexa.owner = t
  BY DEF OwnersHold, HoldsMutexa
<1>3. CASE OwnMutexa(t)
  <2> DEFINE place == IF version.outer THEN "mutex" ELSE "test"
             after == [Objects(t) EXCEPT !.mutexa = Owned(@, t)]
             next == GoesOwning(t, place, Objects(t).mutexa)
  <2>1. place \in Places /\ next \in CallType
    BY GoesFacts DEF Places
  <2>2. after \in ObjectsType /\ after.mutexa.owner = t
    BY <1>1, MutexFacts DEF ObjectsType
  <2>3. GoesOn(t, next, after, FALSE, FALSE) /\ UNCHANGED state
    BY <1>3 DEF OwnMutexa
  <2>4. CanOwn(Objects(t).mutexa, t) /\ ~Away(t)
    BY <1>3 DEF OwnMutexa, Away, At
  <2> HIDE DEF place, after, next
  <2> QED BY <2>1, <2>2, <2>3, <2>4, EffectOfGoesOn
<1>4. CASE OwnMutex(t)
  <2> DEFINE place == IF UsesMutexa(t) /\ ~version.outer THEN "mutexa" ELSE "test"
             after == [Objects(t) EXCEPT !.mutex = Owned(@, t)]
             next == GoesOwning(t, place, Objects(t).mutex)
  <2>1. place \in Places /\ next \in CallType /\ next.at = place
    BY GoesFacts DEF Places
  <2>2. after \in ObjectsType /\ after.mutexa = Objects(t).mutexa
    BY <1>1, MutexFacts DEF ObjectsType
  <2>3. GoesOn(t, next, after, FALSE, FALSE) /\ UNCHANGED state
    BY <1>4 DEF OwnMutex
  <2>4. call[t].at = "mutex" /\ ~Away(t)
    BY <1>4 DEF OwnMutex, Away, At
  <2>5. UsesMutexa(t) /\ version.outer => Objects(t).mutexa.owner = t
    BY <2>4 DEF OwnersHold, HoldsMutexa
  <2>6. UsesMutexa(t) /\ ~version.outer => place = "mutexa"
    OBVIOUS
  <2> HIDE DEF place, after, next
  <2> QED BY <2>1, <2>2, <2>3, <2>4, <2>5, <2>6, EffectOfGoesOn
<1>5. CASE NotEnough(t)
  <2> DEFINE after == [Objects(t) EXCEPT !.mutex = Released(@)]
  <2>1. Goes(t, "outside") \in CallType
    BY GoesFacts DEF Places
  <2>2. after \in ObjectsType /\ after.mutexa = Objects(t).mutexa
    BY <1>1, MutexFacts DEF ObjectsType
  <2>3. GoesOn(t, Goes(t, "outside"), after, FALSE, FALSE) /\ UNCHANGED state
    BY <1>5 DEF NotEnough
  <2>4. call[t].at = "test" /\ ~Away(t)
    BY <1>5 DEF NotEnough, Away, At
  <2> HIDE DEF after
  <2> QED BY <1>2, <2>1, <2>2, <2>3, <2>4, EffectOfGoesOn
<1>6. CASE Enough(t)
  <2> DEFINE after == Freed(t, Objects(t))
             next == IF version.sets THEN Goes(t, "returned") ELSE Goes(t, "pulse")
             signals == version.sets /\ Count(t) > call[t].n
  <2>1. next \in CallType /\ next.at \in {"returned", "pulse"}
    BY GoesFacts DEF Places
  <2>2. after \in ObjectsType /\ (~UsesMutexa(t) => after.mutexa = Objects(t).mutexa)
    BY <1>1, MutexFacts DEF ObjectsType, Freed
  <2>3. GoesOn(t, next, after, signals, TRUE) /\ SetCount(t, Count(t) - call[t].n)
    BY <1>6 DEF Enough
  <2>4. call[t].at = "test" /\ ~Away(t)
    BY <1>6 DEF Enough, Away, At
  <2>5. Count(t) - call[t].n \in Int /\ signals \in BOOLEAN
    BY <1>1
  <2>6. UsesMutexa(t) => Objects(t).mutexa.owner = t
    BY <1>2, <2>4
  <2> HIDE DEF after, next, signals
  <2>7. \E n \in Int : SetCount(t, n)
    BY <2>3, <2>5
  <2>8. after.mutexa = Objects(t).mutexa \/ CanOwn(Objects(t).mutexa, t)
    BY <2>2, <2>6 DEF CanOwn
  <2> QED BY <1>1, <2>1, <2>2, <2>3, <2>4, <2>5, <2>7, <2>8, EffectOfGoesOn
<1>7. CASE PulseLate(t)
  <2> DEFINE signals == Count(t) > 0
  <2>1. Goes(t, "returned") \in CallType /\ Goes(t, "returned").at = "returned"
    BY GoesFacts DEF Places
  <2>2. GoesOn(t, Goes(t, "returned"), Objects(t), signals, FALSE) /\ UNCHANGED state
    BY <1>7 DEF PulseLate
  <2>3. ~Away(t) /\ signals \in BOOLEAN
    BY <1>1, <1>7 DEF PulseLate, Away, At
  <2> HIDE DEF signals
  <2> QED BY <1>1, <2>1, <2>2, <2>3, EffectOfGoesOn
<1>8. CASE StartWait(t)
  <2> DEFINE place == IF Objects(t).event THEN "again" ELSE "event"
             after == [Objects(t) EXCEPT !.event = FALSE]
  <2>1. place \in Places /\ Goes(t, place) \in CallType
    BY GoesFacts DEF Places
  <2>2. after \in ObjectsType /\ after.mutexa = Objects(t).mutexa
    BY <1>1 DEF ObjectsType
  <2>3. GoesOn(t, Goes(t, place), after, FALSE, FALSE) /\ UNCHANGED state
    BY <1>8 DEF StartWait
  <2>4. call[t].at = "outside" /\ ~Away(t)
    BY <1>8 DEF StartWait, Away, At
  <2> HIDE DEF place, after
  <2> QED BY <1>2, <2>1, <2>2, <2>3, <2>4, EffectOfGoesOn
<1>9. CASE Poll(t)
  <2>1. Goes(t, "again") \in CallType
    BY GoesFacts DEF Places
  <2>2. GoesOn(t, Goes(t, "again"), Objects(t), FALSE, FALSE) /\ UNCHANGED state
    BY <1>9 DEF Poll
  <2>3. call[t].at = "event" /\ ~Away(t)
    BY <1>9 DEF Poll, Away, At
  <2> QED BY <1>1, <1>2, <2>1, <2>2, <2>3, EffectOfGoesOn
<1>10. CASE OwnMutexAgain(t)
  <2> DEFINE after == [Objects(t) EXCEPT !.mutex = Owned(@, t)]
             signals == Count(t) > 0
             next == GoesOwning(t, "test", Objects(t).mutex)
  <2>1. next \in CallType
    BY GoesFacts DEF Places
  <2>2. after \in ObjectsType /\ after.mutexa = Objects(t).mutexa
    BY <1>1, MutexFacts DEF ObjectsType
  <2>3. GoesOn(t, next, after, signals, version.sets) /\ UNCHANGED state
    BY <1>10 DEF OwnMutexAgain
  <2>4. call[t].at = "again" /\ ~Away(t) /\ signals \in BOOLEAN
    BY <1>1, <1>10 DEF OwnMutexAgain, Away, At
  <2> HIDE DEF after, signals, next
  <2> QED BY <1>1, <1>2, <2>1, <2>2, <2>3, <2>4, EffectOfGoesOn
<1>11. CASE TimesOut(t)
  <2>1. NoCall \in CallType /\ NoCall.at = "idle"
    BY DEF NoCall, CallAt, CallType, Places
  <2>2. GoesOn(t, NoCall, Objects(t), FALSE, FALSE) /\ UNCHANGED state
    BY <1>11 DEF TimesOut
  <2>3. ~Away(t)
    BY <1>11 DEF TimesOut, Away, At
  <2> QED BY <1>1, <2>1, <2>2, <2>3, EffectOfGoesOn
<1> QED
  BY <1>3, <1>4, <1>5, <1>6, <1>7, <1>8, <1>9, <1>10, <1>11 DEF InWait

-----------------------------------------------------------------------------
(* The steps of the test program.                                          *)

(* A thread that is in a call belongs to a process that runs.              *)
BusyRuns == \A t \in Threads : Away(t) \/ (Running(t) /\ Started(t))

ArrivalInv == TypeOK /\ BusyRuns /\ OwnersHold

(* A step of a thread: its process runs it still, or it is away again.     *)
ThreadEffect(t) ==
  /\ LibEffect(t) /\ UNCHANGED <<input, overlapped>>
  /\ call'[t].at \in {"idle", "ended"} \/ (Running(t) /\ Started(t))

LEMMA ThreadEffectKeeps ==
  ASSUME ArrivalInv, NEW t \in Threads, TypeOK', ThreadEffect(t)
  PROVE  ArrivalInv'
<1>1. /\ UNCHANGED <<version, stage, handle, input>>
      /\ \A o \in Threads \ {t} : call'[o] = call[o] \/ (call[o].at = "event" /\ call'[o].at = "again")
  BY DEF ThreadEffect, LibEffect
<1>2. ASSUME NEW o \in Threads PROVE (Away(o) \/ (Running(o) /\ Started(o)))'
  BY <1>1, <1>2 DEF ArrivalInv, BusyRuns, ThreadEffect, Away, Running, Started
<1>3. ASSUME NEW o \in Threads, HoldsMutexa(o)' PROVE Objects(o)'.mutexa.owner = o
  <2>1. Key(Proc(o))' = Key(Proc(o)) /\ Key(Proc(t))' = Key(Proc(t))
    BY <1>1 DEF Key
  <2>2. Key(Proc(o)) \in Names \cup Processes
    BY KeyType DEF ArrivalInv, TypeOK
  <2>3. CASE o = t
    BY <1>3, <2>1, <2>3 DEF ThreadEffect, LibEffect, Objects
  <2>4. CASE o # t
    <3>1. HoldsMutexa(o)
      BY <1>1, <1>3, <2>4 DEF HoldsMutexa, UsesMutexa
    <3>2. objects[Key(Proc(o))].mutexa.owner = o
      BY <3>1 DEF ArrivalInv, OwnersHold, Objects
    <3>3. o # NoThread /\ call[o].at # "ended"
      BY <3>1, MultiSemAssumption DEF HoldsMutexa
    <3>5. ~CanOwn(objects[Key(Proc(o))].mutexa, t)
      BY <2>4, <3>2, <3>3 DEF CanOwn, Abandoned, At
    <3>4. objects'[Key(Proc(o))].mutexa = objects[Key(Proc(o))].mutexa
      BY <2>2, <2>4, <3>5 DEF ThreadEffect, LibEffect
    <3> QED BY <2>1, <3>2, <3>4 DEF Objects
  <2> QED BY <2>3, <2>4
<1> QED
  BY <1>2, <1>3 DEF ArrivalInv, BusyRuns, OwnersHold

(* A thread that returns to its caller, or ends.                           *)
LEMMA PlainStep ==
  ASSUME LibTypeOK, NEW t \in Threads, NEW next \in CallType, next.at \in {"idle", "ended"},
         call' = [call EXCEPT ![t] = next], UNCHANGED <<version, stage, handle, state, objects>>
  PROVE  LibTypeOK' /\ LibEffect(t) /\ call'[t].at \in {"idle", "ended"}
<1>1. LibTypeOK' /\ call'[t] = next /\ \A o \in Threads \ {t} : call'[o] = call[o]
  BY DEF LibTypeOK
<1>2. ~HoldsMutexa(t)'
  BY <1>1 DEF HoldsMutexa
<1> QED
  BY <1>1, <1>2 DEF LibEffect

LEMMA CreatorsAreThreads == \A p \in Processes : <<p, Ctrl>> \in Threads
BY TestAssumption DEF Threads

LEMMA ProducesStep ==
  ASSUME ArrivalInv, NEW t \in Threads, Produces(t)
  PROVE  TypeOK' /\ ThreadEffect(t)
<1>1. LibTypeOK /\ TestTypeOK /\ Proc(t) \in Processes
  BY KeyType DEF ArrivalInv, TypeOK
<1>2. Units(Proc(t)) \subseteq Int
  BY DEF Units
<1>3. PICK n \in Units(Proc(t)) : ReleaseSemaphoreMW(t, n, CallAt("returned", n))
  BY DEF Produces
<1>4. n \in Int
  BY <1>2
<1>5. CallAt("returned", n) \in CallType /\ CallAt("returned", n).at = "returned"
  BY <1>4 DEF CallAt, CallType, Places
<1>6. LibTypeOK' /\ LibEffect(t)
  BY <1>1, <1>3, <1>4, <1>5, ReleaseStep
<1>7. TestTypeOK' /\ UNCHANGED <<input, overlapped>>
  BY <1>1 DEF Produces, Counted, TestTypeOK
<1>8. Running(t) /\ Started(t)
  BY DEF Produces, MayCall
<1> QED
  BY <1>6, <1>7, <1>8 DEF ThreadEffect, TypeOK

LEMMA ConsumesStep ==
  ASSUME ArrivalInv, NEW t \in Threads, Consumes(t)
  PROVE  TypeOK' /\ ThreadEffect(t)
<1>1. LibTypeOK /\ TestTypeOK
  BY DEF ArrivalInv, TypeOK
<1>2. PICK n \in Units(Proc(t)) : WaitForSemaphoreMW(t, n)
  BY DEF Consumes
<1>3. n \in Int
  BY DEF Units
<1>4. LibTypeOK' /\ LibEffect(t)
  BY <1>1, <1>2, <1>3, WaitStep
<1>5. TestTypeOK' /\ UNCHANGED <<input, overlapped>>
  BY <1>1 DEF Consumes, Counted, TestTypeOK
<1>6. Running(t) /\ Started(t)
  BY DEF Consumes, MayCall
<1> QED
  BY <1>4, <1>5, <1>6 DEF ThreadEffect, TypeOK

LEMMA PendingStep ==
  ASSUME ArrivalInv, NEW t \in Threads, Pending(t)
  PROVE  TypeOK' /\ ThreadEffect(t)
<1>1. LibTypeOK' /\ LibEffect(t) /\ ~Away(t)
  BY InWaitStep DEF Pending, ArrivalInv, TypeOK
<1>2. TestTypeOK' /\ UNCHANGED <<input, overlapped>>
  BY DEF Pending, testVars, TestTypeOK, ArrivalInv, TypeOK
<1>3. Running(t) /\ Started(t)
  BY <1>1 DEF ArrivalInv, BusyRuns
<1> QED
  BY <1>1, <1>2, <1>3 DEF ThreadEffect, TypeOK

LEMMA CountsStep ==
  ASSUME ArrivalInv, NEW t \in Threads, Counts(t)
  PROVE  TypeOK' /\ ThreadEffect(t)
<1>1. LibTypeOK /\ TestTypeOK /\ Proc(t) \in Processes /\ call[t].n \in Int
  BY KeyType, ObjectsHaveType DEF ArrivalInv, TypeOK
<1>2. NoCall \in CallType /\ NoCall.at = "idle"
  BY DEF NoCall, CallAt, CallType, Places
<1>3. call' = [call EXCEPT ![t] = NoCall] /\ UNCHANGED <<version, stage, handle, state, objects>>
  BY DEF Counts
<1>4. LibTypeOK' /\ LibEffect(t) /\ call'[t].at \in {"idle", "ended"}
  BY <1>1, <1>2, <1>3, PlainStep
<1>5. NumProduced' \in [Processes -> Int] /\ NumConsumed' \in [Processes -> Int]
  <2>1. NumProduced[Proc(t)] + call[t].n \in Int /\ NumConsumed[Proc(t)] + call[t].n \in Int
    BY <1>1 DEF TestTypeOK
  <2>2. CASE t[2] \in Producers
    BY <1>1, <2>1, <2>2 DEF Counts, TestTypeOK
  <2>3. CASE t[2] \notin Producers
    BY <1>1, <2>1, <2>3 DEF Counts, TestTypeOK
  <2> QED BY <2>2, <2>3
<1>6. TestTypeOK' /\ UNCHANGED <<input, overlapped>>
  BY <1>1, <1>5 DEF Counts, TestTypeOK
<1> QED
  BY <1>4, <1>6 DEF ThreadEffect, TypeOK

LEMMA EndsStep ==
  ASSUME ArrivalInv, NEW t \in Threads, ThreadEnds(t)
  PROVE  TypeOK' /\ ThreadEffect(t)
<1> DEFINE next == [call[t] EXCEPT !.at = "ended"]
<1>1. LibTypeOK /\ TestTypeOK /\ call[t] \in CallType
  BY ObjectsHaveType DEF ArrivalInv, TypeOK
<1>2. next \in CallType /\ next.at = "ended"
  BY <1>1 DEF CallType, Places
<1>3. /\ call' = [call EXCEPT ![t] = next]
      /\ UNCHANGED <<version, stage, handle, state, objects>>
      /\ UNCHANGED <<input, Exit, rounds, NumProduced, NumConsumed, startCount, users, overlapped>>
  BY DEF ThreadEnds, testVars
<1> HIDE DEF next
<1>4. LibTypeOK' /\ LibEffect(t) /\ call'[t].at \in {"idle", "ended"}
  BY <1>1, <1>2, <1>3, PlainStep
<1>5. TestTypeOK'
  BY <1>1, <1>3 DEF TestTypeOK
<1> QED
  BY <1>3, <1>4, <1>5 DEF ThreadEffect, TypeOK

LEMMA CtrlReleasesStep ==
  ASSUME ArrivalInv, NEW p \in Processes, CtrlReleases(p)
  PROVE  TypeOK' /\ ThreadEffect(<<p, Ctrl>>)
<1> DEFINE t == <<p, Ctrl>>
<1>1. LibTypeOK /\ TestTypeOK /\ t \in Threads
  BY CreatorsAreThreads DEF ArrivalInv, TypeOK
<1>2. NoCall \in CallType /\ NoCall.at = "idle"
  BY DEF NoCall, CallAt, CallType, Places
<1>3. ReleaseSemaphoreMW(t, 1, NoCall)
  BY DEF CtrlReleases
<1>4. rounds' = [rounds EXCEPT ![t] = @ - 1]
  BY DEF CtrlReleases
<1>5. UNCHANGED <<input, Exit, NumProduced, NumConsumed, startCount, users, overlapped>>
  BY DEF CtrlReleases
<1> HIDE DEF t
<1>6. LibTypeOK' /\ LibEffect(t) /\ call'[t] \in {NoCall, NoCall}
  BY <1>1, <1>2, <1>3, ReleaseStep
<1>7. TestTypeOK'
  BY <1>1, <1>4, <1>5 DEF TestTypeOK
<1> QED
  BY <1>2, <1>5, <1>6, <1>7 DEF ThreadEffect, TypeOK, t

(* The steps of a process leave its own threads away and the others alone. *)
LEMMA CreatesStep ==
  ASSUME ArrivalInv, NEW p \in Processes, MainCreates(p)
  PROVE  ArrivalInv'
<1>1. /\ LibTypeOK /\ TestTypeOK /\ stage[p] = "new" /\ input[p] \in InputType
      /\ input[p].Name \in Names \cup {NoName} /\ input[p].FirstCFS \in BOOLEAN
  BY DEF ArrivalInv, TypeOK, MainCreates, AllocSynchHandle, TestTypeOK, InputType
<1>2. \A t \in Threads : Proc(t) = p => Away(t)
  BY <1>1 DEF ArrivalInv, BusyRuns, Running
<1>3. TestTypeOK' /\ UNCHANGED input
  <2>1. UNCHANGED <<input, Exit, rounds, NumProduced, NumConsumed, startCount, users>>
    BY DEF MainCreates
  <2>2. overlapped' \in BOOLEAN
    <3>1. overlapped' = (overlapped \/ Overlaps(p))
      BY DEF MainCreates
    <3>2. Overlaps(p) \in BOOLEAN /\ overlapped \in BOOLEAN
      BY <1>1 DEF Overlaps, TestTypeOK
    <3> QED BY <3>1, <3>2
  <2> QED BY <1>1, <2>1, <2>2 DEF TestTypeOK
<1>4. /\ LibTypeOK' /\ UNCHANGED <<version, objects, call>>
      /\ \A o \in Processes \ {p} : stage'[o] = stage[o] /\ handle'[o] = handle[o]
  <2>1. CASE Valid(input[p].SemInitial, input[p].SemMax)
    <3>1. AllocSynchHandle(p, input[p].Name, input[p].FirstCFS)
      BY <2>1 DEF MainCreates
    <3> QED BY <1>1, <3>1, AllocType DEF AllocSynchHandle, LibTypeOK
  <2>2. CASE ~Valid(input[p].SemInitial, input[p].SemMax)
    BY <1>1, <2>2 DEF MainCreates, LibTypeOK
  <2> QED BY <2>1, <2>2
<1>5. ASSUME NEW t \in Threads PROVE (Away(t) \/ (Running(t) /\ Started(t)))'
  <2>1. Proc(t) # p => Running(t)' = Running(t)
    BY <1>1, <1>4, KeyType DEF Running
  <2>2. Away(t)' = Away(t) /\ Started(t)' = Started(t)
    BY <1>3, <1>4 DEF Away, Started
  <2> QED BY <1>2, <2>1, <2>2 DEF ArrivalInv, BusyRuns
<1>6. ASSUME NEW t \in Threads, HoldsMutexa(t)' PROVE Objects(t)'.mutexa.owner = t
  <2>1. Proc(t) # p
    BY <1>2, <1>4, <1>6 DEF HoldsMutexa, Away
  <2>2. handle'[Proc(t)] = handle[Proc(t)]
    BY <1>1, <1>4, <2>1, KeyType
  <2>3. HoldsMutexa(t) /\ Objects(t)' = Objects(t)
    BY <1>4, <1>6, <2>2 DEF HoldsMutexa, UsesMutexa, Objects, Key
  <2> QED BY <2>3 DEF ArrivalInv, OwnersHold
<1> QED
  BY <1>3, <1>4, <1>5, <1>6 DEF ArrivalInv, TypeOK, BusyRuns, OwnersHold

LEMMA StartsStep ==
  ASSUME ArrivalInv, NEW p \in Processes, MainStarts(p)
  PROVE  ArrivalInv'
<1>1. /\ LibTypeOK /\ TestTypeOK /\ stage[p] = "creating"
      /\ input[p].SemInitial \in Int /\ input[p].SemMax \in Int
      /\ handle[p].hState \in Slots \cup Processes
  BY DEF ArrivalInv, TypeOK, MainStarts, CreateSemaphoreMW, TestTypeOK, InputType, LibTypeOK, HandleType
<1>2. CreateSemaphoreMW(p, input[p].SemInitial, input[p].SemMax)
  BY DEF MainStarts
<1>3. LibTypeOK'
  BY <1>1, <1>2, CreateType
<1>4. /\ UNCHANGED <<version, handle, call, input>>
      /\ stage' = [stage EXCEPT ![p] = "running"]
  BY <1>2 DEF CreateSemaphoreMW, MainStarts
<1>5. TestTypeOK'
  BY <1>1 DEF MainStarts, TestTypeOK, RunningOn
<1>6. \A t \in Threads : Proc(t) = p => Away(t)
  BY <1>1 DEF ArrivalInv, BusyRuns, Running
<1>7. ASSUME NEW t \in Threads PROVE (Away(t) \/ (Running(t) /\ Started(t)))'
  <2>1. Running(t) => Running(t)'
    BY <1>1, <1>4, KeyType DEF Running, LibTypeOK
  <2>2. Away(t)' = Away(t) /\ Started(t)' = Started(t)
    BY <1>4 DEF Away, Started
  <2> QED BY <2>1, <2>2 DEF ArrivalInv, BusyRuns
<1>8. ASSUME NEW t \in Threads, HoldsMutexa(t)' PROVE Objects(t)'.mutexa.owner = t
  <2>1. HoldsMutexa(t) /\ Key(Proc(t))' = Key(Proc(t))
    BY <1>4, <1>8 DEF HoldsMutexa, UsesMutexa, Key
  <2>2. ~Away(t)
    BY <2>1 DEF HoldsMutexa, Away
  <2>3. stage[Proc(t)] = "running" /\ Proc(t) \in Processes \ {p}
    BY <1>6, <2>2, <1>1, KeyType DEF ArrivalInv, BusyRuns, Running
  <2>4. Opened(p) \/ Key(Proc(t)) # Key(p)
    BY <2>3 DEF Opened
  <2>5. objects'[Key(Proc(t))] = objects[Key(Proc(t))]
    BY <1>2, <2>4, <1>1, KeyType DEF CreateSemaphoreMW, LibTypeOK
  <2> QED BY <2>1, <2>5 DEF ArrivalInv, OwnersHold, Objects
<1> QED
  BY <1>3, <1>5, <1>7, <1>8 DEF ArrivalInv, TypeOK, BusyRuns, OwnersHold

LEMMA ClosesStep ==
  ASSUME ArrivalInv, NEW p \in Processes, MainCloses(p)
  PROVE  ArrivalInv'
<1>1. LibTypeOK /\ TestTypeOK /\ Ended(p) /\ CloseSynchHandle(p) /\ UNCHANGED testVars
  BY DEF ArrivalInv, TypeOK, MainCloses
<1>2. LibTypeOK' /\ TestTypeOK'
  BY <1>1, CloseType DEF testVars, TestTypeOK
<1>3. /\ UNCHANGED <<version, handle, objects, call, input>>
      /\ stage' = [stage EXCEPT ![p] = "exited"]
  BY <1>1 DEF CloseSynchHandle, testVars
<1>4. ASSUME NEW t \in Threads PROVE (Away(t) \/ (Running(t) /\ Started(t)))'
  <2>1. Away(t)' = Away(t) /\ Started(t)' = Started(t)
    BY <1>3 DEF Away, Started
  <2>2. CASE Proc(t) = p
    <3>1. Started(t) => Away(t)
      BY <1>1, <2>2 DEF Ended, At, Away
    <3> QED BY <2>1, <3>1 DEF ArrivalInv, BusyRuns
  <2>3. CASE Proc(t) # p
    <3>1. Running(t)' = Running(t)
      BY <1>1, <1>3, <2>3, KeyType DEF Running, LibTypeOK
    <3> QED BY <2>1, <3>1 DEF ArrivalInv, BusyRuns
  <2> QED BY <2>2, <2>3
<1>5. OwnersHold'
  BY <1>3 DEF ArrivalInv, OwnersHold, HoldsMutexa, UsesMutexa, Objects, Key
<1> QED
  BY <1>2, <1>4, <1>5 DEF ArrivalInv, TypeOK, BusyRuns

LEMMA CtrlCStep ==
  ASSUME ArrivalInv, NEW p \in Processes, CtrlC(p)
  PROVE  ArrivalInv'
<1>1. LibTypeOK /\ TestTypeOK /\ <<p, Ctrl>> \in Threads /\ input[p].Consumers \subseteq Consumers
  BY CreatorsAreThreads DEF ArrivalInv, TypeOK, TestTypeOK, InputType
<1>2. Cardinality(input[p].Consumers) \in Int
  <2>1. IsFiniteSet(Roles) /\ input[p].Consumers \subseteq Roles
    BY <1>1, MultiSemAssumption, TestAssumption
  <2>2. IsFiniteSet(input[p].Consumers)
    BY <2>1, FS_Subset
  <2> QED BY <2>2, FS_CardinalityType
<1>3. TestTypeOK'
  BY <1>1, <1>2 DEF CtrlC, TestTypeOK
<1>4. UNCHANGED <<version, stage, handle, state, objects, call, input>>
  BY DEF CtrlC, libVars
<1>5. LibTypeOK'
  BY <1>1, <1>4 DEF LibTypeOK
<1>6. BusyRuns' /\ OwnersHold'
  BY <1>4 DEF ArrivalInv, BusyRuns, OwnersHold, Away, Running, Started, HoldsMutexa, UsesMutexa, Objects, Key
<1> QED
  BY <1>3, <1>5, <1>6 DEF ArrivalInv, TypeOK

LEMMA InitLemma == Init => ArrivalInv
<1> SUFFICES ASSUME Init PROVE ArrivalInv
  OBVIOUS
<1>1. LibTypeOK
  BY DEF Init, LibInit, LibTypeOK, HandleType, StateType, NoState, ObjectsType, NewObjects, FreeMutex,
         MutexType, CallType, NoCall, CallAt, Places
<1>2. TestTypeOK
  <2>1. input \in [Processes -> InputType]
    <3>1. input \in Inputs
      BY DEF Init
    <3> QED BY <3>1, TestAssumption DEF InputType
  <2>2. Exit \in [Processes -> BOOLEAN] /\ overlapped \in BOOLEAN
    BY DEF Init
  <2>3. /\ rounds \in [Threads -> Int] /\ startCount \in [Slots \cup Processes -> Int]
        /\ NumProduced \in [Processes -> Int] /\ NumConsumed \in [Processes -> Int]
        /\ users \in [Slots \cup Processes -> SUBSET Processes]
    BY DEF Init
  <2> QED BY <2>1, <2>2, <2>3 DEF TestTypeOK
<1>3. BusyRuns /\ OwnersHold
  BY DEF Init, LibInit, NoCall, CallAt, BusyRuns, OwnersHold, Away, HoldsMutexa
<1> QED
  BY <1>1, <1>2, <1>3 DEF ArrivalInv, TypeOK

(* The steps of threads, with what all of them do.                         *)
LEMMA ThreadSteps ==
  ASSUME ArrivalInv, NEW t \in Threads, ThreadStep(t)
  PROVE  TypeOK' /\ ThreadEffect(t)
BY ProducesStep, ConsumesStep, PendingStep, CountsStep, EndsStep DEF ThreadStep

LEMMA ArrivalStep == ArrivalInv /\ [Next]_vars => ArrivalInv'
<1> SUFFICES ASSUME ArrivalInv, [Next]_vars PROVE ArrivalInv'
  OBVIOUS
<1>1. CASE \E t \in Threads : ThreadStep(t)
  BY <1>1, ThreadSteps, ThreadEffectKeeps
<1>2. ASSUME NEW p \in Processes, MainStep(p) \/ CtrlC(p) PROVE ArrivalInv'
  BY <1>2, CreatesStep, StartsStep, ClosesStep, CtrlCStep DEF MainStep
<1>3. ASSUME NEW p \in Processes, CtrlReleases(p) PROVE ArrivalInv'
  BY <1>3, CtrlReleasesStep, CreatorsAreThreads, ThreadEffectKeeps
<1>4. CASE UNCHANGED vars
  BY <1>4 DEF vars, libVars, testVars, ArrivalInv, TypeOK, LibTypeOK, TestTypeOK, BusyRuns, OwnersHold,
              Away, Running, Started, HoldsMutexa, UsesMutexa, Objects, Key
<1> QED
  BY <1>1, <1>2, <1>3, <1>4 DEF Next

LEMMA ArrivalInvariant == Spec => []ArrivalInv
BY InitLemma, ArrivalStep, PTL DEF Spec

(* The types of the library's state and of the test program's.             *)
THEOREM TypeCorrect == Spec => []TypeOK
<1>1. ArrivalInv => TypeOK
  BY DEF ArrivalInv
<1> QED BY <1>1, ArrivalInvariant, PTL

(* FirstComeFirstServed for both libraries and any processes that share a  *)
(* semaphore: the thread that waits for the event still owns hMutexa, so   *)
(* that no other one that takes it can be at the test of the count.        *)
THEOREM ServedInOrder == Spec => FirstComeFirstServed
<1> DEFINE Served == \A t, o \in Threads :
                       /\ t # o /\ Before(t) /\ UsesMutexa(t) /\ UsesMutexa(o)
                       /\ Key(Proc(t)) = Key(Proc(o))
                       => ~(Enough(o) /\ call'[o].n = call[o].n)
<1>1. ArrivalInv => Served
  <2> SUFFICES ASSUME ArrivalInv, NEW t \in Threads, NEW o \in Threads, t # o, Before(t),
                      UsesMutexa(t), UsesMutexa(o), Key(Proc(t)) = Key(Proc(o)), Enough(o)
               PROVE  FALSE
    OBVIOUS
  <2>1. HoldsMutexa(t)
    BY DEF Before, HoldsMutexa
  <2>2. HoldsMutexa(o)
    BY DEF Enough, At, HoldsMutexa
  <2>3. Objects(t) = Objects(o)
    BY DEF Objects
  <2> QED BY <2>1, <2>2, <2>3 DEF ArrivalInv, OwnersHold
<1> QED
  BY <1>1, ArrivalInvariant, PTL DEF FirstComeFirstServed

(***************************************************************************)
(* The table of names.                                                     *)
(***************************************************************************)
Refs(s) == {p \in Processes : Live(p) /\ handle[p].hState = s}

(* An entry counts the processes that have it.                             *)
RefsCounted == \A s \in Slots : state[s].RefCount = Cardinality(Refs(s))

HandlesMatch ==
  \A p \in Processes :
    Live(p) => /\ handle[p].lpName = input[p].Name
               /\ handle[p].lpName = NoName => handle[p].hState = p
               /\ handle[p].lpName # NoName => handle[p].hState \in Slots

NamedAt(p, place) == stage[p] = place /\ handle[p].lpName # NoName

OneCreation == \A p, o \in Processes : NamedAt(p, "creating") /\ NamedAt(o, "creating") => p = o

NamesWritten ==
  \A p \in Processes : NamedAt(p, "running") => state[handle[p].hState].lpName = handle[p].lpName

NamesDiffer ==
  \A s, r \in Slots : state[s].lpName = state[r].lpName /\ state[s].lpName # NoName => s = r

(* A process that creates: nobody has its new entry or its name, or the    *)
(* entry it found has the name.                                            *)
NewEntry(p) ==
  /\ \A s \in Slots : state[s].lpName # handle[p].lpName
  /\ \A o \in Processes \ {p} : Live(o) => handle[o].hState # handle[p].hState

EntriesTaken ==
  \A p \in Processes :
    NamedAt(p, "creating") =>
      /\ handle[p].fresh => NewEntry(p)
      /\ ~handle[p].fresh => state[handle[p].hState].lpName = handle[p].lpName

EntriesNamed == OneCreation /\ NamesWritten /\ NamesDiffer /\ EntriesTaken

TableInv == RefsCounted /\ HandlesMatch /\ (~overlapped => EntriesNamed)

LEMMA RefsFinite ==
  ASSUME NEW s \in Slots
  PROVE  IsFiniteSet(Refs(s)) /\ Cardinality(Refs(s)) \in Nat
<1>1. IsFiniteSet(Processes) /\ Refs(s) \in SUBSET Processes
  BY MultiSemAssumption DEF Refs
<1>2. IsFiniteSet(Refs(s))
  BY <1>1, FS_Subset
<1> QED
  BY <1>2, FS_CardinalityType

(* Only processes with a name have an entry of the table, and whether none *)
(* of those is there.                                                      *)
SlotsAreNamed ==
  \A o \in Processes : Live(o) /\ handle[o].hState \in Slots => handle[o].lpName # NoName

OnlyNameless ==
  \A o \in Processes : Live(o) => handle[o].lpName = NoName /\ handle[o].hState \notin Slots

(* The table that a new process finds: as it was, or emptied because       *)
(* nobody has it.                                                          *)
LEMMA TableFound ==
  ASSUME LibTypeOK, RefsCounted, SlotsAreNamed, NEW p \in Processes, stage[p] = "new"
  PROVE  /\ \/ Table(p) = state
            \/ /\ OnlyNameless
               /\ \A s \in Slots : Table(p)[s] = NoState
         /\ \A s \in Slots : Table(p)[s].RefCount = Cardinality(Refs(s))
<1>1. CASE \E o \in Processes \ {p} : Live(o) /\ handle[o].lpName # NoName
  <2>1. Table(p) = state
    BY <1>1 DEF Table
  <2> QED BY <2>1 DEF RefsCounted
<1>2. CASE ~ \E o \in Processes \ {p} : Live(o) /\ handle[o].lpName # NoName
  <2>1. OnlyNameless
    BY <1>2 DEF Live, SlotsAreNamed, OnlyNameless
  <2>2. \A s \in Slots : Table(p)[s] = NoState
    BY <1>2 DEF Table, LibTypeOK
  <2>3. \A s \in Slots : Refs(s) = {}
    BY <2>1 DEF Refs, OnlyNameless
  <2> QED BY <2>1, <2>2, <2>3, FS_EmptySet DEF NoState
<1> QED
  BY <1>1, <1>2

(* With an entry for every process one is free for a new one.              *)
LEMMA RoomForOne ==
  ASSUME LibTypeOK, RefsCounted, SlotsAreNamed, NEW p \in Processes, stage[p] = "new",
         Cardinality(Slots) >= Cardinality(Processes)
  PROVE  Free(Table(p)) # {}
<1> SUFFICES ASSUME Free(Table(p)) = {} PROVE FALSE
  OBVIOUS
<1>1. ASSUME NEW s \in Slots PROVE Refs(s) # {}
  <2>1. ~(Table(p)[s].RefCount <= 0)
    BY DEF Free
  <2>2. Table(p)[s].RefCount = Cardinality(Refs(s))
    BY TableFound
  <2> QED BY <2>1, <2>2, FS_EmptySet
<1> DEFINE f == [s \in Slots |-> CHOOSE q : q \in Refs(s)]
           T == Processes \ {p}
<1>2. ASSUME NEW s \in Slots PROVE f[s] \in Refs(s)
  BY <1>1
<1>3. \A s \in Slots : f[s] \in T /\ handle[f[s]].hState = s
  <2> HIDE DEF f
  <2> QED BY <1>2 DEF Refs, Live
<1>4. f \in Injection(Slots, T)
  <2>1. f = [s \in Slots |-> f[s]]
    OBVIOUS
  <2> HIDE DEF f, T
  <2>2. f \in [Slots -> T]
    BY <1>3, <2>1
  <2>3. \A s, r \in Slots : f[s] = f[r] => s = r
    BY <1>3
  <2> QED BY <2>2, <2>3 DEF Injection, IsInjective
<1>5. IsFiniteSet(Processes) /\ IsFiniteSet(Slots)
  BY MultiSemAssumption
<1>6. IsFiniteSet(T) /\ Cardinality(T) = Cardinality(Processes) - 1 /\ Cardinality(Processes) \in Nat
  BY <1>5, FS_RemoveElement, FS_CardinalityType
<1>7. Cardinality(Slots) <= Cardinality(T) /\ Cardinality(Slots) \in Nat
  BY <1>4, <1>5, <1>6, FS_Injection, FS_CardinalityType
<1> QED
  BY <1>6, <1>7

(* The entry that a new process is given.                                  *)
LEMMA EntryGiven ==
  ASSUME LibTypeOK, RefsCounted, SlotsAreNamed, NEW p \in Processes, stage[p] = "new",
         NEW name \in Names \cup {NoName}, Cardinality(Slots) >= Cardinality(Processes)
  PROVE  \/ name = NoName /\ Entry(p, Table(p), name) = p
         \/ /\ name # NoName /\ Named(Table(p), name) # {}
            /\ Entry(p, Table(p), name) \in Named(Table(p), name)
         \/ /\ name # NoName /\ Named(Table(p), name) = {}
            /\ Entry(p, Table(p), name) \in Free(Table(p))
<1>1. Named(Table(p), name) \subseteq Slots /\ Free(Table(p)) \subseteq Slots /\ Slots \subseteq Nat
  BY MultiSemAssumption DEF Named, Free
<1>2. Free(Table(p)) # {}
  BY RoomForOne
<1>3. First(Free(Table(p))) \in Free(Table(p))
  BY <1>1, <1>2, FirstIsOne
<1>4. CASE name = NoName
  BY <1>4 DEF Entry
<1>5. CASE name # NoName /\ Named(Table(p), name) # {}
  <2>1. First(Named(Table(p), name)) \in Named(Table(p), name)
    BY <1>1, <1>5, FirstIsOne
  <2>2. Entry(p, Table(p), name) = First(Named(Table(p), name))
    BY <1>5 DEF Entry
  <2> QED BY <1>5, <2>1, <2>2
<1>6. CASE name # NoName /\ Named(Table(p), name) = {}
  <2>1. Entry(p, Table(p), name) = First(Free(Table(p)))
    BY <1>2, <1>6 DEF Entry
  <2> QED BY <1>3, <1>6, <2>1
<1> QED
  BY <1>4, <1>5, <1>6

(* Steps that leave the handles and the names in the table as they are.    *)
LEMMA ThreadsKeepTable ==
  ASSUME LibTypeOK, TableInv, UNCHANGED <<stage, handle, input, overlapped>>,
         \A s \in Slots \cup Processes :
           state'[s].lpName = state[s].lpName /\ state'[s].RefCount = state[s].RefCount
  PROVE  TableInv'
<1>1. /\ \A s : Refs(s)' = Refs(s)
      /\ \A p \in Processes : /\ Live(p)' = Live(p)
                               /\ NamedAt(p, "creating")' = NamedAt(p, "creating")
                               /\ NamedAt(p, "running")' = NamedAt(p, "running")
  BY DEF Refs, Live, NamedAt
<1>2. \A p \in Processes : handle[p].hState \in Slots \cup Processes
  BY DEF LibTypeOK, HandleType
<1>3. RefsCounted'
  BY <1>1 DEF TableInv, RefsCounted
<1>4. HandlesMatch'
  BY <1>1 DEF TableInv, HandlesMatch
<1>5. ASSUME ~overlapped' PROVE EntriesNamed'
  <2>1. EntriesNamed
    BY <1>5 DEF TableInv
  <2>2. OneCreation' /\ NamesWritten' /\ NamesDiffer'
    BY <1>1, <1>2, <2>1 DEF EntriesNamed, OneCreation, NamesWritten, NamesDiffer
  <2>3. EntriesTaken'
    BY <1>1, <1>2, <2>1 DEF EntriesNamed, EntriesTaken, NewEntry
  <2> QED BY <2>2, <2>3 DEF EntriesNamed
<1> QED
  BY <1>3, <1>4, <1>5 DEF TableInv

(* A process that takes an entry.                                          *)
LEMMA CreatesKeepsTable ==
  ASSUME ArrivalInv, TableInv, NEW p \in Processes, MainCreates(p),
         Cardinality(Slots) >= Cardinality(Processes)
  PROVE  TableInv'
<1> DEFINE name == input[p].Name
           s == Entry(p, Table(p), name)
<1>1. /\ LibTypeOK /\ TestTypeOK /\ stage[p] = "new" /\ name \in Names \cup {NoName}
      /\ RefsCounted /\ HandlesMatch /\ ~Live(p)
      /\ overlapped' = (overlapped \/ Overlaps(p)) /\ UNCHANGED input
  BY DEF ArrivalInv, TypeOK, TableInv, MainCreates, AllocSynchHandle, TestTypeOK, InputType, Live
<1>4. SlotsAreNamed
  BY <1>1, MultiSemAssumption DEF SlotsAreNamed, HandlesMatch
<1>2. CASE ~Valid(input[p].SemInitial, input[p].SemMax)
  <2>1. stage' = [stage EXCEPT ![p] = "refused"] /\ UNCHANGED <<handle, state>>
    BY <1>2 DEF MainCreates
  <2>2. \A o \in Processes : /\ Live(o)' = Live(o)
                             /\ NamedAt(o, "creating")' = NamedAt(o, "creating")
                             /\ NamedAt(o, "running")' = NamedAt(o, "running")
    BY <1>1, <2>1 DEF Live, NamedAt, LibTypeOK
  <2>3. \A r : Refs(r)' = Refs(r)
    BY <2>1, <2>2 DEF Refs
  <2>4. RefsCounted' /\ HandlesMatch'
    BY <1>1, <2>1, <2>2, <2>3 DEF RefsCounted, HandlesMatch
  <2>5. ASSUME ~overlapped' PROVE EntriesNamed'
    BY <1>1, <2>1, <2>2, <2>5 DEF TableInv, EntriesNamed, OneCreation, NamesWritten, NamesDiffer,
                                  EntriesTaken, NewEntry
  <2> QED BY <2>4, <2>5 DEF TableInv
<1>3. CASE Valid(input[p].SemInitial, input[p].SemMax)
  <2> DEFINE fresh == name = NoName \/ Named(Table(p), name) = {}
  <2>1. AllocSynchHandle(p, name, input[p].FirstCFS)
    BY <1>3 DEF MainCreates
  <2>2. /\ Table(p) \in [Slots \cup Processes -> StateType]
        /\ \A r \in Slots : Table(p)[r].RefCount = Cardinality(Refs(r))
        /\ \/ Table(p) = state
           \/ /\ OnlyNameless
              /\ \A r \in Slots : Table(p)[r] = NoState
    BY <1>1, <1>4, TableFound, TableFacts
  <2>3. \/ name = NoName /\ s = p /\ p \notin Slots /\ fresh
        \/ name # NoName /\ s \in Slots /\ ~fresh /\ Table(p)[s].lpName = name
        \/ /\ name # NoName /\ s \in Slots /\ fresh /\ Table(p)[s].RefCount <= 0
           /\ \A r \in Slots : Table(p)[r].lpName # name
    <3>1. p \notin Slots
      BY MultiSemAssumption
    <3>2. \/ name = NoName /\ s = p
          \/ name # NoName /\ Named(Table(p), name) # {} /\ s \in Named(Table(p), name)
          \/ name # NoName /\ Named(Table(p), name) = {} /\ s \in Free(Table(p))
      BY <1>1, <1>4, EntryGiven
    <3> HIDE DEF s
    <3> QED BY <3>1, <3>2 DEF Named, Free
  <2>4. /\ stage' = [stage EXCEPT ![p] = "creating"]
        /\ \A o \in Processes \ {p} : handle'[o] = handle[o] /\ stage'[o] = stage[o]
        /\ handle'[p].lpName = name /\ handle'[p].hState = s /\ handle'[p].fresh = fresh
        /\ stage'[p] = "creating"
    BY <1>1, <2>1 DEF AllocSynchHandle, LibTypeOK
  <2>5. state' = IF s \in Slots THEN [Table(p) EXCEPT ![s].RefCount = @ + 1] ELSE Table(p)
    BY <2>1 DEF AllocSynchHandle
  <2>6. \A r \in Slots : /\ state'[r].lpName = Table(p)[r].lpName
                         /\ state'[r].RefCount = IF r = s THEN Table(p)[r].RefCount + 1
                                                 ELSE Table(p)[r].RefCount
    <3> HIDE DEF s
    <3>1. \A r \in Slots : Table(p)[r] \in StateType
      BY <2>2
    <3>2. \A r \in Slots : /\ [Table(p)[r] EXCEPT !.RefCount = @ + 1].lpName = Table(p)[r].lpName
                           /\ [Table(p)[r] EXCEPT !.RefCount = @ + 1].RefCount = Table(p)[r].RefCount + 1
      BY <3>1 DEF StateType
    <3> QED BY <2>2, <2>5, <3>2
  <2> HIDE DEF s, fresh, name
  <2>7. /\ \A o \in Processes \ {p} : /\ Live(o)' = Live(o)
                                      /\ NamedAt(o, "creating")' = NamedAt(o, "creating")
                                      /\ NamedAt(o, "running")' = NamedAt(o, "running")
        /\ Live(p)' /\ ~NamedAt(p, "running")'
        /\ NamedAt(p, "creating")' <=> name # NoName
    BY <2>4 DEF Live, NamedAt
  <2>8. RefsCounted'
    <3> SUFFICES ASSUME NEW r \in Slots PROVE state'[r].RefCount = Cardinality(Refs(r)')
      BY DEF RefsCounted
    <3>1. IsFiniteSet(Refs(r)) /\ Cardinality(Refs(r)) \in Nat
      BY RefsFinite
    <3>2. CASE r = s
      <4>1. Refs(r)' = Refs(r) \cup {p} /\ p \notin Refs(r)
        BY <1>1, <2>4, <2>7, <3>2 DEF Refs
      <4>2. Cardinality(Refs(r) \cup {p}) = Cardinality(Refs(r)) + 1
        BY <3>1, <4>1, FS_AddElement
      <4> QED BY <2>2, <2>6, <3>2, <4>1, <4>2
    <3>3. CASE r # s
      <4>1. Refs(r)' = Refs(r)
        BY <1>1, <2>4, <2>7, <3>3 DEF Refs
      <4> QED BY <2>2, <2>6, <3>3, <4>1
    <3> QED BY <3>2, <3>3
  <2>9. HandlesMatch'
    <3>1. handle'[p].lpName = input'[p].Name
      BY <1>1, <2>4 DEF name
    <3>2. /\ handle'[p].lpName = NoName => handle'[p].hState = p
          /\ handle'[p].lpName # NoName => handle'[p].hState \in Slots
      BY <2>3, <2>4
    <3>3. \A o \in Processes \ {p} :
            Live(o)' => /\ handle'[o].lpName = input'[o].Name
                        /\ handle'[o].lpName = NoName => handle'[o].hState = o
                        /\ handle'[o].lpName # NoName => handle'[o].hState \in Slots
      BY <1>1, <2>4, <2>7 DEF HandlesMatch
    <3> QED BY <3>1, <3>2, <3>3 DEF HandlesMatch
  <2>10. ASSUME ~overlapped' PROVE EntriesNamed'
    <3>1. EntriesNamed /\ ~Overlaps(p)
      BY <1>1, <2>10 DEF TableInv
    <3>2. ASSUME NEW o \in Processes \ {p}, NamedAt(o, "creating") PROVE name = NoName
      <4>1. stage[o] = "creating" /\ input[o].Name # NoName
        BY <1>1, <3>2 DEF NamedAt, HandlesMatch, Live
      <4> QED BY <3>1, <4>1 DEF Overlaps, name
    <3>3. OneCreation'
      BY <2>7, <3>1, <3>2 DEF EntriesNamed, OneCreation
    <3>4. ASSUME NEW o \in Processes \ {p}, Live(o), handle[o].lpName # NoName
          PROVE  /\ \A r \in Slots : state'[r].lpName = state[r].lpName
                 /\ handle[o].hState \in Slots
      BY <1>1, <2>2, <2>6, <3>4 DEF HandlesMatch, OnlyNameless
    <3>5. NamesWritten'
      <4> SUFFICES ASSUME NEW o \in Processes, NamedAt(o, "running")'
                   PROVE  state'[handle'[o].hState].lpName = handle'[o].lpName
        BY DEF NamesWritten
      <4>1. o # p /\ NamedAt(o, "running") /\ Live(o) /\ handle'[o] = handle[o]
        BY <2>4, <2>7 DEF NamedAt, Live
      <4> QED BY <3>1, <3>4, <4>1 DEF EntriesNamed, NamesWritten, NamedAt
    <3>6. NamesDiffer'
      <4>1. \A r, q \in Slots : Table(p)[r].lpName = Table(p)[q].lpName /\ Table(p)[r].lpName # NoName => r = q
        BY <2>2, <3>1 DEF EntriesNamed, NamesDiffer, NoState
      <4> QED BY <2>6, <4>1 DEF NamesDiffer
    <3>7. ASSUME NEW o \in Processes, NamedAt(o, "creating")'
          PROVE  (/\ handle[o].fresh => NewEntry(o)
                  /\ ~handle[o].fresh => state[handle[o].hState].lpName = handle[o].lpName)'
      <4>1. CASE o = p
        <5>1. name # NoName /\ s \in Slots
          BY <2>3, <2>7, <3>7, <4>1
        <5>2. CASE fresh
          <6>1. \A r \in Slots : state'[r].lpName # name
            BY <2>3, <2>6, <5>1, <5>2
          <6>2. Cardinality(Refs(s)) = 0
            BY <2>2, <2>3, <5>1, <5>2, RefsFinite
          <6>3. Refs(s) = {}
            BY <5>1, <6>2, RefsFinite, FS_EmptySet
          <6>4. \A q \in Processes \ {p} : Live(q)' => handle'[q].hState # s
            BY <2>4, <2>7, <6>3 DEF Refs
          <6> QED BY <2>4, <4>1, <5>2, <6>1, <6>4 DEF NewEntry
        <5>3. CASE ~fresh
          BY <2>3, <2>4, <2>6, <4>1, <5>1, <5>3
        <5> QED BY <5>2, <5>3
      <4>2. CASE o # p
        <5>1. NamedAt(o, "creating") /\ Live(o) /\ name = NoName /\ handle'[o] = handle[o]
          BY <2>4, <2>7, <3>2, <3>7, <4>2 DEF NamedAt, Live
        <5>2. handle[o].hState \in Slots /\ \A r \in Slots : state'[r].lpName = state[r].lpName
          BY <3>4, <4>2, <5>1 DEF NamedAt
        <5>3. handle'[p].hState = p /\ p \notin Slots
          BY <2>3, <2>4, <5>1
        <5>4. CASE handle[o].fresh
          <6>1. NewEntry(o)
            BY <3>1, <5>1, <5>4 DEF EntriesNamed, EntriesTaken
          <6>2. \A q \in Processes \ {o} : Live(q)' => handle'[q].hState # handle'[o].hState
            BY <2>4, <2>7, <5>1, <5>2, <5>3, <6>1 DEF NewEntry
          <6> QED BY <5>1, <5>2, <5>4, <6>1, <6>2 DEF NewEntry
        <5>5. CASE ~handle[o].fresh
          BY <3>1, <5>1, <5>2, <5>5 DEF EntriesNamed, EntriesTaken
        <5> QED BY <5>4, <5>5
      <4> QED BY <4>1, <4>2
    <3>8. EntriesTaken'
      BY <3>7 DEF EntriesTaken
    <3> QED BY <3>3, <3>5, <3>6, <3>8 DEF EntriesNamed
  <2> QED BY <2>8, <2>9, <2>10 DEF TableInv
<1> QED
  BY <1>2, <1>3

(* A process that writes its entry.                                        *)
LEMMA StartsKeepsTable ==
  ASSUME ArrivalInv, TableInv, NEW p \in Processes, MainStarts(p)
  PROVE  TableInv'
<1> DEFINE s == handle[p].hState
           name == handle[p].lpName
<1>1. /\ LibTypeOK /\ stage[p] = "creating" /\ Live(p) /\ s \in Slots \cup Processes
      /\ RefsCounted /\ HandlesMatch
      /\ stage' = [stage EXCEPT ![p] = "running"] /\ UNCHANGED <<handle, input, overlapped>>
  BY DEF ArrivalInv, TypeOK, TableInv, MainStarts, CreateSemaphoreMW, LibTypeOK, HandleType, Live
<1>2. /\ \A r \in Slots \cup Processes :
           /\ state'[r].RefCount = state[r].RefCount
           /\ state'[r].lpName = IF handle[p].fresh /\ r = s THEN name ELSE state[r].lpName
  <2>1. state' = IF ~handle[p].fresh THEN state
                 ELSE [state EXCEPT ![s] = [@ EXCEPT !.lpName = name, !.CurCount = input[p].SemInitial,
                                                     !.MaxCount = input[p].SemMax]]
    BY DEF MainStarts, CreateSemaphoreMW
  <2>2. state[s] \in StateType
    BY <1>1 DEF LibTypeOK
  <2> DEFINE new == [state[s] EXCEPT !.lpName = name, !.CurCount = input[p].SemInitial,
                                     !.MaxCount = input[p].SemMax]
  <2>3. new.lpName = name /\ new.RefCount = state[s].RefCount
    BY <2>2 DEF StateType
  <2>4. state' = IF ~handle[p].fresh THEN state ELSE [state EXCEPT ![s] = new]
    BY <2>1
  <2> HIDE DEF new, s, name
  <2> QED BY <1>1, <2>3, <2>4 DEF LibTypeOK
<1>3. /\ \A o \in Processes : Live(o)' = Live(o)
      /\ \A o \in Processes \ {p} : /\ NamedAt(o, "creating")' = NamedAt(o, "creating")
                                    /\ NamedAt(o, "running")' = NamedAt(o, "running")
      /\ ~NamedAt(p, "creating")' /\ (NamedAt(p, "running")' <=> name # NoName)
  BY <1>1 DEF Live, NamedAt, LibTypeOK
<1>4. \A r : Refs(r)' = Refs(r)
  BY <1>1, <1>3 DEF Refs
<1>5. RefsCounted'
  BY <1>1, <1>2, <1>4 DEF RefsCounted
<1>6. HandlesMatch'
  BY <1>1, <1>3 DEF HandlesMatch
<1>7. ASSUME ~overlapped' PROVE EntriesNamed'
  <2>1. EntriesNamed
    BY <1>1, <1>7 DEF TableInv
  <2>2. name = NoName => s = p /\ p \notin Slots
    BY <1>1, MultiSemAssumption DEF HandlesMatch
  <2>3. name # NoName => NamedAt(p, "creating") /\ s \in Slots
    BY <1>1 DEF NamedAt, HandlesMatch
  <2>4. OneCreation'
    BY <1>3, <2>1 DEF EntriesNamed, OneCreation
  <2>5. name # NoName => \A o \in Processes : ~NamedAt(o, "creating")'
    BY <1>3, <2>1, <2>3 DEF EntriesNamed, OneCreation
  <2>6. name # NoName /\ handle[p].fresh => NewEntry(p)
    BY <2>1, <2>3 DEF EntriesNamed, EntriesTaken
  <2>7. name # NoName /\ ~handle[p].fresh => state[s].lpName = name
    BY <2>1, <2>3 DEF EntriesNamed, EntriesTaken
  <2>8. NamesWritten'
    <3> SUFFICES ASSUME NEW o \in Processes, NamedAt(o, "running")'
                 PROVE  state'[handle[o].hState].lpName = handle[o].lpName
      BY <1>1 DEF NamesWritten
    <3>1. CASE o = p
      BY <1>1, <1>2, <1>3, <2>7, <3>1
    <3>2. CASE o # p
      <4>1. NamedAt(o, "running") /\ Live(o)
        BY <1>3, <3>2 DEF NamedAt, Live
      <4>2. state[handle[o].hState].lpName = handle[o].lpName /\ handle[o].hState \in Slots
        BY <1>1, <2>1, <4>1 DEF EntriesNamed, NamesWritten, HandlesMatch, NamedAt
      <4>3. handle[p].fresh => handle[o].hState # s
        BY <2>2, <2>6, <3>2, <4>1, <4>2 DEF NewEntry
      <4> QED BY <1>2, <4>2, <4>3
    <3> QED BY <3>1, <3>2
  <2>9. NamesDiffer'
    <3> SUFFICES ASSUME NEW r \in Slots, NEW q \in Slots,
                        state'[r].lpName = state'[q].lpName, state'[r].lpName # NoName
                 PROVE  r = q
      BY DEF NamesDiffer
    <3> HIDE DEF s, name
    <3>1. state[r].lpName = state[q].lpName /\ state[r].lpName # NoName => r = q
      BY <2>1 DEF EntriesNamed, NamesDiffer
    <3>2. name # NoName /\ handle[p].fresh => \A u \in Slots : state[u].lpName # name
      BY <2>6 DEF NewEntry, name
    <3> QED BY <1>2, <2>2, <3>1, <3>2
  <2>10. EntriesTaken'
    <3> SUFFICES ASSUME NEW o \in Processes, NamedAt(o, "creating")'
                 PROVE  (/\ handle[o].fresh => NewEntry(o)
                         /\ ~handle[o].fresh => state[handle[o].hState].lpName = handle[o].lpName)'
      BY DEF EntriesTaken
    <3>1. name = NoName /\ o # p /\ NamedAt(o, "creating") /\ Live(o) /\ s = p /\ p \notin Slots
      BY <1>3, <2>2, <2>5 DEF NamedAt, Live
    <3>2. handle[o].hState \in Slots
      BY <1>1, <3>1 DEF HandlesMatch, NamedAt
    <3>3. \A r \in Slots : state'[r].lpName = state[r].lpName
      BY <1>2, <3>1
    <3>4. /\ handle[o].fresh => NewEntry(o)
          /\ ~handle[o].fresh => state[handle[o].hState].lpName = handle[o].lpName
      BY <2>1, <3>1 DEF EntriesNamed, EntriesTaken
    <3>5. NewEntry(o) => NewEntry(o)'
      BY <1>1, <1>3, <3>3 DEF NewEntry
    <3> QED BY <1>1, <3>2, <3>3, <3>4, <3>5
  <2> QED BY <2>4, <2>8, <2>9, <2>10 DEF EntriesNamed
<1> QED
  BY <1>5, <1>6, <1>7 DEF TableInv

(* A process that gives its entry back.                                    *)
LEMMA ClosesKeepsTable ==
  ASSUME ArrivalInv, TableInv, NEW p \in Processes, MainCloses(p)
  PROVE  TableInv'
<1> DEFINE s == handle[p].hState
<1>1. /\ LibTypeOK /\ stage[p] = "running" /\ Live(p) /\ s \in Slots \cup Processes
      /\ RefsCounted /\ HandlesMatch
      /\ stage' = [stage EXCEPT ![p] = "exited"] /\ UNCHANGED <<handle, input, overlapped>>
  BY DEF ArrivalInv, TypeOK, TableInv, MainCloses, CloseSynchHandle, LibTypeOK, HandleType, Live, testVars
<1>2. \A r \in Slots \cup Processes :
        /\ state'[r].RefCount = IF s \in Slots /\ r = s THEN state[r].RefCount - 1 ELSE state[r].RefCount
        /\ state'[r].lpName = state[r].lpName
  <2> DEFINE new == [state[s] EXCEPT !.RefCount = @ - 1]
  <2>1. state[s] \in StateType
    BY <1>1 DEF LibTypeOK
  <2>2. new.lpName = state[s].lpName /\ new.RefCount = state[s].RefCount - 1
    BY <2>1 DEF StateType
  <2>3. state' = IF s \in Slots THEN [state EXCEPT ![s] = new] ELSE state
    BY DEF MainCloses, CloseSynchHandle
  <2> HIDE DEF new, s
  <2> QED BY <1>1, <2>2, <2>3 DEF LibTypeOK
<1>3. /\ ~Live(p)' /\ \A o \in Processes \ {p} : Live(o)' = Live(o)
      /\ \A o \in Processes : NamedAt(o, "creating")' = NamedAt(o, "creating")
      /\ \A o \in Processes : NamedAt(o, "running")' => NamedAt(o, "running")
  BY <1>1 DEF Live, NamedAt, LibTypeOK
<1>4. RefsCounted'
  <2> SUFFICES ASSUME NEW r \in Slots PROVE state'[r].RefCount = Cardinality(Refs(r)')
    BY DEF RefsCounted
  <2>1. Refs(r)' = Refs(r) \ {p} /\ (p \in Refs(r) <=> r = s)
    BY <1>1, <1>3 DEF Refs
  <2>2. Cardinality(Refs(r) \ {p}) = IF p \in Refs(r) THEN Cardinality(Refs(r)) - 1 ELSE Cardinality(Refs(r))
    BY RefsFinite, FS_RemoveElement
  <2>3. state[r].RefCount = Cardinality(Refs(r))
    BY <1>1 DEF RefsCounted
  <2> QED BY <1>2, <2>1, <2>2, <2>3
<1>5. HandlesMatch'
  BY <1>1, <1>3 DEF HandlesMatch
<1>6. ASSUME ~overlapped' PROVE EntriesNamed'
  <2>1. EntriesNamed /\ \A o \in Processes : handle[o].hState \in Slots \cup Processes
    BY <1>1, <1>6 DEF TableInv, LibTypeOK, HandleType
  <2>2. OneCreation' /\ NamesWritten' /\ NamesDiffer'
    BY <1>1, <1>2, <1>3, <2>1 DEF EntriesNamed, OneCreation, NamesWritten, NamesDiffer
  <2>3. \A o \in Processes : NewEntry(o) => NewEntry(o)'
    BY <1>1, <1>2, <1>3 DEF NewEntry
  <2>4. EntriesTaken'
    BY <1>1, <1>2, <1>3, <2>1, <2>3 DEF EntriesNamed, EntriesTaken
  <2> QED BY <2>2, <2>4 DEF EntriesNamed
<1> QED
  BY <1>4, <1>5, <1>6 DEF TableInv

LEMMA TableInit == Init => TableInv
<1> SUFFICES ASSUME Init PROVE TableInv
  OBVIOUS
<1>1. /\ \A p \in Processes : stage[p] = "new"
      /\ \A s \in Slots : state[s].RefCount = 0 /\ state[s].lpName = NoName
  BY DEF Init, LibInit, NoState
<1>2. \A s \in Slots : Refs(s) = {}
  BY <1>1 DEF Refs, Live
<1>3. RefsCounted
  BY <1>1, <1>2, FS_EmptySet DEF RefsCounted
<1>4. HandlesMatch /\ EntriesNamed
  BY <1>1 DEF HandlesMatch, Live, EntriesNamed, OneCreation, NamesWritten, NamesDiffer, EntriesTaken, NamedAt
<1> QED
  BY <1>3, <1>4 DEF TableInv

LEMMA TableStep ==
  ASSUME Cardinality(Slots) >= Cardinality(Processes)
  PROVE  ArrivalInv /\ TableInv /\ [Next]_vars => TableInv'
<1> SUFFICES ASSUME ArrivalInv, TableInv, [Next]_vars PROVE TableInv'
  OBVIOUS
<1>1. LibTypeOK
  BY DEF ArrivalInv, TypeOK
<1>2. ASSUME NEW t \in Threads, ThreadEffect(t) PROVE TableInv'
  BY <1>1, <1>2, ThreadsKeepTable DEF ThreadEffect, LibEffect
<1>3. CASE \E t \in Threads : ThreadStep(t)
  BY <1>2, <1>3, ThreadSteps
<1>4. ASSUME NEW p \in Processes, MainStep(p) PROVE TableInv'
  BY <1>4, CreatesKeepsTable, StartsKeepsTable, ClosesKeepsTable DEF MainStep
<1>5. ASSUME NEW p \in Processes, CtrlReleases(p) PROVE TableInv'
  BY <1>2, <1>5, CtrlReleasesStep, CreatorsAreThreads
<1>6. ASSUME NEW p \in Processes, CtrlC(p) PROVE TableInv'
  <2>1. UNCHANGED <<stage, handle, state, input, overlapped>>
    BY <1>6 DEF CtrlC, libVars
  <2> QED BY <1>1, <2>1, ThreadsKeepTable
<1>7. CASE UNCHANGED vars
  <2>1. UNCHANGED <<stage, handle, state, input, overlapped>>
    BY <1>7 DEF vars, libVars, testVars
  <2> QED BY <1>1, <2>1, ThreadsKeepTable
<1> QED
  BY <1>3, <1>4, <1>5, <1>6, <1>7 DEF Next

(* OneCountPerName for any number of processes and names, if the table has *)
(* an entry for each process: the names in the table differ, the entry of  *)
(* a process that runs has its name, and no entry is given away while a    *)
(* process has it.                                                         *)
THEOREM OneCount ==
  ASSUME Cardinality(Slots) >= Cardinality(Processes)
  PROVE  Spec => []OneCountPerName
<1>1. ArrivalInv /\ TableInv => OneCountPerName
  <2> SUFFICES ASSUME ArrivalInv, TableInv, NEW p \in Processes, NEW o \in Processes,
                      stage[p] = "running", stage[o] = "running",
                      handle[p].lpName = handle[o].lpName, handle[p].lpName # NoName, ~overlapped
               PROVE  handle[p].hState = handle[o].hState
    BY DEF OneCountPerName
  <2>1. NamedAt(p, "running") /\ NamedAt(o, "running") /\ Live(p) /\ Live(o)
    BY DEF NamedAt, Live
  <2>2. handle[p].hState \in Slots /\ handle[o].hState \in Slots
    BY <2>1 DEF TableInv, HandlesMatch
  <2>3. /\ state[handle[p].hState].lpName = handle[p].lpName
        /\ state[handle[o].hState].lpName = handle[o].lpName
    BY <2>1 DEF TableInv, EntriesNamed, NamesWritten
  <2> QED BY <2>2, <2>3 DEF TableInv, EntriesNamed, NamesDiffer
<1>2. ArrivalInv /\ TableInv /\ [Next]_vars => TableInv'
  BY TableStep
<1> QED
  BY <1>1, <1>2, TableInit, ArrivalInvariant, PTL DEF Spec

(***************************************************************************)
(* Sums: SumFunctionOnSet(), of module Functions, over finite sets.        *)
(***************************************************************************)
(* Among some subsets of a finite set there is one that contains no other  *)
(* of them: what holds of all the subsets of a finite set is proved by     *)
(* looking at a least one of which it does not.                            *)
LEMMA LeastSubset ==
  ASSUME NEW S, IsFiniteSet(S), NEW B \in SUBSET SUBSET S, B # {}
  PROVE  \E T \in B : \A U \in SUBSET T : U # T => U \notin B
<1> DEFINE R == StrictSubsetOrdering(S)
<1>1. FiniteSubsetsOf(S) = SUBSET S
  BY FS_FiniteSubsetsOfFinite
<1>2. IsWellFoundedOn(R, SUBSET S)
  BY <1>1, FS_StrictSubsetOrderingWellFounded
<1> HIDE DEF R
<1>3. PICK T \in B : \A U \in B : ~ (<<U, T>> \in R)
  BY <1>2, WFMin
<1>4. ASSUME NEW U \in SUBSET T, U # T PROVE U \notin B
  <2>1. U \in SUBSET S /\ T \in SUBSET S
    OBVIOUS
  <2>2. <<U, T>> \in R
    BY <1>4, <2>1 DEF R, StrictSubsetOrdering
  <2> QED BY <1>3, <2>2
<1> QED
  BY <1>4

Element(s) == CHOOSE x \in s : TRUE

LEMMA ElementIsIn ==
  ASSUME NEW s, s # {} PROVE Element(s) \in s
BY DEF Element

(* g is the sum of f over each subset of S, by the equation that defines   *)
(* the sum.                                                                *)
SumsUp(g, f, S) ==
  g = [s \in SUBSET S |-> IF s = {} THEN 0 ELSE f[Element(s)] + g[s \ {Element(s)}]]

LEMMA SumIsFold ==
  ASSUME NEW f, NEW S
  PROVE  SumFunctionOnSet(f, S) = (CHOOSE g : SumsUp(g, f, S))[S]
BY DEF SumFunctionOnSet, FoldFunctionOnSet, MapThenFoldSet, SumsUp, Element

(* What the equation says of one subset.                                   *)
LEMMA SumsUpAt ==
  ASSUME NEW g, NEW f, NEW S, SumsUp(g, f, S), NEW s \in SUBSET S
  PROVE  g[s] = IF s = {} THEN 0 ELSE f[Element(s)] + g[s \ {Element(s)}]
<1> DEFINE F == [u \in SUBSET S |-> IF u = {} THEN 0 ELSE f[Element(u)] + g[u \ {Element(u)}]]
<1>1. g = F
  BY DEF SumsUp
<1>2. F[s] = IF s = {} THEN 0 ELSE f[Element(s)] + g[s \ {Element(s)}]
  OBVIOUS
<1> HIDE DEF F
<1> QED BY <1>1, <1>2

LEMMA SumsUpUnique ==
  ASSUME NEW S, IsFiniteSet(S), NEW T \in SUBSET S, NEW f, NEW g, NEW h,
         SumsUp(g, f, S), SumsUp(h, f, T)
  PROVE  \A s \in SUBSET T : g[s] = h[s]
<1> DEFINE B == {s \in SUBSET T : g[s] # h[s]}
<1> SUFFICES ASSUME B # {} PROVE FALSE
  OBVIOUS
<1>1. IsFiniteSet(T)
  BY FS_Subset
<1>2. PICK s \in B : \A u \in SUBSET s : u # s => u \notin B
  <2>1. B \in SUBSET SUBSET T
    OBVIOUS
  <2> HIDE DEF B
  <2> QED BY <1>1, <2>1, LeastSubset
<1>3. s \in SUBSET T /\ s \in SUBSET S
  OBVIOUS
<1>4. g[s] = IF s = {} THEN 0 ELSE f[Element(s)] + g[s \ {Element(s)}]
  BY <1>3, SumsUpAt
<1>5. h[s] = IF s = {} THEN 0 ELSE f[Element(s)] + h[s \ {Element(s)}]
  BY <1>3, SumsUpAt
<1>6. s # {} => g[s \ {Element(s)}] = h[s \ {Element(s)}]
  <2> SUFFICES ASSUME s # {} PROVE g[s \ {Element(s)}] = h[s \ {Element(s)}]
    OBVIOUS
  <2>1. s \ {Element(s)} \in SUBSET s /\ s \ {Element(s)} # s
    BY ElementIsIn
  <2> QED BY <1>2, <1>3, <2>1
<1> QED
  BY <1>4, <1>5, <1>6

LEMMA SumsUpExists ==
  ASSUME NEW S, IsFiniteSet(S), NEW f
  PROVE  \E g : SumsUp(g, f, S)
<1> DEFINE B == {T \in SUBSET S : ~ \E g : SumsUp(g, f, T)}
<1> SUFFICES ASSUME B # {} PROVE FALSE
  OBVIOUS
<1>1. PICK T \in B : \A U \in SUBSET T : U # T => U \notin B
  <2>1. B \in SUBSET SUBSET S
    OBVIOUS
  <2> HIDE DEF B
  <2> QED BY <2>1, LeastSubset
<1>2. T \in SUBSET S /\ IsFiniteSet(T) /\ ~ \E g : SumsUp(g, f, T)
  BY FS_Subset
<1> DEFINE G(U) == CHOOSE g : SumsUp(g, f, U)
           rest(s) == s \ {Element(s)}
           new == [s \in SUBSET T |-> IF s = {} THEN 0 ELSE f[Element(s)] + G(rest(s))[rest(s)]]
<1>3. ASSUME NEW U \in SUBSET T, U # T PROVE SumsUp(G(U), f, U)
  <2>1. U \notin B /\ U \in SUBSET S
    BY <1>1, <1>3
  <2>2. \E g : SumsUp(g, f, U)
    BY <2>1
  <2> QED BY <2>2
<1>4. ASSUME NEW s \in SUBSET T, s # {} PROVE rest(s) \in SUBSET T /\ rest(s) \in SUBSET s /\ rest(s) # T
  BY <1>4, ElementIsIn
<1> HIDE DEF B, G
<1>5. ASSUME NEW U \in SUBSET T, U # T PROVE G(U)[U] = new[U]
  <2>1. G(U)[U] = IF U = {} THEN 0 ELSE f[Element(U)] + G(U)[rest(U)]
    BY <1>3, <1>5, SumsUpAt
  <2>2. U # {} => G(U)[rest(U)] = G(rest(U))[rest(U)]
    <3> SUFFICES ASSUME U # {} PROVE G(U)[rest(U)] = G(rest(U))[rest(U)]
      OBVIOUS
    <3>1. IsFiniteSet(U) /\ rest(U) \in SUBSET U /\ rest(U) \in SUBSET T /\ rest(U) # T
      BY <1>2, <1>4, FS_Subset
    <3>2. SumsUp(G(U), f, U) /\ SumsUp(G(rest(U)), f, rest(U))
      BY <1>3, <1>5, <3>1
    <3> HIDE DEF rest
    <3> QED BY <3>1, <3>2, SumsUpUnique
  <2> HIDE DEF rest
  <2> QED BY <2>1, <2>2
<1>6. SumsUp(new, f, T)
  <2>1. \A s \in SUBSET T : s # {} => G(rest(s))[rest(s)] = new[rest(s)]
    BY <1>4, <1>5
  <2>2. new = [s \in SUBSET T |-> IF s = {} THEN 0 ELSE f[Element(s)] + new[rest(s)]]
    <3>1. new = [s \in SUBSET T |-> IF s = {} THEN 0 ELSE f[Element(s)] + G(rest(s))[rest(s)]]
      OBVIOUS
    <3> HIDE DEF new, rest
    <3> QED BY <2>1, <3>1
  <2> HIDE DEF new
  <2> QED BY <2>2 DEF SumsUp
<1> QED
  BY <1>2, <1>6

(* The sum by its equation.                                                *)
LEMMA SumEquation ==
  ASSUME NEW S, IsFiniteSet(S), NEW f
  PROVE  /\ SumFunctionOnSet(f, {}) = 0
         /\ S # {} => SumFunctionOnSet(f, S) =
                        f[Element(S)] + SumFunctionOnSet(f, S \ {Element(S)})
<1> DEFINE G(U) == CHOOSE g : SumsUp(g, f, U)
           rest == S \ {Element(S)}
<1>1. \A U : SumFunctionOnSet(f, U) = G(U)[U]
  BY SumIsFold
<1>2. IsFiniteSet({}) /\ IsFiniteSet(rest) /\ rest \in SUBSET S
  BY FS_EmptySet, FS_Subset
<1>3. SumsUp(G({}), f, {}) /\ SumsUp(G(S), f, S) /\ SumsUp(G(rest), f, rest)
  <2> HIDE DEF rest
  <2>1. (\E g : SumsUp(g, f, {})) /\ (\E g : SumsUp(g, f, S)) /\ (\E g : SumsUp(g, f, rest))
    BY <1>2, SumsUpExists
  <2> QED BY <2>1
<1> HIDE DEF G
<1>4. G({})[{}] = 0
  BY <1>3, SumsUpAt
<1>5. S # {} => G(S)[S] = f[Element(S)] + G(S)[rest]
  BY <1>3, SumsUpAt
<1>6. G(S)[rest] = G(rest)[rest]
  <2> HIDE DEF rest
  <2> QED BY <1>2, <1>3, SumsUpUnique
<1> QED
  BY <1>1, <1>4, <1>5, <1>6

(* A number, to which each element gives its value.                        *)
LEMMA SumPoint ==
  ASSUME NEW S, IsFiniteSet(S), NEW f, \A x \in S : f[x] \in Int
  PROVE  /\ SumFunctionOnSet(f, S) \in Int
         /\ \A x \in S : SumFunctionOnSet(f, S) = f[x] + SumFunctionOnSet(f, S \ {x})
<1> DEFINE Sum(U) == SumFunctionOnSet(f, U)
           Good(U) == Sum(U) \in Int /\ \A x \in U : Sum(U) = f[x] + Sum(U \ {x})
           B == {T \in SUBSET S : ~Good(T)}
<1>a. \A U \in SUBSET S : /\ IsFiniteSet(U) /\ Sum({}) = 0
                          /\ U # {} => Sum(U) = f[Element(U)] + Sum(U \ {Element(U)})
  BY SumEquation, FS_Subset
<1> HIDE DEF Sum
<1>0. SUFFICES ASSUME B # {} PROVE FALSE
  <2>1. Good(S)
    BY <1>0
  <2> QED BY <2>1 DEF Sum
<1>1. PICK T \in B : \A U \in SUBSET T : U # T => U \notin B
  <2>1. B \in SUBSET SUBSET S
    OBVIOUS
  <2> HIDE DEF B
  <2> QED BY <1>0, <2>1, LeastSubset
<1>2. T \in SUBSET S /\ ~Good(T)
  OBVIOUS
<1>3. \A U \in SUBSET T : U # T => Good(U)
  BY <1>1, <1>2
<1>4. T # {}
  <2>1. Good({})
    <3>1. {} \in SUBSET S
      OBVIOUS
    <3>2. Sum({}) = 0
      BY <1>a, <3>1
    <3> QED BY <3>2
  <2> HIDE DEF Good
  <2> QED BY <1>2, <2>1
<1> DEFINE y == Element(T)
<1>5. y \in T /\ Sum(T) = f[y] + Sum(T \ {y}) /\ f[y] \in Int
  BY <1>2, <1>4, <1>a, ElementIsIn
<1> HIDE DEF y, B
<1>6. Good(T \ {y})
  BY <1>3, <1>5
<1>7. Sum(T) \in Int
  BY <1>5, <1>6
<1>8. ASSUME NEW x \in T PROVE Sum(T) = f[x] + Sum(T \ {x})
  <2>1. CASE x = y
    BY <1>5, <2>1
  <2>2. CASE x # y
    <3>1. Good(T \ {x}) /\ f[x] \in Int
      BY <1>2, <1>3, <1>8
    <3>2. (T \ {x}) \ {y} = (T \ {y}) \ {x} /\ Good((T \ {y}) \ {x})
      BY <1>3, <1>5, <1>8
    <3> DEFINE r == Sum((T \ {y}) \ {x})
    <3>3. Sum(T \ {y}) = f[x] + r
      BY <1>6, <1>8, <2>2
    <3>4. Sum(T \ {x}) = f[y] + r
      BY <3>1, <3>2, <1>5, <2>2
    <3>5. r \in Int
      BY <3>2
    <3> HIDE DEF r, Good
    <3> QED BY <1>5, <3>1, <3>3, <3>4, <3>5
  <2> QED BY <2>1, <2>2
<1> QED
  BY <1>2, <1>7, <1>8

(* Values that are the same have the same sum, and zeros add nothing.      *)
LEMMA SumSame ==
  ASSUME NEW S, IsFiniteSet(S), NEW f, NEW g, \A x \in S : f[x] \in Int /\ g[x] = f[x]
  PROVE  SumFunctionOnSet(f, S) = SumFunctionOnSet(g, S)
<1> DEFINE SumF(U) == SumFunctionOnSet(f, U)
           SumG(U) == SumFunctionOnSet(g, U)
           B == {T \in SUBSET S : SumF(T) # SumG(T)}
<1>a. \A U \in SUBSET S : /\ SumF({}) = 0 /\ SumG({}) = 0
                          /\ U # {} => SumF(U) = f[Element(U)] + SumF(U \ {Element(U)})
                          /\ U # {} => SumG(U) = g[Element(U)] + SumG(U \ {Element(U)})
  BY SumEquation, FS_Subset
<1> HIDE DEF SumF, SumG
<1>0. SUFFICES ASSUME B # {} PROVE FALSE
  BY <1>0 DEF SumF, SumG
<1>1. PICK T \in B : \A U \in SUBSET T : U # T => U \notin B
  <2>1. B \in SUBSET SUBSET S
    OBVIOUS
  <2> HIDE DEF B
  <2> QED BY <1>0, <2>1, LeastSubset
<1>2. T \in SUBSET S /\ SumF(T) # SumG(T)
  OBVIOUS
<1>3. T # {}
  BY <1>2, <1>a
<1> DEFINE y == Element(T)
<1>4. y \in T /\ f[y] = g[y]
  BY <1>2, <1>3, ElementIsIn
<1>5. SumF(T \ {y}) = SumG(T \ {y})
  BY <1>1, <1>2, <1>4
<1>6. SumF(T) = f[y] + SumF(T \ {y}) /\ SumG(T) = g[y] + SumG(T \ {y})
  BY <1>2, <1>3, <1>a
<1> QED
  BY <1>2, <1>4, <1>5, <1>6

(* One value that changes changes the sum by as much.                      *)
LEMMA SumChange ==
  ASSUME NEW S, IsFiniteSet(S), NEW x \in S, NEW f, NEW g,
         \A y \in S : f[y] \in Int /\ g[y] \in Int,
         \A y \in S \ {x} : g[y] = f[y]
  PROVE  SumFunctionOnSet(g, S) = SumFunctionOnSet(f, S) + g[x] - f[x]
<1> DEFINE r == SumFunctionOnSet(f, S \ {x})
<1>1. IsFiniteSet(S \ {x})
  BY FS_RemoveElement
<1>2. r = SumFunctionOnSet(g, S \ {x})
  BY <1>1, SumSame
<1>3. SumFunctionOnSet(f, S) = f[x] + r /\ SumFunctionOnSet(g, S) = g[x] + r
  BY <1>2, SumPoint
<1>4. r \in Int
  BY <1>1, SumPoint
<1> HIDE DEF r
<1> QED
  BY <1>3, <1>4

LEMMA SumOfZeros ==
  ASSUME NEW S, IsFiniteSet(S), NEW f, \A x \in S : f[x] = 0
  PROVE  SumFunctionOnSet(f, S) = 0
<1> DEFINE Sum(U) == SumFunctionOnSet(f, U)
           B == {T \in SUBSET S : Sum(T) # 0}
<1>a. \A U \in SUBSET S : /\ Sum({}) = 0
                          /\ U # {} => Sum(U) = f[Element(U)] + Sum(U \ {Element(U)})
  BY SumEquation, FS_Subset
<1> HIDE DEF Sum
<1>0. SUFFICES ASSUME B # {} PROVE FALSE
  BY <1>0 DEF Sum
<1>1. PICK T \in B : \A U \in SUBSET T : U # T => U \notin B
  <2>1. B \in SUBSET SUBSET S
    OBVIOUS
  <2> HIDE DEF B
  <2> QED BY <1>0, <2>1, LeastSubset
<1>2. T \in SUBSET S /\ Sum(T) # 0 /\ T # {}
  BY <1>a
<1> DEFINE y == Element(T)
<1>3. y \in T /\ f[y] = 0 /\ Sum(T) = f[y] + Sum(T \ {y})
  BY <1>2, <1>a, ElementIsIn
<1>4. Sum(T \ {y}) = 0
  BY <1>1, <1>2, <1>3
<1> QED
  BY <1>2, <1>3, <1>4

LEMMA SumOfPart ==
  ASSUME NEW S, IsFiniteSet(S), NEW P \in SUBSET S, NEW f, NEW g,
         \A x \in P : f[x] \in Int /\ g[x] = f[x],
         \A x \in S \ P : f[x] = 0
  PROVE  SumFunctionOnSet(f, S) = SumFunctionOnSet(g, P)
<1> DEFINE Sum(U) == SumFunctionOnSet(f, U)
           B == {T \in SUBSET (S \ P) : Sum(P \cup T) # Sum(P)}
<1>a. IsFiniteSet(P) /\ IsFiniteSet(S \ P) /\ \A U \in SUBSET S : IsFiniteSet(U)
  BY FS_Subset
<1>b. ASSUME NEW U \in SUBSET S PROVE \A x \in U : Sum(U) = f[x] + Sum(U \ {x})
  <2>1. IsFiniteSet(U) /\ \A x \in U : f[x] \in Int
    BY <1>a
  <2> QED BY <2>1, SumPoint
<1>c. Sum(P) = SumFunctionOnSet(g, P) /\ Sum(P) \in Int
  BY <1>a, SumSame, SumPoint
<1> HIDE DEF Sum
<1>0. SUFFICES ASSUME B # {} PROVE FALSE
  <2>1. Sum(P \cup (S \ P)) = Sum(P) /\ P \cup (S \ P) = S
    BY <1>0
  <2> QED BY <1>c, <2>1 DEF Sum
<1>1. PICK T \in B : \A U \in SUBSET T : U # T => U \notin B
  <2>1. B \in SUBSET SUBSET (S \ P)
    OBVIOUS
  <2> HIDE DEF B
  <2> QED BY <1>0, <1>a, <2>1, LeastSubset
<1>2. T \in SUBSET (S \ P) /\ Sum(P \cup T) # Sum(P)
  OBVIOUS
<1>3. PICK y \in T : TRUE
  <2>1. P \cup {} = P
    OBVIOUS
  <2> QED BY <1>2, <2>1
<1>4. Sum(P \cup (T \ {y})) = Sum(P)
  BY <1>1, <1>2, <1>3
<1>5. P \cup T \in SUBSET S /\ y \in P \cup T /\ (P \cup T) \ {y} = P \cup (T \ {y}) /\ f[y] = 0
  BY <1>2, <1>3
<1>6. Sum(P \cup T) = f[y] + Sum((P \cup T) \ {y})
  BY <1>5, <1>b
<1>7. Sum(P \cup T) = 0 + Sum(P)
  BY <1>4, <1>5, <1>6
<1> QED
  BY <1>2, <1>7, <1>c

(***************************************************************************)
(* The count and the statistics.                                           *)
(***************************************************************************)
CountsInRange ==
  /\ \A s \in Slots \cup Processes : 0 <= state[s].CurCount /\ state[s].CurCount <= state[s].MaxCount
  /\ \A p \in Processes : stage[p] = "creating" => Valid(input[p].SemInitial, input[p].SemMax)

(* Only threads that are not producers take units, and threads end after   *)
(* control-c.                                                              *)
Takes == {"mutexa", "mutex", "test", "outside", "event", "again", "pulse"}

AnyExit == \E p \in Processes : Exit[p]

CallsMatch ==
  \A t \in Threads :
    /\ call[t].at \in Takes => t[2] \notin Producers /\ call[t].n > 0
    /\ call[t].at = "ended" => Exit[Proc(t)]
    /\ call[t].abandoned => AnyExit

(* Who releases units that are not counted, and who has taken units.       *)
HistoryOK ==
  \A p \in Processes :
    /\ rounds[<<p, Ctrl>>] > 0 => Exit[p]
    /\ stage[p] \notin {"running", "exited"} => NumConsumed[p] = 0

(* Who uses a count.                                                       *)
UsersMatch ==
  \A s \in Slots \cup Processes :
    /\ \A p \in users[s] : stage[p] \in {"running", "exited"} /\ handle[p].hState = s
    /\ RunningOn(s) \subseteq users[s]

(* An entry that was written since the table began with zeros, where a     *)
(* process has its state, and who else may have an entry that is not       *)
(* written yet.                                                            *)
Written(s) == s \in Processes \/ state[s].lpName # NoName

EntryOK(p) ==
  /\ handle[p].hState \in Slots \cup {p}
  /\ handle[p].hState \in Slots => handle[p].lpName # NoName
  /\ ~handle[p].fresh => handle[p].hState \in Slots

NotTaken(p) ==
  /\ state[handle[p].hState].lpName # handle[p].lpName
  /\ \A o \in Processes \ {p} :
       Live(o) /\ handle[o].hState = handle[p].hState =>
         ~handle[o].fresh /\ handle[o].lpName # handle[p].lpName

EntriesUsed ==
  \A p \in Processes :
    /\ EntryOK(p)
    /\ stage[p] = "running" \/ (stage[p] = "creating" /\ ~handle[p].fresh)
         => Written(handle[p].hState)
    /\ stage[p] = "creating" /\ handle[p].fresh /\ handle[p].hState \in Slots => NotTaken(p)

(* What the statistics show of the use of s, and what they do not show yet.*)
Shown(s) == [p \in Processes |-> IF p \in users[s] THEN Net[p] ELSE 0]

Due(t) ==
  IF call[t].at \notin {"returned", "pulse"} THEN 0
  ELSE IF t[2] \in Producers THEN call[t].n ELSE 0 - call[t].n

Unshown(s) == [t \in Threads |-> IF Proc(t) \in users[s] THEN Due(t) ELSE 0]

Untouched(s) ==
  /\ Written(s)
  /\ ~AnyExit
  /\ \A p, o \in users[s] : handle[p].lpName = handle[o].lpName

Sums(s) == SumFunctionOnSet(Shown(s), Processes) + SumFunctionOnSet(Unshown(s), Threads)

Accounted ==
  \A s \in Slots \cup Processes : Untouched(s) => Sums(s) = state[s].CurCount - startCount[s]

UsesOK == CallsMatch /\ HistoryOK /\ UsersMatch /\ RefsCounted /\ EntriesUsed

CountInv == ArrivalInv /\ UsesOK /\ CountsInRange /\ Accounted

-----------------------------------------------------------------------------
(* Steps of threads.                                                       *)

LEMMA ThreadsAndProcesses ==
  /\ IsFiniteSet(Processes) /\ IsFiniteSet(Threads)
  /\ \A t \in Threads : Proc(t) \in Processes
  /\ \A p \in Processes : <<p, Ctrl>> \in Threads /\ Proc(<<p, Ctrl>>) = p
  /\ \A r \in Consumers : r \notin Producers
  /\ \A r \in Consumers \cup Producers : r # Ctrl
  /\ \A p \in Processes : p \notin Slots
<1>1. IsFiniteSet(Processes \X Roles)
  BY MultiSemAssumption, FS_Product
<1>2. \A r \in Consumers : r \notin Producers
  BY TestAssumption
<1>3. \A r \in Consumers \cup Producers : r # Ctrl
  BY TestAssumption
<1>4. \A p \in Processes : p \notin Slots
  BY MultiSemAssumption
<1>5. \A t \in Threads : Proc(t) \in Processes
  BY DEF Threads, Proc
<1>6. \A p \in Processes : <<p, Ctrl>> \in Threads /\ Proc(<<p, Ctrl>>) = p
  BY CreatorsAreThreads DEF Proc
<1> QED
  BY <1>1, <1>2, <1>3, <1>4, <1>5, <1>6, MultiSemAssumption DEF Threads

LEMMA NumbersTyped ==
  ASSUME TypeOK
  PROVE  /\ \A p \in Processes : Net[p] \in Int /\ Net[p] = NumProduced[p] - input[p].SemInitial - NumConsumed[p]
         /\ \A t \in Threads : Due(t) \in Int
         /\ \A s \in Slots \cup Processes : /\ state[s].CurCount \in Int /\ state[s].MaxCount \in Int
                                            /\ startCount[s] \in Int
<1>1. ASSUME NEW p \in Processes
      PROVE  Net[p] \in Int /\ Net[p] = NumProduced[p] - input[p].SemInitial - NumConsumed[p]
  <2>1. NumProduced[p] \in Int /\ NumConsumed[p] \in Int /\ input[p] \in InputType
    BY DEF TypeOK, TestTypeOK
  <2>2. input[p].SemInitial \in Int
    BY <2>1 DEF InputType
  <2> QED BY <2>1, <2>2 DEF Net
<1>2. ASSUME NEW t \in Threads PROVE Due(t) \in Int
  <2>1. call[t].n \in Int
    BY ObjectsHaveType DEF TypeOK
  <2> QED BY <2>1 DEF Due
<1>3. \A s \in Slots \cup Processes : /\ state[s].CurCount \in Int /\ state[s].MaxCount \in Int
                                      /\ startCount[s] \in Int
  BY DEF TypeOK, LibTypeOK, TestTypeOK, StateType
<1> QED
  BY <1>1, <1>2, <1>3

(* A thread that sleeps may be woken; the others stay where they are.      *)
StayOrWake(t) ==
  \A o \in Threads \ {t} :
    \/ call'[o] = call[o]
    \/ /\ call[o].at = "event" /\ call'[o].at = "again"
       /\ call'[o].n = call[o].n /\ call'[o].abandoned = call[o].abandoned

LEMMA GoesOnCalls ==
  ASSUME LibTypeOK, NEW t \in Threads, NEW next, NEW after, NEW signals, NEW sets,
         GoesOn(t, next, after, signals, sets)
  PROVE  call'[t] = next /\ StayOrWake(t) /\ UNCHANGED <<stage, handle>>
<1>1. PICK woken :
        call' = [o \in Threads |->
                   CASE o = t -> next
                     [] o \in woken \ {t} -> [call[o] EXCEPT !.at = "again"]
                     [] OTHER -> call[o]]
        /\ woken \in (IF signals THEN WokenOne(t) ELSE {{}})
  BY DEF GoesOn
<1>2. \A o \in woken : call[o].at = "event"
  BY <1>1 DEF WokenOne, Sleepers, At
<1>3. \A o \in Threads : /\ [call[o] EXCEPT !.at = "again"].at = "again"
                         /\ [call[o] EXCEPT !.at = "again"].n = call[o].n
                         /\ [call[o] EXCEPT !.at = "again"].abandoned = call[o].abandoned
  BY DEF LibTypeOK, CallType
<1> DEFINE val(o) == CASE o = t -> next
                       [] o \in woken \ {t} -> [call[o] EXCEPT !.at = "again"]
                       [] OTHER -> call[o]
<1>4. val(t) = next
  <2> DEFINE again == [call[t] EXCEPT !.at = "again"]
  <2> HIDE DEF again
  <2> QED OBVIOUS
<1>5. ASSUME NEW o \in Threads \ {t}
      PROVE  val(o) = IF o \in woken THEN [call[o] EXCEPT !.at = "again"] ELSE call[o]
  <2> DEFINE again == [call[o] EXCEPT !.at = "again"]
  <2> HIDE DEF again
  <2> QED OBVIOUS
<1>6. call' = [o \in Threads |-> val(o)]
  BY <1>1
<1> HIDE DEF val
<1>7. call'[t] = next /\ StayOrWake(t)
  BY <1>2, <1>3, <1>4, <1>5, <1>6 DEF StayOrWake
<1> QED
  BY <1>7 DEF GoesOn

(* Units move between the count and a thread.                              *)
Moves(t, d) ==
  /\ \A s \in Slots \cup Processes :
       /\ state'[s].CurCount = state[s].CurCount + (IF s = handle[Proc(t)].hState THEN d ELSE 0)
       /\ state'[s].MaxCount = state[s].MaxCount /\ state'[s].lpName = state[s].lpName
  /\ 0 <= Count(t) + d /\ Count(t) + d <= Limit(t)

LEMMA SetCountMoves ==
  ASSUME LibTypeOK, NEW t \in Threads, NEW n \in Int, SetCount(t, n), 0 <= n, n <= Limit(t)
  PROVE  Moves(t, n - Count(t))
<1> DEFINE s == handle[Proc(t)].hState
           new == [state[s] EXCEPT !.CurCount = n]
<1>1. s \in Slots \cup Processes /\ Count(t) = state[s].CurCount /\ Count(t) \in Int
  BY ObjectsHaveType DEF Count
<1>2. state[s] \in StateType
  BY <1>1 DEF LibTypeOK
<1>3. new.CurCount = n /\ new.lpName = state[s].lpName /\ new.MaxCount = state[s].MaxCount
  BY <1>2 DEF StateType
<1>4. state' = [state EXCEPT ![s] = new]
  BY DEF SetCount
<1>5. \A r \in Slots \cup Processes : state[r].CurCount \in Int
  BY DEF LibTypeOK, StateType
<1> HIDE DEF new
<1>6. ASSUME NEW r \in Slots \cup Processes
      PROVE  /\ state'[r].CurCount = state[r].CurCount + (IF r = s THEN n - Count(t) ELSE 0)
             /\ state'[r].MaxCount = state[r].MaxCount /\ state'[r].lpName = state[r].lpName
  <2>1. CASE r = s
    <3>1. state'[r] = new
      BY <1>1, <1>4, <2>1 DEF LibTypeOK
    <3> HIDE DEF s
    <3> QED BY <1>1, <1>3, <2>1, <3>1
  <2>2. CASE r # s
    <3>1. state'[r] = state[r]
      BY <1>4, <2>2 DEF LibTypeOK
    <3> HIDE DEF s
    <3> QED BY <1>5, <2>2, <3>1
  <2> QED BY <2>1, <2>2
<1>7. Count(t) + (n - Count(t)) = n
  BY <1>1
<1> QED
  BY <1>6, <1>7 DEF Moves

LEMMA CountsStand ==
  ASSUME LibTypeOK, CountsInRange, NEW t \in Threads, UNCHANGED state
  PROVE  Moves(t, 0)
<1>1. handle[Proc(t)].hState \in Slots \cup Processes /\ Count(t) \in Int
  BY ObjectsHaveType
<1>2. 0 <= Count(t) /\ Count(t) <= Limit(t)
  BY <1>1 DEF CountsInRange, Count, Limit
<1>3. \A r \in Slots \cup Processes : state[r].CurCount \in Int
  BY DEF LibTypeOK, StateType
<1> QED
  BY <1>1, <1>2, <1>3 DEF Moves

(* A call to release units.                                                *)
LEMMA ReleaseMoves ==
  ASSUME LibTypeOK, CountsInRange, NEW t \in Threads, NEW n \in Int, NEW next,
         ReleaseSemaphoreMW(t, n, next)
  PROVE  /\ StayOrWake(t) /\ UNCHANGED <<stage, handle>> /\ call[t].at = "idle"
         /\ \/ call'[t] = next /\ Moves(t, n)
            \/ call'[t] = NoCall /\ Moves(t, 0)
<1> DEFINE ok == Count(t) + n <= Limit(t) /\ n > 0
<1>1. /\ handle[Proc(t)].hState \in Slots \cup Processes
      /\ Count(t) \in Int /\ Limit(t) \in Int
  BY ObjectsHaveType
<1>2. 0 <= Count(t) /\ Count(t) <= Limit(t)
  BY <1>1 DEF CountsInRange, Count, Limit
<1>3. /\ GoesOn(t, IF ok THEN next ELSE NoCall, Objects(t), ok, TRUE) /\ call[t].at = "idle"
      /\ SetCount(t, IF ok THEN Count(t) + n ELSE Count(t))
  BY DEF ReleaseSemaphoreMW, At
<1>4. /\ call'[t] = IF ok THEN next ELSE NoCall
      /\ StayOrWake(t) /\ UNCHANGED <<stage, handle>>
  <2> HIDE DEF ok
  <2> QED BY <1>3, GoesOnCalls
<1>5. CASE ok
  <2>1. SetCount(t, Count(t) + n) /\ 0 <= Count(t) + n /\ Count(t) + n <= Limit(t) /\ Count(t) + n \in Int
    BY <1>1, <1>2, <1>3, <1>5
  <2>2. Moves(t, (Count(t) + n) - Count(t)) /\ (Count(t) + n) - Count(t) = n
    BY <1>1, <2>1, SetCountMoves
  <2> QED BY <1>3, <1>4, <1>5, <2>2
<1>6. CASE ~ok
  <2>1. SetCount(t, Count(t))
    BY <1>3, <1>6
  <2>2. Moves(t, Count(t) - Count(t)) /\ Count(t) - Count(t) = 0
    BY <1>1, <1>2, <2>1, SetCountMoves
  <2> QED BY <1>3, <1>4, <1>6, <2>2
<1> QED
  BY <1>5, <1>6

(* The steps of a call to wait for units.                                  *)
LEMMA WaitMoves ==
  ASSUME LibTypeOK, CountsInRange, CallsMatch, NEW t \in Threads, InWait(t)
  PROVE  /\ StayOrWake(t) /\ UNCHANGED <<stage, handle>> /\ call[t].at \in Takes
         /\ call'[t].abandoned => call[t].abandoned \/ \E o \in Threads : call[o].at = "ended"
         /\ \/ /\ Moves(t, 0) /\ call[t].at # "pulse"
               /\ call'[t] = NoCall \/ (call'[t].at \in Takes \ {"pulse"} /\ call'[t].n = call[t].n)
            \/ Moves(t, 0) /\ call[t].at = "pulse" /\ call'[t].at = "returned" /\ call'[t].n = call[t].n
            \/ /\ Moves(t, 0 - call[t].n) /\ call[t].at = "test"
               /\ call'[t].at \in {"returned", "pulse"} /\ call'[t].n = call[t].n
<1>1. UNCHANGED state => Moves(t, 0)
  BY CountsStand
<1>2. \A place : Goes(t, place).at = place /\ Goes(t, place).n = call[t].n
  BY DEF Goes, LibTypeOK, CallType
<1>a. \A place : Goes(t, place).abandoned = call[t].abandoned
  BY DEF Goes, LibTypeOK, CallType
<1>b. ASSUME NEW place, NEW mutex \in MutexType
      PROVE  /\ GoesOwning(t, place, mutex).at = place
             /\ GoesOwning(t, place, mutex).n = call[t].n
             /\ GoesOwning(t, place, mutex).abandoned => \E o \in Threads : call[o].at = "ended"
  <2> DEFINE abandoned == Abandoned(mutex)
  <2>1. abandoned => \E o \in Threads : call[o].at = "ended"
    BY DEF Abandoned, At, MutexType
  <2> HIDE DEF abandoned
  <2>2. /\ [Goes(t, place) EXCEPT !.abandoned = abandoned].at = place
        /\ [Goes(t, place) EXCEPT !.abandoned = abandoned].n = call[t].n
        /\ [Goes(t, place) EXCEPT !.abandoned = abandoned].abandoned = abandoned
    BY DEF Goes, LibTypeOK, CallType
  <2> QED BY <2>1, <2>2 DEF GoesOwning, abandoned
<1>c. Objects(t).mutex \in MutexType /\ Objects(t).mutexa \in MutexType
  BY ObjectsHaveType DEF ObjectsType
<1>d. NoCall.abandoned = FALSE
  BY DEF NoCall, CallAt
<1>3. ASSUME \E next, after, signals, sets :
               /\ GoesOn(t, next, after, signals, sets)
               /\ \/ next = NoCall
                  \/ \E place \in Takes \ {"pulse"} :
                       next = Goes(t, place) \/ \E mutex \in MutexType : next = GoesOwning(t, place, mutex),
             UNCHANGED state, call[t].at \in Takes \ {"pulse"}
      PROVE  /\ StayOrWake(t) /\ UNCHANGED <<stage, handle>> /\ call[t].at \in Takes
             /\ call'[t].abandoned => call[t].abandoned \/ \E o \in Threads : call[o].at = "ended"
             /\ Moves(t, 0) /\ call[t].at # "pulse"
             /\ call'[t] = NoCall \/ (call'[t].at \in Takes \ {"pulse"} /\ call'[t].n = call[t].n)
  <2>1. PICK next, after, signals, sets :
               /\ GoesOn(t, next, after, signals, sets)
               /\ \/ next = NoCall
                  \/ \E place \in Takes \ {"pulse"} :
                       next = Goes(t, place) \/ \E mutex \in MutexType : next = GoesOwning(t, place, mutex)
    BY <1>3
  <2>2. call'[t] = next /\ StayOrWake(t) /\ UNCHANGED <<stage, handle>>
    BY <2>1, GoesOnCalls
  <2> QED BY <1>1, <1>2, <1>a, <1>b, <1>d, <1>3, <2>1, <2>2
<1>4. CASE OwnMutexa(t)
  <2>1. (IF version.outer THEN "mutex" ELSE "test") \in Takes \ {"pulse"}
    BY DEF Takes
  <2>2. call[t].at \in Takes \ {"pulse"} /\ UNCHANGED state
    BY <1>4 DEF OwnMutexa, At, Takes
  <2> QED BY <1>c, <1>3, <1>4, <2>1, <2>2 DEF OwnMutexa
<1>5. CASE OwnMutex(t)
  <2>1. (IF UsesMutexa(t) /\ ~version.outer THEN "mutexa" ELSE "test") \in Takes \ {"pulse"}
    BY DEF Takes
  <2>2. call[t].at \in Takes \ {"pulse"} /\ UNCHANGED state
    BY <1>5 DEF OwnMutex, At, Takes
  <2> QED BY <1>c, <1>3, <1>5, <2>1, <2>2 DEF OwnMutex
<1>6. CASE NotEnough(t)
  <2>1. "outside" \in Takes \ {"pulse"} /\ call[t].at \in Takes \ {"pulse"} /\ UNCHANGED state
    BY <1>6 DEF NotEnough, At, Takes
  <2> QED BY <1>3, <1>6, <2>1 DEF NotEnough
<1>7. CASE StartWait(t)
  <2>1. (IF Objects(t).event THEN "again" ELSE "event") \in Takes \ {"pulse"}
    BY DEF Takes
  <2>2. call[t].at \in Takes \ {"pulse"} /\ UNCHANGED state
    BY <1>7 DEF StartWait, At, Takes
  <2> QED BY <1>3, <1>7, <2>1, <2>2 DEF StartWait
<1>8. CASE Poll(t)
  <2>1. "again" \in Takes \ {"pulse"} /\ call[t].at \in Takes \ {"pulse"} /\ UNCHANGED state
    BY <1>8 DEF Poll, At, Takes
  <2> QED BY <1>3, <1>8, <2>1 DEF Poll
<1>9. CASE OwnMutexAgain(t)
  <2>1. "test" \in Takes \ {"pulse"} /\ call[t].at \in Takes \ {"pulse"} /\ UNCHANGED state
    BY <1>9 DEF OwnMutexAgain, At, Takes
  <2> QED BY <1>c, <1>3, <1>9, <2>1 DEF OwnMutexAgain
<1>10. CASE TimesOut(t)
  <2>1. call[t].at \in Takes \ {"pulse"} /\ UNCHANGED state
    BY <1>10 DEF TimesOut, At, Takes
  <2>2. GoesOn(t, NoCall, Objects(t), FALSE, FALSE)
    BY <1>10 DEF TimesOut
  <2> QED BY <1>3, <2>1, <2>2
<1>11. CASE PulseLate(t)
  <2>1. call[t].at = "pulse" /\ call[t].at \in Takes /\ UNCHANGED state
    BY <1>11 DEF PulseLate, At, Takes
  <2>2. GoesOn(t, Goes(t, "returned"), Objects(t), Count(t) > 0, FALSE)
    BY <1>11 DEF PulseLate
  <2>3. call'[t] = Goes(t, "returned") /\ StayOrWake(t) /\ UNCHANGED <<stage, handle>>
    BY <2>2, GoesOnCalls
  <2> QED BY <1>1, <1>2, <1>a, <2>1, <2>3
<1>12. CASE Enough(t)
  <2>1. /\ call[t].at = "test" /\ call[t].at \in Takes /\ Count(t) >= call[t].n
        /\ SetCount(t, Count(t) - call[t].n)
    BY <1>12 DEF Enough, At, Takes
  <2>2. /\ handle[Proc(t)].hState \in Slots \cup Processes
        /\ Count(t) \in Int /\ Limit(t) \in Int /\ call[t].n \in Int
    BY ObjectsHaveType
  <2>3. Count(t) <= Limit(t) /\ call[t].n > 0
    BY <2>1, <2>2 DEF CountsInRange, Count, Limit, CallsMatch
  <2>4. Moves(t, (Count(t) - call[t].n) - Count(t)) /\ (Count(t) - call[t].n) - Count(t) = 0 - call[t].n
    BY <2>1, <2>2, <2>3, SetCountMoves
  <2> DEFINE next == IF version.sets THEN Goes(t, "returned") ELSE Goes(t, "pulse")
  <2>5. GoesOn(t, next, Freed(t, Objects(t)), version.sets /\ Count(t) > call[t].n, TRUE)
    BY <1>12 DEF Enough
  <2>6. next.at \in {"returned", "pulse"} /\ next.n = call[t].n /\ next.abandoned = call[t].abandoned
    BY <1>2, <1>a
  <2> HIDE DEF next
  <2>7. call'[t] = next /\ StayOrWake(t) /\ UNCHANGED <<stage, handle>>
    BY <2>5, GoesOnCalls
  <2> QED BY <2>1, <2>4, <2>6, <2>7
<1> QED
  BY <1>4, <1>5, <1>6, <1>7, <1>8, <1>9, <1>10, <1>11, <1>12 DEF InWait

(* What a step of a thread does to the count, to the statistics and to     *)
(* what they do not show yet: what it takes from one it adds to another.   *)
ThreadCounts(t, d) ==
  /\ d \in Int /\ Moves(t, d) /\ Running(t)
  /\ UNCHANGED <<stage, handle, input, Exit, startCount, users>>
  /\ StayOrWake(t)
  /\ call'[t].at \in Takes => t[2] \notin Producers /\ call'[t].n > 0
  /\ call'[t].at = "ended" => Exit[Proc(t)]
  /\ call'[t].abandoned => AnyExit
  /\ \A p \in Processes : rounds'[<<p, Ctrl>>] > 0 => Exit[p]
  /\ \A q \in Processes :
       \/ Net'[q] = Net[q] /\ NumConsumed'[q] = NumConsumed[q]
       \/ q = Proc(t)
  /\ AnyExit \/ (Net'[Proc(t)] - Net[Proc(t)]) + (Due(t)' - Due(t)) = d

(* The rounds of a handler are not those of the other threads.             *)
LEMMA RoundsOfHandlers ==
  ASSUME TypeOK, HistoryOK, NEW t \in Threads, t[2] \in Consumers \cup Producers, Counted(t)
  PROVE  \A p \in Processes : rounds'[<<p, Ctrl>>] > 0 => Exit[p]
<1> SUFFICES ASSUME NEW p \in Processes, rounds'[<<p, Ctrl>>] > 0 PROVE Exit[p]
  OBVIOUS
<1>1. <<p, Ctrl>> # t
  BY ThreadsAndProcesses
<1>2. rounds'[<<p, Ctrl>>] = rounds[<<p, Ctrl>>]
  BY <1>1, ThreadsAndProcesses DEF Counted, TypeOK, TestTypeOK
<1> QED
  BY <1>2 DEF HistoryOK

LEMMA NetStands ==
  ASSUME UNCHANGED <<input, NumProduced, NumConsumed>>
  PROVE  Net' = Net
BY DEF Net

LEMMA ProducesCounts ==
  ASSUME CountInv, NEW t \in Threads, Produces(t)
  PROVE  \E d : ThreadCounts(t, d)
<1>1. /\ LibTypeOK /\ TypeOK /\ CountsInRange /\ HistoryOK /\ Proc(t) \in Processes
      /\ Running(t) /\ Started(t) /\ t[2] \in Producers
  BY ThreadsAndProcesses DEF CountInv, UsesOK, ArrivalInv, TypeOK, Produces, MayCall
<1>2. PICK n \in Units(Proc(t)) : ReleaseSemaphoreMW(t, n, CallAt("returned", n))
  BY DEF Produces
<1>3. n \in Int
  BY DEF Units
<1>4. /\ StayOrWake(t) /\ call[t].at = "idle"
      /\ UNCHANGED <<stage, handle, input, Exit, startCount, users, NumProduced, NumConsumed>>
      /\ \/ call'[t] = CallAt("returned", n) /\ Moves(t, n)
         \/ call'[t] = NoCall /\ Moves(t, 0)
  BY <1>1, <1>2, <1>3, ReleaseMoves DEF Produces
<1>5. \A p \in Processes : rounds'[<<p, Ctrl>>] > 0 => Exit[p]
  BY <1>1, RoundsOfHandlers DEF Produces
<1>6. Net' = Net /\ Net[Proc(t)] \in Int
  BY <1>1, <1>4, NetStands, NumbersTyped
<1>7. Due(t) = 0
  BY <1>4 DEF Due
<1>8. CASE call'[t] = CallAt("returned", n) /\ Moves(t, n)
  <2>1. call'[t].at = "returned" /\ call'[t].n = n /\ call'[t].abandoned = FALSE
    BY <1>8 DEF CallAt
  <2>2. Due(t)' = n
    BY <1>1, <2>1 DEF Due
  <2>3. (Net'[Proc(t)] - Net[Proc(t)]) + (Due(t)' - Due(t)) = n
    BY <1>3, <1>6, <1>7, <2>2
  <2>4. ThreadCounts(t, n)
    BY <1>1, <1>3, <1>4, <1>5, <1>6, <1>8, <2>1, <2>3 DEF ThreadCounts, Takes
  <2> QED BY <2>4
<1>9. CASE call'[t] = NoCall /\ Moves(t, 0)
  <2>1. call'[t].at = "idle" /\ call'[t].abandoned = FALSE
    BY <1>9 DEF NoCall, CallAt
  <2>2. Due(t)' = 0
    BY <2>1 DEF Due
  <2>3. (Net'[Proc(t)] - Net[Proc(t)]) + (Due(t)' - Due(t)) = 0
    BY <1>6, <1>7, <2>2
  <2>4. ThreadCounts(t, 0)
    BY <1>1, <1>4, <1>5, <1>6, <1>9, <2>1, <2>3 DEF ThreadCounts, Takes
  <2> QED BY <2>4
<1> QED
  BY <1>4, <1>8, <1>9

LEMMA ConsumesCounts ==
  ASSUME CountInv, NEW t \in Threads, Consumes(t)
  PROVE  \E d : ThreadCounts(t, d)
<1>1. /\ LibTypeOK /\ TypeOK /\ CountsInRange /\ HistoryOK /\ Proc(t) \in Processes
      /\ Running(t) /\ t[2] \in Consumers /\ t[2] \notin Producers /\ call[t].at = "idle"
  BY ThreadsAndProcesses DEF CountInv, UsesOK, ArrivalInv, TypeOK, Consumes, MayCall, At
<1>2. PICK n \in Units(Proc(t)) : WaitForSemaphoreMW(t, n)
  BY DEF Consumes
<1>3. n \in Int
  BY DEF Units
<1> DEFINE next == IF n <= 0 \/ n > Limit(t) THEN NoCall ELSE CallAt(FirstMutex(t), n)
<1>4. /\ UNCHANGED <<stage, handle, state, input, Exit, startCount, users, NumProduced, NumConsumed>>
      /\ call' = [call EXCEPT ![t] = next]
  BY <1>2 DEF Consumes, WaitForSemaphoreMW
<1>5. /\ next.at \in {"idle", "mutexa", "mutex"} /\ (next.at # "idle" => next.n > 0)
      /\ next.abandoned = FALSE
  BY <1>3 DEF NoCall, CallAt, FirstMutex
<1> HIDE DEF next
<1>6. call'[t] = next /\ StayOrWake(t)
  BY <1>1, <1>4 DEF LibTypeOK, StayOrWake
<1>7. \A p \in Processes : rounds'[<<p, Ctrl>>] > 0 => Exit[p]
  BY <1>1, RoundsOfHandlers DEF Consumes
<1>8. Net' = Net /\ Net[Proc(t)] \in Int
  BY <1>1, <1>4, NetStands, NumbersTyped
<1>9. Due(t) = 0 /\ Due(t)' = 0
  BY <1>1, <1>5, <1>6 DEF Due
<1>10. (Net'[Proc(t)] - Net[Proc(t)]) + (Due(t)' - Due(t)) = 0
  BY <1>8, <1>9
<1>11. Moves(t, 0)
  BY <1>1, <1>4, CountsStand
<1>12. ThreadCounts(t, 0)
  BY <1>1, <1>4, <1>5, <1>6, <1>7, <1>8, <1>10, <1>11 DEF ThreadCounts, Takes
<1> QED
  BY <1>12

LEMMA PendingCounts ==
  ASSUME CountInv, NEW t \in Threads, Pending(t)
  PROVE  \E d : ThreadCounts(t, d)
<1>1. /\ LibTypeOK /\ TypeOK /\ CountsInRange /\ CallsMatch /\ HistoryOK /\ Proc(t) \in Processes
      /\ call[t].n \in Int
  BY ThreadsAndProcesses, ObjectsHaveType DEF CountInv, UsesOK, ArrivalInv, TypeOK
<1>2. /\ StayOrWake(t) /\ UNCHANGED <<stage, handle>> /\ call[t].at \in Takes
      /\ call'[t].abandoned => call[t].abandoned \/ \E o \in Threads : call[o].at = "ended"
      /\ \/ /\ Moves(t, 0) /\ call[t].at # "pulse"
            /\ call'[t] = NoCall \/ (call'[t].at \in Takes \ {"pulse"} /\ call'[t].n = call[t].n)
         \/ Moves(t, 0) /\ call[t].at = "pulse" /\ call'[t].at = "returned" /\ call'[t].n = call[t].n
         \/ /\ Moves(t, 0 - call[t].n) /\ call[t].at = "test"
            /\ call'[t].at \in {"returned", "pulse"} /\ call'[t].n = call[t].n
  BY <1>1, WaitMoves DEF Pending
<1>3. UNCHANGED <<input, Exit, rounds, NumProduced, NumConsumed, startCount, users>>
  BY DEF Pending, testVars
<1>4. Net' = Net /\ Net[Proc(t)] \in Int
  BY <1>1, <1>3, NetStands, NumbersTyped
<1>5. t[2] \notin Producers /\ call[t].n > 0 /\ Running(t)
  BY <1>1, <1>2 DEF CallsMatch, CountInv, ArrivalInv, BusyRuns, Away, Takes
<1>6. \A p \in Processes : rounds'[<<p, Ctrl>>] > 0 => Exit[p]
  BY <1>1, <1>3 DEF HistoryOK
<1>7. call'[t].at # "ended" /\ (call'[t].at \in Takes => call'[t].n > 0)
  BY <1>2, <1>5 DEF Takes, NoCall, CallAt
<1>12. call'[t].abandoned => AnyExit
  BY <1>1, <1>2, ThreadsAndProcesses DEF CallsMatch, AnyExit
<1>8. ASSUME NEW d \in Int, Moves(t, d), Due(t)' - Due(t) = d PROVE ThreadCounts(t, d)
  <2>1. (Net'[Proc(t)] - Net[Proc(t)]) + (Due(t)' - Due(t)) = d
    BY <1>4, <1>8
  <2> QED BY <1>1, <1>2, <1>3, <1>4, <1>5, <1>6, <1>7, <1>8, <1>12, <2>1 DEF ThreadCounts
<1>9. CASE Moves(t, 0) /\ call[t].at # "pulse"
           /\ (call'[t] = NoCall \/ (call'[t].at \in Takes \ {"pulse"} /\ call'[t].n = call[t].n))
  <2>1. Due(t)' = 0 /\ Due(t) = 0
    BY <1>2, <1>9 DEF Due, Takes, NoCall, CallAt
  <2> QED BY <1>8, <1>9, <2>1
<1>10. CASE Moves(t, 0) /\ call[t].at = "pulse" /\ call'[t].at = "returned" /\ call'[t].n = call[t].n
  <2>1. Due(t)' = 0 - call[t].n /\ Due(t) = 0 - call[t].n
    BY <1>5, <1>10 DEF Due
  <2>2. Due(t)' - Due(t) = 0
    BY <1>1, <2>1
  <2> QED BY <1>8, <1>10, <2>2
<1>11. CASE Moves(t, 0 - call[t].n) /\ call[t].at = "test"
            /\ call'[t].at \in {"returned", "pulse"} /\ call'[t].n = call[t].n
  <2>1. Due(t)' = 0 - call[t].n /\ Due(t) = 0
    BY <1>5, <1>11 DEF Due
  <2>2. Due(t)' - Due(t) = 0 - call[t].n /\ 0 - call[t].n \in Int
    BY <1>1, <2>1
  <2> QED BY <1>8, <1>11, <2>2
<1> QED
  BY <1>2, <1>9, <1>10, <1>11

LEMMA CountsCounts ==
  ASSUME CountInv, NEW t \in Threads, Counts(t)
  PROVE  \E d : ThreadCounts(t, d)
<1> DEFINE p == Proc(t)
           n == call[t].n
<1>1. /\ LibTypeOK /\ TypeOK /\ TypeOK' /\ CountsInRange /\ HistoryOK /\ p \in Processes
      /\ n \in Int
  BY ThreadsAndProcesses, ObjectsHaveType, CountsStep DEF CountInv, UsesOK, ArrivalInv, TypeOK
<1>2. /\ call[t].at = "returned" /\ call' = [call EXCEPT ![t] = NoCall]
      /\ UNCHANGED <<stage, handle, state, input, Exit, rounds, startCount, users>>
      /\ \/ call[t].abandoned /\ UNCHANGED <<NumProduced, NumConsumed>>
         \/ /\ t[2] \in Producers /\ UNCHANGED NumConsumed
            /\ NumProduced' = [NumProduced EXCEPT ![p] = @ + n]
         \/ /\ t[2] \notin Producers /\ UNCHANGED NumProduced
            /\ NumConsumed' = [NumConsumed EXCEPT ![p] = @ + n]
  BY DEF Counts, At
<1>3. Running(t) /\ Started(t)
  BY <1>2 DEF CountInv, ArrivalInv, BusyRuns, Away
<1>4. call'[t] = NoCall /\ StayOrWake(t) /\ call'[t].at = "idle" /\ call'[t].abandoned = FALSE
  BY <1>1, <1>2 DEF LibTypeOK, StayOrWake, NoCall, CallAt
<1>5. \A q \in Processes : rounds'[<<q, Ctrl>>] > 0 => Exit[q]
  BY <1>1, <1>2 DEF HistoryOK
<1>6. /\ \A q \in Processes : /\ Net[q] = NumProduced[q] - input[q].SemInitial - NumConsumed[q]
                              /\ Net'[q] = NumProduced'[q] - input[q].SemInitial - NumConsumed'[q]
      /\ NumProduced \in [Processes -> Int] /\ NumConsumed \in [Processes -> Int]
      /\ input[p].SemInitial \in Int
  BY <1>1, <1>2 DEF Net, TypeOK, TestTypeOK, InputType
<1>7. \A q \in Processes \ {p} : Net'[q] = Net[q] /\ NumConsumed'[q] = NumConsumed[q]
  <2> HIDE DEF p, n
  <2> QED BY <1>2, <1>6
<1>13. call[t].abandoned => AnyExit
  BY DEF CountInv, UsesOK, CallsMatch
<1>8. AnyExit \/ Net'[p] - Net[p] = Due(t)
  <2> DEFINE a == NumProduced[p]
             b == NumConsumed[p]
             i == input[p].SemInitial
  <2>1. a \in Int /\ b \in Int /\ i \in Int
    BY <1>1, <1>6
  <2>2. CASE t[2] \in Producers /\ ~call[t].abandoned
    <3>1. NumProduced'[p] = a + n /\ NumConsumed'[p] = b
      BY <1>1, <1>2, <1>6, <2>2
    <3>2. Due(t) = n
      BY <1>2, <2>2 DEF Due
    <3>3. Net'[p] = a + n - i - b /\ Net[p] = a - i - b
      BY <1>1, <1>6, <3>1
    <3> HIDE DEF a, b, i, n
    <3> QED BY <1>1, <2>1, <3>2, <3>3
  <2>3. CASE t[2] \notin Producers /\ ~call[t].abandoned
    <3>1. NumConsumed'[p] = b + n /\ NumProduced'[p] = a
      BY <1>1, <1>2, <1>6, <2>3
    <3>2. Due(t) = 0 - n
      BY <1>2, <2>3 DEF Due
    <3>3. Net'[p] = a - i - (b + n) /\ Net[p] = a - i - b
      BY <1>1, <1>6, <3>1
    <3> HIDE DEF a, b, i, n
    <3> QED BY <1>1, <2>1, <3>2, <3>3
  <2> QED BY <1>13, <2>2, <2>3
<1>9. Due(t) \in Int /\ Due(t)' = 0
  BY <1>1, <1>4, NumbersTyped DEF Due
<1>10. AnyExit \/ (Net'[p] - Net[p]) + (Due(t)' - Due(t)) = 0
  BY <1>8, <1>9
<1>11. Moves(t, 0)
  BY <1>1, <1>2, CountsStand
<1>12. ThreadCounts(t, 0)
  BY <1>1, <1>2, <1>3, <1>4, <1>5, <1>7, <1>10, <1>11 DEF ThreadCounts, Takes
<1> QED
  BY <1>12

LEMMA EndsCounts ==
  ASSUME CountInv, NEW t \in Threads, ThreadEnds(t)
  PROVE  \E d : ThreadCounts(t, d)
<1>1. /\ LibTypeOK /\ TypeOK /\ CountsInRange /\ HistoryOK /\ Proc(t) \in Processes
  BY ThreadsAndProcesses DEF CountInv, UsesOK, ArrivalInv, TypeOK
<1>2. /\ Running(t) /\ Exit[Proc(t)] /\ call' = [call EXCEPT ![t].at = "ended"]
      /\ UNCHANGED <<stage, handle, state, input, Exit, rounds, startCount, users, NumProduced, NumConsumed>>
  BY DEF ThreadEnds, testVars
<1>3. StayOrWake(t) /\ call'[t].at = "ended"
  BY <1>1, <1>2 DEF LibTypeOK, CallType, StayOrWake
<1>4. Net' = Net /\ \A q \in Processes : rounds'[<<q, Ctrl>>] > 0 => Exit[q]
  BY <1>1, <1>2, NetStands DEF HistoryOK
<1>5. Moves(t, 0)
  BY <1>1, <1>2, CountsStand
<1>7. AnyExit
  BY <1>1, <1>2 DEF AnyExit
<1>6. ThreadCounts(t, 0)
  BY <1>1, <1>2, <1>3, <1>4, <1>5, <1>7 DEF ThreadCounts, Takes
<1> QED
  BY <1>6

(* The handler's releases: no statistics show them.                        *)
LEMMA CtrlReleasesCounts ==
  ASSUME CountInv, NEW p \in Processes, CtrlReleases(p)
  PROVE  \E d : ThreadCounts(<<p, Ctrl>>, d)
<1> DEFINE t == <<p, Ctrl>>
<1>1. /\ LibTypeOK /\ TypeOK /\ CountsInRange /\ HistoryOK /\ t \in Threads /\ Proc(t) = p
  BY ThreadsAndProcesses DEF CountInv, UsesOK, ArrivalInv, TypeOK
<1>2. /\ Running(t) /\ rounds[t] > 0 /\ ReleaseSemaphoreMW(t, 1, NoCall)
      /\ rounds' = [rounds EXCEPT ![t] = @ - 1]
      /\ UNCHANGED <<input, Exit, NumProduced, NumConsumed, startCount, users>>
  BY DEF CtrlReleases
<1>3. Exit[p]
  BY <1>1, <1>2 DEF HistoryOK
<1>4. \A q \in Processes : rounds'[<<q, Ctrl>>] > 0 => Exit[q]
  <2> SUFFICES ASSUME NEW q \in Processes, rounds'[<<q, Ctrl>>] > 0 PROVE Exit[q]
    OBVIOUS
  <2>1. CASE q = p
    BY <1>3, <2>1
  <2>2. CASE q # p
    <3>1. rounds'[<<q, Ctrl>>] = rounds[<<q, Ctrl>>]
      BY <1>2, <2>2, ThreadsAndProcesses, <1>1 DEF TypeOK, TestTypeOK
    <3> QED BY <1>1, <3>1 DEF HistoryOK
  <2> QED BY <2>1, <2>2
<1> HIDE DEF t
<1>5. StayOrWake(t) /\ UNCHANGED <<stage, handle>> /\ call'[t] = NoCall /\ (Moves(t, 1) \/ Moves(t, 0))
  BY <1>1, <1>2, ReleaseMoves
<1>6. Net' = Net /\ call'[t].at = "idle"
  BY <1>2, <1>5, NetStands DEF NoCall, CallAt
<1>9. AnyExit
  BY <1>1, <1>3 DEF AnyExit
<1>7. ASSUME NEW d \in Int, Moves(t, d) PROVE ThreadCounts(t, d)
  BY <1>1, <1>2, <1>3, <1>4, <1>5, <1>6, <1>7, <1>9 DEF ThreadCounts, Takes
<1>8. \E d : ThreadCounts(t, d)
  BY <1>5, <1>7
<1> QED
  BY <1>8 DEF t

(* A step of a thread keeps what the calls and the entries satisfy, ...    *)
LEMMA ThreadKeepsUses ==
  ASSUME CountInv, TypeOK', NEW t \in Threads, NEW d, ThreadCounts(t, d), RefsCounted'
  PROVE  UsesOK'
<1>1. /\ TypeOK /\ CallsMatch /\ HistoryOK /\ UsersMatch /\ EntriesUsed /\ Proc(t) \in Processes /\ Running(t)
      /\ UNCHANGED <<stage, handle, input, Exit, users>>
      /\ \A s \in Slots \cup Processes : state'[s].lpName = state[s].lpName
  BY ThreadsAndProcesses DEF CountInv, UsesOK, ArrivalInv, ThreadCounts, Moves
<1>2. CallsMatch'
  <2> SUFFICES ASSUME NEW o \in Threads
               PROVE  /\ call'[o].at \in Takes => o[2] \notin Producers /\ call'[o].n > 0
                      /\ call'[o].at = "ended" => Exit'[Proc(o)]
                      /\ call'[o].abandoned => AnyExit
    BY <1>1 DEF CallsMatch, AnyExit
  <2>1. CASE o = t
    BY <1>1, <2>1 DEF ThreadCounts
  <2>2. CASE o # t
    <3>1. \/ call'[o] = call[o]
          \/ /\ call[o].at = "event" /\ call'[o].at = "again" /\ call'[o].n = call[o].n
             /\ call'[o].abandoned = call[o].abandoned
      BY <2>2 DEF ThreadCounts, StayOrWake
    <3> QED BY <1>1, <3>1 DEF CallsMatch, Takes
  <2> QED BY <2>1, <2>2
<1>3. HistoryOK'
  <2> SUFFICES ASSUME NEW p \in Processes
               PROVE  /\ rounds'[<<p, Ctrl>>] > 0 => Exit'[p]
                      /\ stage'[p] \notin {"running", "exited"} => NumConsumed'[p] = 0
    BY DEF HistoryOK
  <2>1. rounds'[<<p, Ctrl>>] > 0 => Exit[p]
    BY DEF ThreadCounts
  <2>2. NumConsumed'[p] = NumConsumed[p] \/ stage[p] = "running"
    BY <1>1 DEF ThreadCounts, Running
  <2> QED BY <1>1, <2>1, <2>2 DEF HistoryOK
<1>5. UsersMatch'
  BY <1>1 DEF UsersMatch, RunningOn
<1>4. EntriesUsed'
  <2>1. \A p \in Processes : handle[p].hState \in Slots \cup Processes
    BY <1>1 DEF TypeOK, LibTypeOK, HandleType
  <2>2. \A p \in Processes : /\ EntryOK(p)' <=> EntryOK(p)
                             /\ NotTaken(p)' <=> NotTaken(p)
                             /\ Written(handle[p].hState)' <=> Written(handle[p].hState)
    BY <1>1, <2>1 DEF EntryOK, NotTaken, Written, Live
  <2> QED BY <1>1, <2>2 DEF EntriesUsed
<1> QED
  BY <1>2, <1>3, <1>4, <1>5 DEF UsesOK

LEMMA ThreadKeepsRange ==
  ASSUME CountInv, NEW t \in Threads, NEW d, ThreadCounts(t, d)
  PROVE  CountsInRange'
<1>1. /\ CountsInRange /\ UNCHANGED <<stage, handle, input>> /\ Moves(t, d) /\ d \in Int /\ TypeOK
  BY DEF CountInv, ArrivalInv, ThreadCounts
<1>2. ASSUME NEW s \in Slots \cup Processes
      PROVE  0 <= state'[s].CurCount /\ state'[s].CurCount <= state'[s].MaxCount
  <2>1. 0 <= state[s].CurCount /\ state[s].CurCount <= state[s].MaxCount /\ state[s].CurCount \in Int
    BY <1>1, NumbersTyped DEF CountsInRange
  <2>2. CASE s = handle[Proc(t)].hState
    BY <1>1, <2>2 DEF Moves, Count, Limit
  <2>3. CASE s # handle[Proc(t)].hState
    BY <1>1, <2>1, <2>3 DEF Moves
  <2> QED BY <2>2, <2>3
<1> QED
  BY <1>1, <1>2 DEF CountsInRange

(* ... and the account of every entry.                                     *)
LEMMA FunctionsTyped ==
  ASSUME TypeOK, NEW s
  PROVE  /\ \A p \in Processes : Shown(s)[p] = (IF p \in users[s] THEN Net[p] ELSE 0) /\ Shown(s)[p] \in Int
         /\ \A t \in Threads : /\ Unshown(s)[t] = IF Proc(t) \in users[s] THEN Due(t) ELSE 0
                               /\ Unshown(s)[t] \in Int
BY NumbersTyped DEF Shown, Unshown

(* The same of the next state.                                             *)
LEMMA NextNumbersTyped ==
  ASSUME TypeOK'
  PROVE  /\ \A p \in Processes : Net'[p] \in Int
         /\ \A t \in Threads : Due(t)' \in Int
<1>1. ASSUME NEW p \in Processes PROVE Net'[p] \in Int
  <2>1. NumProduced'[p] \in Int /\ NumConsumed'[p] \in Int /\ input'[p] \in InputType
    BY DEF TypeOK, TestTypeOK
  <2>2. input'[p].SemInitial \in Int
    BY <2>1 DEF InputType
  <2> QED BY <2>1, <2>2 DEF Net
<1>2. ASSUME NEW t \in Threads PROVE Due(t)' \in Int
  <2>1. call'[t].n \in Int
    BY DEF TypeOK, LibTypeOK, CallType
  <2> QED BY <2>1 DEF Due
<1> QED
  BY <1>1, <1>2

LEMMA NextFunctionsTyped ==
  ASSUME TypeOK', NEW s
  PROVE  /\ \A p \in Processes : Shown(s)'[p] \in Int
         /\ \A t \in Threads : Unshown(s)'[t] \in Int
BY NextNumbersTyped DEF Shown, Unshown

LEMMA SumsTyped ==
  ASSUME TypeOK, NEW s
  PROVE  /\ SumFunctionOnSet(Shown(s), Processes) \in Int
         /\ SumFunctionOnSet(Unshown(s), Threads) \in Int
         /\ Sums(s) \in Int
<1>1. /\ SumFunctionOnSet(Shown(s), Processes) \in Int
      /\ SumFunctionOnSet(Unshown(s), Threads) \in Int
  BY ThreadsAndProcesses, FunctionsTyped, SumPoint
<1> QED
  BY <1>1 DEF Sums

(* Sums over values that stay the same.                                    *)
LEMMA SumsStand ==
  ASSUME TypeOK, TypeOK', NEW s,
         \A p \in Processes : Shown(s)'[p] = Shown(s)[p],
         \A t \in Threads : Unshown(s)'[t] = Unshown(s)[t]
  PROVE  Sums(s)' = Sums(s)
<1>1. SumFunctionOnSet(Shown(s), Processes) = SumFunctionOnSet(Shown(s)', Processes)
  BY ThreadsAndProcesses, FunctionsTyped, SumSame
<1>2. SumFunctionOnSet(Unshown(s), Threads) = SumFunctionOnSet(Unshown(s)', Threads)
  BY ThreadsAndProcesses, FunctionsTyped, SumSame
<1> QED
  BY <1>1, <1>2 DEF Sums

LEMMA ThreadKeepsAccount ==
  ASSUME CountInv, TypeOK', NEW t \in Threads, NEW d, ThreadCounts(t, d)
  PROVE  Accounted'
<1> DEFINE p == Proc(t)
           h == handle[p].hState
<1>1. /\ TypeOK /\ Accounted /\ p \in Processes /\ Running(t) /\ d \in Int
      /\ UNCHANGED <<stage, handle, Exit, startCount, users>> /\ Moves(t, d)
      /\ IsFiniteSet(Processes) /\ IsFiniteSet(Threads)
  BY ThreadsAndProcesses DEF CountInv, ArrivalInv, ThreadCounts
<1>2. \A o \in Threads \ {t} : Due(o)' = Due(o)
  <2> SUFFICES ASSUME NEW o \in Threads \ {t} PROVE Due(o)' = Due(o)
    OBVIOUS
  <2>1. \/ call'[o] = call[o]
        \/ call[o].at = "event" /\ call'[o].at = "again"
    BY DEF ThreadCounts, StayOrWake
  <2> QED BY <2>1 DEF Due
<1>3. \A q \in Processes \ {p} : Net'[q] = Net[q]
  BY DEF ThreadCounts
<1>4. UsersMatch
  BY DEF CountInv, UsesOK
<1> SUFFICES ASSUME NEW s \in Slots \cup Processes, Untouched(s)'
             PROVE  Sums(s)' = state'[s].CurCount - startCount'[s]
  BY DEF Accounted
<1>5. Untouched(s)
  BY <1>1 DEF Untouched, Written, Moves, AnyExit
<1>6. Sums(s) = state[s].CurCount - startCount[s]
  BY <1>1, <1>5 DEF Accounted
<1>7. /\ Sums(s) \in Int /\ state[s].CurCount \in Int /\ startCount[s] \in Int
  BY <1>1, SumsTyped, NumbersTyped
<1>8. CASE s # h
  <2>1. p \notin users[s]
    BY <1>4, <1>8 DEF UsersMatch
  <2>2. \A q \in Processes : Shown(s)'[q] = Shown(s)[q]
    BY <1>1, <1>3, <2>1 DEF Shown
  <2>3. \A o \in Threads : Unshown(s)'[o] = Unshown(s)[o]
    <3> HIDE DEF p
    <3>1. \A o \in Threads : Proc(o) \in users[s] => o # t
      BY <2>1 DEF p
    <3> QED BY <1>1, <1>2, <3>1 DEF Unshown
  <2>4. Sums(s)' = Sums(s)
    BY <1>1, <2>2, <2>3, SumsStand
  <2>5. state'[s].CurCount = state[s].CurCount + 0
    BY <1>1, <1>8 DEF Moves
  <2> QED BY <1>1, <1>6, <1>7, <2>4, <2>5
<1>9. CASE s = h
  <2>1. p \in users[s] /\ ~AnyExit
    BY <1>1, <1>4, <1>5, <1>9 DEF UsersMatch, RunningOn, Running, Untouched
  <2> DEFINE a == SumFunctionOnSet(Shown(s), Processes)
             b == SumFunctionOnSet(Unshown(s), Threads)
             c == SumFunctionOnSet(Shown(s)', Processes)
             e == SumFunctionOnSet(Unshown(s)', Threads)
  <2>2. c = a + Shown(s)'[p] - Shown(s)[p]
    <3>1. \A q \in Processes : Shown(s)[q] \in Int /\ Shown(s)'[q] \in Int
      BY <1>1, FunctionsTyped, NextFunctionsTyped
    <3>2. \A q \in Processes \ {p} : Shown(s)'[q] = Shown(s)[q]
      BY <1>1, <1>3 DEF Shown
    <3> HIDE DEF p
    <3> QED BY <1>1, <3>1, <3>2, SumChange
  <2>3. e = b + Unshown(s)'[t] - Unshown(s)[t]
    <3>1. \A o \in Threads : Unshown(s)[o] \in Int /\ Unshown(s)'[o] \in Int
      BY <1>1, FunctionsTyped, NextFunctionsTyped
    <3>2. \A o \in Threads \ {t} : Unshown(s)'[o] = Unshown(s)[o]
      BY <1>1, <1>2 DEF Unshown
    <3> QED BY <1>1, <3>1, <3>2, SumChange
  <2>4. /\ Shown(s)'[p] = Net'[p] /\ Shown(s)[p] = Net[p]
        /\ Unshown(s)'[t] = Due(t)' /\ Unshown(s)[t] = Due(t)
    BY <1>1, <2>1 DEF Shown, Unshown
  <2>5. (Net'[p] - Net[p]) + (Due(t)' - Due(t)) = d
    BY <2>1 DEF ThreadCounts
  <2>6. a \in Int /\ b \in Int /\ Net[p] \in Int /\ Net'[p] \in Int /\ Due(t) \in Int /\ Due(t)' \in Int
    BY <1>1, SumsTyped, NumbersTyped, NextNumbersTyped
  <2>7. state'[s].CurCount = state[s].CurCount + d
    BY <1>1, <1>9 DEF Moves
  <2>8. Sums(s) = a + b /\ Sums(s)' = c + e
    BY DEF Sums
  <2>9. c + e = (a + b) + d
    <3> DEFINE x1 == Net[p]
               x2 == Net'[p]
               y1 == Due(t)
               y2 == Due(t)'
    <3>1. c = a + x2 - x1 /\ e = b + y2 - y1 /\ (x2 - x1) + (y2 - y1) = d
      BY <2>2, <2>3, <2>4, <2>5
    <3>2. x1 \in Int /\ x2 \in Int /\ y1 \in Int /\ y2 \in Int
      BY <2>6
    <3> HIDE DEF x1, x2, y1, y2, a, b, c, e
    <3> QED BY <1>1, <2>6, <3>1, <3>2
  <2> HIDE DEF a, b, c, e
  <2> QED BY <1>1, <1>6, <1>7, <2>6, <2>7, <2>8, <2>9
<1> QED
  BY <1>8, <1>9


-----------------------------------------------------------------------------
(* Steps of processes.                                                     *)

(* The entry a new process is given: none, the one of its name, or one     *)
(* that nobody has.  No table is too small for this.                       *)
LEMMA EntryCases ==
  ASSUME LibTypeOK, NEW p \in Processes, NEW name \in Names \cup {NoName}
  PROVE  LET s == Entry(p, Table(p), name)
             fresh == name = NoName \/ Named(Table(p), name) = {}
         IN  \/ s = p /\ fresh
             \/ name # NoName /\ s \in Slots /\ ~fresh /\ Table(p)[s].lpName = name
             \/ /\ name # NoName /\ s \in Slots /\ fresh /\ Table(p)[s].RefCount <= 0
                /\ \A r \in Slots : Table(p)[r].lpName # name
<1>1. Named(Table(p), name) \subseteq Slots /\ Free(Table(p)) \subseteq Slots /\ Slots \subseteq Nat
  BY MultiSemAssumption DEF Named, Free
<1>2. CASE name = NoName
  BY <1>2 DEF Entry
<1>3. CASE name # NoName /\ Named(Table(p), name) # {}
  <2>1. First(Named(Table(p), name)) \in Named(Table(p), name)
    BY <1>1, <1>3, FirstIsOne
  <2>2. Entry(p, Table(p), name) = First(Named(Table(p), name))
    BY <1>3 DEF Entry
  <2>3. Entry(p, Table(p), name) \in Named(Table(p), name)
    BY <2>1, <2>2
  <2> QED BY <1>3, <2>3 DEF Named
<1>4. CASE name # NoName /\ Named(Table(p), name) = {} /\ Free(Table(p)) # {}
  <2>1. First(Free(Table(p))) \in Free(Table(p))
    BY <1>1, <1>4, FirstIsOne
  <2>2. Entry(p, Table(p), name) = First(Free(Table(p)))
    BY <1>4 DEF Entry
  <2>3. Entry(p, Table(p), name) \in Free(Table(p))
    BY <2>1, <2>2
  <2> QED BY <1>4, <2>3 DEF Named, Free
<1>5. CASE name # NoName /\ Named(Table(p), name) = {} /\ Free(Table(p)) = {}
  BY <1>5 DEF Entry
<1> QED
  BY <1>2, <1>3, <1>4, <1>5

(* What AllocSynchHandle() writes.                                         *)
Allocated(p) ==
  /\ stage[p] = "new" /\ stage'[p] = "creating"
  /\ \A o \in Processes \ {p} : handle'[o] = handle[o] /\ stage'[o] = stage[o]
  /\ \A s \in Slots \cup Processes :
       /\ state'[s].CurCount = Table(p)[s].CurCount /\ state'[s].MaxCount = Table(p)[s].MaxCount
       /\ state'[s].lpName = Table(p)[s].lpName
       /\ state'[s].RefCount =
            IF s = handle'[p].hState /\ s \in Slots THEN Table(p)[s].RefCount + 1 ELSE Table(p)[s].RefCount
  /\ \/ handle'[p].hState = p /\ handle'[p].fresh = TRUE
     \/ /\ handle'[p].hState \in Slots /\ handle'[p].lpName # NoName /\ handle'[p].fresh = FALSE
        /\ Table(p)[handle'[p].hState].lpName = handle'[p].lpName
     \/ /\ handle'[p].hState \in Slots /\ handle'[p].lpName # NoName /\ handle'[p].fresh = TRUE
        /\ Table(p)[handle'[p].hState].RefCount <= 0
        /\ \A r \in Slots : Table(p)[r].lpName # handle'[p].lpName
  /\ UNCHANGED call

LEMMA AllocWrites ==
  ASSUME TypeOK, NEW p \in Processes, NEW name \in Names \cup {NoName}, NEW fcfs \in BOOLEAN,
         AllocSynchHandle(p, name, fcfs)
  PROVE  Allocated(p)
<1> DEFINE s == Entry(p, Table(p), name)
           fresh == name = NoName \/ Named(Table(p), name) = {}
<1>1. /\ LibTypeOK /\ stage[p] = "new" /\ UNCHANGED call
      /\ Table(p) \in [Slots \cup Processes -> StateType]
      /\ p \notin Slots
  BY TableFacts, ThreadsAndProcesses DEF TypeOK, AllocSynchHandle
<1>2. \/ s = p /\ fresh
      \/ name # NoName /\ s \in Slots /\ ~fresh /\ Table(p)[s].lpName = name
      \/ /\ name # NoName /\ s \in Slots /\ fresh /\ Table(p)[s].RefCount <= 0
         /\ \A r \in Slots : Table(p)[r].lpName # name
  BY <1>1, EntryCases
<1>3. /\ stage' = [stage EXCEPT ![p] = "creating"]
      /\ handle' = [handle EXCEPT ![p] = [lpName |-> name, fcfs |-> fcfs, hState |-> s, fresh |-> fresh]]
      /\ state' = IF s \in Slots THEN [Table(p) EXCEPT ![s].RefCount = @ + 1] ELSE Table(p)
  BY DEF AllocSynchHandle
<1>4. fresh \in BOOLEAN
  OBVIOUS
<1> HIDE DEF s, fresh
<1>5. /\ stage'[p] = "creating"
      /\ \A o \in Processes \ {p} : handle'[o] = handle[o] /\ stage'[o] = stage[o]
      /\ handle'[p].lpName = name /\ handle'[p].hState = s /\ handle'[p].fresh = fresh
  BY <1>1, <1>3 DEF LibTypeOK
<1>6. \A r \in Slots \cup Processes :
        /\ state'[r].CurCount = Table(p)[r].CurCount /\ state'[r].MaxCount = Table(p)[r].MaxCount
        /\ state'[r].lpName = Table(p)[r].lpName
        /\ state'[r].RefCount =
             IF r = s /\ r \in Slots THEN Table(p)[r].RefCount + 1 ELSE Table(p)[r].RefCount
  <2> SUFFICES ASSUME NEW r \in Slots \cup Processes
               PROVE  /\ state'[r].CurCount = Table(p)[r].CurCount
                      /\ state'[r].MaxCount = Table(p)[r].MaxCount
                      /\ state'[r].lpName = Table(p)[r].lpName
                      /\ state'[r].RefCount =
                           IF r = s /\ r \in Slots THEN Table(p)[r].RefCount + 1 ELSE Table(p)[r].RefCount
    OBVIOUS
  <2> DEFINE new == [Table(p)[r] EXCEPT !.RefCount = @ + 1]
  <2>1. Table(p)[r] \in StateType
    BY <1>1
  <2>2. /\ new.CurCount = Table(p)[r].CurCount /\ new.MaxCount = Table(p)[r].MaxCount
        /\ new.lpName = Table(p)[r].lpName /\ new.RefCount = Table(p)[r].RefCount + 1
    BY <2>1 DEF StateType
  <2>3. state'[r] = IF r = s /\ r \in Slots THEN new ELSE Table(p)[r]
    BY <1>1, <1>3
  <2> HIDE DEF new
  <2> QED BY <2>2, <2>3
<1>7. \/ handle'[p].hState = p /\ handle'[p].fresh = TRUE
      \/ /\ handle'[p].hState \in Slots /\ handle'[p].lpName # NoName /\ handle'[p].fresh = FALSE
         /\ Table(p)[handle'[p].hState].lpName = handle'[p].lpName
      \/ /\ handle'[p].hState \in Slots /\ handle'[p].lpName # NoName /\ handle'[p].fresh = TRUE
         /\ Table(p)[handle'[p].hState].RefCount <= 0
         /\ \A r \in Slots : Table(p)[r].lpName # handle'[p].lpName
  BY <1>2, <1>4, <1>5
<1> QED
  BY <1>1, <1>5, <1>6, <1>7 DEF Allocated

(* RefsCounted, for any table.                                             *)
LEMMA AllocKeepsRefs ==
  ASSUME LibTypeOK, RefsCounted, SlotsAreNamed, NEW p \in Processes, Allocated(p)
  PROVE  RefsCounted'
<1> SUFFICES ASSUME NEW r \in Slots PROVE state'[r].RefCount = Cardinality(Refs(r)')
  BY DEF RefsCounted
<1>1. IsFiniteSet(Refs(r)) /\ Cardinality(Refs(r)) \in Nat
  BY RefsFinite
<1>2. Table(p)[r].RefCount = Cardinality(Refs(r))
  BY TableFound DEF Allocated
<1>3. /\ ~Live(p) /\ Live(p)' /\ \A o \in Processes \ {p} : Live(o)' = Live(o)
  BY DEF Allocated, Live
<1>4. state'[r].RefCount = IF r = handle'[p].hState THEN Table(p)[r].RefCount + 1 ELSE Table(p)[r].RefCount
  BY DEF Allocated
<1>5. CASE r = handle'[p].hState
  <2>1. Refs(r)' = Refs(r) \cup {p} /\ p \notin Refs(r)
    BY <1>3, <1>5 DEF Refs, Allocated
  <2>2. Cardinality(Refs(r) \cup {p}) = Cardinality(Refs(r)) + 1
    BY <1>1, <2>1, FS_AddElement
  <2> QED BY <1>2, <1>4, <1>5, <2>1, <2>2
<1>6. CASE r # handle'[p].hState
  <2>1. Refs(r)' = Refs(r)
    BY <1>3, <1>6 DEF Refs, Allocated
  <2> QED BY <1>2, <1>4, <1>6, <2>1
<1> QED
  BY <1>5, <1>6

(* Steps that change no reference.                                         *)
LEMMA RefsStand ==
  ASSUME RefsCounted, \A p \in Processes : Live(p)' = Live(p), UNCHANGED handle,
         \A s \in Slots : state'[s].RefCount = state[s].RefCount
  PROVE  RefsCounted'
<1>1. \A s : Refs(s)' = Refs(s)
  BY DEF Refs
<1> QED
  BY <1>1 DEF RefsCounted

(* The parameters of a process are refused.                                *)
LEMMA RefusedKeeps ==
  ASSUME CountInv, TypeOK', NEW p \in Processes, stage[p] = "new",
         stage' = [stage EXCEPT ![p] = "refused"],
         UNCHANGED <<handle, state, call, input, Exit, rounds, NumProduced, NumConsumed, startCount, users>>
  PROVE  UsesOK' /\ CountsInRange' /\ Accounted'
<1>1. /\ TypeOK /\ CallsMatch /\ HistoryOK /\ UsersMatch /\ RefsCounted /\ EntriesUsed
      /\ CountsInRange /\ Accounted
      /\ stage'[p] = "refused" /\ \A o \in Processes \ {p} : stage'[o] = stage[o]
      /\ Net' = Net
  BY NetStands DEF CountInv, UsesOK, ArrivalInv, TypeOK, LibTypeOK
<1>2. /\ \A o \in Processes : Live(o)' = Live(o)
      /\ \A s : RunningOn(s)' = RunningOn(s)
  BY <1>1 DEF Live, RunningOn
<1>3. CallsMatch' /\ HistoryOK' /\ RefsCounted'
  BY <1>1, <1>2, RefsStand DEF CallsMatch, HistoryOK, AnyExit
<1>10. UsersMatch'
  <2>1. \A s \in Slots \cup Processes : users[s] \subseteq Processes
    BY <1>1 DEF TypeOK, TestTypeOK
  <2> QED BY <1>1, <1>2, <2>1 DEF UsersMatch
<1>4. EntriesUsed'
  BY <1>1, <1>2 DEF EntriesUsed, EntryOK, NotTaken, Written
<1>5. CountsInRange'
  BY <1>1 DEF CountsInRange
<1>6. \A t \in Threads : Due(t)' = Due(t)
  BY DEF Due
<1>7. \A s : /\ \A o \in Processes : Shown(s)'[o] = Shown(s)[o]
             /\ \A t \in Threads : Unshown(s)'[t] = Unshown(s)[t]
  BY <1>1, <1>2, <1>6 DEF Shown, Unshown
<1>8. \A s : Sums(s)' = Sums(s)
  BY <1>1, <1>7, SumsStand
<1>9. Accounted'
  BY <1>1, <1>2, <1>8 DEF Accounted, Untouched, Written, AnyExit
<1> QED
  BY <1>3, <1>4, <1>5, <1>9, <1>10 DEF UsesOK

(* A new process takes an entry; it has no part in the count yet.          *)
LEMMA AllocKeeps ==
  ASSUME CountInv, TypeOK', NEW p \in Processes, Allocated(p), Valid(input[p].SemInitial, input[p].SemMax),
         UNCHANGED <<input, Exit, rounds, NumProduced, NumConsumed, startCount, users>>
  PROVE  UsesOK' /\ CountsInRange' /\ Accounted'
<1> DEFINE h == handle'[p].hState
<1>1. /\ LibTypeOK /\ TypeOK /\ CallsMatch /\ HistoryOK /\ UsersMatch /\ RefsCounted /\ EntriesUsed
      /\ CountsInRange
      /\ Accounted /\ Net' = Net /\ SlotsAreNamed
  BY NetStands DEF CountInv, UsesOK, ArrivalInv, TypeOK, EntriesUsed, EntryOK, SlotsAreNamed
<1>2. /\ stage[p] = "new" /\ stage'[p] = "creating" /\ UNCHANGED call
      /\ \A o \in Processes \ {p} : handle'[o] = handle[o] /\ stage'[o] = stage[o]
      /\ \A s \in Slots \cup Processes :
           /\ state'[s].CurCount = Table(p)[s].CurCount /\ state'[s].MaxCount = Table(p)[s].MaxCount
           /\ state'[s].lpName = Table(p)[s].lpName
  BY DEF Allocated
<1>3. \/ h = p /\ handle'[p].fresh = TRUE
      \/ /\ h \in Slots /\ handle'[p].lpName # NoName /\ handle'[p].fresh = FALSE
         /\ state'[h].lpName = handle'[p].lpName
      \/ /\ h \in Slots /\ handle'[p].lpName # NoName /\ handle'[p].fresh = TRUE
         /\ Table(p)[h].RefCount <= 0 /\ state'[h].lpName # handle'[p].lpName
  BY <1>2 DEF Allocated
<1>4. \/ Table(p) = state
      \/ /\ OnlyNameless
         /\ \A s \in Slots : Table(p)[s] = NoState
  BY <1>1, <1>2, TableFound
<1>5. \A s \in Processes : Table(p)[s] = state[s]
  BY <1>1, ThreadsAndProcesses DEF Table, LibTypeOK
<1>6. /\ ~Live(p) /\ Live(p)' /\ \A o \in Processes \ {p} : Live(o)' = Live(o)
      /\ \A s : RunningOn(s)' = RunningOn(s)
  BY <1>2 DEF Live, RunningOn
<1>7. CallsMatch' /\ RefsCounted'
  BY <1>1, <1>2, AllocKeepsRefs DEF CallsMatch, AnyExit
<1>8. HistoryOK' /\ UsersMatch'
  <2>1. \A s \in Slots \cup Processes : p \notin users[s] /\ users[s] \subseteq Processes
    BY <1>1, <1>2 DEF UsersMatch, TypeOK, TestTypeOK
  <2>2. HistoryOK'
    BY <1>1, <1>2 DEF HistoryOK
  <2>3. UsersMatch'
    BY <1>1, <1>2, <1>6, <2>1 DEF UsersMatch
  <2> QED BY <2>2, <2>3
<1>9. EntriesUsed'
  <2> SUFFICES ASSUME NEW q \in Processes
               PROVE  /\ EntryOK(q)'
                      /\ stage'[q] = "running" \/ (stage'[q] = "creating" /\ ~handle'[q].fresh)
                           => Written(handle[q].hState)'
                      /\ stage'[q] = "creating" /\ handle'[q].fresh /\ handle'[q].hState \in Slots
                           => NotTaken(q)'
    BY DEF EntriesUsed
  <2>1. CASE q = p
    <3>1. EntryOK(p)'
      BY <1>3, ThreadsAndProcesses DEF EntryOK
    <3>2. ~handle'[p].fresh => Written(handle[p].hState)'
      BY <1>3 DEF Written
    <3>3. ASSUME handle'[p].fresh, h \in Slots PROVE NotTaken(p)'
      <4>1. Table(p)[h].RefCount <= 0 /\ state'[h].lpName # handle'[p].lpName
        BY <1>3, <3>3, ThreadsAndProcesses
      <4>2. IsFiniteSet(Refs(h)) /\ Cardinality(Refs(h)) \in Nat /\ Table(p)[h].RefCount = Cardinality(Refs(h))
        BY <1>1, <1>2, <3>3, TableFound, RefsFinite
      <4>3. Cardinality(Refs(h)) = 0
        BY <4>1, <4>2
      <4>4. Refs(h) = {}
        BY <4>2, <4>3, FS_EmptySet
      <4>5. \A o \in Processes \ {p} : ~(Live(o)' /\ handle'[o].hState = h)
        BY <1>2, <1>6, <4>4 DEF Refs
      <4> QED BY <4>1, <4>5 DEF NotTaken
    <3> QED BY <1>2, <2>1, <3>1, <3>2, <3>3
  <2>2. CASE q # p
    <3>1. handle'[q] = handle[q] /\ stage'[q] = stage[q] /\ handle[q].hState \in Slots \cup Processes
      BY <1>1, <1>2, <2>2 DEF LibTypeOK, HandleType
    <3>2. EntryOK(q)'
      BY <1>1, <3>1 DEF EntriesUsed, EntryOK
    <3>3. Live(q) /\ handle[q].hState \in Slots
            => \A s \in Slots \cup Processes : state'[s].lpName = state[s].lpName
      BY <1>2, <1>4, <1>5 DEF OnlyNameless
    <3>4. ASSUME stage[q] = "running" \/ (stage[q] = "creating" /\ ~handle[q].fresh)
          PROVE  Written(handle[q].hState)'
      <4>1. Written(handle[q].hState) /\ Live(q)
        BY <1>1, <3>4 DEF EntriesUsed, Live
      <4> QED BY <3>1, <3>3, <4>1 DEF Written
    <3>5. ASSUME stage[q] = "creating", handle[q].fresh, handle[q].hState \in Slots
          PROVE  NotTaken(q)'
      <4>1. NotTaken(q) /\ Live(q) /\ state'[handle[q].hState].lpName = state[handle[q].hState].lpName
        BY <1>1, <3>3, <3>5 DEF EntriesUsed, Live
      <4>2. ASSUME h = handle[q].hState
            PROVE  ~handle'[p].fresh /\ handle'[p].lpName # handle[q].lpName
        <5>1. q \in Refs(h)
          BY <4>1, <4>2 DEF Refs
        <5>2. IsFiniteSet(Refs(h)) /\ Cardinality(Refs(h)) \in Nat /\ Table(p)[h].RefCount = Cardinality(Refs(h))
          BY <1>1, <1>2, <3>5, <4>2, TableFound, RefsFinite
        <5>3. Cardinality(Refs(h)) # 0
          BY <5>1, <5>2, FS_EmptySet
        <5>4. ~(Table(p)[h].RefCount <= 0)
          BY <5>2, <5>3
        <5>5. handle'[p].fresh = FALSE /\ state'[h].lpName = handle'[p].lpName
          BY <1>3, <3>5, <4>2, <5>4, ThreadsAndProcesses
        <5> QED BY <4>1, <4>2, <5>5 DEF NotTaken
      <4>3. \A o \in Processes \ {q} :
              Live(o)' /\ handle'[o].hState = handle[q].hState
                => ~handle'[o].fresh /\ handle'[o].lpName # handle[q].lpName
        BY <1>2, <1>6, <4>1, <4>2 DEF NotTaken
      <4> QED BY <3>1, <4>1, <4>3 DEF NotTaken
    <3> QED BY <3>1, <3>2, <3>4, <3>5
  <2> QED BY <2>1, <2>2
<1>10. CountsInRange'
  <2>1. \A s \in Slots \cup Processes : 0 <= Table(p)[s].CurCount /\ Table(p)[s].CurCount <= Table(p)[s].MaxCount
    BY <1>1, <1>4, <1>5 DEF CountsInRange, NoState
  <2> QED BY <1>1, <1>2, <2>1 DEF CountsInRange
<1>11. \A t \in Threads : Due(t)' = Due(t)
  BY <1>2 DEF Due
<1>12. \A s : /\ \A o \in Processes : Shown(s)'[o] = Shown(s)[o]
              /\ \A t \in Threads : Unshown(s)'[t] = Unshown(s)[t]
  BY <1>1, <1>6, <1>11 DEF Shown, Unshown
<1>13. \A s : Sums(s)' = Sums(s)
  BY <1>1, <1>12, SumsStand
<1>14. Accounted'
  <2> SUFFICES ASSUME NEW s \in Slots \cup Processes, Untouched(s)'
               PROVE  Sums(s)' = state'[s].CurCount - startCount'[s]
    BY DEF Accounted
  <2>1. Table(p)[s] = state[s]
    <3>1. s \in Slots => state'[s].lpName # NoName
      BY ThreadsAndProcesses DEF Untouched, Written
    <3> QED BY <1>2, <1>4, <1>5, <3>1 DEF NoState
  <2>2. \A o \in users[s] : handle'[o] = handle[o]
    BY <1>1, <1>2 DEF UsersMatch, TypeOK, TestTypeOK
  <2>3. Untouched(s)
    BY <1>2, <2>1, <2>2 DEF Untouched, Written, AnyExit
  <2> QED BY <1>1, <1>2, <1>13, <2>1, <2>3 DEF Accounted
<1> QED
  BY <1>7, <1>8, <1>9, <1>10, <1>14 DEF UsesOK

(* A process that is not running has nothing due.                          *)
LEMMA NothingDue ==
  ASSUME BusyRuns, NEW t \in Threads, ~Running(t)
  PROVE  Due(t) = 0
BY DEF BusyRuns, Away, Due

(* What CreateSemaphoreMW() writes.                                        *)
Begun(p) ==
  LET h == handle[p].hState
  IN  /\ stage[p] = "creating" /\ stage'[p] = "running"
      /\ \A o \in Processes \ {p} : stage'[o] = stage[o]
      /\ UNCHANGED <<handle, call, input, Exit, rounds, NumConsumed>>
      /\ \A s \in Slots \cup Processes :
           /\ state'[s].RefCount = state[s].RefCount
           /\ s # h \/ handle[p].fresh = FALSE
                => state'[s] = state[s] /\ startCount'[s] = startCount[s]
           /\ s # h => users'[s] = users[s]
      /\ handle[p].fresh = FALSE => users'[h] = users[h] \cup {p}
      /\ handle[p].fresh = TRUE
           => /\ state'[h].lpName = handle[p].lpName /\ state'[h].CurCount = input[p].SemInitial
              /\ state'[h].MaxCount = input[p].SemMax /\ startCount'[h] = input[p].SemInitial
              /\ users'[h] = {p} \cup RunningOn(h)
      /\ \A o \in Processes \ {p} : Net'[o] = Net[o]
      /\ Net'[p] = 0 - NumConsumed[p]

LEMMA CreateWrites ==
  ASSUME TypeOK, NEW p \in Processes, MainStarts(p)
  PROVE  Begun(p)
<1> DEFINE h == handle[p].hState
           initial == input[p].SemInitial
           max == input[p].SemMax
           name == handle[p].lpName
           new == [state[h] EXCEPT !.lpName = name, !.CurCount = initial, !.MaxCount = max]
<1>1. /\ LibTypeOK /\ TestTypeOK /\ h \in Slots \cup Processes /\ initial \in Int
      /\ handle[p].fresh \in BOOLEAN
  BY DEF TypeOK, LibTypeOK, HandleType, TestTypeOK, InputType
<1>2. /\ stage[p] = "creating" /\ stage' = [stage EXCEPT ![p] = "running"]
      /\ UNCHANGED <<handle, call, input, Exit, rounds, NumConsumed>>
      /\ state' = IF ~handle[p].fresh THEN state ELSE [state EXCEPT ![h] = new]
      /\ startCount' = IF handle[p].fresh THEN [startCount EXCEPT ![h] = initial] ELSE startCount
      /\ NumProduced' = [NumProduced EXCEPT ![p] = initial]
      /\ users' = [users EXCEPT ![h] = IF handle[p].fresh THEN {p} \cup RunningOn(h) ELSE @ \cup {p}]
  BY DEF MainStarts, CreateSemaphoreMW
<1>3. state[h] \in StateType
  BY <1>1 DEF LibTypeOK
<1>4. new.lpName = name /\ new.CurCount = initial /\ new.MaxCount = max /\ new.RefCount = state[h].RefCount
  BY <1>3 DEF StateType
<1>5. stage'[p] = "running" /\ \A o \in Processes \ {p} : stage'[o] = stage[o]
  BY <1>1, <1>2 DEF LibTypeOK
<1>6. /\ \A o \in Processes \ {p} : Net'[o] = Net[o]
      /\ Net'[p] = initial - initial - NumConsumed[p]
  BY <1>1, <1>2 DEF Net, TestTypeOK
<1>7. NumConsumed[p] \in Int
  BY <1>1 DEF TestTypeOK
<1>8. Net'[p] = 0 - NumConsumed[p]
  <2> DEFINE c == NumConsumed[p]
  <2>1. Net'[p] = initial - initial - c /\ c \in Int
    BY <1>6, <1>7
  <2> HIDE DEF initial, c
  <2>2. Net'[p] = 0 - c
    BY <1>1, <2>1
  <2> QED BY <2>2 DEF c
<1>11. /\ \A s \in Slots \cup Processes : s # h => users'[s] = users[s]
       /\ users'[h] = IF handle[p].fresh THEN {p} \cup RunningOn(h) ELSE users[h] \cup {p}
  BY <1>1, <1>2 DEF TestTypeOK
<1> HIDE DEF new
<1>9. CASE handle[p].fresh
  <2>1. /\ state'[h] = new /\ startCount'[h] = initial
        /\ \A s \in Slots \cup Processes : s # h => state'[s] = state[s] /\ startCount'[s] = startCount[s]
    BY <1>1, <1>2, <1>9 DEF LibTypeOK, TestTypeOK
  <2> QED BY <1>1, <1>2, <1>4, <1>5, <1>6, <1>8, <1>9, <1>11, <2>1 DEF Begun
<1>10. CASE ~handle[p].fresh
  BY <1>1, <1>2, <1>5, <1>6, <1>8, <1>10, <1>11 DEF Begun
<1> QED
  BY <1>9, <1>10

(* A process that begins to run has neither brought nor taken anything; if *)
(* its entry is new, nobody else that could have has it.                   *)
LEMMA StartsKeeps ==
  ASSUME CountInv, TypeOK', NEW p \in Processes, Begun(p)
  PROVE  UsesOK' /\ CountsInRange' /\ Accounted'
<1> DEFINE h == handle[p].hState
<1>1. /\ LibTypeOK /\ TypeOK /\ CallsMatch /\ HistoryOK /\ UsersMatch /\ RefsCounted /\ EntriesUsed
      /\ CountsInRange
      /\ Accounted /\ BusyRuns /\ h \in Slots \cup Processes /\ handle[p].fresh \in BOOLEAN
  BY DEF CountInv, UsesOK, ArrivalInv, TypeOK, LibTypeOK, HandleType
<1>2. /\ stage[p] = "creating" /\ stage'[p] = "running"
      /\ UNCHANGED <<handle, call, input, Exit, rounds, NumConsumed>>
      /\ \A o \in Processes \ {p} : stage'[o] = stage[o] /\ Net'[o] = Net[o]
      /\ \A s \in Slots \cup Processes :
           /\ state'[s].RefCount = state[s].RefCount
           /\ s # h \/ handle[p].fresh = FALSE
                => state'[s] = state[s] /\ startCount'[s] = startCount[s]
           /\ s # h => users'[s] = users[s]
      /\ handle[p].fresh = FALSE => users'[h] = users[h] \cup {p}
      /\ handle[p].fresh = TRUE
           => /\ state'[h].lpName = handle[p].lpName /\ state'[h].CurCount = input[p].SemInitial
              /\ state'[h].MaxCount = input[p].SemMax /\ startCount'[h] = input[p].SemInitial
              /\ users'[h] = {p} \cup RunningOn(h)
  BY DEF Begun
<1>3. NumConsumed[p] = 0 /\ Net'[p] = 0
  <2>1. NumConsumed[p] = 0
    BY <1>1, <1>2 DEF HistoryOK
  <2>2. Net'[p] = 0 - NumConsumed[p]
    BY DEF Begun
  <2> QED BY <2>1, <2>2
<1>4. /\ Live(p) /\ \A o \in Processes : Live(o)' = Live(o)
      /\ \A s \in Slots \cup Processes :
           /\ p \notin users[s] /\ users[s] \subseteq Processes
           /\ RunningOn(s) \subseteq users[s]
           /\ RunningOn(s)' = IF s = h THEN RunningOn(s) \cup {p} ELSE RunningOn(s)
  BY <1>1, <1>2 DEF Live, RunningOn, UsersMatch, TypeOK, TestTypeOK
<1>5. CallsMatch' /\ RefsCounted'
  BY <1>1, <1>2, <1>4, RefsStand DEF CallsMatch, AnyExit
<1>6. HistoryOK'
  BY <1>1, <1>2 DEF HistoryOK
<1>12. UsersMatch'
  <2> SUFFICES ASSUME NEW s \in Slots \cup Processes
               PROVE  /\ \A o \in users'[s] : stage'[o] \in {"running", "exited"} /\ handle'[o].hState = s
                      /\ RunningOn(s)' \subseteq users'[s]
    BY DEF UsersMatch
  <2>1. /\ \A o \in users[s] : o \in Processes \ {p} /\ stage[o] \in {"running", "exited"}
                                 /\ handle[o].hState = s
        /\ RunningOn(s) \subseteq users[s]
    BY <1>1, <1>4 DEF UsersMatch
  <2>2. users'[s] \subseteq users[s] \cup {p} /\ RunningOn(s)' \subseteq users'[s]
        /\ (p \in users'[s] => s = h)
    BY <1>1, <1>2, <1>4, <2>1
  <2> QED BY <1>2, <2>1, <2>2
<1>7. EntryOK(p) /\ (~handle[p].fresh => Written(h))
      /\ (handle[p].fresh /\ h \in Slots => NotTaken(p))
  BY <1>1, <1>2 DEF EntriesUsed
<1>8. EntriesUsed'
  <2> SUFFICES ASSUME NEW q \in Processes
               PROVE  /\ EntryOK(q)'
                      /\ stage'[q] = "running" \/ (stage'[q] = "creating" /\ ~handle'[q].fresh)
                           => Written(handle[q].hState)'
                      /\ stage'[q] = "creating" /\ handle'[q].fresh /\ handle'[q].hState \in Slots
                           => NotTaken(q)'
    BY DEF EntriesUsed
  <2>1. EntryOK(q)' /\ handle[q].hState \in Slots \cup Processes
    BY <1>1, <1>2 DEF EntriesUsed, EntryOK
  <2>2. Written(h)'
    <3>1. CASE handle[p].fresh
      BY <1>1, <1>2, <1>7, <3>1 DEF Written, EntryOK
    <3>2. CASE ~handle[p].fresh
      BY <1>1, <1>2, <1>7, <3>2 DEF Written
    <3> QED BY <3>1, <3>2
  <2>3. ASSUME q # p, stage'[q] = "running" \/ (stage'[q] = "creating" /\ ~handle'[q].fresh),
               handle[q].hState # h
        PROVE  Written(handle[q].hState)'
    <3>1. Written(handle[q].hState)
      BY <1>1, <1>2, <2>3 DEF EntriesUsed
    <3> QED BY <1>2, <2>1, <2>3, <3>1 DEF Written
  <2>4. ASSUME q # p, stage'[q] = "creating", handle'[q].fresh, handle'[q].hState \in Slots
        PROVE  NotTaken(q)'
    <3>1. NotTaken(q)
      BY <1>1, <1>2, <2>4 DEF EntriesUsed
    <3>2. handle[q].hState # h \/ handle[p].fresh = FALSE
      BY <1>1, <1>4, <2>4, <3>1 DEF NotTaken
    <3> QED BY <1>2, <1>4, <2>1, <3>1, <3>2 DEF NotTaken
  <2> QED BY <1>2, <2>1, <2>2, <2>3, <2>4
<1>9. CountsInRange'
  <2>1. 0 <= input[p].SemInitial /\ input[p].SemInitial <= input[p].SemMax
    <3>1. Valid(input[p].SemInitial, input[p].SemMax) /\ input[p] \in InputType
      BY <1>1, <1>2 DEF CountsInRange, TypeOK, TestTypeOK
    <3>2. input[p].SemInitial \in Int /\ input[p].SemMax \in Int
      BY <3>1 DEF InputType
    <3> QED BY <3>1, <3>2 DEF Valid
  <2>2. ASSUME NEW s \in Slots \cup Processes
        PROVE  0 <= state'[s].CurCount /\ state'[s].CurCount <= state'[s].MaxCount
    <3>1. CASE s = h /\ handle[p].fresh = TRUE
      BY <1>2, <2>1, <3>1
    <3>2. CASE s # h \/ handle[p].fresh = FALSE
      BY <1>1, <1>2, <3>2 DEF CountsInRange
    <3> QED BY <1>1, <3>1, <3>2
  <2>3. \A o \in Processes : stage'[o] = "creating" => stage[o] = "creating"
    BY <1>2
  <2> QED BY <1>1, <1>2, <2>2, <2>3 DEF CountsInRange
<1>10. /\ \A t \in Threads : /\ Due(t)' = Due(t)
                             /\ Proc(t) = p => Due(t) = 0
       /\ \A o \in Processes \ {p} : Net'[o] = Net[o]
  BY <1>1, <1>2, NothingDue DEF Due, Running
<1>11. Accounted'
  <2> SUFFICES ASSUME NEW s \in Slots \cup Processes, Untouched(s)'
               PROVE  Sums(s)' = state'[s].CurCount - startCount'[s]
    BY DEF Accounted
  <2>1. CASE s # h \/ handle[p].fresh = FALSE
    <3>1. users'[s] = users[s] \/ users'[s] = users[s] \cup {p}
      BY <1>1, <1>2, <2>1
    <3>2. Untouched(s)
      BY <1>2, <2>1, <3>1 DEF Untouched, Written, AnyExit
    <3>3. \A o \in Processes : Shown(s)'[o] = Shown(s)[o]
      BY <1>3, <1>4, <1>10, <3>1 DEF Shown
    <3>4. ASSUME NEW t \in Threads PROVE Unshown(s)'[t] = Unshown(s)[t]
      BY <1>10, <3>1 DEF Unshown
    <3>5. Sums(s)' = Sums(s)
      BY <1>1, <3>3, <3>4, SumsStand
    <3> QED BY <1>1, <1>2, <2>1, <3>2, <3>5 DEF Accounted
  <2>2. CASE s = h /\ handle[p].fresh = TRUE
    <3>1. users'[s] = {p}
      <4> SUFFICES ASSUME NEW q \in RunningOn(s) PROVE FALSE
        BY <1>2, <2>2
      <4>1. /\ q \in Processes /\ q # p /\ q \in users'[s] /\ p \in users'[s]
            /\ handle[q].hState = s /\ stage[q] = "running"
        BY <1>2, <2>2 DEF RunningOn
      <4>2. handle[q].lpName = handle[p].lpName
        BY <1>2, <4>1 DEF Untouched
      <4>3. EntryOK(q)
        BY <1>1, <4>1 DEF EntriesUsed
      <4>4. h \in Slots
        BY <1>7, <2>2, <4>1, <4>3, ThreadsAndProcesses DEF EntryOK
      <4> QED BY <1>7, <2>2, <4>1, <4>2, <4>4 DEF NotTaken, Live
    <3>2. \A o \in Processes : Shown(s)'[o] = 0
      BY <1>3, <3>1 DEF Shown
    <3>3. \A t \in Threads : Unshown(s)'[t] = 0
      BY <1>10, <3>1 DEF Unshown
    <3>4. SumFunctionOnSet(Shown(s)', Processes) = 0 /\ SumFunctionOnSet(Unshown(s)', Threads) = 0
      BY <3>2, <3>3, SumOfZeros, ThreadsAndProcesses
    <3>5. Sums(s)' = 0
      BY <3>4 DEF Sums
    <3>6. state'[s].CurCount = input[p].SemInitial /\ startCount'[s] = input[p].SemInitial
      BY <1>2, <2>2
    <3>7. input[p].SemInitial \in Int
      BY <1>1 DEF TypeOK, TestTypeOK, InputType
    <3> QED BY <3>5, <3>6, <3>7
  <2> QED BY <1>1, <2>1, <2>2
<1> QED
  BY <1>5, <1>6, <1>8, <1>9, <1>11, <1>12 DEF UsesOK

(* A process that exits remains a user of the count.                       *)
LEMMA ClosesKeeps ==
  ASSUME CountInv, TypeOK', NEW p \in Processes, MainCloses(p)
  PROVE  UsesOK' /\ CountsInRange' /\ Accounted'
<1> DEFINE h == handle[p].hState
           new == [state[h] EXCEPT !.RefCount = @ - 1]
<1>1. /\ LibTypeOK /\ TypeOK /\ CallsMatch /\ HistoryOK /\ UsersMatch /\ RefsCounted /\ EntriesUsed
      /\ CountsInRange
      /\ Accounted /\ h \in Slots \cup Processes
  BY DEF CountInv, UsesOK, ArrivalInv, TypeOK, LibTypeOK, HandleType
<1>2. /\ stage[p] = "running" /\ stage' = [stage EXCEPT ![p] = "exited"] /\ Ended(p)
      /\ state' = IF h \in Slots THEN [state EXCEPT ![h] = new] ELSE state
      /\ UNCHANGED <<handle, call, input, Exit, rounds, NumProduced, NumConsumed, startCount, users>>
  BY DEF MainCloses, CloseSynchHandle, testVars
<1>3. state[h] \in StateType
  BY <1>1 DEF LibTypeOK
<1>4. /\ new.lpName = state[h].lpName /\ new.CurCount = state[h].CurCount
      /\ new.MaxCount = state[h].MaxCount /\ new.RefCount = state[h].RefCount - 1
  BY <1>3 DEF StateType
<1> HIDE DEF new
<1>5. \A s \in Slots \cup Processes :
        /\ state'[s].CurCount = state[s].CurCount /\ state'[s].MaxCount = state[s].MaxCount
        /\ state'[s].lpName = state[s].lpName
        /\ state'[s].RefCount = IF s = h /\ s \in Slots THEN state[s].RefCount - 1 ELSE state[s].RefCount
  BY <1>1, <1>2, <1>4 DEF LibTypeOK
<1> HIDE DEF h
<1>6. /\ stage'[p] = "exited" /\ \A o \in Processes \ {p} : stage'[o] = stage[o]
      /\ Net' = Net
  BY <1>1, <1>2, NetStands DEF LibTypeOK
<1>7. /\ Live(p) /\ ~Live(p)' /\ \A o \in Processes \ {p} : Live(o)' = Live(o)
      /\ \A s : RunningOn(s)' \subseteq RunningOn(s)
  BY <1>2, <1>6 DEF Live, RunningOn
<1>8. CallsMatch'
  BY <1>1, <1>2 DEF CallsMatch, AnyExit
<1>9. HistoryOK' /\ UsersMatch'
  <2>1. \A s \in Slots \cup Processes : users[s] \subseteq Processes
    BY <1>1 DEF TypeOK, TestTypeOK
  <2>2. HistoryOK'
    BY <1>1, <1>2, <1>6 DEF HistoryOK
  <2>3. UsersMatch'
    BY <1>1, <1>2, <1>6, <1>7, <2>1 DEF UsersMatch
  <2> QED BY <2>2, <2>3
<1>10. RefsCounted'
  <2> SUFFICES ASSUME NEW r \in Slots PROVE state'[r].RefCount = Cardinality(Refs(r)')
    BY DEF RefsCounted
  <2>1. Refs(r)' = Refs(r) \ {p} /\ (p \in Refs(r) <=> r = h)
    BY <1>2, <1>7 DEF Refs, h
  <2>2. Cardinality(Refs(r) \ {p}) = IF p \in Refs(r) THEN Cardinality(Refs(r)) - 1 ELSE Cardinality(Refs(r))
    BY RefsFinite, FS_RemoveElement
  <2>3. state[r].RefCount = Cardinality(Refs(r))
    BY <1>1 DEF RefsCounted
  <2> QED BY <1>5, <2>1, <2>2, <2>3
<1>11. EntriesUsed'
  <2>1. \A o \in Processes : handle[o].hState \in Slots \cup Processes
    BY <1>1 DEF LibTypeOK, HandleType
  <2>2. \A o \in Processes : /\ EntryOK(o)' <=> EntryOK(o)
                             /\ NotTaken(o) => NotTaken(o)'
                             /\ Written(handle[o].hState)' <=> Written(handle[o].hState)
    BY <1>2, <1>5, <1>7, <2>1 DEF EntryOK, NotTaken, Written
  <2>3. \A o \in Processes : /\ stage'[o] = "running" => stage[o] = "running"
                             /\ stage'[o] = "creating" => stage[o] = "creating"
    BY <1>6
  <2> QED BY <1>1, <1>2, <2>2, <2>3 DEF EntriesUsed
<1>12. CountsInRange'
  BY <1>1, <1>2, <1>5, <1>6 DEF CountsInRange
<1>13. \A t \in Threads : Due(t)' = Due(t)
  BY <1>2 DEF Due
<1>14. \A s : /\ \A o \in Processes : Shown(s)'[o] = Shown(s)[o]
              /\ \A t \in Threads : Unshown(s)'[t] = Unshown(s)[t]
  BY <1>2, <1>6, <1>13 DEF Shown, Unshown
<1>15. \A s : Sums(s)' = Sums(s)
  BY <1>1, <1>14, SumsStand
<1>16. Accounted'
  BY <1>1, <1>2, <1>5, <1>7, <1>15 DEF Accounted, Untouched, Written, AnyExit
<1> QED
  BY <1>8, <1>9, <1>10, <1>11, <1>12, <1>16 DEF UsesOK

(* Control-c, and steps that change nothing.                               *)
LEMMA ExitKeeps ==
  ASSUME CountInv, TypeOK',
         UNCHANGED <<stage, handle, state, call, input, NumProduced, NumConsumed, startCount, users>>,
         \A p \in Processes : /\ Exit[p] => Exit'[p]
                              /\ rounds'[<<p, Ctrl>>] > 0 => Exit'[p]
  PROVE  UsesOK' /\ CountsInRange' /\ Accounted'
<1>1. /\ TypeOK /\ CallsMatch /\ HistoryOK /\ UsersMatch /\ RefsCounted /\ EntriesUsed
      /\ CountsInRange /\ Accounted
      /\ Net' = Net
  BY NetStands DEF CountInv, UsesOK, ArrivalInv
<1>2. /\ \A o \in Processes : Live(o)' = Live(o)
      /\ \A s : RunningOn(s)' = RunningOn(s)
      /\ \A s \in Slots \cup Processes : users[s] \subseteq Processes
  BY <1>1 DEF Live, RunningOn, TypeOK, TestTypeOK
<1>3. CallsMatch'
  BY <1>1, ThreadsAndProcesses DEF CallsMatch, AnyExit
<1>4. HistoryOK' /\ UsersMatch'
  <2>1. HistoryOK'
    BY <1>1 DEF HistoryOK
  <2>2. UsersMatch'
    BY <1>1, <1>2 DEF UsersMatch
  <2> QED BY <2>1, <2>2
<1>5. RefsCounted'
  BY <1>1, <1>2, RefsStand
<1>6. EntriesUsed'
  BY <1>1, <1>2 DEF EntriesUsed, EntryOK, NotTaken, Written
<1>7. CountsInRange'
  BY <1>1 DEF CountsInRange
<1>8. \A t \in Threads : Due(t)' = Due(t)
  BY DEF Due
<1>9. \A s : /\ \A o \in Processes : Shown(s)'[o] = Shown(s)[o]
             /\ \A t \in Threads : Unshown(s)'[t] = Unshown(s)[t]
  BY <1>1, <1>2, <1>8 DEF Shown, Unshown
<1>10. \A s : Sums(s)' = Sums(s)
  BY <1>1, <1>9, SumsStand
<1>11. \A s \in Slots \cup Processes : Untouched(s)' => Untouched(s)
  BY <1>2 DEF Untouched, Written, AnyExit
<1>12. Accounted'
  BY <1>1, <1>10, <1>11 DEF Accounted
<1> QED
  BY <1>3, <1>4, <1>5, <1>6, <1>7, <1>12 DEF UsesOK

-----------------------------------------------------------------------------
(* The invariant.                                                          *)

LEMMA CountInit == Init => CountInv
<1> SUFFICES ASSUME Init PROVE CountInv
  OBVIOUS
<1>1. ArrivalInv /\ TypeOK
  BY InitLemma DEF ArrivalInv
<1>2. /\ \A p \in Processes : /\ stage[p] = "new" /\ handle[p].hState = p /\ handle[p].fresh = TRUE
                              /\ NumConsumed[p] = 0
      /\ \A s \in Slots \cup Processes : state[s].CurCount = 0 /\ state[s].MaxCount = 0
                                         /\ startCount[s] = 0 /\ users[s] = {}
      /\ \A s \in Slots : state[s].RefCount = 0
      /\ \A t \in Threads : call[t].at = "idle" /\ call[t].abandoned = FALSE /\ rounds[t] = 0
  BY DEF Init, LibInit, NoState, NoCall, CallAt
<1>3. /\ \A s : RunningOn(s) = {}
      /\ \A s \in Slots : Refs(s) = {}
  BY <1>2 DEF RunningOn, Refs, Live
<1>4. CallsMatch
  BY <1>2 DEF CallsMatch, Takes
<1>5. HistoryOK /\ UsersMatch
  BY <1>2, <1>3, ThreadsAndProcesses DEF HistoryOK, UsersMatch
<1>6. RefsCounted
  BY <1>2, <1>3, FS_EmptySet DEF RefsCounted
<1>7. EntriesUsed
  BY <1>2, ThreadsAndProcesses DEF EntriesUsed, EntryOK
<1>8. CountsInRange
  BY <1>2 DEF CountsInRange
<1>9. Accounted
  <2> SUFFICES ASSUME NEW s \in Slots \cup Processes
               PROVE  Sums(s) = state[s].CurCount - startCount[s]
    BY DEF Accounted
  <2>1. /\ \A p \in Processes : Shown(s)[p] = 0
        /\ \A t \in Threads : Unshown(s)[t] = 0
    BY <1>2 DEF Shown, Unshown
  <2>2. SumFunctionOnSet(Shown(s), Processes) = 0 /\ SumFunctionOnSet(Unshown(s), Threads) = 0
    BY <2>1, SumOfZeros, ThreadsAndProcesses
  <2> QED BY <1>2, <2>2 DEF Sums
<1> QED
  BY <1>1, <1>4, <1>5, <1>6, <1>7, <1>8, <1>9 DEF CountInv, UsesOK

LEMMA CountStep == CountInv /\ [Next]_vars => CountInv'
<1> SUFFICES ASSUME CountInv, [Next]_vars PROVE CountInv'
  OBVIOUS
<1>1. ArrivalInv' /\ TypeOK' /\ TypeOK
  BY ArrivalStep DEF CountInv, ArrivalInv
<1> SUFFICES UsesOK' /\ CountsInRange' /\ Accounted'
  BY <1>1 DEF CountInv
<1>2. ASSUME NEW t \in Threads, ThreadEffect(t), \E d : ThreadCounts(t, d)
      PROVE  UsesOK' /\ CountsInRange' /\ Accounted'
  <2>1. PICK d : ThreadCounts(t, d)
    BY <1>2
  <2>2. /\ UNCHANGED <<stage, handle>> /\ \A s \in Slots : state'[s].RefCount = state[s].RefCount
    BY <1>2 DEF ThreadEffect, LibEffect
  <2>3. RefsCounted'
    BY <2>2, RefsStand DEF CountInv, UsesOK, Live
  <2> QED BY <1>1, <2>1, <2>3, ThreadKeepsUses, ThreadKeepsRange, ThreadKeepsAccount
<1>3. ASSUME NEW t \in Threads, ThreadStep(t) PROVE UsesOK' /\ CountsInRange' /\ Accounted'
  <2>1. ThreadEffect(t)
    BY <1>3, ThreadSteps DEF CountInv
  <2>2. \E d : ThreadCounts(t, d)
    BY <1>3, ProducesCounts, ConsumesCounts, PendingCounts, CountsCounts, EndsCounts DEF ThreadStep
  <2> QED BY <1>2, <2>1, <2>2
<1>4. ASSUME NEW p \in Processes, CtrlReleases(p) PROVE UsesOK' /\ CountsInRange' /\ Accounted'
  <2>1. <<p, Ctrl>> \in Threads
    BY ThreadsAndProcesses
  <2>2. ThreadEffect(<<p, Ctrl>>)
    BY <1>4, CtrlReleasesStep DEF CountInv
  <2>3. \E d : ThreadCounts(<<p, Ctrl>>, d)
    BY <1>4, CtrlReleasesCounts
  <2> QED BY <1>2, <2>1, <2>2, <2>3
<1>5. ASSUME NEW p \in Processes, MainCreates(p) PROVE UsesOK' /\ CountsInRange' /\ Accounted'
  <2>1. UNCHANGED <<input, Exit, rounds, NumProduced, NumConsumed, startCount, users>>
    BY <1>5 DEF MainCreates
  <2>2. CASE Valid(input[p].SemInitial, input[p].SemMax)
    <3>1. AllocSynchHandle(p, input[p].Name, input[p].FirstCFS)
      BY <1>5, <2>2 DEF MainCreates
    <3>2. input[p].Name \in Names \cup {NoName} /\ input[p].FirstCFS \in BOOLEAN
      BY <1>1 DEF TypeOK, TestTypeOK, InputType
    <3>3. Allocated(p)
      BY <1>1, <3>1, <3>2, AllocWrites
    <3> QED BY <1>1, <2>1, <2>2, <3>3, AllocKeeps
  <2>3. CASE ~Valid(input[p].SemInitial, input[p].SemMax)
    <3>1. stage[p] = "new" /\ stage' = [stage EXCEPT ![p] = "refused"] /\ UNCHANGED <<handle, state, call>>
      BY <1>5, <2>3 DEF MainCreates
    <3> QED BY <1>1, <2>1, <3>1, RefusedKeeps
  <2> QED BY <2>2, <2>3
<1>6. ASSUME NEW p \in Processes, MainStarts(p) PROVE UsesOK' /\ CountsInRange' /\ Accounted'
  BY <1>1, <1>6, CreateWrites, StartsKeeps
<1>7. ASSUME NEW p \in Processes, MainCloses(p) PROVE UsesOK' /\ CountsInRange' /\ Accounted'
  BY <1>1, <1>7, ClosesKeeps
<1>8. ASSUME NEW p \in Processes, CtrlC(p) PROVE UsesOK' /\ CountsInRange' /\ Accounted'
  <2>1. UNCHANGED <<stage, handle, state, call, input, NumProduced, NumConsumed, startCount, users>>
    BY <1>8 DEF CtrlC, libVars
  <2>2. /\ Exit' = [Exit EXCEPT ![p] = TRUE]
        /\ rounds' = [rounds EXCEPT ![<<p, Ctrl>>] = Cardinality(input[p].Consumers)]
    BY <1>8 DEF CtrlC
  <2>3. ASSUME NEW q \in Processes
        PROVE  /\ Exit[q] => Exit'[q]
               /\ rounds'[<<q, Ctrl>>] > 0 => Exit'[q]
    <3>1. Exit \in [Processes -> BOOLEAN] /\ rounds \in [Threads -> Int]
      BY <1>1 DEF TypeOK, TestTypeOK
    <3>2. CASE q = p
      BY <2>2, <3>1, <3>2
    <3>3. CASE q # p
      <4>1. Exit'[q] = Exit[q]
        BY <2>2, <3>1, <3>3
      <4>2. <<q, Ctrl>> # <<p, Ctrl>> /\ <<q, Ctrl>> \in Threads
        BY <3>3, ThreadsAndProcesses
      <4>3. rounds'[<<q, Ctrl>>] = rounds[<<q, Ctrl>>]
        BY <2>2, <3>1, <4>2
      <4> QED BY <4>1, <4>3 DEF CountInv, UsesOK, HistoryOK
    <3> QED BY <3>2, <3>3
  <2> QED BY <1>1, <2>1, <2>3, ExitKeeps
<1>9. CASE UNCHANGED vars
  <2>1. /\ UNCHANGED <<stage, handle, state, call, input, NumProduced, NumConsumed, startCount, users>>
        /\ UNCHANGED <<Exit, rounds>>
    BY <1>9 DEF vars, libVars, testVars
  <2> QED BY <1>1, <2>1, ExitKeeps DEF CountInv, UsesOK, HistoryOK
<1> QED
  BY <1>3, <1>4, <1>5, <1>6, <1>7, <1>8, <1>9 DEF Next, MainStep

(* ConsistencyTest for both libraries and any processes, threads, names,   *)
(* inputs and table, also when creations overlap: what each count gained   *)
(* since it began is what its users' statistics show, up to the calls that *)
(* returned and are not in the statistics yet.                             *)
THEOREM Consistent == Spec => []ConsistencyTest
<1>1. CountInv => ConsistencyTest
  <2> SUFFICES ASSUME CountInv, NEW s \in Slots \cup Processes PROVE ~Discrepancy(s)
    BY DEF ConsistencyTest
  <2>1. /\ TypeOK /\ BusyRuns /\ Accounted /\ EntriesUsed /\ UsersMatch
        /\ state[s].CurCount \in Int /\ state[s].MaxCount \in Int /\ startCount[s] \in Int
    BY NumbersTyped DEF CountInv, UsesOK, ArrivalInv
  <2>2. state[s].CurCount \in 0 .. state[s].MaxCount
    BY <2>1 DEF CountInv, CountsInRange
  <2>3. ASSUME Monitored(s) PROVE ExcessCount(s) = 0
    <3>1. Untouched(s)
      <4>1. PICK p \in users[s] : stage[p] = "running"
        BY <2>3 DEF Monitored
      <4>2. Written(s)
        BY <2>1, <4>1 DEF EntriesUsed, UsersMatch, TypeOK, TestTypeOK
      <4> QED BY <2>3, <4>2 DEF Monitored, Untouched, AnyExit
    <3>2. \A t \in Threads : Unshown(s)[t] = 0
      BY <2>3, ThreadsAndProcesses DEF Unshown, Monitored, Settled, At, Due
    <3>3. SumFunctionOnSet(Unshown(s), Threads) = 0
      BY <3>2, SumOfZeros, ThreadsAndProcesses
    <3>4. SumFunctionOnSet(Shown(s), Processes) = SumFunctionOnSet(Net, users[s])
      <4>1. users[s] \in SUBSET Processes
        BY <2>1 DEF TypeOK, TestTypeOK
      <4>2. /\ \A p \in users[s] : Shown(s)[p] \in Int /\ Net[p] = Shown(s)[p]
            /\ \A p \in Processes \ users[s] : Shown(s)[p] = 0
        BY <2>1, <4>1, NumbersTyped DEF Shown
      <4> QED BY <4>1, <4>2, SumOfPart, ThreadsAndProcesses
    <3>5. Sums(s) = state[s].CurCount - startCount[s]
      BY <2>1, <3>1 DEF Accounted
    <3>6. SumFunctionOnSet(Shown(s), Processes) \in Int
      BY <2>1, SumsTyped
    <3> QED BY <2>1, <3>3, <3>4, <3>5, <3>6 DEF ExcessCount, Sums
  <2> QED BY <2>2, <2>3 DEF Discrepancy
<1> QED
  BY <1>1, CountInit, CountStep, PTL DEF Spec
=============================================================================
