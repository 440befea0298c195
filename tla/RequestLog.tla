----------------------------- MODULE RequestLog -----------------------------
(***************************************************************************)
(* log_request() of sources/logging.h, called by every worker at the end   *)
(* of a request (server.c:310-314) on one file guarded by log_cs.          *)
(*                                                                         *)
(* A line of the log is the thread that wrote it and the number of its     *)
(* request.  fwrite() only fills the stream's buffer and fclose() appends  *)
(* it to the file: they are one step, which fails as a whole when the disk *)
(* is full.  The caller goes on to its next request whatever the call      *)
(* returned.  A log file that is not set ends the call before the critical *)
(* section, as a failure of get_time() does.                               *)
(***************************************************************************)
EXTENDS Integers, Sequences

CONSTANTS Threads,      \* the threads of the pool
          MaxRequests,  \* bound: requests logged by each thread
          Faults,       \* the calls that may fail, by name
          NoThread      \* the owner of a free critical section

FallibleCalls == {"get_time", "enter_cs", "fopen", "fwrite", "leave_cs"}

ASSUME LogAssumption ==
  /\ MaxRequests \in Nat
  /\ NoThread \notin Threads
  /\ Faults \subseteq FallibleCalls

VARIABLES
  pc,      \* the next call of each thread, "away" outside log_request()
  req,     \* the number of the thread's current or last request
  log_cs,  \* the thread inside the critical section
  file,    \* the lines of the log file
  acked    \* history: the requests for which log_request() returned OK

logVars == <<pc, req, log_cs, file, acked>>

Calls == {"away", "get_time", "enter_cs", "fopen", "fwrite", "leave_cs"}

Lines == Threads \X (1 .. MaxRequests)

Line(t) == <<t, req[t]>>

MayFail(call) == call \in Faults

Goto(t, call) == pc' = [pc EXCEPT ![t] = call]

Return(t) == Goto(t, "away")

LogInit ==
  /\ pc = [t \in Threads |-> "away"]
  /\ req = [t \in Threads |-> 0]
  /\ log_cs = NoThread
  /\ file = <<>>
  /\ acked = {}

-----------------------------------------------------------------------------
LogRequest(t) ==
  /\ pc[t] = "away" /\ req[t] < MaxRequests
  /\ req' = [req EXCEPT ![t] = @ + 1]
  /\ Goto(t, "get_time")
  /\ UNCHANGED <<log_cs, file, acked>>

GetTime(t) ==
  /\ pc[t] = "get_time"
  /\ Goto(t, "enter_cs") \/ (MayFail("get_time") /\ Return(t))
  /\ UNCHANGED <<req, log_cs, file, acked>>

EnterCsAnyway(t) ==                 \* mutant: the lock is not waited for
  /\ pc[t] = "enter_cs"
  /\ log_cs' = t /\ Goto(t, "fopen")
  /\ UNCHANGED <<req, file, acked>>

EnterCs(t) ==
  /\ pc[t] = "enter_cs"
  /\ \/ log_cs = NoThread /\ log_cs' = t /\ Goto(t, "fopen")
     \/ MayFail("enter_cs") /\ Return(t) /\ UNCHANGED log_cs
  /\ UNCHANGED <<req, file, acked>>

OpenAgain(t) ==                     \* mutant: starts over inside the section
  /\ pc[t] = "fopen"
  /\ Goto(t, "fwrite") \/ (MayFail("fopen") /\ Goto(t, "enter_cs"))
  /\ UNCHANGED <<req, log_cs, file, acked>>

(* A file that cannot be opened ends the call inside the critical section. *)
OpenFile(t) ==
  /\ pc[t] = "fopen"
  /\ Goto(t, "fwrite") \/ (MayFail("fopen") /\ Return(t))
  /\ UNCHANGED <<req, log_cs, file, acked>>

WriteTwice(t) ==                    \* mutant: the line is written again
  /\ pc[t] = "fwrite"
  /\ \/ file' = file \o <<Line(t), Line(t)>>
     \/ MayFail("fwrite") /\ UNCHANGED file
  /\ Goto(t, "leave_cs")
  /\ UNCHANGED <<req, log_cs, acked>>

(* The results of fwrite() and fclose() are not looked at.                 *)
WriteLine(t) ==
  /\ pc[t] = "fwrite"
  /\ file' = Append(file, Line(t)) \/ (MayFail("fwrite") /\ UNCHANGED file)
  /\ Goto(t, "leave_cs")
  /\ UNCHANGED <<req, log_cs, acked>>

(* A failure of leave_cs() is printed and the call still returns OK.       *)
LeaveCs(t) ==
  /\ pc[t] = "leave_cs"
  /\ log_cs' = NoThread \/ (MayFail("leave_cs") /\ UNCHANGED log_cs)
  /\ Return(t)
  /\ acked' = acked \cup {Line(t)}
  /\ UNCHANGED <<req, file>>

CallStep(t) ==
  GetTime(t) \/ EnterCs(t) \/ OpenFile(t) \/ WriteLine(t) \/ LeaveCs(t)

LogNext == \E t \in Threads : LogRequest(t) \/ CallStep(t)

LogSpec == LogInit /\ [][LogNext]_logVars

(* The scheduler runs every thread that can run; a thread that waits for   *)
(* log_cs gets it if the section is free again and again.  That enter_cs   *)
(* fails is nothing to count on.                                           *)
Scheduled(t) == CallStep(t) /\ (pc[t] = "enter_cs" => pc'[t] = "fopen")

LogLiveSpec == LogSpec /\ \A t \in Threads : SF_logVars(Scheduled(t))

-----------------------------------------------------------------------------
Inside == {"fopen", "fwrite", "leave_cs"}

TypeOK ==
  /\ pc \in [Threads -> Calls]
  /\ req \in [Threads -> 0 .. MaxRequests]
  /\ log_cs \in Threads \cup {NoThread}
  /\ file \in Seq(Lines)
  /\ acked \subseteq Lines

Written == {file[i] : i \in 1 .. Len(file)}

(* The threads whose line may be in the file although the call is not over.*)
Ending == {t \in Threads : pc[t] = "leave_cs"}

(* logging.h:8, "Critical section to access log file.": one thread at a    *)
(* time has the file open, on every error path.                            *)
OneWriter == \A t \in Threads : pc[t] \in Inside => log_cs = t

(* A call that reports a failure leaves no line behind, and no request is  *)
(* logged twice or before an earlier request of the same thread.           *)
LinesInOrder ==
  /\ Written \subseteq acked \cup {Line(t) : t \in Ending}
  /\ \A i, j \in 1 .. Len(file) :
       i < j /\ file[i][1] = file[j][1] => file[i][2] < file[j][2]

(* The line of a request for which log_request() returned OK is in the     *)
(* file (logging.h:35-36: "Return OK on success, INT_ERR when an internal  *)
(* function returned error.").                                             *)
OkIsLogged == acked \subseteq Written

(* When neither fopen() nor leave_cs() fails, no thread is away from       *)
(* log_request() with the critical section in its hands.                   *)
LockComesBack == \A t \in Threads : log_cs = t => pc[t] \in Inside

(* A thread that is away took the critical section with it: its fopen() or *)
(* its leave_cs() failed.                                                  *)
HoldsAway == \E t \in Threads : log_cs = t /\ pc[t] = "away"

(* Every call of log_request() returns (logging.h:35-36 names the values), *)
(* if no call ever returns with the critical section in its hands.         *)
LogRequestReturns ==
  []~HoldsAway => \A t \in Threads : pc[t] # "away" ~> pc[t] = "away"
=============================================================================
