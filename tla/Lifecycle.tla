----------------------------- MODULE Lifecycle ------------------------------
(***************************************************************************)
(* The life of the server process: settings, daemonize(), the SIGHUP loop  *)
(* of main() with the creation and the destruction of the pool, the queue  *)
(* and the critical section, and the handler of SIGHUP                     *)
(* (sources/server.c, threads.h, daemonize.h).                             *)
(*                                                                         *)
(* Connections and threads are counted: module Dispatch has them one by    *)
(* one.  The handler runs between two steps of main or in a worker.  The   *)
(* flags of its sigaction are never set (server.c:388-390), so accept() and *)
(* recv() may or may not be restarted after it.                            *)
(***************************************************************************)
EXTENDS Parameters

CONSTANTS CommandLines,  \* what the user may type
          ConfLines,     \* what the configuration file may hold: words and newline
          MaxClients,    \* bound: clients that connect
          MaxSignals,    \* bound: SIGHUPs
          PortRange,     \* the number of TCP ports, 2^16
          UintRange,     \* the number of values of an unsigned
          Faults         \* the calls that may fail, by name

FallibleCalls ==
  {"fork", "setsid", "sem_init", "pthread_create", "bind", "create_cs"}

(* The words of the lines and the name of the default log.                 *)
AllWords ==
  {Defaults.log_file.name} \cup UNION {Range(line) : line \in CommandLines}
    \cup UNION {Range(line.words) : line \in ConfLines}

ASSUME LifecycleAssumption ==
  /\ MaxClients \in Nat /\ MaxSignals \in Nat
  /\ PortRange \in Nat \ {0} /\ UintRange \in Nat \ {0}
  /\ CommandLines \subseteq Seq(AllWords) /\ Null \notin AllWords
  /\ ConfLines \subseteq [words : Seq(AllWords), newline : BOOLEAN]
  /\ Faults \subseteq FallibleCalls

VARIABLES
  pc,        \* the next step of the main thread
  settings,  \* port, n_threads, s, conf_file, log_file
  sighup,    \* the flag
  ignored,   \* SIGHUP is ignored
  restarts,  \* SA_RESTART happens to be among the flags of the handler
  pool,      \* running threads of the pool
  asked,     \* history: the number of threads create_thread_pool() was asked for
  stale,     \* the pointer pool refers to a queue that was freed
  cap,       \* the capacity of connections
  port,      \* the port that is listened on
  waiting,   \* clients that accept() has not returned
  queued,    \* connections in the queue
  leaving,   \* workers between dequeue() and leave_cs()
  busy,      \* workers that serve a connection
  clients,   \* history: clients that connected
  signals    \* history: SIGHUPs that were sent

mainVars == <<pc, sighup, ignored, pool, asked, stale, cap, port>>
workVars == <<waiting, queued, leaving, busy>>
vars == <<pc, settings, sighup, ignored, restarts, pool, asked, stale, cap, port,
          waiting, queued, leaving, busy, clients, signals>>

Dead == {"usage", "exited", "crashed", "killed"}

MayFail(call) == call \in Faults

Fails(call, next) == MayFail(call) /\ pc' = next

(* synchronization.h: main goes on at next, or gives up.  A lock that is   *)
(* freed under a thread inside it is undefined behaviour.                  *)
create_semaphore(next) == pc' = next \/ Fails("sem_init", "exited")

create_cs(next) == pc' = next \/ Fails("create_cs", "exited")

destroy_cs(next) == pc' = next \/ (leaving > 0 /\ pc' = "crashed")

Init ==
  /\ pc = "params" /\ settings = Defaults
  /\ sighup = 0 /\ ignored = FALSE /\ restarts \in BOOLEAN
  /\ pool = 0 /\ asked = 0 /\ stale = FALSE /\ cap = 0 /\ port = 0
  /\ waiting = 0 /\ queued = 0 /\ leaving = 0 /\ busy = 0
  /\ clients = 0 /\ signals = 0

-----------------------------------------------------------------------------
(* Start: the command line, then the configuration file it names.          *)

ReadFile(parsed, line, readable, next) ==
  /\ settings' = UpdateParameters(readable, line, parsed).settings
  /\ \/ pc' = next
     \/ /\ parsed.conf_file # NoPath /\ readable /\ ~parsed.conf_file.newline
        /\ Overruns(line.words) /\ pc' = "crashed"

ReadSettings ==
  /\ pc = "params"
  /\ \E typed \in CommandLines, line \in ConfLines, readable \in BOOLEAN :
       LET parsed == FromCommandLine(typed, settings)
       IN  \/ parsed.result = "OK" /\ ReadFile(parsed.settings, line, readable, "fork")
           \/ parsed.result = "PARAM_ERR" /\ pc' = "usage" /\ UNCHANGED settings
           \/ parsed.result = "CRASH" /\ pc' = "crashed" /\ UNCHANGED settings
  /\ UNCHANGED <<sighup, ignored, restarts, pool, asked, stale, cap, port, workVars,
                 clients, signals>>

(* daemonize(): main goes on after a failure, whatever was done before it. *)
Fork ==
  /\ pc = "fork"
  /\ pc' = "setsid" \/ Fails("fork", "loop")
  /\ UNCHANGED <<settings, sighup, ignored, restarts, pool, asked, stale, cap, port,
                 workVars, clients, signals>>

Setsid ==
  /\ pc = "setsid"
  /\ \/ pc' = "fork_again" /\ ignored' = TRUE
     \/ Fails("setsid", "loop") /\ UNCHANGED ignored
  /\ UNCHANGED <<settings, sighup, restarts, pool, asked, stale, cap, port, workVars,
                 clients, signals>>

(* The action of SIGHUP is restored by the second child only.              *)
ForkAgain ==
  /\ pc = "fork_again"
  /\ \/ pc' = "redirect" /\ ignored' = FALSE
     \/ Fails("fork", "loop") /\ UNCHANGED ignored
  /\ UNCHANGED <<settings, sighup, restarts, pool, asked, stale, cap, port, workVars,
                 clients, signals>>

Redirect ==
  /\ pc = "redirect" /\ pc' = "loop"
  /\ UNCHANGED <<settings, sighup, ignored, restarts, pool, asked, stale, cap, port,
                 workVars, clients, signals>>

-----------------------------------------------------------------------------
(* The SIGHUP loop: creation.                                              *)

LoopStart ==
  /\ pc = "loop"
  /\ sighup' = 0
  /\ create_semaphore("pool")
  /\ UNCHANGED <<settings, ignored, restarts, pool, asked, stale, cap, port, workVars,
                 clients, signals>>

(* create_thread_pool() first empties the pool that pool points to, which  *)
(* may have been freed.  It stops at the first thread that cannot be       *)
(* created, and main goes on with the threads there are.                   *)
CreatePool ==
  /\ pc = "pool"
  /\ asked' = settings.n_threads
  /\ \/ /\ pc' = "listen" /\ stale' = FALSE
        /\ pool' \in IF asked' < 0 THEN {0}
                     ELSE IF MayFail("pthread_create") THEN 0 .. asked' ELSE {asked'}
     \/ stale /\ pc' = "crashed" /\ UNCHANGED <<pool, stale>>
  /\ UNCHANGED <<settings, sighup, ignored, restarts, cap, port, workVars,
                 clients, signals>>

(* socket(), bind() and listen(); htons() keeps the low 16 bits.           *)
Listen ==
  /\ pc = "listen"
  /\ \/ pc' = "queue" /\ port' = settings.port % PortRange
     \/ Fails("bind", "exited") /\ UNCHANGED port
  /\ UNCHANGED <<settings, sighup, ignored, restarts, pool, asked, stale, cap, workVars,
                 clients, signals>>

(* The capacity is unsigned; the array of a huge one may not exist.        *)
CreateConnections ==
  /\ pc = "queue"
  /\ cap' = settings.n_threads % UintRange
  /\ create_cs("test")
  /\ UNCHANGED <<settings, sighup, ignored, restarts, pool, asked, stale, port, workVars,
                 clients, signals>>

-----------------------------------------------------------------------------
(* The SIGHUP loop: service.                                               *)

TestSighupNever ==                  \* mutant: while(1)
  /\ pc = "test" /\ pc' = "accept"
  /\ UNCHANGED <<settings, sighup, ignored, restarts, pool, asked, stale, cap, port,
                 workVars, clients, signals>>

TestSighup ==
  /\ pc = "test"
  /\ pc' = IF sighup = 1 THEN "drain" ELSE "accept"
  /\ UNCHANGED <<settings, sighup, ignored, restarts, pool, asked, stale, cap, port,
                 workVars, clients, signals>>

(* A connection that finds the queue full leaves main in the critical      *)
(* section for ever (module Dispatch, WaitForRoomEnds).                    *)
Accept ==
  /\ pc = "accept" /\ waiting > 0
  /\ waiting' = waiting - 1
  /\ \/ queued < cap /\ queued' = queued + 1 /\ pc' = "test"
     \/ queued >= cap /\ pc' = "full" /\ UNCHANGED queued
     \/ cap > UintRange \div 2 /\ pc' = "crashed" /\ UNCHANGED queued
  /\ UNCHANGED <<settings, sighup, ignored, restarts, pool, asked, stale, cap, port,
                 leaving, busy, clients, signals>>

-----------------------------------------------------------------------------
(* The SIGHUP loop: destruction.                                           *)

(* size(connections) is read without the critical section.                 *)
Drain ==
  /\ pc = "drain" /\ queued = 0 /\ pc' = "destroy"
  /\ UNCHANGED <<settings, sighup, ignored, restarts, pool, asked, stale, cap, port,
                 workVars, clients, signals>>

(* destroyQueue, destroy_cs, close and stop_logging; a worker that is      *)
(* still to leave the critical section finds it freed.                     *)
Destroy ==
  /\ pc = "destroy"
  /\ cap' = 0 /\ port' = 0 /\ waiting' = 0
  /\ destroy_cs("kill")
  /\ UNCHANGED <<settings, sighup, ignored, restarts, pool, asked, stale, queued,
                 leaving, busy, clients, signals>>

(* pthread_kill(thread, 9) ends the process: only a server without threads *)
(* goes round the loop, with a pool that was freed and not forgotten.      *)
DestroyPool ==
  /\ pc = "kill"
  /\ IF pool > 0 THEN pc' = "killed" /\ UNCHANGED stale
                 ELSE pc' = "loop" /\ stale' = TRUE
  /\ UNCHANGED <<settings, sighup, ignored, restarts, pool, asked, cap, port, workVars,
                 clients, signals>>

-----------------------------------------------------------------------------
(* The workers and the clients.                                            *)

DequeueInService ==                 \* mutant: while(!sighup)
  /\ pc \in {"test", "accept"} /\ sighup = 0
  /\ queued > 0 /\ leaving = 0 /\ busy < pool
  /\ queued' = queued - 1 /\ leaving' = 1
  /\ UNCHANGED <<mainVars, settings, restarts, waiting, busy, clients, signals>>

Dequeue ==
  /\ pc \notin Dead \cup {"full", "kill", "loop"}
  /\ queued > 0 /\ leaving = 0 /\ busy < pool
  /\ queued' = queued - 1 /\ leaving' = 1
  /\ UNCHANGED <<mainVars, settings, restarts, waiting, busy, clients, signals>>

LeaveCs ==
  /\ pc \notin Dead /\ leaving > 0
  /\ leaving' = 0 /\ busy' = busy + 1
  /\ UNCHANGED <<mainVars, settings, restarts, waiting, queued, clients, signals>>

(* log_request() ends the service; stop_logging() may have freed log_cs.   *)
Finish ==
  /\ pc \notin Dead /\ busy > 0
  /\ busy' = busy - 1
  /\ UNCHANGED pc \/ (pc = "kill" /\ pc' = "crashed")
  /\ UNCHANGED <<settings, sighup, ignored, restarts, pool, asked, stale, cap, port,
                 waiting, queued, leaving, clients, signals>>

Connect ==
  /\ pc \notin Dead /\ port # 0 /\ clients < MaxClients
  /\ waiting' = waiting + 1 /\ clients' = clients + 1
  /\ UNCHANGED <<mainVars, settings, restarts, queued, leaving, busy, signals>>

-----------------------------------------------------------------------------
(* SIGHUP.                                                                 *)

HandlerKeepsFlag(line, readable, next) ==  \* mutant: sighup is not set
  /\ UNCHANGED sighup
  /\ ReadFile(settings, line, readable, next)

(* sighup_handler(); main or a worker goes on at next.                     *)
Handler(line, readable, next) ==
  IF settings.conf_file = NoPath
  THEN pc' = next /\ UNCHANGED <<sighup, settings>>
  ELSE sighup' = 1 /\ ReadFile(settings, line, readable, next)

Signalled ==
  /\ pc \notin Dead \cup {"params"} /\ ~ignored /\ signals < MaxSignals
  /\ signals' = signals + 1

(* accept() is interrupted, whether or not there is a file to read again.  *)
SighupInMain ==
  /\ Signalled
  /\ \E line \in ConfLines, readable \in BOOLEAN :
       Handler(line, readable, IF pc = "accept" /\ ~restarts THEN "drain" ELSE pc)
  /\ UNCHANGED <<ignored, restarts, pool, asked, stale, cap, port, workVars, clients>>

(* A recv() that is interrupted ends the dialogue of its worker.           *)
SighupInWorker ==
  /\ Signalled /\ pool > 0
  /\ \E line \in ConfLines, readable \in BOOLEAN : Handler(line, readable, pc)
  /\ busy' \in IF restarts \/ busy = 0 THEN {busy} ELSE {busy, busy - 1}
  /\ UNCHANGED <<ignored, restarts, pool, asked, stale, cap, port, waiting, queued,
                 leaving, clients>>

-----------------------------------------------------------------------------
MainStep ==
  \/ ReadSettings \/ Fork \/ Setsid \/ ForkAgain \/ Redirect
  \/ LoopStart \/ CreatePool \/ Listen \/ CreateConnections
  \/ TestSighup \/ Accept \/ Drain \/ Destroy \/ DestroyPool

WorkerStep == Dequeue \/ LeaveCs

Next ==
  \/ MainStep \/ WorkerStep \/ Finish \/ Connect
  \/ SighupInMain \/ SighupInWorker

Spec == Init /\ [][Next]_vars

(* The scheduler runs main and the workers; clients need not finish.       *)
LiveSpec == Spec /\ WF_vars(MainStep) /\ WF_vars(WorkerStep)

-----------------------------------------------------------------------------
Serving == pc \in {"test", "accept"}

(* The words of a line that are the values of the option before them.      *)
IsValue(words) ==
  LET value[i \in 0 .. Len(words)] ==
        i > 1 /\ words[i - 1] \in DOMAIN NumberField \cup DOMAIN PathField /\ ~value[i - 1]
  IN  value

(* The words of the file that count: those that argv[] has room for, but   *)
(* for a last one that is not a value.                                     *)
WordsRead(words) ==
  LET kept == IF Len(words) < ArgvSize THEN words ELSE SubSeq(words, 1, ArgvSize - 1)
  IN  IF IsValue(kept)[Len(kept)] THEN kept ELSE Front(kept)

(* server.c:127, "Sets argc and argv as if they were read from command     *)
(* line.": reading the file gives every setting the value that the words   *)
(* which count give on a command line, where the last word of the line is  *)
(* typed with the newline it has in the file.  Accepted, refused and too   *)
(* long lines alike; so a last -s or -l is not read from the file, and a   *)
(* last path ends with the newline, unlike what the user would type.       *)
FileReadsAsCommandLine ==
  settings.conf_file # NoPath /\ ~settings.conf_file.newline =>
    \A line \in ConfLines :
      LET read == WordsRead(line.words)
      IN  UpdateParameters(TRUE, line, settings).settings =
            GetParameters(read, Len(read) + 1, line.newline /\ read = line.words,
                          settings).settings

(* n_threads is read for the pool, the backlog and the queue (server.c:412,*)
(* 449, 456) while the handler may change it: a server that accepts has a  *)
(* queue of another size than the pool it asked for only if it is about to  *)
(* restart.                                                                *)
SizesAgree == Serving /\ sighup = 0 => cap = asked % UintRange

(* server.c:517, "Wait for pending connections to be fulfilled.": main     *)
(* ends this wait, unless its clients keep every worker for ever.  (It     *)
(* then kills the requests that are being served: DestroyPool.)            *)
PendingAreTaken ==
  []<>(busy < pool) => (pc = "drain" ~> pc # "drain")

(* Once the flag is set main leaves the loop of accept() as soon as one    *)
(* client comes, and never waits for a second one.                         *)
FlagEndsService ==
  [](pc # "full") => (sighup = 1 /\ waiting > 0 ~> ~Serving)
=============================================================================
