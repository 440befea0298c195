----------------------------- MODULE PipeServer -----------------------------
(***************************************************************************)
(* The command servers over named pipes and their clients:                 *)
(*   serverNP    CHAPTR11/serverNP.C, a thread per pipe instance, with a   *)
(*               connect thread so that it can look at ShutDown            *)
(*   serverSM    CHAPTR14/serverSM.C, the same with blocking calls, and a  *)
(*               semaphore that limits the commands that run               *)
(*   serverNPCP  CHAPTR14/serverNPCP.C, a few threads that share the       *)
(*               instances through an I/O completion port                  *)
(*   clientNP.C and LOCSRVER.C, the client, and SRVRBCST.C, the broadcast  *)
(*   of the pipe's name as a program of its own.                           *)
(*                                                                         *)
(* The actions that the three servers share are written once; program says *)
(* which one runs.  Named pipes, mailslots and completion ports belong to  *)
(* the system: a client connects to any instance that listens, and an      *)
(* instance listens from its creation, and after a disconnection from the  *)
(* next ConnectNamedPipe().                                                *)
(***************************************************************************)
EXTENDS Integers, Sequences, FiniteSets

CONSTANTS
  Clients,
  Programs,           \* the servers
  MAX_CLIENTS,        \* the pipe instances
  ServerThreads,      \* the numbers of threads serverNPCP may be built for
  MAX_READY_THREADS,  \* the commands that serverSM runs at a time
  MaxCommands,        \* the commands a user types before "$Quit"
  LineCounts,         \* the numbers of lines a command may write
  CtrlC,              \* the servers in whose console ctrl-c is pressed
  Killed,             \* the clients that may be killed
  NULL,
  Faults              \* the calls that may fail

FallibleCalls == {"CreateNamedPipe", "_beginthreadex", "CreateFile", "fopen", "mailslot"}

ASSUME PipeServerAssumption ==
  /\ Programs \subseteq {"serverNP", "serverSM", "serverNPCP"} /\ CtrlC \subseteq Programs
  /\ MAX_CLIENTS \in Nat \ {0} /\ ServerThreads \subseteq 1 .. MAX_CLIENTS
  /\ MAX_READY_THREADS \in Nat \ {0}
  /\ MaxCommands \in Nat /\ LineCounts \subseteq Nat
  /\ Faults \subseteq FallibleCalls
  /\ NULL \notin Clients

Pipes == 1 .. MAX_CLIENTS

VARIABLES
  program,
  nThreads,   \* its server threads
  process,    \* "running", or how the server process ended
  ShutDown,
  main,       \* the main thread: pc, and the instance or thread it is at
  monitor,    \* the broadcast thread
  thread,     \* the server threads
  sem,        \* hSem of serverSM
  Key,        \* what its instances wait for: Type and whether it is pending
  pipe,       \* the pipe instances
  output,     \* the lines the last command of each client wrote
  client      \* the client processes

control == <<main, monitor>>
build == <<program, nThreads>>
vars == <<build, process, ShutDown, control, thread, sem, Key, pipe, output, client>>

CompletionPort == program = "serverNPCP"

(* A thread: the instance it serves, its connect thread, whether it has    *)
(* its temporary file open and what is in it, and the lines already sent.  *)
NoThread == [pc |-> "none", pipe |-> 0, hConTh |-> "none", file |-> FALSE, temp |-> <<>>, read |-> 0]

NoPipe == [state |-> "none", by |-> NULL, open |-> FALSE, request |-> "", responses |-> <<>>]

NoClient == [pc |-> "ended", pipe |-> 0, asked |-> 0, printed |-> <<>>]

Init ==
  /\ program \in Programs
  /\ nThreads \in IF CompletionPort THEN ServerThreads ELSE {MAX_CLIENTS}
  /\ process = "running" /\ ShutDown = FALSE
  /\ main = [pc |-> "create", i |-> 1] /\ monitor = "while"
  /\ thread = [t \in Pipes |-> NoThread]
  /\ sem = MAX_READY_THREADS
  /\ Key = [p \in Pipes |-> [Type |-> 0, pending |-> FALSE]]
  /\ pipe = [p \in Pipes |-> NoPipe]
  /\ output = [c \in Clients |-> <<>>]
  /\ client = [c \in Clients |-> [NoClient EXCEPT !.pc = "locate"]]

Running == process = "running"

-----------------------------------------------------------------------------
(* Named pipes.                                                            *)

Listens(p) == pipe[p].state = "listening"

Connected(p) == pipe[p].state = "connected"

(* The server's end still has a client at the other one.                   *)
HasClient(p) == Connected(p) /\ pipe[p].open

(* ConnectNamedPipe() makes a disconnected instance listen.                *)
Listening(p) ==
  IF pipe[p].state = "disconnected" THEN [NoPipe EXCEPT !.state = "listening"] ELSE pipe[p]

Disconnected == [NoPipe EXCEPT !.state = "disconnected"]

(* FlushFileBuffers() waits until the client has read what was written.    *)
Flushed(p) == HasClient(p) => pipe[p].responses = <<>>

(* WriteFile() of a response; one to a client that is gone is ignored.     *)
Written(p, response) ==
  IF HasClient(p) THEN [pipe EXCEPT ![p].responses = Append(@, response)] ELSE pipe

(* The process ends: its ends of the pipes are closed, and what it wrote   *)
(* can still be read.                                                      *)
Dies(how) ==
  /\ process' = how /\ ShutDown' = FALSE
  /\ main' = [pc |-> "create", i |-> 1] /\ monitor' = "while"
  /\ thread' = [t \in Pipes |-> NoThread]
  /\ sem' = MAX_READY_THREADS
  /\ Key' = [p \in Pipes |-> [Type |-> 0, pending |-> FALSE]]
  /\ pipe' = [p \in Pipes |-> [pipe[p] EXCEPT !.state = "none", !.request = ""]]
  /\ UNCHANGED <<build, output, client>>

-----------------------------------------------------------------------------
(* main().                                                                 *)

MainFrame == UNCHANGED <<build, process, ShutDown, monitor, sem, output, client>>

Threads == 1 .. nThreads

First == CASE program = "serverNP"   -> [NoThread EXCEPT !.pc = "while"]
           [] program = "serverSM"   -> [NoThread EXCEPT !.pc = "connect"]
           [] program = "serverNPCP" -> [NoThread EXCEPT !.pc = "while"]

(* The next instance, and for a server with a thread per instance its      *)
(* thread.                                                                 *)
MainCreates ==
  /\ main.pc = "create"
  /\ pipe' = [pipe EXCEPT ![main.i].state = "listening"]
  /\ IF CompletionPort
     THEN main' = [main EXCEPT !.pc = "connect"] /\ UNCHANGED thread
     ELSE /\ thread' = [thread EXCEPT ![main.i] = [First EXCEPT !.pipe = main.i]]
          /\ main' = IF main.i < MAX_CLIENTS THEN [main EXCEPT !.i = @ + 1]
                     ELSE [main EXCEPT !.pc = "wait"]
  /\ UNCHANGED Key /\ MainFrame

(* The overlapped ConnectNamedPipe() of serverNPCP: a client that is       *)
(* already there makes it report an error that ends the process.           *)
MainConnects ==
  /\ main.pc = "connect"
  /\ IF Listens(main.i)
     THEN /\ Key' = [Key EXCEPT ![main.i].pending = TRUE]
          /\ main' = IF main.i < MAX_CLIENTS THEN [pc |-> "create", i |-> main.i + 1]
                     ELSE [pc |-> "threads", i |-> 1]
          /\ UNCHANGED <<thread, pipe>> /\ MainFrame
     ELSE Dies("ended")

MainBegins ==
  /\ main.pc = "threads"
  /\ thread' = [thread EXCEPT ![main.i] = First]
  /\ main' = IF main.i < nThreads THEN [main EXCEPT !.i = @ + 1]
             ELSE [main EXCEPT !.pc = "wait"]
  /\ UNCHANGED <<Key, pipe>> /\ MainFrame

(* "Failure to open named pipe." and its like end the process.             *)
MainFails ==
  /\ "CreateNamedPipe" \in Faults
  /\ main.pc \in {"create", "threads"}
  /\ Dies("ended")

(* All the server threads have ended, and the broadcast thread.            *)
MainReturns ==
  /\ main.pc = "wait"
  /\ \A t \in Threads : thread[t].pc \in {"ended", "failed"}
  /\ monitor = "ended"
  /\ Dies("ended")

serverNP_main == program = "serverNP" /\ (MainCreates \/ MainFails \/ MainReturns)

serverSM_main == program = "serverSM" /\ (MainCreates \/ MainFails \/ MainReturns)

serverNPCP_main ==
  /\ program = "serverNPCP"
  /\ MainCreates \/ MainConnects \/ MainBegins \/ MainFails \/ MainReturns

Main == Running /\ (serverNP_main \/ serverSM_main \/ serverNPCP_main)

Handler ==
  /\ Running /\ ~ShutDown /\ program \in CtrlC
  /\ ShutDown' = TRUE
  /\ UNCHANGED <<build, process, control, thread, sem, Key, pipe, output, client>>

-----------------------------------------------------------------------------
(* The broadcast of the pipe's name to the mailslots that clients have     *)
(* open.  serverSM looks for a mailslot until there is one.                *)

Locating == {c \in Clients : client[c].pc = "locate"}

Located == client' = [c \in Clients |-> IF c \in Locating THEN [client[c] EXCEPT !.pc = "wait"]
                                        ELSE client[c]]

MonitorFrame == UNCHANGED <<build, process, ShutDown, main, thread, sem, Key, pipe, output>>

MonitorTests ==
  /\ monitor = "while"
  /\ monitor' = IF ShutDown THEN "ended" ELSE "open"
  /\ UNCHANGED client /\ MonitorFrame

MonitorWrites ==
  /\ monitor = "open"
  /\ program = "serverSM" => Locating # {}
  /\ monitor' = "while"
  /\ Located /\ MonitorFrame

MonitorFails ==
  /\ "mailslot" \in Faults
  /\ monitor = "open" /\ Locating # {}
  /\ Dies("ended")

ServerBroadcast == Running /\ (MonitorTests \/ MonitorWrites \/ MonitorFails)

(* The program SRVRBCST.C broadcasts whether a server runs or not.         *)
SRVRBCST ==
  /\ Locating # {}
  /\ Located /\ UNCHANGED monitor /\ MonitorFrame

-----------------------------------------------------------------------------
(* What the server threads share: a command, and its response.             *)

Goto(t, pc) == thread' = [thread EXCEPT ![t].pc = pc]

ThreadFrame == UNCHANGED <<build, process, control, client>>

Quiet == UNCHANGED <<ShutDown, sem, Key, pipe, output>> /\ ThreadFrame

(* The lines of a command: whose it is and which one.                      *)
Lines(c, n) == [i \in 1 .. n |-> <<c, client[c].asked>>]

(* The command has ended: what it wrote is in the thread's file, if the    *)
(* thread has one.                                                         *)
CommandEnds(t) ==
  /\ thread[t].pc = "execute"
  /\ LET p == thread[t].pipe
     IN  \E n \in LineCounts :
           LET lines == IF HasClient(p) THEN Lines(pipe[p].by, n) ELSE [i \in 1 .. n |-> NULL]
           IN  /\ thread' = [thread EXCEPT ![t] =
                               [thread[t] EXCEPT !.pc = "send", !.read = 0,
                                                 !.temp = IF thread[t].file THEN @ \o lines ELSE @]]
               /\ output' = IF HasClient(p) THEN [output EXCEPT ![pipe[p].by] = lines] ELSE output
  /\ sem' = IF program = "serverSM" THEN sem + 1 ELSE sem
  /\ UNCHANGED <<ShutDown, Key, pipe>> /\ ThreadFrame

(* serverNPCP waits for an event that a failed write does not set.         *)
MayHang(t) == CompletionPort /\ ~HasClient(thread[t].pipe)

SendsLine(t) ==
  /\ thread[t].pc = "send" /\ thread[t].read < Len(thread[t].temp)
  /\ pipe' = Written(thread[t].pipe, [end |-> FALSE, line |-> thread[t].temp[thread[t].read + 1]])
  /\ IF MayHang(t) THEN Goto(t, "hung") ELSE thread' = [thread EXCEPT ![t].read = @ + 1]
  /\ UNCHANGED <<ShutDown, sem, Key, output>> /\ ThreadFrame

Replied == CASE program = "serverNP"   -> "read"
             [] program = "serverSM"   -> "flush reply"
             [] program = "serverNPCP" -> "read again"

SendsEndNoErase(t) ==               \* mutant: the file is not erased
  /\ thread[t].pc = "send" /\ thread[t].read = Len(thread[t].temp)
  /\ pipe' = Written(thread[t].pipe, [end |-> TRUE, line |-> NULL])
  /\ Goto(t, IF MayHang(t) THEN "hung" ELSE Replied)
  /\ UNCHANGED <<ShutDown, sem, Key, output>> /\ ThreadFrame

(* The temporary file is erased and the end of the response indicated.     *)
SendsEnd(t) ==
  /\ thread[t].pc = "send" /\ thread[t].read = Len(thread[t].temp)
  /\ pipe' = Written(thread[t].pipe, [end |-> TRUE, line |-> NULL])
  /\ thread' = [thread EXCEPT ![t] = [@ EXCEPT !.pc = IF MayHang(t) THEN "hung" ELSE Replied,
                                               !.temp = <<>>, !.read = 0]]
  /\ UNCHANGED <<ShutDown, sem, Key, output>> /\ ThreadFrame

(* fopen() fails, and fgets() is called with NULL.                         *)
OpenFails(t) ==
  /\ "fopen" \in Faults
  /\ thread[t].pc = "send" /\ thread[t].read = 0
  /\ Dies("crashed")

Responds(t) ==
  CommandEnds(t) \/ SendsLine(t) \/ SendsEnd(t) \/ OpenFails(t)

(* ReadFile() of a request: it waits for one, and fails once the client    *)
(* has closed its end.                                                     *)
Requested(p) == Connected(p) /\ pipe[p].request # ""

Broken(p) == ~Requested(p) /\ ~HasClient(p)

ShutRqst(p) == pipe[p].request = "$ShutDownServer"

Taken(p) == [pipe EXCEPT ![p].request = ""]

(* ShutDown = ShutDown || ... of serverNP and serverNPCP: a thread that has *)
(* read the flag as not set, and a command, stores what it has read, also  *)
(* when the flag was set in between.                                       *)
StoresFlag(t) ==
  /\ thread[t].pc = "store"
  /\ ShutDown' = FALSE
  /\ Goto(t, "execute")
  /\ UNCHANGED <<sem, Key, pipe, output>> /\ ThreadFrame

(* CreateFile() of the temporary file empties it.                          *)
NewFile(t, pc) == thread' = [thread EXCEPT ![t] = [@ EXCEPT !.pc = pc, !.file = TRUE, !.temp = <<>>]]

-----------------------------------------------------------------------------
(* Server() and Connect() of serverNP.                                     *)

BeginsConnect(t) ==
  /\ thread[t].pc = "while"
  /\ IF ShutDown THEN Goto(t, "end")
     ELSE \/ thread' = [thread EXCEPT ![t] = [@ EXCEPT !.pc = "wait", !.hConTh = "begun"]]
          \/ "_beginthreadex" \in Faults /\ Goto(t, "failed")
  /\ Quiet

(* The connect thread: ConnectNamedPipe(), and its return.                 *)
Connects(t) ==
  /\ thread[t].hConTh = "begun"
  /\ pipe' = [pipe EXCEPT ![t] = Listening(t)]
  /\ thread' = [thread EXCEPT ![t].hConTh = "waits"]
  /\ UNCHANGED <<ShutDown, sem, Key, output>> /\ ThreadFrame

ConnectReturns(t) ==
  /\ thread[t].hConTh = "waits" /\ Connected(t)
  /\ thread' = [thread EXCEPT ![t].hConTh = "ended"]
  /\ Quiet

WaitsForConnect(t) ==               \* mutant: the wait has no time limit
  /\ thread[t].pc = "wait" /\ thread[t].hConTh = "ended"
  /\ thread' = [thread EXCEPT ![t] = [@ EXCEPT !.pc = IF ShutDown THEN "end" ELSE "read",
                                               !.hConTh = IF ShutDown THEN @ ELSE "none",
                                               !.file = TRUE, !.temp = <<>>]]
  /\ Quiet

(* The wait for the connect thread; its time limit only repeats the test   *)
(* of ShutDown.                                                            *)
WaitsForClient(t) ==
  /\ thread[t].pc = "wait"
  /\ \/ /\ ShutDown
        /\ Goto(t, "end")
     \/ /\ ~ShutDown /\ thread[t].hConTh = "ended"
        /\ \/ thread' = [thread EXCEPT ![t] = [@ EXCEPT !.pc = "read", !.hConTh = "none",
                                                      !.file = TRUE, !.temp = <<>>]]
           \/ /\ "CreateFile" \in Faults
              /\ thread' = [thread EXCEPT ![t] = [@ EXCEPT !.pc = "failed", !.hConTh = "none"]]
  /\ Quiet

(* The head of the command loop.  Once in ReadFile() a thread does not see *)
(* the flag until its client has written or is gone.                       *)
TestsShutDown(t) ==
  /\ thread[t].pc = "read"
  /\ Goto(t, IF ShutDown THEN "flush" ELSE "reading")
  /\ Quiet

(* A request that is read when the flag is set is dropped.                 *)
ReadsRequest(t) ==
  /\ thread[t].pc = "reading"
  /\ \/ Broken(t) /\ Goto(t, "flush") /\ UNCHANGED <<ShutDown, pipe>>
     \/ /\ Requested(t)
        /\ ShutDown' = (ShutDown \/ ShutRqst(t))
        /\ Goto(t, IF ShutDown' THEN "flush" ELSE "store")
        /\ pipe' = Taken(t)
  /\ UNCHANGED <<sem, Key, output>> /\ ThreadFrame

Disconnects(t) ==
  /\ thread[t].pc = "flush" /\ Flushed(t)
  /\ pipe' = [pipe EXCEPT ![t] = Disconnected]
  /\ thread' = [thread EXCEPT ![t] = [@ EXCEPT !.pc = "while", !.file = FALSE, !.temp = <<>>]]
  /\ UNCHANGED <<ShutDown, sem, Key, output>> /\ ThreadFrame

(* The connect thread may still wait: a short connection, to any instance  *)
(* that listens, is to release it.  Without a handle ConThStatus has no    *)
(* value, and the wait at the end fails.                                   *)
ForcesConnect(t) ==
  /\ thread[t].pc = "end"
  /\ LET active == thread[t].hConTh \in {"begun", "waits"}
         any == {p \in Pipes : Listens(p)}
     IN  /\ Goto(t, IF active THEN "join" ELSE "ended")
         /\ \E forces \in IF thread[t].hConTh = "none" THEN BOOLEAN ELSE {active} :
              IF forces /\ any # {}
              THEN \E p \in any : pipe' = [pipe EXCEPT ![p].state = "connected"]
              ELSE UNCHANGED pipe
  /\ UNCHANGED <<ShutDown, sem, Key, output>> /\ ThreadFrame

JoinsConnect(t) ==
  /\ thread[t].pc = "join" /\ thread[t].hConTh = "ended"
  /\ Goto(t, "ended")
  /\ Quiet

serverNP(t) ==
  /\ Running /\ program = "serverNP"
  /\ \/ BeginsConnect(t) \/ Connects(t) \/ ConnectReturns(t) \/ WaitsForClient(t)
     \/ TestsShutDown(t) \/ ReadsRequest(t) \/ StoresFlag(t) \/ Responds(t)
     \/ Disconnects(t) \/ ForcesConnect(t) \/ JoinsConnect(t)

-----------------------------------------------------------------------------
(* Server() of serverSM.                                                   *)

(* ConnectNamedPipe(): the call, and its return.                           *)
ConnectsAndWaits(t) ==
  /\ thread[t].pc \in {"connect", "reconnect"}
  /\ pipe' = [pipe EXCEPT ![t] = Listening(t)]
  /\ Goto(t, IF thread[t].pc = "connect" THEN "connecting" ELSE "reconnecting")
  /\ UNCHANGED <<ShutDown, sem, Key, output>> /\ ThreadFrame

WaitReturns(t) ==
  /\ thread[t].pc \in {"connecting", "reconnecting"} /\ Connected(t)
  /\ Goto(t, IF thread[t].pc = "connecting" THEN "while" ELSE "read")
  /\ Quiet

(* Nothing handles the exception that ReportException() raises.            *)
OpensFile(t) ==
  /\ thread[t].pc = "while"
  /\ IF ShutDown THEN Goto(t, "stop") /\ Quiet
     ELSE \/ NewFile(t, "read") /\ Quiet
          \/ "CreateFile" \in Faults /\ Dies("crashed")

(* A client that has gone is replaced before the next request.             *)
ReadsOrReconnects(t) ==
  /\ thread[t].pc = "read"
  /\ \/ /\ Broken(t)
        /\ pipe' = [pipe EXCEPT ![t] = Disconnected]
        /\ Goto(t, "reconnect") /\ UNCHANGED ShutDown
     \/ /\ Requested(t)
        /\ ShutDown' = (ShutDown \/ ShutRqst(t))
        /\ Goto(t, IF ShutRqst(t) THEN "stop" ELSE "limit")
        /\ pipe' = Taken(t)
  /\ UNCHANGED <<sem, Key, output>> /\ ThreadFrame

(* The wait for the semaphore, before the command is started.              *)
LimitsReady(t) ==
  /\ thread[t].pc = "limit" /\ sem > 0
  /\ sem' = sem - 1
  /\ Goto(t, "execute")
  /\ UNCHANGED <<ShutDown, Key, pipe, output>> /\ ThreadFrame

FlushesReply(t) ==
  /\ thread[t].pc = "flush reply" /\ Flushed(t)
  /\ Goto(t, "while")
  /\ Quiet

ClosesPipe(t) ==
  /\ thread[t].pc = "stop"
  /\ pipe' = [pipe EXCEPT ![t] = NoPipe]
  /\ Goto(t, "ended")
  /\ UNCHANGED <<ShutDown, sem, Key, output>> /\ ThreadFrame

serverSM(t) ==
  /\ Running /\ program = "serverSM"
  /\ \/ ConnectsAndWaits(t) \/ WaitReturns(t) \/ OpensFile(t) \/ ReadsOrReconnects(t)
     \/ LimitsReady(t) \/ Responds(t) \/ FlushesReply(t) \/ ClosesPipe(t)

-----------------------------------------------------------------------------
(* Server() of serverNPCP, and the completions of its overlapped calls.    *)

(* The head of the loop.  A thread that never enters it has no key, and    *)
(* uses the value of KeyIndex that it finds.                               *)
TestsFlag(t) ==
  /\ thread[t].pc = "while"
  /\ \/ ~ShutDown /\ Goto(t, "get")
     \/ /\ ShutDown
        /\ \E p \in IF thread[t].pipe = 0 THEN Pipes ELSE {thread[t].pipe} :
             thread' = [thread EXCEPT ![t] = [@ EXCEPT !.pc = "flush", !.pipe = p]]
  /\ Quiet

(* The overlapped call on instance p has completed: a client has connected, *)
(* has written, or is gone.                                                *)
Completed(p) ==
  Key[p].pending /\ (IF Key[p].Type = 0 THEN Connected(p) ELSE Requested(p) \/ Broken(p))

(* GetQueuedCompletionStatus(), of calls that may have completed in any    *)
(* order.  A failed one ends the thread ("Server failure").                *)
Gets(t, p, pc) ==
  /\ thread[t].pc = "get" /\ Completed(p)
  /\ thread' = [thread EXCEPT ![t] = [@ EXCEPT !.pipe = p, !.pc = pc]]

GetsFailure(t, p) ==
  /\ Key[p].Type = 1 /\ Broken(p)
  /\ Gets(t, p, "flush")
  /\ Key' = [Key EXCEPT ![p].pending = FALSE]
  /\ UNCHANGED <<ShutDown, sem, pipe, output>> /\ ThreadFrame

(* A connection: the temporary file is opened, or the thread ends.         *)
GetsConnection(t, p) ==
  /\ thread[t].pc = "get" /\ Key[p].Type = 0 /\ Completed(p)
  /\ \E opened \in IF "CreateFile" \in Faults THEN BOOLEAN ELSE {TRUE} :
       /\ Key' = [Key EXCEPT ![p] = [Type |-> IF opened THEN 1 ELSE 0, pending |-> FALSE]]
       /\ thread' = [thread EXCEPT ![t] =
            [@ EXCEPT !.pipe = p, !.pc = IF opened THEN "read again" ELSE "flush",
                      !.file = opened, !.temp = <<>>]]
  /\ UNCHANGED <<ShutDown, sem, pipe, output>> /\ ThreadFrame

(* A request, unless it is to shut down or something else has done so.     *)
GetsRequest(t, p) ==
  /\ Key[p].Type = 1 /\ Requested(p)
  /\ ShutDown' = (ShutDown \/ ShutRqst(p))
  /\ Gets(t, p, IF ShutDown' THEN "flush" ELSE "store")
  /\ Key' = [Key EXCEPT ![p].pending = FALSE]
  /\ pipe' = Taken(p)
  /\ UNCHANGED <<sem, output>> /\ ThreadFrame

GetsCompletion(t) ==
  \E p \in Pipes : GetsFailure(t, p) \/ GetsConnection(t, p) \/ GetsRequest(t, p)

ReadsAgainNot(t) ==                 \* mutant: the next request is not asked for
  /\ thread[t].pc = "read again"
  /\ Goto(t, "while")
  /\ Quiet

(* The overlapped ReadFile().  One that fails at once leaves the instance  *)
(* with its client gone and nothing pending.                               *)
ReadsAgain(t) ==
  /\ thread[t].pc = "read again"
  /\ LET p == thread[t].pipe
     IN  Key' = [Key EXCEPT ![p].pending = Requested(p) \/ HasClient(p)]
  /\ Goto(t, "while")
  /\ UNCHANGED <<ShutDown, sem, pipe, output>> /\ ThreadFrame

(* The end of the thread: its last client is disconnected.                 *)
EndsThread(t) ==
  /\ thread[t].pc = "flush" /\ Flushed(thread[t].pipe)
  /\ pipe' = [pipe EXCEPT ![thread[t].pipe] = Disconnected]
  /\ thread' = [thread EXCEPT ![t] = [NoThread EXCEPT !.pc = "ended"]]
  /\ UNCHANGED <<ShutDown, sem, Key, output>> /\ ThreadFrame

serverNPCP(t) ==
  /\ Running /\ CompletionPort
  /\ \/ TestsFlag(t) \/ GetsCompletion(t) \/ StoresFlag(t)
     \/ Responds(t) \/ ReadsAgain(t) \/ EndsThread(t)

Server(t) == serverNP(t) \/ serverSM(t) \/ serverNPCP(t)

-----------------------------------------------------------------------------
(* The clients.  LocateServer() has created the mailslot and waits.        *)

ClientFrame == UNCHANGED <<build, process, ShutDown, control, thread, sem, Key, output>>

Client(c, new) == client' = [client EXCEPT ![c] = new]

(* WaitNamedPipe() waits for an instance that listens, as long as there is *)
(* any instance.                                                           *)
WaitNamedPipe(c) ==
  /\ client[c].pc = "wait"
  /\ (\E p \in Pipes : Listens(p)) \/ (\A p \in Pipes : pipe[p].state = "none")
  /\ Client(c, [client[c] EXCEPT !.pc = "open"])
  /\ UNCHANGED pipe /\ ClientFrame

(* CreateFile(): another client may have been faster.                      *)
OpensPipe(c) ==
  /\ client[c].pc = "open"
  /\ IF \E p \in Pipes : Listens(p)
     THEN \E p \in {q \in Pipes : Listens(q)} :
            /\ pipe' = [pipe EXCEPT ![p] = [@ EXCEPT !.state = "connected", !.by = c, !.open = TRUE]]
            /\ Client(c, [client[c] EXCEPT !.pc = "prompt", !.pipe = p])
     ELSE Client(c, NoClient) /\ UNCHANGED pipe
  /\ ClientFrame

Open(c) == Connected(client[c].pipe) /\ pipe[client[c].pipe].by = c

(* WriteFile(); one that fails is only reported.                           *)
Asks(c) ==
  /\ client[c].pc = "prompt" /\ client[c].asked < MaxCommands
  /\ Client(c, [client[c] EXCEPT !.pc = "receive", !.asked = @ + 1, !.printed = <<>>])
  /\ IF Open(c)
     THEN \E r \in {"command", "$ShutDownServer"} :
            pipe' = [pipe EXCEPT ![client[c].pipe].request = r]
     ELSE UNCHANGED pipe
  /\ ClientFrame

(* The client's end is closed.                                             *)
Closes(c) ==
  /\ pipe' = IF pipe[client[c].pipe].by = c
             THEN [pipe EXCEPT ![client[c].pipe] = [@ EXCEPT !.open = FALSE, !.responses = <<>>]]
             ELSE pipe
  /\ Client(c, NoClient)
  /\ ClientFrame

Quits(c) == client[c].pc = "prompt" /\ Closes(c)

(* The user kills the client while it waits for a response.                *)
ClientKilled(c) == c \in Killed /\ client[c].pc = "receive" /\ Closes(c)

(* ReadFile(): the next response, or the pipe is gone.                     *)
Reads(c) ==
  /\ client[c].pc = "receive"
  /\ LET p == client[c].pipe
         mine == pipe[p].by = c
     IN  IF mine /\ pipe[p].responses # <<>>
         THEN LET r == Head(pipe[p].responses)
              IN  /\ pipe' = [pipe EXCEPT ![p].responses = Tail(@)]
                  /\ Client(c, IF r.end THEN [client[c] EXCEPT !.pc = "prompt"]
                               ELSE [client[c] EXCEPT !.printed = Append(@, r.line)])
         ELSE /\ ~Open(c)
              /\ Client(c, [client[c] EXCEPT !.pc = "prompt"])
              /\ UNCHANGED pipe
  /\ ClientFrame

ClientStep(c) ==
  WaitNamedPipe(c) \/ OpensPipe(c) \/ Asks(c) \/ Quits(c) \/ Reads(c)

-----------------------------------------------------------------------------
Next ==
  \/ Main \/ Handler \/ ServerBroadcast \/ SRVRBCST
  \/ \E t \in Pipes : Server(t)
  \/ \E c \in Clients : ClientStep(c) \/ ClientKilled(c)

(* The system runs every thread, and every user comes to an end.           *)
Spec ==
  /\ Init /\ [][Next]_vars
  /\ WF_vars(Main) /\ WF_vars(ServerBroadcast)
  /\ \A t \in Pipes : WF_vars(Server(t))
  /\ \A c \in Clients : WF_vars(ClientStep(c))

-----------------------------------------------------------------------------
(* serverNP.C:48, "Create a temp file name for each thread", which a new   *)
(* client, or in serverNPCP any client, takes over: what a client prints   *)
(* of a response was written by its own command, and except in serverNPCP, *)
(* where the thread may have no file, all of it is printed at the end.     *)
PrintedIsOwn ==
  \A c \in Clients :
    client[c].pc = "receive" =>
      /\ \A i \in DOMAIN client[c].printed : client[c].printed[i] = <<c, client[c].asked>>
      /\ pipe[client[c].pipe].by = c /\ pipe[client[c].pipe].responses # <<>>
           /\ Head(pipe[client[c].pipe].responses).end /\ ~CompletionPort
         => client[c].printed = output[c]

(* A user who has typed a command is at the prompt again: the response has *)
(* come or the connection is closed, whatever happens to the server, as    *)
(* long as no server thread is lost to a failed call, hangs in a write,    *)
(* waits for a connect thread that nobody connects to, or has ended for a  *)
(* shutdown whose flag another thread then overwrote (StoresFlag), and     *)
(* serverNPCP has not lost a thread to each of as many clients that left.  *)
Lost(t) == \/ thread[t].pc \in {"failed", "hung"}
           \/ thread[t].pc = "join" /\ thread[t].hConTh # "ended"
           \/ thread[t].pc \in {"end", "ended"} /\ program = "serverNP" /\ ~ShutDown

Deserted ==
  /\ CompletionPort /\ ~ShutDown /\ main.pc = "wait"
  /\ \A t \in Threads : thread[t].pc = "ended"

AskedIsAnswered ==
  []<>~(Deserted \/ \E t \in Pipes : Lost(t)) =>
    \A c \in Clients : client[c].pc = "receive" ~> client[c].pc # "receive"

(* serverNP.C:104, "so that the main worker thread can test the shutdown   *)
(* flag periodically": a shutdown that stays in force reaches every worker *)
(* of serverNP, wherever it is, once the users have left: the worker comes *)
(* to the release of its connect thread or has ended.  (The release itself *)
(* may fail: the connection it makes goes to any instance that listens,    *)
(* and a worker whose own was not the one waits for ever in "join".)       *)
Reached(t) == thread[t].pc \in {"join", "ended", "failed"}

ShutdownReachesWorkers ==
  program = "serverNP" =>
    \A t \in Pipes : ShutDown ~> Reached(t) \/ ~ShutDown
=============================================================================
