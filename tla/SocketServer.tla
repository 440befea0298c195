---------------------------- MODULE SocketServer ----------------------------
(***************************************************************************)
(* The command servers over sockets of Win32SmpEd2/CHAPTR12 and their      *)
(* clients: serverSK.c, its variants on streams serverSKST.c and           *)
(* serverSKHA.c, and the service CHAPTR13/serviceSK.C.  A thread per       *)
(* connection executes the requests of one client; main() polls the slots  *)
(* of the threads, and an accept thread takes one connection at a time.    *)
(*                                                                         *)
(* A build is a record of the choices in which the programs differ.        *)
(*                                                                         *)
(* A message is one unit: its sender sends and its receiver reads until it *)
(* is complete (SocketMessages has the framing of the variants).  A client *)
(* that is killed may leave a part of a request.  Handle values are used   *)
(* again after CloseHandle(), as Windows does.                             *)
(***************************************************************************)
EXTENDS Integers, Sequences, FiniteSets

CONSTANTS
  Clients,
  MAX_CLIENTS,
  HandleValues,  \* the values a handle may have
  MaxCommands,   \* the commands a user types before the last request
  LineCounts,    \* the numbers of lines a command may write
  NULL,          \* no handle
  Accept,        \* the accept thread
  Closed,        \* what a handle value that is not in use refers to
  Killed,        \* the clients that may be killed
  Faults         \* the calls that may fail

FallibleCalls == {"server thread", "fopen"}

ASSUME SocketServerAssumption ==
  /\ MAX_CLIENTS \in Nat \ {0}
  /\ MaxCommands \in Nat /\ LineCounts \subseteq Nat
  /\ Faults \subseteq FallibleCalls
  /\ HandleValues \subseteq Nat /\ NULL \notin HandleValues
  /\ Accept \notin Clients /\ Closed \notin Clients \cup {Accept}

Slots == 0 .. MAX_CLIENTS - 1

-----------------------------------------------------------------------------
(* What main() does: which handle it joins a stopped thread with, when it  *)
(* closes the handle of the accept thread, whether a failed wait at the    *)
(* end is fatal, and whether it still listens while it waits then.         *)

serverSK_main ==
  [joins |-> "srv_arg", keeps_accept |-> TRUE, last_wait |-> "fatal", listens |-> TRUE]

serverSKST_main ==
  [joins |-> "srv_thd", keeps_accept |-> FALSE, last_wait |-> "ignored", listens |-> FALSE]

serverSKHA_main ==
  [joins |-> "srv_thd", keeps_accept |-> FALSE, last_wait |-> "ignored", listens |-> FALSE]

ServiceSpecific ==
  [joins |-> "srv_thd", keeps_accept |-> FALSE, last_wait |-> "ignored", listens |-> FALSE]

(* What a server thread does: the requests that end it, the libraries that *)
(* frame its messages and its client's, whether a failed recv() or send()  *)
(* ends the process, and whether the thread closes its connection when it  *)
(* ends.  serverSKHA closes the global ConnectSock, which no connection    *)
(* has, and leaves its own, ConnectSck, open.                              *)

serverSK_Server ==
  [stops |-> {"$Quit", "$ShutDownServer"}, libraries |-> {"SK"}, reset_is_fatal |-> TRUE,
   closes |-> TRUE]

serverSKST_Server ==
  [stops |-> {"$Quit", "$ShutFlagServer"}, libraries |-> {"SKST"}, reset_is_fatal |-> FALSE,
   closes |-> TRUE]

serverSKHA_Server ==
  [stops |-> {"$Quit", "$ShutFlagServer"}, libraries |-> {"SKST", "SKHA"}, reset_is_fatal |-> FALSE,
   closes |-> FALSE]

serviceSK_Server ==
  [stops |-> {"$Quit", "$ShutFlagServer"}, libraries |-> {"SK"}, reset_is_fatal |-> TRUE,
   closes |-> TRUE]

Builds ==
  {[main |-> serverSK_main, Server |-> serverSK_Server],
   [main |-> serverSKST_main, Server |-> serverSKST_Server],
   [main |-> serverSKHA_main, Server |-> serverSKHA_Server],
   [main |-> ServiceSpecific, Server |-> serviceSK_Server]}

-----------------------------------------------------------------------------
VARIABLES
  build,
  process,   \* "running", or how the server process ended
  ShutFlag,
  main,      \* the main thread: pc, ith, hAcceptTh
  accept,    \* the accept thread: pc, its slot, the client, its thread
  srv_arg,   \* the slots: status and srv_thd
  handles,   \* what the handle values refer to
  server,    \* the thread of each client: pc, slot, record, lines read
  temp,      \* the temporary file of each slot
  output,    \* the lines the last command of each client wrote
  client,    \* the client processes
  net        \* the connections

threads == <<main, accept, server>>
table == <<srv_arg, handles>>
files == <<temp, output>>
vars == <<build, process, ShutFlag, threads, table, files, client, net>>

(* The memory of the server process before main() runs, and nothing of it  *)
(* afterwards.                                                             *)
Memory ==
  [main    |-> [pc |-> "while", ith |-> 0, hAcceptTh |-> NULL],
   accept  |-> [pc |-> "ended", slot |-> 0, of |-> Accept, thd |-> NULL],
   server  |-> [c \in Clients |-> [pc |-> "none", slot |-> 0, record |-> "", read |-> 0]],
   srv_arg |-> [i \in Slots |-> [status |-> 0, srv_thd |-> NULL]],
   handles |-> [h \in HandleValues |-> Closed]]

(* A client that has ended.                                                *)
Gone == [pc |-> "ended", asked |-> 0, quits |-> FALSE, last |-> "noise", printed |-> <<>>]

Init ==
  /\ build \in Builds
  /\ process = "running" /\ ShutFlag = FALSE
  /\ main = Memory.main /\ accept = Memory.accept /\ server = Memory.server
  /\ srv_arg = Memory.srv_arg /\ handles = Memory.handles
  /\ temp = [i \in Slots |-> <<>>]
  /\ output = [c \in Clients |-> <<>>]
  /\ client = [c \in Clients |-> [Gone EXCEPT !.pc = "start"]]
  /\ net = [c \in Clients |-> [state |-> "none", request |-> "", cut |-> FALSE,
                               responses |-> <<>>, client |-> TRUE, server |-> TRUE]]

-----------------------------------------------------------------------------
(* Handles and the end of the process.                                     *)

Unused == {h \in HandleValues : handles[h] = Closed}

Stored == {srv_arg[i].srv_thd : i \in Slots}

(* The value of a new handle: one that a slot still holds, or another; the *)
(* others are alike.                                                       *)
NewHandles ==
  LET Others == Unused \ Stored
  IN  (Unused \cap Stored) \cup {h \in Others : \A g \in Others : h <= g}

Refers(h) == IF h = NULL THEN Closed ELSE handles[h]

Close(h) == [v \in HandleValues |-> IF v = h THEN Closed ELSE handles[v]]

Ended(thread) ==
  IF thread = Accept THEN accept.pc = "ended" ELSE server[thread].pc = "ended"

Running == process = "running"

(* The process ends with all its threads and its ends of the connections.  *)
Dies(how) ==
  /\ process' = how /\ ShutFlag' = FALSE
  /\ main' = Memory.main /\ accept' = Memory.accept /\ server' = Memory.server
  /\ srv_arg' = Memory.srv_arg /\ handles' = Memory.handles
  /\ UNCHANGED <<build, files, client>>

AllClosed == [c \in Clients |-> [net[c] EXCEPT !.server = FALSE, !.request = "", !.cut = FALSE]]

Exit == Dies("ended") /\ net' = AllClosed

-----------------------------------------------------------------------------
(* main().                                                                 *)

MainGoto(pc) == main' = [main EXCEPT !.pc = pc]

MainFrame == UNCHANGED <<build, process, accept, server, files, client, net>>

(* The head of the outer loop.                                             *)
MainWhile ==
  /\ main.pc = "while"
  /\ main' = [main EXCEPT !.pc = IF ShutFlag THEN "shutdown" ELSE "for", !.ith = 0]
  /\ UNCHANGED <<ShutFlag, table>> /\ MainFrame

(* One slot: a free one ends the search, and so does the flag.             *)
MainFor ==
  /\ main.pc = "for"
  /\ main' = IF ~ShutFlag /\ srv_arg[main.ith].status = 2
             THEN [main EXCEPT !.ith = (@ + 1) % MAX_CLIENTS]
             ELSE [main EXCEPT !.pc = IF ~ShutFlag /\ srv_arg[main.ith].status # 0
                                      THEN "join" ELSE "begin"]
  /\ UNCHANGED <<ShutFlag, table>> /\ MainFrame

(* The handle that main() takes for the one of the slot's thread.          *)
SlotHandle(i) == IF build.main.joins = "srv_arg" THEN srv_arg[i].srv_thd ELSE NULL

MainJoin ==
  /\ main.pc = "join"
  /\ Refers(SlotHandle(main.ith)) # Closed
  /\ Ended(Refers(SlotHandle(main.ith)))
  /\ handles' = Close(SlotHandle(main.ith))
  /\ IF srv_arg[main.ith].status = 3
     THEN ShutFlag' = TRUE /\ UNCHANGED srv_arg
     ELSE srv_arg' = [srv_arg EXCEPT ![main.ith].status = 0] /\ UNCHANGED ShutFlag
  /\ MainGoto("begin") /\ MainFrame

(* "Server thread wait error": there is no such handle.                    *)
MainJoinFails ==
  /\ main.pc = "join"
  /\ Refers(SlotHandle(main.ith)) = Closed
  /\ Exit

MainBegin ==
  /\ main.pc = "begin"
  /\ \E h \in NewHandles :
       /\ main' = [main EXCEPT !.pc = "poll", !.hAcceptTh = h]
       /\ handles' = [handles EXCEPT ![h] = Accept]
  /\ accept' = [pc |-> "accept", slot |-> main.ith, of |-> Accept, thd |-> NULL]
  /\ UNCHANGED <<build, process, ShutFlag, srv_arg, server, files, client, net>>

MainPollOnce ==                     \* mutant: does not wait for the connection
  /\ main.pc = "poll"
  /\ main' = [main EXCEPT !.pc = "while", !.hAcceptTh = NULL]
  /\ handles' = Close(main.hAcceptTh)
  /\ UNCHANGED <<ShutFlag, srv_arg>> /\ MainFrame

MainPollNoFlag ==                   \* mutant: the wait has no time limit
  /\ main.pc = "poll" /\ Ended(Accept)
  /\ main' = [main EXCEPT !.pc = "while", !.hAcceptTh = NULL]
  /\ handles' = Close(main.hAcceptTh)
  /\ UNCHANGED <<ShutFlag, srv_arg>> /\ MainFrame

(* The wait for the accept thread; its time limit only repeats the test of *)
(* ShutFlag.                                                               *)
MainPoll ==
  /\ main.pc = "poll"
  /\ ShutFlag \/ Ended(Accept)
  /\ IF ShutFlag /\ build.main.keeps_accept
     THEN MainGoto("while") /\ UNCHANGED handles
     ELSE /\ main' = [main EXCEPT !.pc = "while", !.hAcceptTh = NULL]
          /\ handles' = Close(main.hAcceptTh)
  /\ UNCHANGED <<ShutFlag, srv_arg>> /\ MainFrame

(* The variants close the listening socket first: a pending accept() fails *)
(* and its thread ends the process.                                        *)
MainShutdown ==
  /\ main.pc = "shutdown"
  /\ IF ~build.main.listens /\ accept.pc = "accept"
     THEN Exit
     ELSE /\ main' = [main EXCEPT !.pc = "last", !.ith = 0]
          /\ UNCHANGED <<ShutFlag, table>> /\ MainFrame

(* One slot in the last wait: nothing to wait for, a wait that fails, or   *)
(* the end of the thread.  CloseHandle() may close what is not its own.    *)
MainLast ==
  /\ main.pc = "last" /\ main.ith < MAX_CLIENTS
  /\ LET h == SlotHandle(main.ith)
         waits == srv_arg[main.ith].status # 0
     IN  IF waits /\ Refers(h) = Closed /\ build.main.last_wait = "fatal"
         THEN Exit
         ELSE /\ waits /\ Refers(h) # Closed => Ended(Refers(h))
              /\ main' = [main EXCEPT !.ith = @ + 1]
              /\ handles' = Close(h)
              /\ UNCHANGED <<ShutFlag, srv_arg>> /\ MainFrame

MainReturns == main.pc = "last" /\ main.ith = MAX_CLIENTS /\ Exit

Main ==
  Running /\ \/ MainWhile \/ MainFor \/ MainJoin \/ MainJoinFails
             \/ MainBegin \/ MainPoll \/ MainShutdown \/ MainLast \/ MainReturns

(* The console's control handler, or the service's.                        *)
Handler ==
  /\ Running /\ ~ShutFlag
  /\ ShutFlag' = TRUE
  /\ UNCHANGED <<build, process, threads, table, files, client, net>>

-----------------------------------------------------------------------------
(* AcceptTh().                                                             *)

Waiting == {c \in Clients : net[c].state = "backlog"}

AcceptFrame == UNCHANGED <<build, process, ShutFlag, main, files, client>>

(* A connection is accepted and the slot marked as running.                *)
AcceptReturns ==
  /\ accept.pc = "accept"
  /\ \E c \in Waiting :
       /\ net' = [net EXCEPT ![c].state = "open"]
       /\ accept' = [accept EXCEPT !.pc = "begin", !.of = c]
  /\ srv_arg' = [srv_arg EXCEPT ![accept.slot].status = 2]
  /\ UNCHANGED <<handles, server>> /\ AcceptFrame

(* The server thread runs before its handle is stored.                     *)
AcceptBeginsServer ==
  /\ accept.pc = "begin"
  /\ \E h \in NewHandles :
       /\ handles' = [handles EXCEPT ![h] = accept.of]
       /\ accept' = [accept EXCEPT !.pc = "store", !.thd = h]
  /\ server' = [server EXCEPT ![accept.of] = [@ EXCEPT !.pc = "begin", !.slot = accept.slot]]
  /\ UNCHANGED <<srv_arg, net>> /\ AcceptFrame

(* "Failed creating server thread": the slot stays in use.                 *)
AcceptBeginFails ==
  /\ "server thread" \in Faults
  /\ accept.pc = "begin"
  /\ srv_arg' = [srv_arg EXCEPT ![accept.slot].srv_thd = NULL]
  /\ accept' = Memory.accept
  /\ UNCHANGED <<handles, server, net>> /\ AcceptFrame

AcceptStoresHandle ==
  /\ accept.pc = "store"
  /\ srv_arg' = [srv_arg EXCEPT ![accept.slot].srv_thd = accept.thd]
  /\ accept' = Memory.accept
  /\ UNCHANGED <<handles, server, net>> /\ AcceptFrame

AcceptTh ==
  Running /\ \/ AcceptReturns \/ AcceptBeginsServer
             \/ AcceptBeginFails \/ AcceptStoresHandle

-----------------------------------------------------------------------------
(* Server(), the thread of client c.                                       *)

ServerGoto(c, pc) == server' = [server EXCEPT ![c].pc = pc]

ServerFrame == UNCHANGED <<build, process, main, accept, handles, client>>

(* The test of the flag at the head of the loop.                           *)
NextRequest == IF ShutFlag THEN "close" ELSE "receive"

ServerBegins(c) ==
  /\ server[c].pc = "begin"
  /\ ServerGoto(c, NextRequest)
  /\ UNCHANGED <<ShutFlag, srv_arg, files, net>> /\ ServerFrame

Received(c, request) ==
  server' = [server EXCEPT ![c] =
               [@ EXCEPT !.pc = IF request \in build.Server.stops THEN "close" ELSE "execute",
                         !.record = request]]

ReceiveRequestMessage(c) ==
  /\ server[c].pc = "receive" /\ net[c].request # "" /\ ~net[c].cut
  /\ Received(c, net[c].request)
  /\ net' = [net EXCEPT ![c].request = ""]
  /\ UNCHANGED <<ShutFlag, srv_arg, files>> /\ ServerFrame

(* The client closed, or was killed and its connection reset.  What it     *)
(* left of a request is in Record, with the tail of the one before.        *)
Remains(c) == IF net[c].cut THEN {net[c].request, "other"} ELSE {}

ReceiveDisconnect(c) ==
  /\ server[c].pc = "receive" /\ (net[c].request = "" \/ net[c].cut)
  /\ ~net[c].client
  /\ \/ /\ \E r \in {server[c].record} \cup Remains(c) :
             server' = [server EXCEPT ![c] = [@ EXCEPT !.pc = "close", !.record = r]]
        /\ UNCHANGED <<ShutFlag, srv_arg, files, net>> /\ ServerFrame
     \/ build.Server.reset_is_fatal /\ Exit

Line(c) == <<c, client[c].asked>>

(* CreateFile() empties the slot's temporary file and the command writes.  *)
Execute(c) ==
  /\ server[c].pc = "execute"
  /\ \E n \in LineCounts :
       LET lines == [i \in 1 .. n |-> Line(c)]
       IN  /\ temp' = [temp EXCEPT ![server[c].slot] = lines]
           /\ output' = [output EXCEPT ![c] = lines]
  /\ server' = [server EXCEPT ![c] = [@ EXCEPT !.pc = "send", !.read = 0]]
  /\ UNCHANGED <<ShutFlag, srv_arg, net>> /\ ServerFrame

(* A send() to a client that is gone may work, and may fail.               *)
Sends(c, response, next) ==
  \/ /\ net' = [net EXCEPT ![c].responses =
                  IF net[c].client THEN Append(@, response) ELSE @]
     /\ server' = next
     /\ UNCHANGED <<build, process, ShutFlag, main, accept, table, client>>
  \/ /\ ~net[c].client /\ build.Server.reset_is_fatal
     /\ Exit

SendLine(c) ==
  /\ server[c].pc = "send"
  /\ server[c].read < Len(temp[server[c].slot])
  /\ Sends(c, [end |-> FALSE, line |-> temp[server[c].slot][server[c].read + 1]],
           [server EXCEPT ![c].read = @ + 1])
  /\ UNCHANGED files

SendLinesToEnd(c) ==                \* mutant: the file is not emptied by its reader
  /\ server[c].pc = "send"
  /\ Sends(c, [end |-> TRUE, line |-> <<>>], [server EXCEPT ![c].pc = NextRequest])
  /\ UNCHANGED files

(* The closing message, and DeleteFile().                                  *)
SendEnd(c) ==
  /\ server[c].pc = "send"
  /\ server[c].read >= Len(temp[server[c].slot])
  /\ Sends(c, [end |-> TRUE, line |-> <<>>], [server EXCEPT ![c].pc = NextRequest])
  /\ temp' = IF Running' THEN [temp EXCEPT ![server[c].slot] = <<>>] ELSE temp
  /\ UNCHANGED output

(* fopen() fails: an empty response, and fclose(NULL).                     *)
OpenFails(c) ==
  /\ "fopen" \in Faults
  /\ server[c].pc = "send" /\ server[c].read = 0
  /\ Dies("crashed")
  /\ net' = [AllClosed EXCEPT ![c].responses =
                IF net[c].client THEN Append(@, [end |-> TRUE, line |-> <<>>]) ELSE @]

ServerStatus(c, status, next) ==
  /\ srv_arg' = [srv_arg EXCEPT ![server[c].slot].status = status]
  /\ server' = [server EXCEPT ![c] = [@ EXCEPT !.pc = next, !.record = "", !.read = 0]]
  /\ UNCHANGED <<ShutFlag, files>> /\ ServerFrame

ServerStopsOpen(c) ==               \* mutant: the connection stays open
  /\ server[c].pc = "close"
  /\ UNCHANGED net
  /\ ServerStatus(c, 1, IF server[c].record = "$ShutDownServer" THEN "shut down" ELSE "ended")

Hangup(c) == [net EXCEPT ![c] = [@ EXCEPT !.server = FALSE, !.request = "", !.cut = FALSE]]

(* The end of the thread: the connection, then the status.                 *)
ServerStops(c) ==
  /\ server[c].pc = "close"
  /\ net' = IF build.Server.closes THEN Hangup(c) ELSE net
  /\ ServerStatus(c, 1, IF server[c].record = "$ShutDownServer" THEN "shut down" ELSE "ended")

ServerShutsDown(c) ==
  /\ server[c].pc = "shut down"
  /\ ServerStatus(c, 3, "flag") /\ UNCHANGED net

ServerSetsFlag(c) ==
  /\ server[c].pc = "flag"
  /\ ShutFlag' = TRUE
  /\ ServerGoto(c, "ended")
  /\ UNCHANGED <<srv_arg, files, net>> /\ ServerFrame

Server(c) ==
  Running /\ \/ ServerBegins(c) \/ ReceiveRequestMessage(c) \/ ReceiveDisconnect(c)
             \/ Execute(c) \/ SendLine(c) \/ SendEnd(c) \/ OpenFails(c)
             \/ ServerStops(c) \/ ServerShutsDown(c) \/ ServerSetsFlag(c)

-----------------------------------------------------------------------------
(* The client processes.                                                   *)

ClientFrame == UNCHANGED <<build, process, ShutFlag, threads, table, temp>>

Listening == Running /\ (build.main.listens \/ main.pc # "last")

ClientConnects(c) ==
  /\ client[c].pc = "start"
  /\ IF Listening /\ Cardinality(Waiting) < MAX_CLIENTS
     THEN /\ client' = [client EXCEPT ![c].pc = "prompt"]
          /\ net' = [net EXCEPT ![c].state = "backlog"]
     ELSE client' = [client EXCEPT ![c].pc = "ended"] /\ UNCHANGED net
  /\ UNCHANGED output /\ ClientFrame

MayAsk(c) ==
  {"$Quit", "$ShutDownServer"} \cup (IF client[c].asked < MaxCommands THEN {"command"} ELSE {})

(* The user types a request; send() may still work when the server has     *)
(* closed.                                                                 *)
ClientSends(c) ==
  /\ client[c].pc = "prompt"
  /\ \E r \in MayAsk(c) :
       /\ client' = [client EXCEPT ![c] = [client[c] EXCEPT !.pc = "receive", !.asked = @ + 1,
                                                            !.quits = r # "command", !.printed = <<>>]]
       /\ net' = [net EXCEPT ![c].request = IF net[c].server THEN r ELSE ""]
  /\ UNCHANGED output /\ ClientFrame

ClientEnds(c) ==
  /\ client' = [client EXCEPT ![c] = Gone]
  /\ net' = [net EXCEPT ![c] = [@ EXCEPT !.client = FALSE, !.responses = <<>>]]
  /\ output' = [output EXCEPT ![c] = <<>>]

ClientSendFails(c) ==
  /\ client[c].pc = "prompt" /\ ~net[c].server
  /\ ClientEnds(c) /\ ClientFrame

(* The last record of a response was read: the user leaves or goes on.     *)
AfterResponse(c) ==
  IF client[c].quits THEN ClientEnds(c)
  ELSE /\ client' = [client EXCEPT ![c] = [@ EXCEPT !.pc = "prompt", !.last = "last",
                                                    !.printed = <<>>]]
       /\ net' = [net EXCEPT ![c].responses = IF @ = <<>> THEN <<>> ELSE Tail(@)]
       /\ output' = [output EXCEPT ![c] = <<>>]

ReceiveLine(c) ==
  /\ client[c].pc = "receive" /\ net[c].responses # <<>> /\ ~Head(net[c].responses).end
  /\ client' = [client EXCEPT ![c] = [client[c] EXCEPT !.last = "more",
                                  !.printed = Append(@, Head(net[c].responses).line)]]
  /\ net' = [net EXCEPT ![c].responses = Tail(@)]
  /\ UNCHANGED output /\ ClientFrame

ReceiveLast(c) ==
  /\ client[c].pc = "receive" /\ net[c].responses # <<>> /\ Head(net[c].responses).end
  /\ AfterResponse(c) /\ ClientFrame

(* A length nobody has written is any; a text is not the closing one.      *)
MayRead(c) ==
  IF client[c].last # "noise" THEN {client[c].last}
  ELSE IF build.Server.libraries = {"SK"} THEN {"last", "more"} ELSE {"more"}

(* The server is gone.  recv() fails, or returns 0: then what the buffer   *)
(* holds decides whether the loop sees a last record, and one that does    *)
(* not spins for ever.                                                     *)
ReceiveNothing(c) ==
  /\ client[c].pc = "receive" /\ net[c].responses = <<>> /\ ~net[c].server
  /\ \/ build.Server.libraries = {"SK"} /\ ClientEnds(c)
     \/ "last" \in MayRead(c) /\ AfterResponse(c)
     \/ /\ "more" \in MayRead(c)
        /\ client' = [client EXCEPT ![c].pc = "spins"]
        /\ UNCHANGED <<net, output>>
  /\ ClientFrame

(* The user kills the client, possibly in the middle of a request.         *)
ClientKilled(c) ==
  /\ c \in Killed
  /\ client[c].pc \in {"prompt", "receive"}
  /\ client' = [client EXCEPT ![c] = Gone]
  /\ output' = [output EXCEPT ![c] = <<>>]
  /\ \E cut \in BOOLEAN :
       /\ cut => client[c].pc = "prompt" /\ net[c].server
       /\ net' = [net EXCEPT ![c] = [net[c] EXCEPT !.client = FALSE, !.responses = <<>>, !.cut = cut,
                                                   !.request = IF cut THEN "$ShutDownServer" ELSE @]]
  /\ ClientFrame

Client(c) ==
  \/ ClientConnects(c) \/ ClientSends(c) \/ ClientSendFails(c)
  \/ ReceiveLine(c) \/ ReceiveLast(c) \/ ReceiveNothing(c)

-----------------------------------------------------------------------------
Next ==
  \/ Main \/ Handler \/ AcceptTh
  \/ \E c \in Clients : Server(c) \/ Client(c) \/ ClientKilled(c)

(* The system runs every thread, and every user comes to an end.           *)
Spec ==
  /\ Init /\ [][Next]_vars
  /\ WF_vars(Main) /\ WF_vars(AcceptTh)
  /\ \A c \in Clients : WF_vars(Server(c)) /\ WF_vars(Client(c))

-----------------------------------------------------------------------------
(* serverSK.c:8, "Replaced all referneces to the srv_thd array with        *)
(* srv_arg[ith].srv_thd": where main() joins with the stored handle it     *)
(* waits for the stopped thread of that slot, which no accept thread and   *)
(* no reuse of a handle value has replaced.                                *)
JoinsTheStoppedThread ==
  main.pc = "join" /\ build.main.joins = "srv_arg" /\ Running =>
    \E c \in Clients :
      /\ Refers(SlotHandle(main.ith)) = c /\ server[c].slot = main.ith
      /\ server[c].pc \in {"shut down", "flag", "ended"}

(* serverSK.c:164, the temporary file is named after the slot: when a    *)
(* client reads the last record of a response it has printed what its own  *)
(* command wrote, whoever used the slot before.                            *)
ResponseIsOwn ==
  \A c \in Clients :
    /\ client[c].pc = "receive" /\ net[c].responses # <<>> /\ process # "crashed"
    /\ Head(net[c].responses).end
    => client[c].printed = output[c]

(* A shutdown, by a client's request or from the console, ends the server  *)
(* once the users have left, unless main() waits for the pending accept()  *)
(* through a handle value that it closed before.                           *)
WaitsForAccept ==
  /\ main.pc = "last" /\ main.ith < MAX_CLIENTS /\ srv_arg[main.ith].status # 0
  /\ Refers(SlotHandle(main.ith)) = Accept

ShutdownEnds == []~WaitsForAccept => (ShutFlag ~> ~Running)

(* A slot whose server thread could not be created.                        *)
SlotLost(i) ==
  /\ srv_arg[i].status = 2 /\ accept.pc = "ended"
  /\ \A c \in Clients : server[c].pc = "none" \/ server[c].slot # i

(* A user who has seen one whole response and leaves with "$Quit" is not   *)
(* kept: the server reads the request and closes, or has ended.  A user of *)
(* serverSKHA, which does not close, waits until the server ends.          *)
QuitEnds ==
  \A c \in Clients :
    build.Server.closes /\ []~(WaitsForAccept \/ \E i \in Slots : SlotLost(i)) =>
      (client[c].pc = "receive" /\ client[c].quits /\ client[c].last = "last"
         ~> client[c].pc = "ended" \/ ~Running)
=============================================================================
