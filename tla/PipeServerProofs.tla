-------------------------- MODULE PipeServerProofs --------------------------
(***************************************************************************)
(* Theorems about the three servers over named pipes, for every number of  *)
(* clients, instances, threads, commands and lines, and every set of       *)
(* failing calls and killed clients.                                       *)
(***************************************************************************)
EXTENDS PipeServer, SequenceTheorems, TLAPS

(***************************************************************************)
(* Types.                                                                  *)
(***************************************************************************)

Calls ==
  {"none", "while", "wait", "read", "execute", "send", "flush", "end", "join", "ended", "failed",
   "connect", "connecting", "reconnect", "reconnecting", "limit", "flush reply", "stop", "get",
   "read again", "hung", "reading", "store"}

Text == (Clients \X Nat) \cup {NULL}
ThreadType ==
  [pc : Calls, pipe : 0 .. MAX_CLIENTS, hConTh : {"none", "begun", "waits", "ended"},
   file : BOOLEAN, temp : Seq(Text), read : Nat]
Response == [end : BOOLEAN, line : Text]
PipeType ==
  [state : {"none", "listening", "connected", "disconnected"}, by : Clients \cup {NULL},
   open : BOOLEAN, request : {"", "command", "$ShutDownServer"}, responses : Seq(Response)]
ClientType ==
  [pc : {"locate", "wait", "open", "prompt", "receive", "ended"}, pipe : 0 .. MAX_CLIENTS,
   asked : Nat, printed : Seq(Text)]

KeyType == [Type : {0, 1}, pending : BOOLEAN]
MainType == [pc : {"create", "connect", "threads", "wait"}, i : Pipes]

TypeOK ==
  /\ program \in {"serverNP", "serverSM", "serverNPCP"}
  /\ nThreads \in Pipes
  /\ ShutDown \in BOOLEAN
  /\ main \in MainType
  /\ thread \in [Pipes -> ThreadType]
  /\ Key \in [Pipes -> KeyType]
  /\ pipe \in [Pipes -> PipeType]
  /\ output \in [Clients -> Seq(Text)]
  /\ client \in [Clients -> ClientType]
  /\ \A c \in Clients : client[c].pc \in {"prompt", "receive"} => client[c].pipe \in Pipes

Usable(p) == pipe[p].state \in {"connected", "disconnected"}

ThreadOK(t) ==
  /\ thread[t].pc = "none" => thread[t] = NoThread
  /\ thread[t].pc \notin {"send", "hung"} => thread[t].temp = <<>>
  /\ ~CompletionPort /\ thread[t].pc # "none" => thread[t].pipe = t

(* Where a thread of serverNP has a client.                                *)
Talking == {"read", "reading", "store", "execute", "send"}

ThreadNP(t) ==
  program = "serverNP" =>
    /\ thread[t].pc \in {"none", "while", "wait", "flush", "end", "join", "ended", "failed"} \cup Talking
    /\ thread[t].pc \in {"while", "flush"} \cup Talking => thread[t].hConTh = "none"
    /\ thread[t].pc \in Talking => thread[t].file
    /\ thread[t].pc \in Talking \/ thread[t].hConTh = "ended" => Usable(t)

ThreadSM(t) ==
  program = "serverSM" =>
    /\ thread[t].pc \in {"none", "connect", "connecting", "while", "read", "reconnect", "reconnecting",
                         "limit", "execute", "send", "flush reply", "stop", "ended", "failed"}
    /\ thread[t].pc \in {"read", "reconnect", "reconnecting", "limit", "execute", "send"} => thread[t].file
    /\ thread[t].pc \in {"while", "read", "limit", "execute", "send", "flush reply"} => Usable(t)

ThreadCP(t) ==
  program = "serverNPCP" =>
    /\ thread[t].pc \in {"none", "while", "get", "flush", "read again", "store", "execute", "send", "hung", "ended"}
    /\ thread[t].pc \in {"store", "execute", "send", "read again"} =>
         /\ thread[t].pipe \in Pipes
         /\ Key[thread[t].pipe].Type = 1 /\ ~Key[thread[t].pipe].pending
    /\ thread[t].pc = "flush" => thread[t].pipe \in Pipes

Works(t, p) == thread[t].pipe = p /\ thread[t].pc \in {"store", "execute", "send", "read again"}

KeyOK(p) ==
  /\ Key[p].Type = 1 => CompletionPort /\ Usable(p)
  /\ CompletionPort => \A t, u \in Pipes : Works(t, p) /\ Works(u, p) => t = u

Clean(p) == pipe[p].by = NULL /\ ~pipe[p].open /\ pipe[p].request = "" /\ pipe[p].responses = <<>>

PipeOK(p) ==
  /\ Running /\ pipe[p].state # "connected" => Clean(p)
  /\ ~Running => pipe[p].state = "none" /\ pipe[p].request = "" /\ thread[p].pc = "none"

MainOK ==
  Running =>
    /\ main.pc = "create" =>
         /\ \A j \in main.i .. MAX_CLIENTS : pipe[j].state = "none" /\ thread[j].pc = "none"
         /\ CompletionPort => \A j \in Pipes : thread[j].pc = "none" /\ Key[j].Type = 0
    /\ main.pc = "connect" =>
         /\ \A j \in Pipes : thread[j].pc = "none" /\ Key[j].Type = 0
         /\ \A j \in main.i + 1 .. MAX_CLIENTS : pipe[j].state = "none"
    /\ main.pc = "threads" => \A j \in main.i .. MAX_CLIENTS : thread[j].pc = "none"
    /\ main.pc \in {"connect", "threads"} => CompletionPort

ControlInv ==
  /\ MainOK
  /\ \A t \in Pipes : ThreadOK(t) /\ ThreadNP(t) /\ ThreadSM(t) /\ ThreadCP(t)
  /\ \A p \in Pipes : KeyOK(p) /\ PipeOK(p)

Busy == {"limit", "store", "execute", "send"}
Serves(t, p) == thread[t].pipe = p /\ thread[t].pc \in Busy
Serving(p) == {thread[t] : t \in {u \in Pipes : Serves(u, p)}}

Held(p) ==
  pipe[p].open => /\ pipe[p].by \in Clients /\ client[pipe[p].by].pipe = p
                  /\ client[pipe[p].by].pc \in {"prompt", "receive"}

OwnText(x, s) == \A i \in 1 .. Len(s) : s[i] = x
Plain(x, s, n) == \A i \in 1 .. n : ~s[i].end /\ s[i].line = x

Idle(q, S) == q.responses = <<>> /\ q.request = "" /\ S = {}

Unanswered(k, q, S) ==
  /\ k.printed = <<>> /\ q.responses = <<>>
  /\ S # {} => q.request = "" /\ \A r \in S : r.pc # "send"

Answering(x, k, q, o, S, whole) ==
  /\ q.request = "" /\ OwnText(x, o) /\ Plain(x, q.responses, Len(q.responses))
  /\ \E r \in S :
       /\ S = {r} /\ r.pc = "send" /\ OwnText(x, r.temp)
       /\ r.read = Len(k.printed) + Len(q.responses) /\ r.read <= Len(r.temp)
       /\ whole => Len(r.temp) = Len(o)

Answered(x, k, q, o, S, whole) ==
  LET n == Len(q.responses)
  IN /\ q.request = "" /\ OwnText(x, o) /\ S = {}
     /\ n > 0 /\ q.responses[n].end /\ Plain(x, q.responses, n - 1)
     /\ whole => Len(k.printed) + n = Len(o) + 1

Cut(x, q, live) == ~live /\ Plain(x, q.responses, Len(q.responses))

PhaseOf(c, x, k, q, o, S, whole, live) ==
  /\ k.pc = "receive" => OwnText(x, k.printed)
  /\ k.pc \in {"prompt", "receive"} /\ q.by = c =>
       /\ q.open
       /\ k.pc = "prompt" => Idle(q, S)
       /\ k.pc = "receive" => \/ Unanswered(k, q, S) \/ Answering(x, k, q, o, S, whole)
                              \/ Answered(x, k, q, o, S, whole) \/ Cut(x, q, live)

Own(c) == <<c, client[c].asked>>
Mine(c) == client[c].pc \in {"prompt", "receive"} /\ pipe[client[c].pipe].by = c

Phase(c) ==
  LET p == client[c].pipe
  IN client[c].pc \in {"prompt", "receive"} =>
       PhaseOf(c, Own(c), client[c], pipe[p], output[c], Serving(p), ~CompletionPort, Running)

Inv == TypeOK /\ ControlInv /\ (\A p \in Pipes : Held(p)) /\ \A c \in Clients : Phase(c)

-----------------------------------------------------------------------------
(* Records of the three types with one field or more replaced.             *)

LEMMA Ranges ==
  /\ 1 \in Pipes /\ MAX_CLIENTS \in Pipes /\ Pipes \subseteq Nat /\ 0 \notin Pipes
  /\ Pipes \subseteq 0 .. MAX_CLIENTS /\ 0 \in 0 .. MAX_CLIENTS
  /\ NULL \in Text /\ NULL \notin Clients
BY PipeServerAssumption DEF Pipes, Text

LEMMA NoThreadTyped == NoThread \in ThreadType
BY EmptySeq, PipeServerAssumption DEF NoThread, ThreadType, Calls

LEMMA ThreadTo ==
  ASSUME NEW r \in ThreadType, NEW pc \in Calls
  PROVE  /\ [r EXCEPT !.pc = pc] \in ThreadType
         /\ \A p \in Pipes : [r EXCEPT !.pipe = p] \in ThreadType /\ [r EXCEPT !.pc = pc, !.pipe = p] \in ThreadType
         /\ \A s \in {"none", "begun", "waits", "ended"} :
              [r EXCEPT !.pc = pc, !.hConTh = s] \in ThreadType /\ [r EXCEPT !.hConTh = s] \in ThreadType
BY Ranges DEF ThreadType

LEMMA ThreadFiled ==
  ASSUME NEW r \in ThreadType, NEW pc \in Calls, NEW f \in BOOLEAN
  PROVE  /\ [r EXCEPT !.pc = pc, !.file = f, !.temp = <<>>] \in ThreadType
         /\ [r EXCEPT !.pc = pc, !.hConTh = "none", !.file = f, !.temp = <<>>] \in ThreadType
         /\ \A p \in Pipes : [r EXCEPT !.pipe = p, !.pc = pc, !.file = f, !.temp = <<>>] \in ThreadType
BY Ranges, EmptySeq DEF ThreadType

LEMMA ThreadWritten ==
  ASSUME NEW r \in ThreadType, NEW pc \in Calls, NEW n \in Nat, NEW s \in Seq(Text)
  PROVE  /\ [r EXCEPT !.read = n] \in ThreadType
         /\ [r EXCEPT !.pc = pc, !.temp = s, !.read = n] \in ThreadType
         /\ [r EXCEPT !.pc = pc, !.read = n, !.temp = s] \in ThreadType
BY DEF ThreadType

States == {"none", "listening", "connected", "disconnected"}
Requests == {"", "command", "$ShutDownServer"}

LEMMA NoPipeTyped ==
  /\ NoPipe \in PipeType /\ Disconnected \in PipeType
  /\ \A s \in States : [NoPipe EXCEPT !.state = s] \in PipeType
BY EmptySeq, Ranges DEF NoPipe, Disconnected, PipeType, States

LEMMA PipeTo ==
  ASSUME NEW r \in PipeType, NEW s \in States, NEW q \in Requests
  PROVE  /\ [r EXCEPT !.state = s] \in PipeType
         /\ [r EXCEPT !.state = s, !.request = q] \in PipeType
         /\ [r EXCEPT !.request = q] \in PipeType
         /\ \A c \in Clients : [r EXCEPT !.state = s, !.by = c, !.open = TRUE] \in PipeType
         /\ \A x \in Seq(Response) :
              [r EXCEPT !.responses = x] \in PipeType /\ [r EXCEPT !.open = FALSE, !.responses = x] \in PipeType
BY DEF PipeType, States, Requests

LEMMA NoClientTyped ==
  \A pc \in {"locate", "ended"} : [NoClient EXCEPT !.pc = pc] \in ClientType /\ NoClient \in ClientType
BY EmptySeq, Ranges DEF NoClient, ClientType

LEMMA ClientFields ==
  ASSUME NEW r \in ClientType
  PROVE  r.asked \in Nat /\ r.asked + 1 \in Nat /\ r.printed \in Seq(Text)
BY DEF ClientType

LEMMA ClientTo ==
  ASSUME NEW r \in ClientType, NEW pc \in {"locate", "wait", "open", "prompt", "receive", "ended"}
  PROVE  /\ [r EXCEPT !.pc = pc] \in ClientType
         /\ [r EXCEPT !.pc = pc].pc = pc
         /\ [r EXCEPT !.pc = pc].pipe = r.pipe
         /\ [r EXCEPT !.pc = pc].asked = r.asked
         /\ [r EXCEPT !.pc = pc].printed = r.printed
BY DEF ClientType

LEMMA ClientOpens ==
  ASSUME NEW r \in ClientType, NEW p \in Pipes
  PROVE  /\ [r EXCEPT !.pc = "prompt", !.pipe = p] \in ClientType
         /\ [r EXCEPT !.pc = "prompt", !.pipe = p].pc = "prompt"
         /\ [r EXCEPT !.pc = "prompt", !.pipe = p].pipe = p
BY Ranges DEF ClientType

LEMMA ClientAsks ==
  ASSUME NEW r \in ClientType, NEW n \in Nat
  PROVE  /\ [r EXCEPT !.pc = "receive", !.asked = n, !.printed = <<>>] \in ClientType
         /\ [r EXCEPT !.pc = "receive", !.asked = n, !.printed = <<>>].pc = "receive"
         /\ [r EXCEPT !.pc = "receive", !.asked = n, !.printed = <<>>].pipe = r.pipe
         /\ [r EXCEPT !.pc = "receive", !.asked = n, !.printed = <<>>].printed = <<>>
BY EmptySeq DEF ClientType

LEMMA ClientPrints ==
  ASSUME NEW r \in ClientType, NEW s \in Seq(Text)
  PROVE  /\ [r EXCEPT !.printed = s] \in ClientType
         /\ [r EXCEPT !.printed = s].pc = r.pc
         /\ [r EXCEPT !.printed = s].pipe = r.pipe
         /\ [r EXCEPT !.printed = s].asked = r.asked
         /\ [r EXCEPT !.printed = s].printed = s
BY DEF ClientType

LEMMA ResponseTyped ==
  ASSUME NEW x \in Text, NEW b \in BOOLEAN
  PROVE  [end |-> b, line |-> x] \in Response
BY DEF Response

LEMMA LinesTyped ==
  ASSUME NEW c \in Clients, client \in [Clients -> ClientType], NEW n \in LineCounts
  PROVE  Lines(c, n) \in Seq(Text) /\ [i \in 1 .. n |-> NULL] \in Seq(Text)
<1>1. n \in Nat /\ <<c, client[c].asked>> \in Text /\ NULL \in Text
  BY PipeServerAssumption, ClientFields DEF Text
<1> HIDE DEF Text
<1> QED BY <1>1 DEF Lines
-----------------------------------------------------------------------------
(* No step leaves the types.                                               *)

LEMMA DiesTyped ==
  ASSUME TypeOK, NEW how, Dies(how)
  PROVE  TypeOK'
<1>1. thread' \in [Pipes -> ThreadType]
  BY NoThreadTyped DEF Dies
<1>2. Key' \in [Pipes -> KeyType]
  BY DEF Dies, KeyType
<1>3. pipe' \in [Pipes -> PipeType]
  <2>1. \A p \in Pipes : [pipe[p] EXCEPT !.state = "none", !.request = ""] \in PipeType
    BY PipeTo DEF TypeOK, States, Requests
  <2> QED BY <2>1 DEF Dies
<1>4. main' \in MainType
  BY Ranges DEF Dies, MainType
<1> QED
  BY <1>1, <1>2, <1>3, <1>4 DEF Dies, TypeOK, build

LEMMA InitTyped == Init => TypeOK
<1> SUFFICES ASSUME Init PROVE TypeOK
  OBVIOUS
<1>1. program \in {"serverNP", "serverSM", "serverNPCP"} /\ nThreads \in Pipes
  BY Ranges, PipeServerAssumption DEF Init, Pipes
<1>2. output \in [Clients -> Seq(Text)]
  BY EmptySeq DEF Init
<1>3. client \in [Clients -> ClientType]
  BY NoClientTyped DEF Init
<1>4. thread \in [Pipes -> ThreadType] /\ pipe \in [Pipes -> PipeType]
  BY NoThreadTyped, NoPipeTyped DEF Init
<1>5. Key \in [Pipes -> KeyType]
  BY DEF Init, KeyType
<1>6. main \in MainType
  BY Ranges DEF Init, MainType
<1> QED
  BY <1>1, <1>2, <1>3, <1>4, <1>5, <1>6 DEF Init, TypeOK, NoClient

LEMMA FirstTyped ==
  ASSUME TypeOK
  PROVE  First \in ThreadType /\ \A p \in Pipes : [First EXCEPT !.pipe = p] \in ThreadType
<1>1. \A pc \in {"while", "connect"} : [NoThread EXCEPT !.pc = pc] \in ThreadType
  BY NoThreadTyped, ThreadTo DEF Calls
<1>2. First \in ThreadType
  BY <1>1 DEF First, TypeOK
<1> QED BY <1>2, ThreadTo DEF Calls

LEMMA MainTyped == TypeOK /\ Main => TypeOK'
<1> SUFFICES ASSUME TypeOK, Main PROVE TypeOK'
  OBVIOUS
<1>1. /\ thread \in [Pipes -> ThreadType] /\ pipe \in [Pipes -> PipeType] /\ main.i \in Pipes
      /\ Key \in [Pipes -> KeyType]
      /\ main \in MainType /\ nThreads \in Pipes
  BY DEF TypeOK, MainType
<1>2. First \in ThreadType /\ \A p \in Pipes : [First EXCEPT !.pipe = p] \in ThreadType
  BY FirstTyped
<1>3. CASE MainCreates
  <2>1. main' \in MainType
    BY <1>1, <1>3, PipeServerAssumption DEF MainCreates, Pipes, MainType
  <2>2. thread' \in [Pipes -> ThreadType]
    BY <1>1, <1>2, <1>3 DEF MainCreates
  <2>3. [pipe[main.i] EXCEPT !.state = "listening"] \in PipeType
    BY <1>1, PipeTo DEF States, Requests
  <2>4. pipe' \in [Pipes -> PipeType]
    BY <1>1, <1>3, <2>3 DEF MainCreates
  <2> QED BY <1>3, <2>1, <2>2, <2>4 DEF MainCreates, MainFrame, TypeOK, build
<1>4. CASE MainConnects
  <2>1. CASE Listens(main.i)
    <3>1. main' \in MainType
      BY <1>1, <1>4, <2>1, PipeServerAssumption DEF MainConnects, Pipes, MainType
    <3>2. [Key[main.i] EXCEPT !.pending = TRUE] \in KeyType
      BY <1>1 DEF KeyType
    <3>3. Key' \in [Pipes -> KeyType]
      BY <1>1, <1>4, <2>1, <3>2 DEF MainConnects
    <3> QED BY <1>4, <2>1, <3>1, <3>3 DEF MainConnects, MainFrame, TypeOK, build
  <2>2. CASE ~Listens(main.i)
    BY <1>4, <2>2, DiesTyped DEF MainConnects
  <2> QED BY <2>1, <2>2
<1>5. CASE MainBegins
  <2>1. main' \in MainType
    BY <1>1, <1>5, PipeServerAssumption DEF MainBegins, Pipes, MainType
  <2>2. thread' \in [Pipes -> ThreadType]
    BY <1>1, <1>2, <1>5 DEF MainBegins
  <2> QED BY <1>5, <2>1, <2>2 DEF MainBegins, MainFrame, TypeOK, build
<1>6. CASE MainFails \/ MainReturns
  BY <1>6, DiesTyped DEF MainFails, MainReturns
<1> QED
  BY <1>3, <1>4, <1>5, <1>6 DEF Main, serverNP_main, serverSM_main, serverNPCP_main

LEMMA MonitorTyped == TypeOK /\ (Handler \/ ServerBroadcast \/ SRVRBCST) => TypeOK'
<1> SUFFICES ASSUME TypeOK, Handler \/ ServerBroadcast \/ SRVRBCST PROVE TypeOK'
  OBVIOUS
<1>1. CASE MonitorFails
  BY <1>1, DiesTyped DEF MonitorFails
<1>2. CASE Handler \/ MonitorTests
  BY <1>2 DEF Handler, MonitorTests, MonitorFrame, control, build, TypeOK
<1>3. CASE MonitorWrites \/ SRVRBCST
  <2>1. \A c \in Clients : /\ client[c] \in ClientType /\ [client[c] EXCEPT !.pc = "wait"] \in ClientType
                           /\ [client[c] EXCEPT !.pc = "wait"].pc = "wait"
    BY ClientTo DEF TypeOK
  <2>2. client' \in [Clients -> ClientType]
    BY <1>3, <2>1 DEF MonitorWrites, SRVRBCST, Located
  <2>3. \A c \in Clients : client'[c] = client[c] \/ client'[c].pc = "wait"
    BY <1>3, <2>1 DEF MonitorWrites, SRVRBCST, Located
  <2> QED BY <1>3, <2>2, <2>3 DEF MonitorWrites, SRVRBCST, MonitorFrame, build, TypeOK
<1> QED BY <1>1, <1>2, <1>3 DEF ServerBroadcast

LEMMA ClientTyped ==
  ASSUME TypeOK, NEW c \in Clients, ClientStep(c) \/ ClientKilled(c)
  PROVE  TypeOK'
<1> DEFINE Others == UNCHANGED <<build, process, ShutDown, control, thread, sem, Key, output>>
           Typed == /\ pipe' \in [Pipes -> PipeType] /\ client' \in [Clients -> ClientType]
                    /\ client'[c].pc \in {"prompt", "receive"} => client'[c].pipe \in Pipes
                    /\ \A d \in Clients \ {c} : client'[d] = client[d]
<1>0. Others /\ Typed => TypeOK'
  BY DEF TypeOK, build, control
<1>1. /\ pipe \in [Pipes -> PipeType] /\ client \in [Clients -> ClientType]
      /\ client[c] \in ClientType /\ NoClient \in ClientType /\ NoClient.pc = "ended"
      /\ client[c].pc \in {"prompt", "receive"} => client[c].pipe \in Pipes
  BY NoClientTyped DEF TypeOK, NoClient
<1>2. CASE WaitNamedPipe(c)
  <2>1. [client[c] EXCEPT !.pc = "open"] \in ClientType /\ [client[c] EXCEPT !.pc = "open"].pc = "open"
    BY <1>1, ClientTo
  <2> QED BY <1>0, <1>1, <1>2, <2>1 DEF WaitNamedPipe, Client, ClientFrame
<1>3. CASE OpensPipe(c)
  <2>1. CASE \E p \in Pipes : Listens(p)
    <3>1. PICK p \in {q \in Pipes : Listens(q)} :
            /\ pipe' = [pipe EXCEPT ![p] = [@ EXCEPT !.state = "connected", !.by = c, !.open = TRUE]]
            /\ Client(c, [client[c] EXCEPT !.pc = "prompt", !.pipe = p])
      BY <1>3, <2>1 DEF OpensPipe
    <3>2. [pipe[p] EXCEPT !.state = "connected", !.by = c, !.open = TRUE] \in PipeType
      BY <1>1, PipeTo DEF States, Requests
    <3>3. /\ [client[c] EXCEPT !.pc = "prompt", !.pipe = p] \in ClientType
          /\ [client[c] EXCEPT !.pc = "prompt", !.pipe = p].pipe = p
      BY <1>1, ClientOpens
    <3>4. Typed
      BY <1>1, <3>1, <3>2, <3>3 DEF Client
    <3> QED BY <1>0, <1>3, <3>4 DEF OpensPipe, ClientFrame
  <2>2. CASE ~(\E p \in Pipes : Listens(p))
    BY <1>0, <1>1, <1>3, <2>2 DEF OpensPipe, Client, ClientFrame
  <2> QED BY <2>1, <2>2
<1>4. CASE Asks(c)
  <2> DEFINE n == client[c].asked + 1
             new == [client[c] EXCEPT !.pc = "receive", !.asked = n, !.printed = <<>>]
  <2>0. n \in Nat
    BY <1>1, ClientFields
  <2> HIDE DEF n
  <2>1. new \in ClientType /\ new.pipe = client[c].pipe
    BY <1>1, <2>0, ClientAsks
  <2>2. client' = [client EXCEPT ![c] = new] /\ client[c].pipe \in Pipes
    BY <1>1, <1>4 DEF Asks, Client, n
  <2> HIDE DEF new
  <2>3. /\ client' \in [Clients -> ClientType] /\ client'[c].pipe \in Pipes
        /\ \A d \in Clients \ {c} : client'[d] = client[d]
    BY <1>1, <2>1, <2>2
  <2>4. \A r \in Requests, p \in Pipes : [pipe[p] EXCEPT !.request = r] \in PipeType
    BY <1>1, PipeTo DEF States
  <2>5. PICK r \in Requests : pipe' = IF Open(c) THEN [pipe EXCEPT ![client[c].pipe].request = r] ELSE pipe
    BY <1>4 DEF Asks, Requests
  <2>6. pipe' \in [Pipes -> PipeType]
    BY <1>1, <2>2, <2>4, <2>5
  <2> QED BY <1>0, <1>4, <2>3, <2>6 DEF Asks, ClientFrame
<1>5. CASE Closes(c)
  <2>1. \A p \in Pipes : [pipe[p] EXCEPT !.open = FALSE, !.responses = <<>>] \in PipeType
    BY <1>1, EmptySeq, PipeTo DEF States, Requests
  <2>2. pipe' \in [Pipes -> PipeType]
    BY <1>1, <1>5, <2>1 DEF Closes
  <2> QED BY <1>0, <1>1, <1>5, <2>2 DEF Closes, Client, ClientFrame
<1>6. CASE Reads(c)
  <2> DEFINE p == client[c].pipe
             r == Head(pipe[p].responses)
  <2>0. Others
    BY <1>6 DEF Reads, ClientFrame
  <2>1. CASE pipe[p].by = c /\ pipe[p].responses # <<>>
    <3>1. pipe' = [pipe EXCEPT ![p].responses = Tail(@)]
      BY <1>6, <2>1 DEF Reads
    <3>2. client' = [client EXCEPT ![c] = IF r.end THEN [client[c] EXCEPT !.pc = "prompt"]
                                          ELSE [client[c] EXCEPT !.printed = Append(@, r.line)]]
      BY <1>6, <2>1 DEF Reads, Client
    <3>3. p \in Pipes
      BY <1>1, <1>6 DEF Reads
    <3>4. pipe[p] \in PipeType
      BY <1>1, <3>3
    <3>5. pipe[p].responses \in Seq(Response)
      BY <3>4 DEF PipeType
    <3>6. r \in Response /\ Tail(pipe[p].responses) \in Seq(Response)
      BY <2>1, <3>5
    <3>7. [pipe[p] EXCEPT !.responses = Tail(@)] \in PipeType
      BY <3>4, <3>6, PipeTo DEF States, Requests
    <3>8. pipe' \in [Pipes -> PipeType]
      BY <1>1, <3>1, <3>7
    <3>9. r.line \in Text
      BY <3>6 DEF Response
    <3> DEFINE s == Append(client[c].printed, r.line)
    <3>10. s \in Seq(Text)
      BY <1>1, <3>9, ClientFields
    <3> HIDE DEF s
    <3>11. /\ [client[c] EXCEPT !.pc = "prompt"] \in ClientType /\ [client[c] EXCEPT !.printed = s] \in ClientType
           /\ [client[c] EXCEPT !.pc = "prompt"].pipe = p /\ [client[c] EXCEPT !.printed = s].pipe = p
      BY <1>1, <3>10, ClientTo, ClientPrints
    <3>12. \/ client' = [client EXCEPT ![c] = [client[c] EXCEPT !.pc = "prompt"]]
           \/ client' = [client EXCEPT ![c] = [client[c] EXCEPT !.printed = s]]
      BY <3>2 DEF s
    <3>13. client' \in [Clients -> ClientType] /\ client'[c].pipe = p /\ \A d \in Clients \ {c} : client'[d] = client[d]
      BY <1>1, <3>11, <3>12
    <3> QED BY <1>0, <2>0, <3>3, <3>8, <3>13
  <2>2. CASE ~(pipe[p].by = c /\ pipe[p].responses # <<>>)
    <3>1. [client[c] EXCEPT !.pc = "prompt"] \in ClientType /\ [client[c] EXCEPT !.pc = "prompt"].pipe = p
      BY <1>1, ClientTo
    <3>2. client' = [client EXCEPT ![c] = [client[c] EXCEPT !.pc = "prompt"]] /\ pipe' = pipe /\ p \in Pipes
      BY <1>1, <1>6, <2>2 DEF Reads, Client
    <3>3. client' \in [Clients -> ClientType] /\ client'[c].pipe = p /\ \A d \in Clients \ {c} : client'[d] = client[d]
      BY <1>1, <3>1, <3>2
    <3> QED BY <1>0, <1>1, <2>0, <3>2, <3>3
  <2> QED BY <2>1, <2>2
<1> QED
  BY <1>2, <1>3, <1>4, <1>5, <1>6 DEF ClientStep, ClientKilled, Quits

-----------------------------------------------------------------------------
(* A thread after a step: its fields.                                      *)

Is(n, pc, p, h, f, s, k) ==
  /\ n \in ThreadType
  /\ n.pc = pc /\ n.pipe = p /\ n.hConTh = h /\ n.file = f /\ n.temp = s /\ n.read = k

LEMMA FormGoto ==
  ASSUME NEW r \in ThreadType, NEW pc \in Calls
  PROVE  Is([r EXCEPT !.pc = pc], pc, r.pipe, r.hConTh, r.file, r.temp, r.read)
BY DEF Is, ThreadType

LEMMA FormConnects ==
  ASSUME NEW r \in ThreadType, NEW pc \in Calls, NEW h \in {"none", "begun", "waits", "ended"}
  PROVE  /\ Is([r EXCEPT !.pc = pc, !.hConTh = h], pc, r.pipe, h, r.file, r.temp, r.read)
         /\ Is([r EXCEPT !.hConTh = h], r.pc, r.pipe, h, r.file, r.temp, r.read)
BY DEF Is, ThreadType

LEMMA FormFile ==
  ASSUME NEW r \in ThreadType, NEW pc \in Calls, NEW f \in BOOLEAN
  PROVE  /\ Is([r EXCEPT !.pc = pc, !.file = f, !.temp = <<>>], pc, r.pipe, r.hConTh, f, <<>>, r.read)
         /\ Is([r EXCEPT !.pc = pc, !.hConTh = "none", !.file = f, !.temp = <<>>],
               pc, r.pipe, "none", f, <<>>, r.read)
BY EmptySeq DEF Is, ThreadType

LEMMA FormAt ==
  ASSUME NEW r \in ThreadType, NEW pc \in Calls, NEW p \in Pipes
  PROVE  /\ Is([r EXCEPT !.pc = pc, !.pipe = p], pc, p, r.hConTh, r.file, r.temp, r.read)
         /\ Is([r EXCEPT !.pipe = p, !.pc = pc], pc, p, r.hConTh, r.file, r.temp, r.read)
         /\ \A f \in BOOLEAN :
              Is([r EXCEPT !.pipe = p, !.pc = pc, !.file = f, !.temp = <<>>], pc, p, r.hConTh, f, <<>>, r.read)
BY EmptySeq, Ranges DEF Is, ThreadType

LEMMA FormSends ==
  ASSUME NEW r \in ThreadType, NEW pc \in Calls, NEW s \in Seq(Text), NEW k \in Nat
  PROVE  /\ Is([r EXCEPT !.pc = pc, !.read = k, !.temp = s], pc, r.pipe, r.hConTh, r.file, s, k)
         /\ Is([r EXCEPT !.pc = pc, !.temp = s, !.read = k], pc, r.pipe, r.hConTh, r.file, s, k)
         /\ Is([r EXCEPT !.read = k], r.pc, r.pipe, r.hConTh, r.file, r.temp, k)
BY DEF Is, ThreadType

LEMMA FormEnded ==
  Is([NoThread EXCEPT !.pc = "ended"], "ended", 0, "none", FALSE, <<>>, 0)
BY EmptySeq, Ranges DEF Is, NoThread, ThreadType, Calls

LEMMA ThreadFields ==
  ASSUME NEW r \in ThreadType
  PROVE  /\ r.pc \in Calls /\ r.pipe \in 0 .. MAX_CLIENTS /\ r.hConTh \in {"none", "begun", "waits", "ended"}
         /\ r.temp \in Seq(Text) /\ r.read \in Nat
BY DEF ThreadType

-----------------------------------------------------------------------------
(* What a step of thread t does to the rest.                               *)

ThreadTakes(t, n) ==
  /\ thread' = [thread EXCEPT ![t] = n] /\ n \in ThreadType
  /\ thread[t].pc # "none" /\ n.pc # "none"
  /\ UNCHANGED <<build, process, control, client>>
  /\ ShutDown' \in BOOLEAN

PipesKept(t) ==
  /\ pipe' \in [Pipes -> PipeType]
  /\ \A p \in Pipes :
       /\ Usable(p) => Usable(p)' \/ (p = t /\ ~CompletionPort)
       /\ pipe'[p].state # "connected" => Clean(p)'
       /\ pipe[p].state = "none" => pipe'[p].state = "none" \/ p = t \/ CompletionPort

KeysKept(t) ==
  /\ Key' \in [Pipes -> KeyType]
  /\ ~CompletionPort => Key' = Key
  /\ CompletionPort =>
       \A p \in Pipes :
         /\ Key'[p].Type = 1 => Usable(p)'
         /\ \A u \in Pipes \ {t} : Works(u, p) => Key'[p].Type = 1 /\ ~Key'[p].pending
         /\ Works(t, p)' => \A u \in Pipes \ {t} : ~Works(u, p)

ThreadGood(t) == ThreadOK(t) /\ ThreadNP(t) /\ ThreadSM(t) /\ ThreadCP(t)

LEMMA OthersGood ==
  ASSUME ControlInv, TypeOK, NEW t \in Pipes, NEW n, ThreadTakes(t, n), PipesKept(t), KeysKept(t),
         NEW u \in Pipes, u # t
  PROVE  ThreadGood(u)' /\ thread'[u] = thread[u]
<1>1. thread'[u] = thread[u] /\ program' = program
  BY DEF ThreadTakes, TypeOK, build
<1>2. ThreadGood(u)
  BY DEF ControlInv, ThreadGood
<1>3. Usable(u) => Usable(u)' \/ CompletionPort
  BY DEF PipesKept
<1>4. Usable(u) /\ ~CompletionPort => Usable(u)'
  BY <1>3 DEF PipesKept
<1>5. ThreadOK(u)'
  BY <1>1, <1>2 DEF ThreadGood, ThreadOK, CompletionPort
<1>6. ThreadNP(u)'
  BY <1>1, <1>2, <1>4 DEF ThreadGood, ThreadNP, CompletionPort
<1>7. ThreadSM(u)'
  BY <1>1, <1>2, <1>4 DEF ThreadGood, ThreadSM, CompletionPort
<1>8. ThreadCP(u)'
  <2>1. CASE program = "serverNPCP" /\ thread[u].pc \in {"store", "execute", "send", "read again"}
    <3>1. thread[u].pipe \in Pipes
      BY <1>2, <2>1 DEF ThreadGood, ThreadCP
    <3>2. Works(u, thread[u].pipe)
      BY <2>1 DEF Works
    <3>3. Key'[thread[u].pipe].Type = 1 /\ ~Key'[thread[u].pipe].pending
      BY <2>1, <3>1, <3>2 DEF KeysKept, CompletionPort
    <3> QED BY <1>1, <1>2, <2>1, <3>1, <3>3 DEF ThreadGood, ThreadCP
  <2>2. CASE ~(program = "serverNPCP" /\ thread[u].pc \in {"store", "execute", "send", "read again"})
    BY <1>1, <1>2, <2>2 DEF ThreadGood, ThreadCP
  <2> QED BY <2>1, <2>2
<1> QED BY <1>1, <1>5, <1>6, <1>7, <1>8 DEF ThreadGood

LEMMA StepKeepsControl ==
  ASSUME ControlInv, TypeOK, Running, NEW t \in Pipes, NEW n, ThreadTakes(t, n), PipesKept(t), KeysKept(t),
         output' \in [Clients -> Seq(Text)], ThreadGood(t)'
  PROVE  TypeOK' /\ ControlInv'
<1>1. TypeOK'
  BY DEF ThreadTakes, PipesKept, KeysKept, TypeOK, build, control
<1>2. \A u \in Pipes \ {t} : ThreadGood(u)' /\ thread'[u] = thread[u]
  BY OthersGood
<1>3. thread'[t] = n /\ n.pc # "none" /\ thread[t].pc # "none" /\ program' = program /\ main' = main /\ Running'
  BY DEF ThreadTakes, TypeOK, build, control, Running
<1>4. MainOK'
  <2>1. \A j \in Pipes : pipe[j].state = "none" => pipe'[j].state = "none" \/ j = t \/ CompletionPort
    BY DEF PipesKept
  <2>2. \A j \in Pipes : thread[j].pc = "none" => thread'[j].pc = "none"
    BY <1>2, <1>3
  <2>3. \A j \in Pipes : thread[t].pc # "none"
    BY <1>3
  <2>4. main.i \in Pipes /\ \A j \in main.i .. MAX_CLIENTS : j \in Pipes
    BY PipeServerAssumption DEF TypeOK, MainType, Pipes
  <2>5. MainOK
    BY DEF ControlInv
  <2> QED BY <1>3, <2>1, <2>2, <2>4, <2>5 DEF MainOK, CompletionPort
<1>5. ASSUME NEW p \in Pipes PROVE KeyOK(p)'
  <2>1. KeyOK(p)
    BY DEF ControlInv
  <2>2. CASE ~CompletionPort
    BY <1>3, <2>1, <2>2 DEF KeysKept, KeyOK, CompletionPort
  <2>3. CASE CompletionPort
    <3>1. Key'[p].Type = 1 => CompletionPort' /\ Usable(p)'
      BY <1>3, <2>3 DEF KeysKept, CompletionPort
    <3>2. \A u \in Pipes \ {t} : Works(u, p)' => Works(u, p)
      BY <1>2 DEF Works
    <3>3. \A u, v \in Pipes : Works(u, p)' /\ Works(v, p)' => u = v
      BY <2>1, <2>3, <3>2 DEF KeysKept, KeyOK
    <3> QED BY <3>1, <3>3 DEF KeyOK
  <2> QED BY <2>2, <2>3
<1>6. ASSUME NEW p \in Pipes PROVE PipeOK(p)'
  BY <1>3 DEF PipesKept, PipeOK
<1> QED
  BY <1>1, <1>2, <1>4, <1>5, <1>6 DEF ControlInv, ThreadGood

(* Steps that leave the pipes or the keys alone.                           *)
LEMMA SamePipes ==
  ASSUME ControlInv, TypeOK, Running, NEW t \in Pipes, pipe' = pipe
  PROVE  PipesKept(t)
<1>1. \A p \in Pipes : PipeOK(p)
  BY DEF ControlInv
<1>2. pipe \in [Pipes -> PipeType]
  BY DEF TypeOK
<1> QED BY <1>1, <1>2 DEF PipesKept, PipeOK, Usable, Clean

LEMMA SameKeys ==
  ASSUME ControlInv, TypeOK, NEW t \in Pipes, NEW n, ThreadTakes(t, n), PipesKept(t), Key' = Key,
         \A p \in Pipes : Works(t, p)' => Works(t, p)
  PROVE  KeysKept(t)
<1>1. \A p \in Pipes : KeyOK(p)
  BY DEF ControlInv
<1>2. Key \in [Pipes -> KeyType]
  BY DEF TypeOK
<1>3. ASSUME CompletionPort, NEW p \in Pipes, NEW u \in Pipes \ {t}, Works(u, p)
      PROVE  Key[p].Type = 1 /\ ~Key[p].pending
  <2>1. ThreadCP(u)
    BY DEF ControlInv
  <2> QED BY <1>3, <2>1 DEF ThreadCP, Works, CompletionPort
<1>4. ASSUME CompletionPort, NEW p \in Pipes PROVE Key[p].Type = 1 => Usable(p)'
  BY <1>1, <1>4 DEF KeyOK, PipesKept
<1>5. ASSUME CompletionPort, NEW p \in Pipes, Works(t, p)' PROVE \A u \in Pipes \ {t} : ~Works(u, p)
  BY <1>1, <1>5 DEF KeyOK
<1> QED BY <1>2, <1>3, <1>4, <1>5 DEF KeysKept

-----------------------------------------------------------------------------
(* How a request goes from one phase to the next: k is the client, q the   *)
(* instance it has open, o the output of its last command and S the        *)
(* threads that serve it.                                                  *)

LEMMA PhaseTaken ==
  ASSUME NEW c, NEW x, NEW k \in ClientType, NEW q \in PipeType, NEW r \in PipeType, NEW o, NEW S, NEW T,
         NEW whole, PhaseOf(c, x, k, q, o, S, whole, TRUE), q.request # "",
         r.by = q.by /\ r.open = q.open /\ r.responses = q.responses /\ r.request = "",
         \A n \in T : n.pc # "send"
  PROVE  PhaseOf(c, x, k, r, o, T, whole, TRUE)
BY DEF PhaseOf, Idle, Unanswered, Answering, Answered, Cut

LEMMA PhaseStarts ==
  ASSUME NEW c, NEW x, NEW k \in ClientType, NEW q \in PipeType, NEW o, NEW r \in ThreadType,
         NEW n \in ThreadType,
         NEW whole, PhaseOf(c, x, k, q, o, {r}, whole, TRUE), r.pc # "send", n.pc # "send"
  PROVE  PhaseOf(c, x, k, q, o, {n}, whole, TRUE)
BY DEF PhaseOf, Idle, Unanswered, Answering, Answered, Cut

LEMMA PhaseEnds ==
  ASSUME NEW c, NEW x, NEW k \in ClientType, NEW q \in PipeType, NEW o, NEW r \in ThreadType,
         NEW n \in ThreadType, NEW s \in Seq(Text),
         NEW whole, PhaseOf(c, x, k, q, o, {r}, whole, TRUE), r.pc # "send",
         n.pc = "send", n.read = 0, OwnText(x, s), n.temp = s \/ (~whole /\ n.temp = <<>>)
  PROVE  PhaseOf(c, x, k, q, s, {n}, whole, TRUE)
<1>1. k.pc = "receive" => OwnText(x, k.printed)
  BY DEF PhaseOf
<1>2. CASE ~(k.pc \in {"prompt", "receive"} /\ q.by = c)
  BY <1>1, <1>2 DEF PhaseOf
<1>3. CASE k.pc \in {"prompt", "receive"} /\ q.by = c
  <2>1. q.open /\ k.pc = "receive" /\ Unanswered(k, q, {r})
    BY <1>3 DEF PhaseOf, Idle, Answering, Answered, Cut
  <2>2. Answering(x, k, q, s, {n}, whole)
    <3>1. k.printed = <<>> /\ q.responses = <<>> /\ q.request = ""
      BY <2>1 DEF Unanswered
    <3>2. OwnText(x, n.temp) /\ n.temp \in Seq(Text)
      <4>1. <<>> \in Seq(Text) /\ Len(<<>>) = 0
        BY EmptySeq
      <4>2. \A i \in 1 .. 0 : FALSE
        OBVIOUS
      <4>3. OwnText(x, <<>>)
        BY <4>1, <4>2 DEF OwnText
      <4> QED BY <4>1, <4>3
    <3>3. Len(k.printed) = 0 /\ Len(q.responses) = 0 /\ Len(n.temp) \in Nat
      BY <3>1, <3>2, EmptySeq
    <3>4. n.read = Len(k.printed) + Len(q.responses) /\ n.read <= Len(n.temp)
      BY <3>3
    <3>5. Plain(x, q.responses, Len(q.responses))
      BY <3>3 DEF Plain
    <3> QED BY <3>1, <3>2, <3>4, <3>5 DEF Answering
  <2> QED BY <1>1, <2>1, <2>2 DEF PhaseOf
<1> QED BY <1>2, <1>3

LEMMA PhaseSends ==
  ASSUME NEW c, NEW x, NEW k \in ClientType, NEW q \in PipeType, NEW v \in PipeType, NEW o, NEW r \in ThreadType,
         NEW n \in ThreadType, NEW whole, PhaseOf(c, x, k, q, o, {r}, whole, TRUE),
         r.pc = "send", n.pc = "send", n.temp = r.temp, r.read < Len(r.temp), n.read = r.read + 1,
         v.by = q.by /\ v.open = q.open /\ v.request = q.request,
         v.responses = Append(q.responses, [end |-> FALSE, line |-> r.temp[r.read + 1]])
  PROVE  PhaseOf(c, x, k, v, o, {n}, whole, TRUE)
<1>1. k.pc = "receive" => OwnText(x, k.printed)
  BY DEF PhaseOf
<1>2. CASE ~(k.pc \in {"prompt", "receive"} /\ q.by = c)
  BY <1>1, <1>2 DEF PhaseOf
<1>3. CASE k.pc \in {"prompt", "receive"} /\ q.by = c
  <2>1. q.open /\ k.pc = "receive" /\ Answering(x, k, q, o, {r}, whole)
    BY <1>3 DEF PhaseOf, Idle, Unanswered, Answered, Cut
  <2>2. r.read \in Nat /\ r.temp \in Seq(Text)
    BY DEF ThreadType
  <2>3. q.responses \in Seq(Response)
    BY DEF PipeType
  <2>4. k.printed \in Seq(Text)
    BY DEF ClientType
  <2>5. /\ q.request = "" /\ OwnText(x, o) /\ Plain(x, q.responses, Len(q.responses)) /\ OwnText(x, r.temp)
        /\ r.read = Len(k.printed) + Len(q.responses) /\ (whole => Len(r.temp) = Len(o))
    BY <2>1 DEF Answering
  <2>0. Len(r.temp) \in Nat /\ Len(q.responses) \in Nat /\ Len(k.printed) \in Nat
    BY <2>2, <2>3, <2>4, LenProperties
  <2>6. r.temp[r.read + 1] = x
    <3>1. r.read + 1 \in 1 .. Len(r.temp)
      BY <2>0, <2>2
    <3> QED BY <2>5, <3>1 DEF OwnText
  <2> DEFINE e == [end |-> FALSE, line |-> r.temp[r.read + 1]]
  <2>7. ~e.end /\ e.line = x
    BY <2>6
  <2> HIDE DEF e
  <2>8. /\ Len(v.responses) = Len(q.responses) + 1 /\ Len(q.responses) \in Nat
        /\ v.responses[Len(q.responses) + 1] = e
        /\ \A i \in 1 .. Len(q.responses) : v.responses[i] = q.responses[i]
    BY <2>3 DEF e
  <2>9. Plain(x, v.responses, Len(v.responses))
    <3>1. \A i \in 1 .. Len(v.responses) : i \in 1 .. Len(q.responses) \/ i = Len(q.responses) + 1
      BY <2>8
    <3>2. \A i \in 1 .. Len(q.responses) : ~q.responses[i].end /\ q.responses[i].line = x
      BY <2>5 DEF Plain
    <3> QED BY <2>7, <2>8, <3>1, <3>2 DEF Plain
  <2>10. n.read = Len(k.printed) + Len(v.responses) /\ n.read <= Len(n.temp)
    <3> DEFINE a == Len(k.printed)
               m == Len(v.responses)
               l == Len(r.temp)
               z == Len(q.responses)
               i == r.read
    <3>1. /\ l \in Nat /\ a \in Nat /\ z \in Nat /\ i \in Nat /\ i = a + z /\ m = z + 1 /\ i < l
          /\ n.read = i + 1 /\ Len(n.temp) = l
      BY <2>0, <2>2, <2>5, <2>8
    <3> HIDE DEF a, m, l, z, i
    <3>2. i + 1 = a + m /\ i + 1 <= l
      BY <3>1
    <3> QED BY <3>1, <3>2 DEF a, m
  <2>11. Answering(x, k, v, o, {n}, whole)
    BY <2>5, <2>9, <2>10 DEF Answering
  <2> QED BY <1>1, <2>1, <2>11 DEF PhaseOf
<1> QED BY <1>2, <1>3

LEMMA PhaseSent ==
  ASSUME NEW c, NEW x, NEW k \in ClientType, NEW q \in PipeType, NEW v \in PipeType, NEW o, NEW r \in ThreadType,
         NEW whole, PhaseOf(c, x, k, q, o, {r}, whole, TRUE),
         r.pc = "send", r.read = Len(r.temp),
         v.by = q.by /\ v.open = q.open /\ v.request = q.request,
         v.responses = Append(q.responses, [end |-> TRUE, line |-> NULL])
  PROVE  PhaseOf(c, x, k, v, o, {}, whole, TRUE)
<1>1. k.pc = "receive" => OwnText(x, k.printed)
  BY DEF PhaseOf
<1>2. CASE ~(k.pc \in {"prompt", "receive"} /\ q.by = c)
  BY <1>1, <1>2 DEF PhaseOf
<1>3. CASE k.pc \in {"prompt", "receive"} /\ q.by = c
  <2>1. q.open /\ k.pc = "receive" /\ Answering(x, k, q, o, {r}, whole)
    BY <1>3 DEF PhaseOf, Idle, Unanswered, Answered, Cut
  <2>2. r.read \in Nat /\ r.temp \in Seq(Text)
    BY DEF ThreadType
  <2>3. q.responses \in Seq(Response)
    BY DEF PipeType
  <2>4. k.printed \in Seq(Text)
    BY DEF ClientType
  <2>5. /\ q.request = "" /\ OwnText(x, o) /\ Plain(x, q.responses, Len(q.responses)) /\ OwnText(x, r.temp)
        /\ r.read = Len(k.printed) + Len(q.responses) /\ (whole => Len(r.temp) = Len(o))
    BY <2>1 DEF Answering
  <2> DEFINE e == [end |-> TRUE, line |-> NULL]
  <2>7. e.end
    OBVIOUS
  <2> HIDE DEF e
  <2>8. /\ Len(v.responses) = Len(q.responses) + 1 /\ Len(q.responses) \in Nat
        /\ v.responses[Len(q.responses) + 1] = e
        /\ \A i \in 1 .. Len(q.responses) : v.responses[i] = q.responses[i]
    BY <2>3 DEF e
  <2>9. Plain(x, v.responses, Len(v.responses) - 1)
    <3>1. Len(v.responses) - 1 = Len(q.responses)
      BY <2>8
    <3>2. \A i \in 1 .. Len(q.responses) : ~q.responses[i].end /\ q.responses[i].line = x
      BY <2>5 DEF Plain
    <3> QED BY <2>8, <3>1, <3>2 DEF Plain
  <2>10. whole => Len(k.printed) + Len(v.responses) = Len(o) + 1
    <3> DEFINE a == Len(k.printed)
               m == Len(v.responses)
               l == Len(r.temp)
               z == Len(q.responses)
    <3>1. l \in Nat /\ a \in Nat /\ z \in Nat /\ l = a + z /\ m = z + 1 /\ (whole => l = Len(o))
      BY <2>2, <2>4, <2>5, <2>8, LenProperties
    <3> HIDE DEF a, m, l, z
    <3>2. a + m = l + 1
      BY <3>1
    <3> QED BY <3>1, <3>2 DEF a, m
  <2>11. Answered(x, k, v, o, {}, whole)
    <3>1. Len(v.responses) > 0 /\ v.responses[Len(v.responses)].end
      BY <2>7, <2>8
    <3>2. v.request = ""
      BY <2>5
    <3> QED BY <2>5, <2>9, <2>10, <3>1, <3>2 DEF Answered
  <2> QED BY <1>1, <2>1, <2>11 DEF PhaseOf
<1> QED BY <1>2, <1>3

LEMMA PhaseDies ==
  ASSUME NEW c, NEW x, NEW k \in ClientType, NEW q \in PipeType, NEW v \in PipeType, NEW o, NEW S,
         NEW whole, PhaseOf(c, x, k, q, o, S, whole, TRUE),
         v.by = q.by /\ v.open = q.open /\ v.request = "" /\ v.responses = q.responses
  PROVE  PhaseOf(c, x, k, v, o, {}, whole, FALSE)
BY DEF PhaseOf, Idle, Unanswered, Answering, Answered, Cut

LEMMA PhaseOpens ==
  ASSUME NEW c, NEW x, NEW k \in ClientType, NEW q \in PipeType, NEW o, NEW whole, NEW live,
         k.pc = "prompt", q.open, q.responses = <<>>, q.request = ""
  PROVE  PhaseOf(c, x, k, q, o, {}, whole, live)
BY DEF PhaseOf, Idle

LEMMA PhaseAsks ==
  ASSUME NEW c, NEW x, NEW y, NEW k \in ClientType, NEW j \in ClientType, NEW q \in PipeType, NEW v \in PipeType,
         NEW o, NEW S, NEW whole, NEW live, PhaseOf(c, x, k, q, o, S, whole, live),
         k.pc = "prompt", j.pc = "receive", j.printed = <<>>,
         v.by = q.by /\ v.open = q.open /\ v.responses = q.responses
  PROVE  PhaseOf(c, y, j, v, o, S, whole, live)
<1>1. OwnText(y, j.printed)
  BY EmptySeq DEF OwnText
<1> QED BY <1>1 DEF PhaseOf, Idle, Unanswered

LEMMA PhaseReads ==
  ASSUME NEW c, NEW x, NEW k \in ClientType, NEW j \in ClientType, NEW q \in PipeType, NEW v \in PipeType,
         NEW o, NEW S, NEW whole, NEW live, PhaseOf(c, x, k, q, o, S, whole, live),
         k.pc = "receive", q.by = c, q.responses # <<>>,
         v.by = q.by /\ v.open = q.open /\ v.request = q.request, v.responses = Tail(q.responses),
         IF Head(q.responses).end THEN j.pc = "prompt"
         ELSE j.pc = "receive" /\ j.printed = Append(k.printed, Head(q.responses).line)
  PROVE  PhaseOf(c, x, j, v, o, S, whole, live)
<1>1. q.responses \in Seq(Response)
  BY DEF PipeType
<1>2. k.printed \in Seq(Text)
  BY DEF ClientType
<1> DEFINE n == Len(q.responses)
           h == Head(q.responses)
           w == v.responses
<1>3. /\ n \in Nat /\ n > 0 /\ Len(w) = n - 1 /\ h = q.responses[1]
      /\ \A i \in 1 .. n - 1 : w[i] = q.responses[i + 1]
  <2> DEFINE s == q.responses
  <2>1. s \in Seq(Response) /\ s # <<>> /\ w = Tail(s)
    BY <1>1
  <2> HIDE DEF s, w
  <2>2. Len(s) \in Nat /\ Len(s) > 0 /\ Len(w) = Len(s) - 1 /\ Head(s) = s[1] /\ \A i \in 1 .. Len(s) - 1 : w[i] = s[i + 1]
    BY <2>1
  <2> QED BY <2>2 DEF s
<1>4. n = 1 => w = <<>>
  <2>1. w \in Seq(Response)
    BY DEF PipeType
  <2>2. n = 1 => Len(w) = 0
    BY <1>3
  <2> QED BY <2>1, <2>2, EmptySeq, Zenon
<1>5. OwnText(x, k.printed) /\ q.open
  BY DEF PhaseOf
<1>6. \/ Answering(x, k, q, o, S, whole) \/ Answered(x, k, q, o, S, whole) \/ Cut(x, q, live)
  BY DEF PhaseOf, Unanswered
<1> HIDE DEF n, h, w
<1>7. ASSUME NEW i \in 1 .. n, Plain(x, q.responses, i)
      PROVE  ~h.end /\ h.line = x /\ Plain(x, w, i - 1)
  <2>1. \A j0 \in 1 .. i : ~q.responses[j0].end /\ q.responses[j0].line = x
    BY <1>7 DEF Plain
  <2>2. 1 \in 1 .. i /\ \A j0 \in 1 .. i - 1 : j0 + 1 \in 1 .. i /\ j0 \in 1 .. n - 1
    BY <1>3
  <2>3. \A j0 \in 1 .. i - 1 : ~w[j0].end /\ w[j0].line = x
    BY <1>3, <2>1, <2>2
  <2> QED BY <1>3, <2>1, <2>2, <2>3 DEF Plain
<1>8. (Answering(x, k, q, o, S, whole) \/ Cut(x, q, live)) => ~h.end /\ h.line = x /\ Plain(x, w, Len(w))
  <2>1. (Answering(x, k, q, o, S, whole) \/ Cut(x, q, live)) => Plain(x, q.responses, n)
    BY DEF Answering, Cut, n
  <2>2. n \in 1 .. n
    BY <1>3
  <2> QED BY <1>3, <1>7, <2>1, <2>2
<1>9. Answered(x, k, q, o, S, whole) /\ n # 1 => ~h.end /\ h.line = x /\ Plain(x, w, Len(w) - 1)
  <2>1. Answered(x, k, q, o, S, whole) => Plain(x, q.responses, n - 1)
    BY DEF Answered, n
  <2>2. n # 1 => n - 1 \in 1 .. n
    BY <1>3
  <2> QED BY <1>3, <1>7, <2>1, <2>2
<1>10. Answered(x, k, q, o, S, whole) /\ n = 1 => h.end
  BY <1>3 DEF Answered, n
<1>11. v.responses = w /\ Head(q.responses) = h /\ Len(q.responses) = n
  BY DEF w, h, n
<1>12. CASE h.end
  <2>1. Answered(x, k, q, o, S, whole) /\ n = 1
    BY <1>6, <1>8, <1>9, <1>12
  <2>2. Idle(v, S)
    BY <1>4, <1>11, <2>1 DEF Answered, Idle
  <2> QED BY <1>5, <1>11, <1>12, <2>2 DEF PhaseOf
<1>13. CASE ~h.end
  <2>1. j.pc = "receive" /\ j.printed = Append(k.printed, h.line)
    BY <1>11, <1>13
  <2>2. h.line = x
    BY <1>6, <1>8, <1>9, <1>10, <1>13
  <2>3. Len(j.printed) = Len(k.printed) + 1 /\ Len(k.printed) \in Nat
    BY <1>2, <2>1
  <2>4. \A i \in 1 .. Len(j.printed) : j.printed[i] = IF i <= Len(k.printed) THEN k.printed[i] ELSE h.line
    BY <1>2, <2>1
  <2>5. OwnText(x, j.printed)
    <3>1. \A i \in 1 .. Len(j.printed) : i <= Len(k.printed) => i \in 1 .. Len(k.printed)
      BY <2>3
    <3> QED BY <1>5, <2>2, <2>4, <3>1 DEF OwnText
  <2>6. Len(j.printed) + Len(v.responses) = Len(k.printed) + n
    <3> DEFINE a == Len(k.printed)
               d == Len(j.printed)
               e == Len(v.responses)
    <3>1. e = n - 1 /\ n \in Nat /\ d = a + 1 /\ a \in Nat
      BY <1>3, <1>11, <2>3
    <3> HIDE DEF a, d, e
    <3>2. d + e = a + n
      BY <3>1
    <3> QED BY <3>2 DEF a, d, e
  <2>7. CASE Answering(x, k, q, o, S, whole)
    <3>1. Plain(x, v.responses, Len(v.responses))
      BY <1>8, <1>11, <2>7
    <3>2. Answering(x, j, v, o, S, whole)
      BY <1>11, <2>6, <2>7, <3>1 DEF Answering
    <3> QED BY <1>5, <2>1, <2>5, <3>2 DEF PhaseOf
  <2>8. CASE Answered(x, k, q, o, S, whole)
    <3>1. n # 1
      BY <1>10, <1>13, <2>8
    <3>2. Plain(x, v.responses, Len(v.responses) - 1)
      BY <1>9, <1>11, <2>8, <3>1
    <3>3. w[Len(w)] = q.responses[n] /\ Len(w) > 0
      <4>1. Len(w) \in 1 .. n - 1 /\ Len(w) + 1 = n
        BY <1>3, <3>1
      <4> QED BY <1>3, <4>1
    <3>4. Answered(x, j, v, o, S, whole)
      BY <1>11, <2>6, <2>8, <3>2, <3>3 DEF Answered
    <3> QED BY <1>5, <2>1, <2>5, <3>4 DEF PhaseOf
  <2>9. CASE Cut(x, q, live)
    <3>1. Cut(x, v, live)
      BY <1>8, <1>11, <2>9 DEF Cut
    <3> QED BY <1>5, <2>1, <2>5, <3>1 DEF PhaseOf
  <2> QED BY <1>6, <2>7, <2>8, <2>9
<1> QED BY <1>12, <1>13
-----------------------------------------------------------------------------
(* Who serves an instance, and what a step that does not concern a client  *)
(* leaves of its phase.                                                    *)

LEMMA OneServer ==
  ASSUME ControlInv, TypeOK, NEW p \in Pipes, NEW t \in Pipes, NEW u \in Pipes, Serves(t, p), Serves(u, p)
  PROVE  t = u
<1>1. ThreadOK(t) /\ ThreadOK(u) /\ ThreadCP(t) /\ ThreadCP(u) /\ KeyOK(p)
  BY DEF ControlInv
<1>2. ThreadNP(t) /\ ThreadNP(u)
  BY DEF ControlInv
<1>3. CASE ~CompletionPort
  BY <1>1, <1>3 DEF ThreadOK, Serves, Busy
<1>4. CASE CompletionPort
  BY <1>1, <1>4 DEF ThreadCP, KeyOK, Serves, Works, CompletionPort, Busy
<1> QED BY <1>3, <1>4

Alone(t, p) == \A u \in Pipes \ {t} : ~Serves(u, p)

LEMMA ServesAlone ==
  ASSUME ControlInv, TypeOK, NEW p \in Pipes, NEW t \in Pipes, Serves(t, p)
  PROVE  Alone(t, p)
BY OneServer DEF Alone

LEMMA ServingNow ==
  ASSUME NEW t \in Pipes, NEW p, Alone(t, p)
  PROVE  Serving(p) = IF Serves(t, p) THEN {thread[t]} ELSE {}
BY DEF Serving, Alone

LEMMA ServingNext ==
  ASSUME NEW t \in Pipes, NEW p, NEW n, Alone(t, p), thread \in [Pipes -> ThreadType],
         thread' = [thread EXCEPT ![t] = n]
  PROVE  Serving(p)' = IF n.pipe = p /\ n.pc \in Busy THEN {n} ELSE {}
<1>1. thread'[t] = n /\ \A u \in Pipes \ {t} : thread'[u] = thread[u]
  OBVIOUS
<1>2. \A u \in Pipes \ {t} : ~Serves(u, p)'
  BY <1>1 DEF Alone, Serves
<1>3. Serves(t, p)' <=> n.pipe = p /\ n.pc \in Busy
  BY <1>1 DEF Serves
<1> QED BY <1>1, <1>2, <1>3 DEF Serving

LEMMA ServingKept ==
  ASSUME NEW t \in Pipes, NEW p, NEW n, thread \in [Pipes -> ThreadType], thread' = [thread EXCEPT ![t] = n],
         ~Serves(t, p), ~(n.pipe = p /\ n.pc \in Busy)
  PROVE  Serving(p)' = Serving(p)
<1>1. thread'[t] = n /\ \A u \in Pipes \ {t} : thread'[u] = thread[u]
  OBVIOUS
<1>2. \A u \in Pipes : (Serves(u, p)' <=> Serves(u, p)) /\ (Serves(u, p) => thread'[u] = thread[u])
  BY <1>1 DEF Serves
<1> QED BY <1>2 DEF Serving

LEMMA MineConnected ==
  ASSUME ControlInv, TypeOK, Running, NEW c \in Clients, Mine(c)
  PROVE  client[c].pipe \in Pipes /\ Connected(client[c].pipe)
<1>1. client[c].pipe \in Pipes
  BY DEF Mine, TypeOK
<1>2. PipeOK(client[c].pipe) /\ NULL # c
  BY <1>1, Ranges DEF ControlInv
<1> QED BY <1>1, <1>2 DEF PipeOK, Clean, Mine, Connected

LEMMA PhaseKept ==
  ASSUME TypeOK, NEW c \in Clients, Phase(c), client'[c] = client[c], program' = program, process' = process,
         Mine(c)' => /\ pipe'[client[c].pipe] = pipe[client[c].pipe] /\ output'[c] = output[c]
                     /\ Serving(client[c].pipe)' = Serving(client[c].pipe)
  PROVE  Phase(c)'
<1> DEFINE k == client[c]
           p == k.pipe
           x == <<c, k.asked>>
<1>1. CASE k.pc \notin {"prompt", "receive"}
  BY <1>1 DEF Phase
<1>2. CASE k.pc \in {"prompt", "receive"}
  <2>1. PhaseOf(c, x, k, pipe[p], output[c], Serving(p), ~CompletionPort, Running)
    BY <1>2 DEF Phase, Own
  <2>2. CASE Mine(c)'
    BY <1>2, <2>1, <2>2 DEF Phase, Own, PhaseOf, CompletionPort, Running
  <2>3. CASE ~Mine(c)'
    BY <1>2, <2>1, <2>3 DEF Phase, Own, PhaseOf, Mine
  <2> QED BY <2>2, <2>3
<1> QED BY <1>1, <1>2

LEMMA HeldKept ==
  ASSUME NEW p \in Pipes, Held(p), client' = client,
         pipe'[p].open => pipe[p].open /\ pipe'[p].by = pipe[p].by
  PROVE  Held(p)'
BY DEF Held

(* A step of a thread that serves nobody before it or after it.            *)
LEMMA AsideStep ==
  ASSUME Inv, Running, NEW t \in Pipes, NEW n, ThreadTakes(t, n), PipesKept(t), KeysKept(t), output' = output,
         ThreadGood(t)', thread[t].pc \notin Busy, n.pc \notin Busy,
         \A p \in Pipes : pipe'[p] = pipe[p] \/ (pipe'[p].by = NULL /\ ~pipe'[p].open)
  PROVE  Inv'
<1>0. TypeOK /\ ControlInv /\ thread \in [Pipes -> ThreadType]
  BY DEF Inv, TypeOK
<1>1. TypeOK' /\ ControlInv'
  <2>1. output' \in [Clients -> Seq(Text)]
    BY <1>0 DEF TypeOK
  <2> QED BY <1>0, <2>1, StepKeepsControl
<1>2. ASSUME NEW p \in Pipes PROVE Held(p)'
  <2>1. Held(p) /\ client' = client
    BY DEF Inv, ThreadTakes
  <2>2. pipe'[p].open => pipe[p].open /\ pipe'[p].by = pipe[p].by
    OBVIOUS
  <2> QED BY <2>1, <2>2, HeldKept
<1>3. ASSUME NEW c \in Clients PROVE Phase(c)'
  <2>1. Phase(c) /\ client'[c] = client[c] /\ program' = program /\ process' = process
    BY DEF Inv, ThreadTakes, build
  <2>2. \A p \in Pipes : Serving(p)' = Serving(p)
    BY <1>0, ServingKept DEF ThreadTakes, Serves
  <2>3. ASSUME Mine(c)' PROVE /\ client[c].pipe \in Pipes /\ pipe'[client[c].pipe] = pipe[client[c].pipe]
    <3>1. client[c].pipe \in Pipes /\ pipe'[client[c].pipe].by = c
      BY <1>1, <2>1, <2>3 DEF Mine, TypeOK
    <3> QED BY <3>1, Ranges
  <2> QED BY <1>0, <2>1, <2>2, <2>3, PhaseKept
<1> QED BY <1>1, <1>2, <1>3 DEF Inv

(* A step of the thread that serves instance p, or begins to.              *)
LEMMA ServingStep ==
  ASSUME Inv, Running, NEW t \in Pipes, NEW n, ThreadTakes(t, n), PipesKept(t), KeysKept(t),
         output' \in [Clients -> Seq(Text)], ThreadGood(t)', NEW p \in Pipes, Alone(t, p),
         thread[t].pc \in Busy => thread[t].pipe = p, n.pc \in Busy => n.pipe = p,
         \A q \in Pipes \ {p} : pipe'[q] = pipe[q],
         pipe'[p].open = pipe[p].open /\ pipe'[p].by = pipe[p].by,
         \A c \in Clients : output'[c] = output[c] \/ (Mine(c) /\ client[c].pipe = p),
         \A c \in Clients :
           /\ Mine(c) /\ client[c].pipe = p
           /\ PhaseOf(c, Own(c), client[c], pipe[p], output[c],
                      IF thread[t].pc \in Busy THEN {thread[t]} ELSE {}, ~CompletionPort, TRUE)
           => PhaseOf(c, Own(c), client[c], pipe'[p], output'[c],
                      IF n.pc \in Busy THEN {n} ELSE {}, ~CompletionPort, TRUE)
  PROVE  Inv'
<1>0. TypeOK /\ ControlInv /\ thread \in [Pipes -> ThreadType]
  BY DEF Inv, TypeOK
<1>1. TypeOK' /\ ControlInv'
  BY <1>0, StepKeepsControl
<1>2. ASSUME NEW q \in Pipes PROVE Held(q)'
  <2>1. Held(q) /\ client' = client
    BY DEF Inv, ThreadTakes
  <2> QED BY <2>1, HeldKept
<1>3. ASSUME NEW c \in Clients PROVE Phase(c)'
  <2>1. Phase(c) /\ client'[c] = client[c] /\ program' = program /\ process' = process
    BY DEF Inv, ThreadTakes, build
  <2>2. CASE ~(Mine(c) /\ client[c].pipe = p)
    <3>1. ASSUME Mine(c)'
          PROVE  /\ pipe'[client[c].pipe] = pipe[client[c].pipe]
                 /\ Serving(client[c].pipe)' = Serving(client[c].pipe)
      <4>1. client[c].pipe \in Pipes /\ pipe'[client[c].pipe].by = c /\ client[c].pc \in {"prompt", "receive"}
        BY <1>1, <2>1, <3>1 DEF Mine, TypeOK
      <4>2. client[c].pipe # p
        BY <2>2, <4>1 DEF Mine
      <4> QED BY <1>0, <4>1, <4>2, ServingKept DEF ThreadTakes, Serves
    <3> QED BY <1>0, <2>1, <2>2, <3>1, PhaseKept
  <2>3. CASE Mine(c) /\ client[c].pipe = p
    <3>1. /\ Serving(p) = IF thread[t].pc \in Busy THEN {thread[t]} ELSE {}
          /\ Serving(p)' = IF n.pc \in Busy THEN {n} ELSE {}
      BY <1>0, ServingNow, ServingNext DEF ThreadTakes, Serves
    <3>2. client[c].pc \in {"prompt", "receive"}
      BY <2>3 DEF Mine
    <3>3. PhaseOf(c, Own(c), client[c], pipe[p], output[c], Serving(p), ~CompletionPort, TRUE)
      BY <2>1, <2>3, <3>2 DEF Phase
    <3>4. PhaseOf(c, Own(c), client[c], pipe'[p], output'[c], Serving(p)', ~CompletionPort, TRUE)
      BY <2>3, <3>1, <3>3
    <3>5. Own(c) = <<c, client[c].asked>> /\ (CompletionPort' <=> CompletionPort) /\ Running'
      BY <2>1 DEF Own, CompletionPort, Running
    <3> QED BY <2>1, <2>3, <3>4, <3>5 DEF Phase, Own, PhaseOf
  <2> QED BY <2>2, <2>3
<1> QED BY <1>1, <1>2, <1>3 DEF Inv
-----------------------------------------------------------------------------
(* What a thread must satisfy after a step, server by server.              *)

CallsNP == {"while", "wait", "flush", "end", "join", "ended", "failed"} \cup Talking
CallsSM == {"connect", "connecting", "while", "read", "reconnect", "reconnecting", "limit", "execute",
            "send", "flush reply", "stop", "ended", "failed"}
CallsCP == {"while", "get", "flush", "read again", "store", "execute", "send", "hung", "ended"}

LEMMA GoodNP ==
  ASSUME NEW t, NEW n, program' = "serverNP", thread'[t] = n, n.pc \in CallsNP, n.pipe = t,
         n.pc # "send" => n.temp = <<>>,
         n.pc \in {"while", "flush"} \cup Talking => n.hConTh = "none",
         n.pc \in Talking => n.file,
         n.pc \in Talking \/ n.hConTh = "ended" => Usable(t)'
  PROVE  ThreadGood(t)'
BY DEF ThreadGood, ThreadOK, ThreadNP, ThreadSM, ThreadCP, CompletionPort, CallsNP, Talking

LEMMA GoodSM ==
  ASSUME NEW t, NEW n, program' = "serverSM", thread'[t] = n, n.pc \in CallsSM, n.pipe = t,
         n.pc # "send" => n.temp = <<>>,
         n.pc \in {"read", "reconnect", "reconnecting", "limit", "execute", "send"} => n.file,
         n.pc \in {"while", "read", "limit", "execute", "send", "flush reply"} => Usable(t)'
  PROVE  ThreadGood(t)'
BY DEF ThreadGood, ThreadOK, ThreadNP, ThreadSM, ThreadCP, CompletionPort, CallsSM

LEMMA GoodCP ==
  ASSUME NEW t, NEW n, program' = "serverNPCP", thread'[t] = n, n.pc \in CallsCP,
         n.pc \notin {"send", "hung"} => n.temp = <<>>,
         n.pc \in {"store", "execute", "send", "read again"} =>
           n.pipe \in Pipes /\ Key'[n.pipe].Type = 1 /\ ~Key'[n.pipe].pending,
         n.pc = "flush" => n.pipe \in Pipes
  PROVE  ThreadGood(t)'
BY DEF ThreadGood, ThreadOK, ThreadNP, ThreadSM, ThreadCP, CompletionPort, CallsCP

(* A thread before a step.                                                 *)
LEMMA Before ==
  ASSUME Inv, NEW t \in Pipes
  PROVE  /\ TypeOK /\ ControlInv /\ thread \in [Pipes -> ThreadType] /\ pipe \in [Pipes -> PipeType]
         /\ thread[t] \in ThreadType /\ pipe[t] \in PipeType
         /\ ThreadOK(t) /\ ThreadNP(t) /\ ThreadSM(t) /\ ThreadCP(t) /\ PipeOK(t)
         /\ ShutDown \in BOOLEAN /\ output \in [Clients -> Seq(Text)]
BY DEF Inv, TypeOK, ControlInv

(* A step that only moves a thread that serves nobody.                     *)
LEMMA QuietStep ==
  ASSUME Inv, Running, NEW t \in Pipes, NEW n \in ThreadType, thread' = [thread EXCEPT ![t] = n], Quiet,
         thread[t].pc \notin Busy \cup {"none"}, n.pc \notin Busy \cup {"none", "read again"}, ThreadGood(t)'
  PROVE  Inv'
<1>1. ThreadTakes(t, n)
  BY Before DEF ThreadTakes, Quiet, ThreadFrame
<1>2. TypeOK /\ ControlInv /\ pipe' = pipe /\ Key' = Key /\ output' = output
  BY Before DEF Quiet
<1>3. PipesKept(t)
  BY <1>2, SamePipes
<1>4. thread'[t] = n
  BY Before
<1>5. \A p \in Pipes : Works(t, p)' => Works(t, p)
  BY <1>4 DEF Works, Busy
<1>6. KeysKept(t)
  BY <1>1, <1>2, <1>3, <1>5, SameKeys
<1> QED BY <1>1, <1>2, <1>3, <1>6, AsideStep

(* A step that moves such a thread and changes its own instance.           *)
LEMMA PipeStep ==
  ASSUME Inv, Running, NEW t \in Pipes, NEW n \in ThreadType, thread' = [thread EXCEPT ![t] = n],
         NEW p \in Pipes, NEW q \in PipeType, pipe' = [pipe EXCEPT ![p] = q],
         q = pipe[p] \/ (q.by = NULL /\ ~q.open),
         q.state # "connected" => q = pipe[p] \/ (q.request = "" /\ q.responses = <<>>),
         pipe[p].state = "none" => q.state = "none" \/ p = t \/ CompletionPort,
         Usable(p) => q.state \in {"connected", "disconnected"} \/ (p = t /\ ~CompletionPort),
         UNCHANGED <<ShutDown, sem, Key, output>>, ThreadFrame,
         thread[t].pc \notin Busy \cup {"none"}, n.pc \notin Busy \cup {"none", "read again"}, ThreadGood(t)'
  PROVE  Inv'
<1>1. ThreadTakes(t, n)
  BY Before DEF ThreadTakes, ThreadFrame
<1>2. TypeOK /\ ControlInv /\ Key' = Key /\ output' = output
  BY Before
<1>3. pipe'[p] = q /\ (\A r \in Pipes \ {p} : pipe'[r] = pipe[r]) /\ pipe' \in [Pipes -> PipeType]
  BY Before
<1>4. PipesKept(t)
  <2>1. \A r \in Pipes : PipeOK(r)
    BY <1>2 DEF ControlInv
  <2>2. ASSUME NEW r \in Pipes \ {p}
        PROVE  /\ Usable(r) => Usable(r)'
               /\ pipe'[r].state # "connected" => Clean(r)'
               /\ pipe[r].state = "none" => pipe'[r].state = "none"
    BY <1>3, <2>1 DEF PipeOK, Usable, Clean
  <2>3. /\ Usable(p) => Usable(p)' \/ (p = t /\ ~CompletionPort)
        /\ pipe[p].state = "none" => pipe'[p].state = "none" \/ p = t \/ CompletionPort
    BY <1>3 DEF Usable
  <2>4. pipe'[p].state # "connected" => Clean(p)'
    BY <1>3, <2>1 DEF PipeOK, Clean
  <2> QED BY <1>3, <2>2, <2>3, <2>4 DEF PipesKept
<1>5. thread'[t] = n
  BY Before
<1>6. \A r \in Pipes : Works(t, r)' => Works(t, r)
  BY <1>5 DEF Works, Busy
<1>7. KeysKept(t)
  BY <1>1, <1>2, <1>4, <1>6, SameKeys
<1>8. \A r \in Pipes : pipe'[r] = pipe[r] \/ (pipe'[r].by = NULL /\ ~pipe'[r].open)
  BY <1>3
<1> QED BY <1>1, <1>2, <1>4, <1>7, <1>8, AsideStep

-----------------------------------------------------------------------------
(* serverNP.                                                               *)

LEMMA QuietNP ==
  ASSUME Inv, Running, program = "serverNP", NEW t \in Pipes,
         BeginsConnect(t) \/ ConnectReturns(t) \/ WaitsForClient(t) \/ TestsShutDown(t) \/ JoinsConnect(t)
  PROVE  Inv'
<1>1. /\ thread \in [Pipes -> ThreadType] /\ thread[t] \in ThreadType /\ ThreadOK(t) /\ ThreadNP(t)
      /\ Quiet /\ program' = program
  BY Before DEF BeginsConnect, ConnectReturns, WaitsForClient, TestsShutDown, JoinsConnect, Quiet,
                ThreadFrame, build
<1>2. Usable(t)' <=> Usable(t)
  BY <1>1 DEF Quiet, Usable
<1> DEFINE r == thread[t]
           Good(n) == /\ n \in ThreadType /\ n.pc \in CallsNP \ Busy /\ n.pipe = t /\ n.temp = <<>>
                      /\ n.pc \in {"while", "read", "reading", "flush"} => n.hConTh = "none"
                      /\ n.pc \in {"read", "reading"} => n.file
                      /\ n.pc \in {"read", "reading"} \/ n.hConTh = "ended" => Usable(t)
<1>3. ASSUME NEW n, Good(n), thread' = [thread EXCEPT ![t] = n], r.pc \notin Busy \cup {"none"}
      PROVE  Inv'
  <2>1. thread'[t] = n
    BY <1>1, <1>3
  <2>2. ThreadGood(t)'
    BY <1>1, <1>2, <1>3, <2>1, GoodNP DEF Busy, Talking
  <2>3. n.pc \notin Busy \cup {"none", "read again"}
    BY <1>3 DEF CallsNP, Talking
  <2> QED BY <1>1, <1>3, <2>2, <2>3, QuietStep
<1>4. /\ r.pc \in CallsNP => r.pipe = t
      /\ r.pc # "send" => r.temp = <<>>
      /\ r.pc \in {"while", "read", "flush"} => r.hConTh = "none"
      /\ r.pc = "read" => r.file /\ Usable(t)
      /\ r.hConTh = "ended" => Usable(t)
      /\ r.pc = "none" \/ r.pc \in CallsNP
      /\ r.pc = "none" => r.hConTh = "none"
      /\ r.hConTh # "none" => r.pc \notin {"none", "while", "flush"} \cup Talking
  BY <1>1 DEF ThreadOK, ThreadNP, CallsNP, Talking, CompletionPort, NoThread
<1>5. CASE BeginsConnect(t)
  <2>1. r.pc = "while"
    BY <1>5 DEF BeginsConnect
  <2> DEFINE a == [r EXCEPT !.pc = "end"]
             b == [r EXCEPT !.pc = "wait", !.hConTh = "begun"]
             d == [r EXCEPT !.pc = "failed"]
  <2>2. /\ Is(a, "end", r.pipe, r.hConTh, r.file, r.temp, r.read)
        /\ Is(b, "wait", r.pipe, "begun", r.file, r.temp, r.read)
        /\ Is(d, "failed", r.pipe, r.hConTh, r.file, r.temp, r.read)
    BY <1>1, FormGoto, FormConnects DEF Calls
  <2>3. thread' = [thread EXCEPT ![t] = a] \/ thread' = [thread EXCEPT ![t] = b] \/ thread' = [thread EXCEPT ![t] = d]
    BY <1>5 DEF BeginsConnect, Goto
  <2> HIDE DEF a, b, d
  <2>4. Good(a) /\ Good(b) /\ Good(d)
    BY <1>4, <2>1, <2>2 DEF Is, CallsNP, Busy, Talking
  <2> QED BY <1>3, <2>1, <2>3, <2>4 DEF Busy
<1>6. CASE ConnectReturns(t)
  <2>1. r.hConTh = "waits" /\ Usable(t)
    BY <1>6 DEF ConnectReturns, Connected, Usable
  <2> DEFINE a == [r EXCEPT !.hConTh = "ended"]
  <2>2. Is(a, r.pc, r.pipe, "ended", r.file, r.temp, r.read)
    BY <1>1, FormConnects, ThreadFields
  <2>3. thread' = [thread EXCEPT ![t] = a]
    BY <1>6 DEF ConnectReturns
  <2> HIDE DEF a
  <2>4. Good(a)
    BY <1>4, <2>1, <2>2 DEF Is, CallsNP, Busy, Talking
  <2> QED BY <1>3, <1>4, <2>1, <2>3, <2>4 DEF Busy, CallsNP, Talking
<1>7. CASE WaitsForClient(t)
  <2>1. r.pc = "wait"
    BY <1>7 DEF WaitsForClient
  <2> DEFINE a == [r EXCEPT !.pc = "end"]
             b == [r EXCEPT !.pc = "read", !.hConTh = "none", !.file = TRUE, !.temp = <<>>]
             d == [r EXCEPT !.pc = "failed", !.hConTh = "none"]
  <2>2. /\ Is(a, "end", r.pipe, r.hConTh, r.file, r.temp, r.read)
        /\ Is(b, "read", r.pipe, "none", TRUE, <<>>, r.read)
        /\ Is(d, "failed", r.pipe, "none", r.file, r.temp, r.read)
    BY <1>1, FormGoto, FormFile, FormConnects DEF Calls
  <2>3. \/ thread' = [thread EXCEPT ![t] = a]
        \/ r.hConTh = "ended" /\ (thread' = [thread EXCEPT ![t] = b] \/ thread' = [thread EXCEPT ![t] = d])
    BY <1>7 DEF WaitsForClient, Goto
  <2> HIDE DEF a, b, d
  <2>4. Good(a) /\ (r.hConTh = "ended" => Good(b) /\ Good(d))
    BY <1>4, <2>1, <2>2 DEF Is, CallsNP, Busy, Talking
  <2> QED BY <1>3, <2>1, <2>3, <2>4 DEF Busy
<1>8. CASE JoinsConnect(t)
  <2>1. r.pc = "join"
    BY <1>8 DEF JoinsConnect
  <2> DEFINE a == [r EXCEPT !.pc = "ended"]
  <2>2. Is(a, "ended", r.pipe, r.hConTh, r.file, r.temp, r.read)
    BY <1>1, FormGoto DEF Calls
  <2>3. thread' = [thread EXCEPT ![t] = a]
    BY <1>8 DEF JoinsConnect, Goto
  <2> HIDE DEF a
  <2>4. Good(a)
    BY <1>4, <2>1, <2>2 DEF Is, CallsNP, Busy, Talking
  <2> QED BY <1>3, <2>1, <2>3, <2>4 DEF Busy
<1>9. CASE TestsShutDown(t)
  <2>1. r.pc = "read"
    BY <1>9 DEF TestsShutDown
  <2> DEFINE a == [r EXCEPT !.pc = "flush"]
             b == [r EXCEPT !.pc = "reading"]
  <2>2. /\ Is(a, "flush", r.pipe, r.hConTh, r.file, r.temp, r.read)
        /\ Is(b, "reading", r.pipe, r.hConTh, r.file, r.temp, r.read)
    BY <1>1, FormGoto DEF Calls
  <2>3. thread' = [thread EXCEPT ![t] = a] \/ thread' = [thread EXCEPT ![t] = b]
    BY <1>9 DEF TestsShutDown, Goto
  <2> HIDE DEF a, b
  <2>4. Good(a) /\ Good(b)
    BY <1>4, <2>1, <2>2 DEF Is, CallsNP, Busy, Talking
  <2> QED BY <1>3, <2>1, <2>3, <2>4 DEF Busy
<1> QED BY <1>5, <1>6, <1>7, <1>8, <1>9

LEMMA ConnectsStep ==
  ASSUME Inv, Running, program = "serverNP", NEW t \in Pipes, Connects(t)
  PROVE  Inv'
<1>1. /\ thread \in [Pipes -> ThreadType] /\ thread[t] \in ThreadType /\ ThreadOK(t) /\ ThreadNP(t)
      /\ ThreadFrame /\ program' = program /\ UNCHANGED <<ShutDown, sem, Key, output>> /\ pipe[t] \in PipeType
  BY Before DEF Connects, ThreadFrame, build
<1> DEFINE r == thread[t]
           n == [r EXCEPT !.hConTh = "waits"]
           q == Listening(t)
<1>2. r.hConTh = "begun" /\ pipe' = [pipe EXCEPT ![t] = q] /\ thread' = [thread EXCEPT ![t] = n]
  BY DEF Connects
<1>3. Is(n, r.pc, r.pipe, "waits", r.file, r.temp, r.read)
  BY <1>1, FormConnects, ThreadFields
<1>4. /\ r.pc \in CallsNP \ ({"while", "flush"} \cup Talking) /\ r.pipe = t /\ r.temp = <<>>
  BY <1>1, <1>2 DEF ThreadOK, ThreadNP, CallsNP, Talking, CompletionPort, NoThread
<1> DEFINE fresh == [NoPipe EXCEPT !.state = "listening"]
<1>5. /\ fresh \in PipeType /\ fresh.by = NULL /\ ~fresh.open /\ fresh.request = ""
      /\ fresh.responses = <<>> /\ fresh.state = "listening"
  BY NoPipeTyped DEF NoPipe, States
<1>6. IF pipe[t].state = "disconnected" THEN q = fresh ELSE q = pipe[t]
  BY DEF Listening
<1> HIDE DEF n, q, fresh
<1>7. thread'[t] = n
  BY <1>1, <1>2
<1>8. ThreadGood(t)'
  BY <1>1, <1>3, <1>4, <1>7, GoodNP DEF Is, Talking
<1>9. /\ q \in PipeType /\ (q = pipe[t] \/ (q.by = NULL /\ ~q.open))
      /\ q.state # "connected" => q = pipe[t] \/ (q.request = "" /\ q.responses = <<>>)
      /\ pipe[t].state = "none" => q.state = "none"
  BY <1>1, <1>5, <1>6
<1>10. n \in ThreadType /\ r.pc \notin Busy \cup {"none"} /\ n.pc \notin Busy \cup {"none", "read again"}
  BY <1>3, <1>4 DEF Is, Busy, CallsNP, Talking
<1> QED BY <1>1, <1>2, <1>8, <1>9, <1>10, PipeStep DEF CompletionPort

LEMMA DisconnectedIs ==
  /\ Disconnected \in PipeType /\ Disconnected.by = NULL /\ ~Disconnected.open
  /\ Disconnected.request = "" /\ Disconnected.responses = <<>> /\ Disconnected.state = "disconnected"
BY NoPipeTyped DEF NoPipe, Disconnected

LEMMA DisconnectsStep ==
  ASSUME Inv, Running, program = "serverNP", NEW t \in Pipes, Disconnects(t)
  PROVE  Inv'
<1>1. /\ thread \in [Pipes -> ThreadType] /\ thread[t] \in ThreadType /\ ThreadOK(t) /\ ThreadNP(t)
      /\ ThreadFrame /\ program' = program /\ UNCHANGED <<ShutDown, sem, Key, output>> /\ pipe[t] \in PipeType
      /\ pipe \in [Pipes -> PipeType] /\ PipeOK(t)
  BY Before DEF Disconnects, ThreadFrame, build
<1> DEFINE r == thread[t]
           n == [r EXCEPT !.pc = "while", !.file = FALSE, !.temp = <<>>]
<1>2. r.pc = "flush" /\ pipe' = [pipe EXCEPT ![t] = Disconnected] /\ thread' = [thread EXCEPT ![t] = n]
  BY DEF Disconnects
<1>3. Is(n, "while", r.pipe, r.hConTh, FALSE, <<>>, r.read)
  BY <1>1, FormFile DEF Calls
<1>4. r.hConTh = "none" /\ r.pipe = t
  BY <1>1, <1>2 DEF ThreadOK, ThreadNP, CompletionPort
<1> HIDE DEF n
<1>5. thread'[t] = n
  BY <1>1, <1>2
<1>6. ThreadGood(t)'
  BY <1>1, <1>3, <1>4, <1>5, GoodNP DEF Is, CallsNP, Talking
<1>7. n \in ThreadType /\ r.pc \notin Busy \cup {"none"} /\ n.pc \notin Busy \cup {"none", "read again"}
  BY <1>2, <1>3 DEF Is, Busy
<1> QED BY <1>1, <1>2, <1>6, <1>7, DisconnectedIs, PipeStep DEF CompletionPort

LEMMA ConnectedNow ==
  ASSUME NEW r \in PipeType
  PROVE  LET q == [r EXCEPT !.state = "connected"]
         IN  q \in PipeType /\ q.state = "connected" /\ q.by = r.by /\ q.open = r.open
BY DEF PipeType

LEMMA ForcesStep ==
  ASSUME Inv, Running, program = "serverNP", NEW t \in Pipes, ForcesConnect(t)
  PROVE  Inv'
<1>1. /\ thread \in [Pipes -> ThreadType] /\ thread[t] \in ThreadType /\ ThreadOK(t) /\ ThreadNP(t)
      /\ ThreadFrame /\ program' = program /\ UNCHANGED <<ShutDown, sem, Key, output>>
      /\ pipe \in [Pipes -> PipeType] /\ TypeOK /\ ControlInv
  BY Before DEF ForcesConnect, ThreadFrame, build
<1> DEFINE r == thread[t]
<1>2. r.pc = "end"
  BY DEF ForcesConnect
<1>3. PICK pc \in {"join", "ended"} : thread' = [thread EXCEPT ![t].pc = pc]
  BY DEF ForcesConnect, Goto
<1> DEFINE n == [r EXCEPT !.pc = pc]
<1>4. Is(n, pc, r.pipe, r.hConTh, r.file, r.temp, r.read) /\ thread' = [thread EXCEPT ![t] = n]
  BY <1>1, <1>3, FormGoto DEF Calls
<1>5. \/ pipe' = pipe
      \/ \E p \in Pipes : Listens(p) /\ pipe' = [pipe EXCEPT ![p].state = "connected"]
  BY DEF ForcesConnect
<1>6. r.pipe = t /\ r.temp = <<>> /\ (r.hConTh = "ended" => Usable(t))
  BY <1>1, <1>2 DEF ThreadOK, ThreadNP, CompletionPort
<1> HIDE DEF n
<1>7. thread'[t] = n
  BY <1>1, <1>4
<1>8. ASSUME Usable(t) => Usable(t)'
      PROVE  ThreadGood(t)'
  BY <1>1, <1>4, <1>6, <1>7, <1>8, GoodNP DEF Is, CallsNP, Talking
<1>9. n \in ThreadType /\ r.pc \notin Busy \cup {"none"} /\ n.pc \notin Busy \cup {"none", "read again"}
  BY <1>2, <1>4 DEF Is, Busy
<1>10. CASE pipe' = pipe
  <2>1. ThreadGood(t)'
    BY <1>8, <1>10 DEF Usable
  <2> QED BY <1>1, <1>4, <1>9, <1>10, <2>1, QuietStep DEF Quiet
<1>11. CASE \E p \in Pipes : Listens(p) /\ pipe' = [pipe EXCEPT ![p].state = "connected"]
  <2>1. PICK p \in Pipes : Listens(p) /\ pipe' = [pipe EXCEPT ![p].state = "connected"]
    BY <1>11
  <2> DEFINE q == [pipe[p] EXCEPT !.state = "connected"]
  <2>2. PipeOK(p)
    BY <1>1 DEF ControlInv
  <2>3. Clean(p) /\ ~Usable(p) /\ pipe[p].state # "none"
    BY <2>1, <2>2 DEF PipeOK, Listens, Usable
  <2>4. /\ pipe' = [pipe EXCEPT ![p] = q] /\ q \in PipeType /\ q.state = "connected"
        /\ q.by = NULL /\ ~q.open
    BY <1>1, <2>1, <2>3, ConnectedNow DEF Clean
  <2> HIDE DEF q
  <2>5. pipe'[p] = q /\ \A s \in Pipes \ {p} : pipe'[s] = pipe[s]
    BY <1>1, <2>4
  <2>6. ThreadGood(t)'
    BY <1>8, <2>4, <2>5 DEF Usable
  <2> QED BY <1>1, <1>4, <1>9, <2>3, <2>4, <2>6, PipeStep
<1> QED BY <1>5, <1>10, <1>11

LEMMA TakenFields ==
  ASSUME NEW r \in PipeType
  PROVE  LET q == [r EXCEPT !.request = ""]
         IN  /\ q \in PipeType /\ q.request = "" /\ q.by = r.by /\ q.open = r.open /\ q.state = r.state
             /\ q.responses = r.responses
BY DEF PipeType

(* A thread that takes the request of instance p.                          *)
LEMMA TakesStep ==
  ASSUME Inv, Running, NEW t \in Pipes, NEW n \in ThreadType, thread' = [thread EXCEPT ![t] = n],
         NEW p \in Pipes, Requested(p), pipe' = Taken(p), Alone(t, p), Key' = Key \/ CompletionPort,
         PipesKept(t) => KeysKept(t),
         thread[t].pc \notin Busy \cup {"none"}, n.pc \notin {"send", "none"}, n.pc \in Busy => n.pipe = p,
         ShutDown' \in BOOLEAN, output' = output, ThreadFrame, ThreadGood(t)'
  PROVE  Inv'
<1>1. TypeOK /\ ControlInv /\ pipe \in [Pipes -> PipeType] /\ output' \in [Clients -> Seq(Text)]
  BY Before
<1>2. ThreadTakes(t, n)
  BY DEF ThreadTakes, ThreadFrame
<1> DEFINE q == [pipe[p] EXCEPT !.request = ""]
<1>3. /\ q \in PipeType /\ q.request = "" /\ q.by = pipe[p].by /\ q.open = pipe[p].open
      /\ q.state = pipe[p].state /\ q.responses = pipe[p].responses
  BY <1>1, TakenFields
<1>4. pipe' = [pipe EXCEPT ![p] = q]
  BY DEF Taken
<1> HIDE DEF q
<1>5. pipe'[p] = q /\ (\A s \in Pipes \ {p} : pipe'[s] = pipe[s]) /\ pipe' \in [Pipes -> PipeType]
  BY <1>1, <1>3, <1>4
<1>6. PipesKept(t)
  <2>1. \A s \in Pipes : PipeOK(s)
    BY <1>1 DEF ControlInv
  <2>2. q.state = "connected"
    BY <1>3 DEF Requested, Connected
  <2>3. ASSUME NEW s \in Pipes \ {p}
        PROVE  /\ Usable(s) => Usable(s)'
               /\ pipe'[s].state # "connected" => Clean(s)'
               /\ pipe[s].state = "none" => pipe'[s].state = "none"
    BY <1>5, <2>1 DEF PipeOK, Usable, Clean
  <2> QED BY <1>3, <1>5, <2>2, <2>3 DEF PipesKept, Usable
<1>7. ASSUME NEW c \in Clients,
             PhaseOf(c, Own(c), client[c], pipe[p], output[c], {}, ~CompletionPort, TRUE)
      PROVE  PhaseOf(c, Own(c), client[c], pipe'[p], output'[c], IF n.pc \in Busy THEN {n} ELSE {},
                     ~CompletionPort, TRUE)
  <2>1. client[c] \in ClientType /\ pipe[p] \in PipeType /\ pipe[p].request # ""
    BY <1>1 DEF TypeOK, Requested
  <2> DEFINE T == IF n.pc \in Busy THEN {n} ELSE {}
  <2>2. \A m \in T : m.pc # "send"
    OBVIOUS
  <2> HIDE DEF T
  <2>3. PhaseOf(c, Own(c), client[c], q, output[c], T, ~CompletionPort, TRUE)
    BY <1>3, <1>7, <2>1, <2>2, PhaseTaken
  <2> QED BY <1>5, <2>3 DEF T
<1> QED BY <1>1, <1>2, <1>3, <1>5, <1>6, <1>7, ServingStep

(* The servers other than serverNPCP have an instance for each thread.     *)
LEMMA AloneOwn ==
  ASSUME Inv, ~CompletionPort, NEW t \in Pipes
  PROVE  Alone(t, t)
<1>1. \A u \in Pipes : ThreadOK(u)
  BY DEF Inv, ControlInv
<1> QED BY <1>1 DEF Alone, Serves, ThreadOK, Busy

LEMMA NoKeys ==
  ASSUME Inv, ~CompletionPort, NEW t \in Pipes, Key' = Key
  PROVE  KeysKept(t)
BY DEF Inv, TypeOK, KeysKept

LEMMA ReadsStep ==
  ASSUME Inv, Running, program = "serverNP", NEW t \in Pipes, ReadsRequest(t)
  PROVE  Inv'
<1>1. /\ thread \in [Pipes -> ThreadType] /\ thread[t] \in ThreadType /\ ThreadOK(t) /\ ThreadNP(t)
      /\ ThreadFrame /\ program' = program /\ UNCHANGED <<sem, Key, output>>
      /\ pipe \in [Pipes -> PipeType] /\ pipe[t] \in PipeType /\ ShutDown \in BOOLEAN
  BY Before DEF ReadsRequest, ThreadFrame, build
<1> DEFINE r == thread[t]
<1>2. r.pc = "reading" /\ r.hConTh = "none" /\ r.file /\ r.pipe = t /\ r.temp = <<>> /\ Usable(t)
  BY <1>1 DEF ReadsRequest, ThreadOK, ThreadNP, Talking, CompletionPort
<1>3. PICK pc \in {"flush", "store"} :
        /\ thread' = [thread EXCEPT ![t].pc = pc]
        /\ \/ pc = "flush" /\ UNCHANGED <<ShutDown, pipe>>
           \/ Requested(t) /\ pipe' = Taken(t) /\ ShutDown' = (ShutDown \/ ShutRqst(t))
  BY DEF ReadsRequest, Goto
<1> DEFINE n == [r EXCEPT !.pc = pc]
<1>4. Is(n, pc, r.pipe, r.hConTh, r.file, r.temp, r.read) /\ thread' = [thread EXCEPT ![t] = n]
  BY <1>1, <1>3, FormGoto DEF Calls
<1> HIDE DEF n
<1>5. thread'[t] = n
  BY <1>1, <1>4
<1>6. Usable(t)'
  BY <1>1, <1>2, <1>3, TakenFields DEF Usable, Taken
<1>7. ThreadGood(t)'
  BY <1>1, <1>2, <1>4, <1>5, <1>6, GoodNP DEF Is, CallsNP, Talking
<1>8. n \in ThreadType /\ r.pc \notin Busy \cup {"none"} /\ n.pc \notin {"none", "read again", "send"} /\ n.pc = pc
      /\ n.pipe = t
  BY <1>2, <1>4 DEF Is, Busy
<1>9. CASE pc = "flush" /\ UNCHANGED <<ShutDown, pipe>>
  BY <1>1, <1>4, <1>7, <1>8, <1>9, QuietStep DEF Quiet, Busy
<1>10. CASE Requested(t) /\ pipe' = Taken(t) /\ ShutDown' = (ShutDown \/ ShutRqst(t))
  <2>1. ~CompletionPort /\ ShutDown' \in BOOLEAN
    BY <1>1, <1>10 DEF CompletionPort, ShutRqst
  <2>2. Alone(t, t) /\ KeysKept(t)
    BY <1>1, <2>1, AloneOwn, NoKeys
  <2> QED BY <1>1, <1>4, <1>7, <1>8, <1>10, <2>1, <2>2, TakesStep
<1> QED BY <1>3, <1>9, <1>10

-----------------------------------------------------------------------------
(* serverSM.                                                               *)

LEMMA QuietSM ==
  ASSUME Inv, Running, program = "serverSM", NEW t \in Pipes,
         WaitReturns(t) \/ (OpensFile(t) /\ Quiet) \/ FlushesReply(t)
  PROVE  Inv'
<1>1. /\ thread \in [Pipes -> ThreadType] /\ thread[t] \in ThreadType /\ ThreadOK(t) /\ ThreadSM(t)
      /\ Quiet /\ program' = program
  BY Before DEF WaitReturns, OpensFile, FlushesReply, Quiet, ThreadFrame, build
<1>2. Usable(t)' <=> Usable(t)
  BY <1>1 DEF Quiet, Usable
<1> DEFINE r == thread[t]
<1>3. r.pc \in {"connecting", "reconnecting", "while", "flush reply"} /\ r.pipe = t /\ r.temp = <<>>
  BY <1>1 DEF WaitReturns, OpensFile, FlushesReply, ThreadOK, CompletionPort
<1>4. /\ r.pc = "reconnecting" => r.file
      /\ r.pc \in {"while", "flush reply"} => Usable(t)
  BY <1>1 DEF ThreadSM
<1>5. ASSUME NEW n, Is(n, n.pc, t, n.hConTh, n.file, <<>>, n.read), thread' = [thread EXCEPT ![t] = n],
             n.pc \in {"while", "read", "stop"}, n.pc = "read" => n.file,
             n.pc \in {"while", "read"} => Usable(t)
      PROVE  Inv'
  <2>1. thread'[t] = n
    BY <1>1, <1>5
  <2>2. ThreadGood(t)'
    BY <1>1, <1>2, <1>5, <2>1, GoodSM DEF Is, CallsSM
  <2>3. n.pc \notin Busy \cup {"none", "read again"} /\ r.pc \notin Busy \cup {"none"} /\ n \in ThreadType
    BY <1>3, <1>5 DEF Busy, Is
  <2> QED BY <1>1, <1>5, <2>2, <2>3, QuietStep
<1>6. CASE \E pc \in {"while", "read", "stop"} :
             /\ thread' = [thread EXCEPT ![t].pc = pc]
             /\ pc = "read" => r.file
             /\ pc \in {"while", "read"} => Usable(t)
  <2>1. PICK pc \in {"while", "read", "stop"} :
             /\ thread' = [thread EXCEPT ![t].pc = pc]
             /\ pc = "read" => r.file
             /\ pc \in {"while", "read"} => Usable(t)
    BY <1>6
  <2> DEFINE n == [r EXCEPT !.pc = pc]
  <2>2. Is(n, pc, r.pipe, r.hConTh, r.file, r.temp, r.read) /\ thread' = [thread EXCEPT ![t] = n]
    BY <1>1, <2>1, FormGoto DEF Calls
  <2> HIDE DEF n
  <2>3. Is(n, n.pc, t, n.hConTh, n.file, <<>>, n.read) /\ n.pc = pc /\ n.file = r.file
    BY <1>3, <2>2 DEF Is
  <2> QED BY <1>5, <2>1, <2>2, <2>3
<1>7. CASE NewFile(t, "read") /\ OpensFile(t)
  <2> DEFINE n == [r EXCEPT !.pc = "read", !.file = TRUE, !.temp = <<>>]
  <2>1. Is(n, "read", r.pipe, r.hConTh, TRUE, <<>>, r.read) /\ thread' = [thread EXCEPT ![t] = n]
    BY <1>1, <1>7, FormFile DEF Calls, NewFile
  <2> HIDE DEF n
  <2>2. Is(n, n.pc, t, n.hConTh, n.file, <<>>, n.read) /\ n.pc = "read" /\ n.file
    BY <1>3, <2>1 DEF Is
  <2>3. Usable(t)
    BY <1>4, <1>7 DEF OpensFile
  <2> QED BY <1>5, <2>1, <2>2, <2>3
<1>8. CASE WaitReturns(t)
  <2>1. Usable(t)
    BY <1>8 DEF WaitReturns, Connected, Usable
  <2>2. /\ r.pc = "connecting" => thread' = [thread EXCEPT ![t].pc = "while"]
        /\ r.pc = "reconnecting" => thread' = [thread EXCEPT ![t].pc = "read"]
        /\ r.pc \in {"connecting", "reconnecting"}
    BY <1>8 DEF WaitReturns, Goto
  <2> QED BY <1>4, <1>6, <2>1, <2>2
<1>9. CASE FlushesReply(t)
  BY <1>4, <1>6, <1>9 DEF FlushesReply, Goto
<1>10. CASE OpensFile(t) /\ ~NewFile(t, "read")
  <2>1. Running'
    BY <1>1 DEF Quiet, ThreadFrame, Running
  <2>2. Goto(t, "stop")
    BY <1>10, <2>1 DEF OpensFile, Dies, Running
  <2> QED BY <1>6, <2>2 DEF Goto
<1> QED BY <1>1, <1>7, <1>8, <1>9, <1>10

LEMMA NoPipeIs ==
  /\ NoPipe \in PipeType /\ NoPipe.by = NULL /\ ~NoPipe.open /\ NoPipe.request = ""
  /\ NoPipe.responses = <<>> /\ NoPipe.state = "none"
BY NoPipeTyped DEF NoPipe

LEMMA PipesSM ==
  ASSUME Inv, Running, program = "serverSM", NEW t \in Pipes,
         \/ ConnectsAndWaits(t) \/ ClosesPipe(t)
         \/ ReadsOrReconnects(t) /\ pipe' = [pipe EXCEPT ![t] = Disconnected] /\ UNCHANGED ShutDown
            /\ Goto(t, "reconnect")
  PROVE  Inv'
<1>1. /\ thread \in [Pipes -> ThreadType] /\ thread[t] \in ThreadType /\ ThreadOK(t) /\ ThreadSM(t)
      /\ ThreadFrame /\ program' = program /\ UNCHANGED <<ShutDown, sem, Key, output>>
      /\ pipe \in [Pipes -> PipeType] /\ pipe[t] \in PipeType
  BY Before DEF ConnectsAndWaits, ClosesPipe, ReadsOrReconnects, ThreadFrame, build
<1> DEFINE r == thread[t]
<1>2. r.pc \in {"connect", "reconnect", "stop", "read"} /\ r.pipe = t /\ r.temp = <<>>
  BY <1>1 DEF ConnectsAndWaits, ClosesPipe, ReadsOrReconnects, ThreadOK, CompletionPort
<1>3. PICK pc \in {"connecting", "reconnecting", "ended", "reconnect"} :
        /\ thread' = [thread EXCEPT ![t].pc = pc]
        /\ pc \in {"reconnecting", "reconnect"} => r.file
  BY <1>1 DEF ConnectsAndWaits, ClosesPipe, ReadsOrReconnects, Goto, ThreadSM
<1> DEFINE n == [r EXCEPT !.pc = pc]
<1>4. Is(n, pc, r.pipe, r.hConTh, r.file, r.temp, r.read) /\ thread' = [thread EXCEPT ![t] = n]
  BY <1>1, <1>3, FormGoto DEF Calls
<1> DEFINE fresh == [NoPipe EXCEPT !.state = "listening"]
<1>5. /\ fresh \in PipeType /\ fresh.by = NULL /\ ~fresh.open /\ fresh.request = ""
      /\ fresh.responses = <<>> /\ fresh.state = "listening"
  BY NoPipeTyped DEF NoPipe, States
<1>6. \E q \in {NoPipe, Disconnected, fresh, pipe[t]} : pipe' = [pipe EXCEPT ![t] = q]
  BY DEF ConnectsAndWaits, ClosesPipe, Listening
<1> HIDE DEF n, fresh
<1>7. PICK q \in {NoPipe, Disconnected, fresh, pipe[t]} : pipe' = [pipe EXCEPT ![t] = q]
  BY <1>6
<1>8. /\ q \in PipeType /\ (q = pipe[t] \/ (q.by = NULL /\ ~q.open))
      /\ q.state # "connected" => q = pipe[t] \/ (q.request = "" /\ q.responses = <<>>)
  BY <1>1, <1>5, NoPipeIs, DisconnectedIs
<1>9. thread'[t] = n
  BY <1>1, <1>4
<1>10. ThreadGood(t)'
  <2>1. n.pc = pc /\ n.pipe = t /\ n.temp = <<>> /\ (n.pc \in {"reconnecting", "reconnect"} => n.file)
    BY <1>2, <1>3, <1>4 DEF Is
  <2>2. n.pc \in {"connecting", "reconnecting", "ended", "reconnect"}
    BY <2>1
  <2> QED BY <1>1, <1>9, <2>1, <2>2, GoodSM DEF CallsSM
<1>11. n \in ThreadType /\ r.pc \notin Busy \cup {"none"} /\ n.pc \notin Busy \cup {"none", "read again"}
  BY <1>2, <1>3, <1>4 DEF Is, Busy
<1> QED BY <1>1, <1>4, <1>7, <1>8, <1>10, <1>11, PipeStep DEF CompletionPort

LEMMA ReadsSM ==
  ASSUME Inv, Running, program = "serverSM", NEW t \in Pipes, ReadsOrReconnects(t)
  PROVE  Inv'
<1>1. /\ thread \in [Pipes -> ThreadType] /\ thread[t] \in ThreadType /\ ThreadOK(t) /\ ThreadSM(t)
      /\ ThreadFrame /\ program' = program /\ UNCHANGED <<sem, Key, output>>
      /\ pipe \in [Pipes -> PipeType] /\ pipe[t] \in PipeType /\ ShutDown \in BOOLEAN
  BY Before DEF ReadsOrReconnects, ThreadFrame, build
<1> DEFINE r == thread[t]
<1>2. r.pc = "read" /\ r.file /\ r.pipe = t /\ r.temp = <<>> /\ Usable(t)
  BY <1>1 DEF ReadsOrReconnects, ThreadOK, ThreadSM, CompletionPort
<1>3. CASE pipe' = [pipe EXCEPT ![t] = Disconnected] /\ UNCHANGED ShutDown /\ Goto(t, "reconnect")
  BY <1>3, PipesSM
<1>4. CASE ~(pipe' = [pipe EXCEPT ![t] = Disconnected] /\ UNCHANGED ShutDown /\ Goto(t, "reconnect"))
  <2>1. PICK pc \in {"stop", "limit"} : thread' = [thread EXCEPT ![t].pc = pc]
    BY <1>4 DEF ReadsOrReconnects, Goto
  <2>2. Requested(t) /\ pipe' = Taken(t) /\ ShutDown' = (ShutDown \/ ShutRqst(t))
    BY <1>4 DEF ReadsOrReconnects
  <2> DEFINE n == [r EXCEPT !.pc = pc]
  <2>3. Is(n, pc, r.pipe, r.hConTh, r.file, r.temp, r.read) /\ thread' = [thread EXCEPT ![t] = n]
    BY <1>1, <2>1, FormGoto DEF Calls
  <2> HIDE DEF n
  <2>4. thread'[t] = n
    BY <1>1, <2>3
  <2>5. Usable(t)'
    BY <1>1, <1>2, <2>2, TakenFields DEF Usable, Taken
  <2>6. ThreadGood(t)'
    BY <1>1, <1>2, <2>3, <2>4, <2>5, GoodSM DEF Is, CallsSM
  <2>7. n \in ThreadType /\ r.pc \notin Busy \cup {"none"} /\ n.pc \notin {"none", "send"} /\ n.pipe = t
    BY <1>2, <2>3 DEF Is, Busy
  <2>8. ~CompletionPort /\ ShutDown' \in BOOLEAN
    BY <1>1, <2>2 DEF CompletionPort, ShutRqst
  <2>9. Alone(t, t) /\ KeysKept(t)
    BY <1>1, <2>8, AloneOwn, NoKeys
  <2> QED BY <1>1, <2>2, <2>3, <2>6, <2>7, <2>8, <2>9, TakesStep
<1> QED BY <1>3, <1>4

-----------------------------------------------------------------------------
(* The steps of a thread that serves a request.                            *)

LEMMA GoodServing ==
  ASSUME Inv, NEW t \in Pipes, NEW n, NEW pc, NEW s, NEW k, thread'[t] = n, thread[t].pc \in Busy,
         Is(n, pc, thread[t].pipe, thread[t].hConTh, thread[t].file, s, k),
         pc \in {"execute", "send", Replied} \/ (pc = "hung" /\ CompletionPort),
         pc \notin {"send", "hung"} => s = <<>>,
         program' = program, Key' = Key, Usable(t)' <=> Usable(t)
  PROVE  ThreadGood(t)'
<1>1. ThreadOK(t) /\ ThreadNP(t) /\ ThreadSM(t) /\ ThreadCP(t) /\ program \in {"serverNP", "serverSM", "serverNPCP"}
  BY Before DEF TypeOK
<1>2. CASE program = "serverNP"
  <2>1. pc \in {"execute", "send", "read"}
    BY <1>2 DEF Replied, CompletionPort
  <2> QED BY <1>1, <1>2, <2>1, GoodNP DEF Is, CallsNP, Talking, Busy, ThreadOK, ThreadNP, CompletionPort
<1>3. CASE program = "serverSM"
  <2>1. pc \in {"execute", "send", "flush reply"}
    BY <1>3 DEF Replied, CompletionPort
  <2> QED BY <1>1, <1>3, <2>1, GoodSM DEF Is, CallsSM, Busy, ThreadOK, ThreadSM, CompletionPort
<1>4. CASE program = "serverNPCP"
  <2>1. pc \in {"execute", "send", "read again", "hung"}
    BY <1>4 DEF Replied
  <2> QED BY <1>1, <1>4, <2>1, GoodCP DEF Is, CallsCP, Busy, ThreadOK, ThreadCP
<1> QED BY <1>1, <1>2, <1>3, <1>4

LEMMA LimitsStep ==
  ASSUME Inv, Running, program = "serverSM", NEW t \in Pipes, LimitsReady(t)
  PROVE  Inv'
<1>1. /\ thread \in [Pipes -> ThreadType] /\ thread[t] \in ThreadType /\ ThreadOK(t) /\ ThreadSM(t)
      /\ ThreadFrame /\ program' = program /\ UNCHANGED <<ShutDown, Key, pipe, output>>
      /\ TypeOK /\ ControlInv /\ output' \in [Clients -> Seq(Text)] /\ ShutDown \in BOOLEAN
  BY Before DEF LimitsReady, ThreadFrame, build
<1> DEFINE r == thread[t]
           n == [r EXCEPT !.pc = "execute"]
<1>2. r.pc = "limit" /\ r.pipe = t /\ r.temp = <<>> /\ thread' = [thread EXCEPT ![t] = n] /\ ~CompletionPort
  BY <1>1 DEF LimitsReady, ThreadOK, CompletionPort, Goto
<1>3. Is(n, "execute", r.pipe, r.hConTh, r.file, r.temp, r.read)
  BY <1>1, FormGoto DEF Calls
<1> HIDE DEF n
<1>4. thread'[t] = n /\ n \in ThreadType /\ n.pc = "execute" /\ n.pipe = t
  BY <1>1, <1>2, <1>3 DEF Is
<1>5. ThreadGood(t)'
  <2>1. Usable(t)' <=> Usable(t)
    BY <1>1 DEF Usable
  <2> QED BY <1>1, <1>2, <1>3, <1>4, <2>1, GoodServing DEF Busy
<1>6. ThreadTakes(t, n)
  BY <1>1, <1>2, <1>4 DEF ThreadTakes, ThreadFrame
<1>7. PipesKept(t) /\ KeysKept(t) /\ Alone(t, t)
  BY <1>1, <1>2, SamePipes, NoKeys, AloneOwn
<1>8. ASSUME NEW c \in Clients,
             PhaseOf(c, Own(c), client[c], pipe[t], output[c], {r}, ~CompletionPort, TRUE)
      PROVE  PhaseOf(c, Own(c), client[c], pipe'[t], output'[c], {n}, ~CompletionPort, TRUE)
  <2>1. client[c] \in ClientType /\ pipe[t] \in PipeType
    BY <1>1 DEF TypeOK
  <2> QED BY <1>1, <1>2, <1>4, <1>8, <2>1, PhaseStarts
<1>9. (IF r.pc \in Busy THEN {r} ELSE {}) = {r} /\ (IF n.pc \in Busy THEN {n} ELSE {}) = {n}
  BY <1>2, <1>4 DEF Busy
<1> QED BY <1>1, <1>2, <1>4, <1>5, <1>6, <1>7, <1>8, <1>9, ServingStep

LEMMA Lengths ==
  ASSUME NEW c \in Clients, NEW n \in LineCounts
  PROVE  /\ OwnText(Own(c), Lines(c, n))
         /\ [i \in 1 .. n |-> NULL] \in Seq({NULL})
<1>1. n \in Nat
  BY PipeServerAssumption
<1>2. Lines(c, n) = [i \in 1 .. n |-> Own(c)]
  BY DEF Lines, Own
<1>3. Len([i \in 1 .. n |-> Own(c)]) = n
  BY <1>1
<1> HIDE DEF Own
<1> QED BY <1>1, <1>2, <1>3 DEF OwnText

LEMMA CommandStep ==
  ASSUME Inv, Running, NEW t \in Pipes, thread[t].pipe \in Pipes, CommandEnds(t)
  PROVE  Inv'
<1> DEFINE r == thread[t]
           p == r.pipe
<1>1. /\ thread \in [Pipes -> ThreadType] /\ r \in ThreadType /\ ThreadOK(t) /\ r.pc = "execute"
      /\ ThreadFrame /\ program' = program /\ UNCHANGED <<ShutDown, Key, pipe>>
      /\ TypeOK /\ ControlInv /\ ShutDown \in BOOLEAN /\ output \in [Clients -> Seq(Text)]
  BY Before DEF CommandEnds, ThreadFrame, build
<1>2. r.temp = <<>> /\ ThreadNP(t) /\ ThreadSM(t) /\ Held(p)
  BY <1>1, Before DEF ThreadOK, Inv
<1>3. (~CompletionPort => r.file) /\ program \in {"serverNP", "serverSM", "serverNPCP"}
  BY <1>1, <1>2 DEF ThreadNP, ThreadSM, TypeOK, CompletionPort
<1>4. PICK m \in LineCounts :
        LET lines == IF HasClient(p) THEN Lines(pipe[p].by, m) ELSE [i \in 1 .. m |-> NULL]
        IN  /\ thread' = [thread EXCEPT ![t] = [thread[t] EXCEPT !.pc = "send", !.read = 0,
                                                              !.temp = IF thread[t].file THEN @ \o lines ELSE @]]
            /\ output' = IF HasClient(p) THEN [output EXCEPT ![pipe[p].by] = lines] ELSE output
  BY DEF CommandEnds
<1> DEFINE s == IF HasClient(p) THEN Lines(pipe[p].by, m) ELSE [i \in 1 .. m |-> NULL]
           f == IF r.file THEN r.temp \o s ELSE r.temp
           n == [r EXCEPT !.pc = "send", !.read = 0, !.temp = f]
<1>5. HasClient(p) => pipe[p].by \in Clients
  BY <1>2 DEF HasClient, Held
<1>6. s \in Seq(Text)
  <2>1. client \in [Clients -> ClientType]
    BY <1>1 DEF TypeOK
  <2>2. CASE HasClient(p)
    BY <1>5, <2>1, <2>2, LinesTyped
  <2>3. CASE ~HasClient(p)
    <3>1. m \in Nat /\ NULL \in Text
      BY PipeServerAssumption, Ranges
    <3> HIDE DEF Text
    <3> QED BY <2>3, <3>1
  <2> QED BY <2>2, <2>3
<1>7. HasClient(p) => output' = [output EXCEPT ![pipe[p].by] = s]
  BY <1>4
<1>8. ~HasClient(p) => output' = output
  BY <1>4
<1>9. thread' = [thread EXCEPT ![t] = n]
  BY <1>1, <1>4
<1>10. HasClient(p) => OwnText(Own(pipe[p].by), s)
  BY <1>5, Lengths
<1> HIDE DEF s
<1>11. f = s \/ (~(~CompletionPort) /\ f = <<>>)
  <2>1. r.temp \o s = s
    BY <1>2, <1>6
  <2> QED BY <1>2, <1>3, <2>1
<1>12. f \in Seq(Text)
  BY <1>6, <1>11, EmptySeq
<1> HIDE DEF f
<1>13. Is(n, "send", p, r.hConTh, r.file, f, 0)
  BY <1>1, <1>12, FormSends DEF Calls
<1> HIDE DEF n
<1>14. thread'[t] = n /\ n \in ThreadType /\ n.pc = "send" /\ n.pipe = p /\ n.read = 0 /\ n.temp = f
  BY <1>1, <1>9, <1>13 DEF Is
<1>15. ThreadGood(t)'
  <2>1. Usable(t)' <=> Usable(t)
    BY <1>1 DEF Usable
  <2> QED BY <1>1, <1>13, <1>14, <2>1, GoodServing DEF Busy
<1>16. ThreadTakes(t, n)
  BY <1>1, <1>9, <1>14 DEF ThreadTakes, ThreadFrame
<1>17. PipesKept(t)
  BY <1>1, SamePipes
<1>18. KeysKept(t)
  <2>1. \A q \in Pipes : Works(t, q)' => Works(t, q)
    BY <1>1, <1>14 DEF Works
  <2> QED BY <1>1, <1>16, <1>17, <2>1, SameKeys
<1>19. Alone(t, p)
  BY <1>1, ServesAlone DEF Serves, Busy
<1>20. output' \in [Clients -> Seq(Text)]
  BY <1>1, <1>6, <1>7, <1>8
<1>21. ASSUME NEW c \in Clients
       PROVE  output'[c] = output[c] \/ (Mine(c) /\ client[c].pipe = p)
  <2>1. CASE HasClient(p) /\ pipe[p].by = c
    BY <1>2, <2>1 DEF HasClient, Held, Mine
  <2>2. CASE ~(HasClient(p) /\ pipe[p].by = c)
    BY <1>1, <1>7, <1>8, <2>2
  <2> QED BY <2>1, <2>2
<1>22. ASSUME NEW c \in Clients, Mine(c), client[c].pipe = p,
              PhaseOf(c, Own(c), client[c], pipe[p], output[c], {r}, ~CompletionPort, TRUE)
       PROVE  PhaseOf(c, Own(c), client[c], pipe'[p], output'[c], {n}, ~CompletionPort, TRUE)
  <2>1. client[c] \in ClientType /\ pipe[p] \in PipeType
    BY <1>1 DEF TypeOK
  <2>2. HasClient(p) /\ pipe[p].by = c
    <3>1. Phase(c) /\ Connected(p) /\ pipe[p].by = c
      BY <1>1, <1>22, MineConnected DEF Inv, Mine
    <3>2. pipe[p].open
      BY <1>22, <3>1 DEF PhaseOf, Mine
    <3> QED BY <3>1, <3>2 DEF HasClient
  <2>3. output'[c] = s /\ OwnText(Own(c), s)
    BY <1>1, <1>7, <1>10, <2>2
  <2> HIDE DEF Mine
  <2>4. PhaseOf(c, Own(c), client[c], pipe[p], s, {n}, ~CompletionPort, TRUE)
    BY <1>1, <1>6, <1>11, <1>14, <1>22, <2>1, <2>3, PhaseEnds
  <2> QED BY <1>1, <2>3, <2>4
<1>23. (IF r.pc \in Busy THEN {r} ELSE {}) = {r} /\ (IF n.pc \in Busy THEN {n} ELSE {}) = {n}
  BY <1>1, <1>14 DEF Busy
<1> QED BY <1>1, <1>14, <1>15, <1>16, <1>17, <1>18, <1>19, <1>20, <1>21, <1>22, <1>23, ServingStep

LEMMA BusyAt ==
  ASSUME Inv, NEW t \in Pipes, thread[t].pc \in Busy
  PROVE  thread[t].pipe \in Pipes /\ Alone(t, thread[t].pipe)
<1>1. TypeOK /\ ControlInv /\ ThreadOK(t) /\ ThreadNP(t) /\ ThreadSM(t) /\ ThreadCP(t)
  BY Before
<1>2. thread[t].pipe \in Pipes
  BY <1>1 DEF ThreadOK, ThreadCP, CompletionPort, Busy
<1> QED BY <1>1, <1>2, ServesAlone DEF Serves

LEMMA StoresStep ==
  ASSUME Inv, Running, NEW t \in Pipes, StoresFlag(t)
  PROVE  Inv'
<1> DEFINE r == thread[t]
           p == r.pipe
           n == [r EXCEPT !.pc = "execute"]
<1>1. /\ thread \in [Pipes -> ThreadType] /\ r \in ThreadType /\ ThreadOK(t) /\ r.pc = "store"
      /\ ThreadFrame /\ program' = program /\ UNCHANGED <<sem, Key, pipe, output>>
      /\ TypeOK /\ ControlInv /\ output' \in [Clients -> Seq(Text)] /\ ShutDown' \in BOOLEAN
  BY Before DEF StoresFlag, ThreadFrame, build
<1>2. p \in Pipes /\ Alone(t, p) /\ r.temp = <<>>
  BY <1>1, BusyAt DEF Busy, ThreadOK
<1>3. thread' = [thread EXCEPT ![t] = n]
  BY DEF StoresFlag, Goto
<1>4. Is(n, "execute", p, r.hConTh, r.file, r.temp, r.read)
  BY <1>1, FormGoto DEF Calls
<1> HIDE DEF n
<1>5. thread'[t] = n /\ n \in ThreadType /\ n.pc = "execute" /\ n.pipe = p
  BY <1>1, <1>3, <1>4 DEF Is
<1>6. ThreadGood(t)'
  <2>1. Usable(t)' <=> Usable(t)
    BY <1>1 DEF Usable
  <2> QED BY <1>1, <1>2, <1>4, <1>5, <2>1, GoodServing DEF Busy
<1>7. ThreadTakes(t, n)
  BY <1>1, <1>3, <1>5 DEF ThreadTakes, ThreadFrame
<1>8. PipesKept(t)
  BY <1>1, SamePipes
<1>9. KeysKept(t)
  <2>1. \A q \in Pipes : Works(t, q)' => Works(t, q)
    BY <1>1, <1>5 DEF Works
  <2> QED BY <1>1, <1>7, <1>8, <2>1, SameKeys
<1>10. ASSUME NEW c \in Clients,
              PhaseOf(c, Own(c), client[c], pipe[p], output[c], {r}, ~CompletionPort, TRUE)
       PROVE  PhaseOf(c, Own(c), client[c], pipe'[p], output'[c], {n}, ~CompletionPort, TRUE)
  <2>1. client[c] \in ClientType /\ pipe[p] \in PipeType
    BY <1>1, <1>2 DEF TypeOK
  <2> QED BY <1>1, <1>5, <1>10, <2>1, PhaseStarts
<1>11. (IF r.pc \in Busy THEN {r} ELSE {}) = {r} /\ (IF n.pc \in Busy THEN {n} ELSE {}) = {n}
  BY <1>1, <1>5 DEF Busy
<1> QED BY <1>1, <1>2, <1>5, <1>6, <1>7, <1>8, <1>9, <1>10, <1>11, ServingStep

LEMMA MineHas ==
  ASSUME Inv, Running, NEW c \in Clients, Mine(c)
  PROVE  HasClient(client[c].pipe)
<1>1. Phase(c) /\ Connected(client[c].pipe)
  BY MineConnected DEF Inv
<1>2. pipe[client[c].pipe].open
  BY <1>1 DEF Phase, PhaseOf, Mine
<1> QED BY <1>1, <1>2 DEF HasClient

LEMMA ConnectedKept ==
  ASSUME Inv, Running, NEW t \in Pipes, NEW p \in Pipes, NEW q \in PipeType, Connected(p), q.state = "connected",
         pipe' = [pipe EXCEPT ![p] = q]
  PROVE  PipesKept(t)
<1>1. \A s \in Pipes : PipeOK(s)
  BY DEF Inv, ControlInv
<1>2. pipe'[p] = q /\ (\A s \in Pipes \ {p} : pipe'[s] = pipe[s]) /\ pipe' \in [Pipes -> PipeType]
  BY Before
<1>3. ASSUME NEW s \in Pipes \ {p}
      PROVE  /\ Usable(s) => Usable(s)'
             /\ pipe'[s].state # "connected" => Clean(s)'
             /\ pipe[s].state = "none" => pipe'[s].state = "none"
  BY <1>1, <1>2 DEF PipeOK, Usable, Clean
<1> QED BY <1>2, <1>3 DEF PipesKept, Usable, Connected

LEMMA RespondsTo ==
  ASSUME NEW r \in PipeType, NEW e \in Response
  PROVE  LET q == [r EXCEPT !.responses = Append(@, e)]
         IN  /\ q \in PipeType /\ q.request = r.request /\ q.by = r.by /\ q.open = r.open /\ q.state = r.state
             /\ q.responses = Append(r.responses, e)
<1>1. r.responses \in Seq(Response)
  BY DEF PipeType
<1>2. Append(r.responses, e) \in Seq(Response)
  BY <1>1
<1> DEFINE x == Append(r.responses, e)
           q == [r EXCEPT !.responses = x]
<1> HIDE DEF x
<1>3. /\ q \in PipeType /\ q.request = r.request /\ q.by = r.by /\ q.open = r.open /\ q.state = r.state
      /\ q.responses = x
  BY <1>2 DEF PipeType, x
<1> QED BY <1>3 DEF x

(* A thread that sends a response, and goes on to be n.                    *)
LEMMA ResponseStep ==
  ASSUME Inv, Running, NEW t \in Pipes, thread[t].pc = "send", NEW e \in Response,
         pipe' = Written(thread[t].pipe, e),
         UNCHANGED <<ShutDown, sem, Key, output>>, ThreadFrame,
         NEW n, NEW pc, NEW s, NEW k, thread' = [thread EXCEPT ![t] = n],
         Is(n, pc, thread[t].pipe, thread[t].hConTh, thread[t].file, s, k),
         pc \in {"send", Replied} \/ (pc = "hung" /\ CompletionPort), pc \notin {"send", "hung"} => s = <<>>,
         \A c \in Clients, q \in PipeType :
           /\ HasClient(thread[t].pipe)
           /\ PhaseOf(c, Own(c), client[c], pipe[thread[t].pipe], output[c], {thread[t]}, ~CompletionPort, TRUE)
           /\ q.by = pipe[thread[t].pipe].by /\ q.open = pipe[thread[t].pipe].open
           /\ q.request = pipe[thread[t].pipe].request
           /\ q.responses = Append(pipe[thread[t].pipe].responses, e)
           => PhaseOf(c, Own(c), client[c], q, output[c], IF pc \in Busy THEN {n} ELSE {}, ~CompletionPort, TRUE)
  PROVE  Inv'
<1> DEFINE r == thread[t]
           p == r.pipe
<1>1. /\ thread \in [Pipes -> ThreadType] /\ r \in ThreadType /\ program' = program
      /\ TypeOK /\ ControlInv /\ ShutDown \in BOOLEAN /\ output \in [Clients -> Seq(Text)]
      /\ pipe \in [Pipes -> PipeType]
  BY Before DEF ThreadFrame, build
<1>2. p \in Pipes /\ Alone(t, p)
  BY BusyAt DEF Busy
<1>3. thread'[t] = n /\ n \in ThreadType /\ n.pc = pc /\ n.pipe = p
  BY <1>1 DEF Is
<1>4. pc \notin {"none", "limit", "store", "execute"} /\ (pc # "read again" => ~(pc \in {"read again"}))
  BY DEF Replied, Inv, TypeOK
<1> DEFINE q == [pipe[p] EXCEPT !.responses = Append(@, e)]
<1>5. /\ q \in PipeType /\ q.request = pipe[p].request /\ q.by = pipe[p].by /\ q.open = pipe[p].open
      /\ q.state = pipe[p].state /\ q.responses = Append(pipe[p].responses, e)
  BY <1>1, <1>2, RespondsTo
<1>6. (HasClient(p) => pipe' = [pipe EXCEPT ![p] = q]) /\ (~HasClient(p) => pipe' = pipe)
  BY DEF Written
<1> HIDE DEF q
<1>7. /\ HasClient(p) => pipe'[p] = q
      /\ ~HasClient(p) => pipe'[p] = pipe[p]
      /\ \A s0 \in Pipes \ {p} : pipe'[s0] = pipe[s0]
      /\ Usable(t)' <=> Usable(t)
  BY <1>1, <1>2, <1>5, <1>6 DEF Usable
<1>8. PipesKept(t)
  <2>1. CASE HasClient(p)
    BY <1>2, <1>5, <1>6, <2>1, ConnectedKept DEF HasClient, Connected
  <2>2. CASE ~HasClient(p)
    BY <1>1, <1>6, <2>2, SamePipes
  <2> QED BY <2>1, <2>2
<1>9. ThreadTakes(t, n)
  BY <1>1, <1>3, <1>4 DEF ThreadTakes, ThreadFrame
<1>10. ThreadGood(t)'
  BY <1>1, <1>3, <1>7, GoodServing DEF Busy
<1>11. KeysKept(t)
  <2>1. \A q0 \in Pipes : Works(t, q0)' => Works(t, q0)
    BY <1>3 DEF Works
  <2> QED BY <1>1, <1>8, <1>9, <2>1, SameKeys
<1>12. ASSUME NEW c \in Clients, Mine(c), client[c].pipe = p,
              PhaseOf(c, Own(c), client[c], pipe[p], output[c], {r}, ~CompletionPort, TRUE)
       PROVE  PhaseOf(c, Own(c), client[c], pipe'[p], output'[c], IF n.pc \in Busy THEN {n} ELSE {},
                      ~CompletionPort, TRUE)
  <2>1. HasClient(p)
    BY <1>12, MineHas
  <2>2. PhaseOf(c, Own(c), client[c], q, output[c], IF pc \in Busy THEN {n} ELSE {}, ~CompletionPort, TRUE)
    BY <1>5, <1>12, <2>1
  <2> QED BY <1>3, <1>7, <2>1, <2>2
<1>13. (IF r.pc \in Busy THEN {r} ELSE {}) = {r} /\ output' \in [Clients -> Seq(Text)] /\ output' = output
  BY <1>1 DEF Busy
<1>14. pipe'[p].open = pipe[p].open /\ pipe'[p].by = pipe[p].by
  BY <1>5, <1>7
<1> QED BY <1>2, <1>3, <1>7, <1>8, <1>9, <1>10, <1>11, <1>12, <1>13, <1>14, ServingStep

LEMMA LineStep ==
  ASSUME Inv, Running, NEW t \in Pipes, SendsLine(t)
  PROVE  Inv'
<1> DEFINE r == thread[t]
           p == r.pipe
           e == [end |-> FALSE, line |-> r.temp[r.read + 1]]
           k == r.read + 1
<1>1. /\ thread \in [Pipes -> ThreadType] /\ r \in ThreadType /\ r.pc = "send" /\ r.read < Len(r.temp)
      /\ ThreadFrame /\ UNCHANGED <<ShutDown, sem, Key, output>> /\ pipe' = Written(p, e) /\ TypeOK
  BY Before DEF SendsLine
<1>2. r.read \in Nat /\ r.temp \in Seq(Text)
  BY <1>1, ThreadFields
<1>3. r.temp[r.read + 1] \in Text /\ k \in Nat
  BY <1>1, <1>2
<1>4. e \in Response
  BY <1>3, ResponseTyped
<1>5. CASE MayHang(t)
  <2> DEFINE pc == "hung"
             n == [r EXCEPT !.pc = pc]
  <2>1. pc \in Calls /\ pc \notin Busy
    BY DEF Calls, Busy
  <2>2. thread' = [thread EXCEPT ![t] = n]
    BY <1>5 DEF SendsLine, Goto
  <2>3. CompletionPort /\ ~HasClient(p)
    BY <1>5 DEF MayHang
  <2>4. pc = "hung"
    OBVIOUS
  <2> HIDE DEF pc
  <2>5. Is(n, pc, p, r.hConTh, r.file, r.temp, r.read)
    BY <1>1, <2>1, FormGoto
  <2> HIDE DEF n, e
  <2>6. ASSUME NEW c \in Clients, NEW q \in PipeType, HasClient(p)
        PROVE  PhaseOf(c, Own(c), client[c], q, output[c], IF pc \in Busy THEN {n} ELSE {}, ~CompletionPort, TRUE)
    BY <2>3, <2>6
  <2>7. pc \in {"send", Replied} \/ (pc = "hung" /\ CompletionPort)
    BY <2>3, <2>4
  <2>8. pc \notin {"send", "hung"} => r.temp = <<>>
    BY <2>4
  <2> QED BY <1>1, <1>4, <2>2, <2>5, <2>6, <2>7, <2>8, ResponseStep
<1>6. CASE ~MayHang(t)
  <2> HIDE DEF k
  <2> DEFINE n == [r EXCEPT !.read = k]
  <2>1. Is(n, "send", p, r.hConTh, r.file, r.temp, k)
    BY <1>1, <1>2, <1>3, FormSends DEF Calls
  <2>2. thread' = [thread EXCEPT ![t] = n]
    BY <1>6 DEF SendsLine, k
  <2> HIDE DEF n
  <2>3. n \in ThreadType /\ n.pc = "send" /\ n.temp = r.temp /\ n.read = r.read + 1
    BY <2>1 DEF Is, k
  <2>4. ASSUME NEW c \in Clients, NEW q \in PipeType, HasClient(p),
               PhaseOf(c, Own(c), client[c], pipe[p], output[c], {r}, ~CompletionPort, TRUE),
               q.by = pipe[p].by /\ q.open = pipe[p].open, q.request = pipe[p].request,
               q.responses = Append(pipe[p].responses, e)
        PROVE  PhaseOf(c, Own(c), client[c], q, output[c], {n}, ~CompletionPort, TRUE)
    <3>1. client[c] \in ClientType /\ pipe[p] \in PipeType
      BY <1>1, BusyAt DEF TypeOK, Busy
    <3> QED BY <1>1, <2>3, <2>4, <3>1, PhaseSends
  <2> DEFINE pc == "send"
  <2>5. /\ (IF pc \in Busy THEN {n} ELSE {}) = {n}
        /\ pc \in {"send", Replied} \/ (pc = "hung" /\ CompletionPort)
        /\ pc \notin {"send", "hung"} => r.temp = <<>>
        /\ Is(n, pc, p, r.hConTh, r.file, r.temp, k)
    BY <2>1 DEF Busy
  <2> HIDE DEF e, pc
  <2> QED BY <1>1, <1>4, <2>2, <2>4, <2>5, ResponseStep
<1> QED BY <1>5, <1>6

LEMMA EndStep ==
  ASSUME Inv, Running, NEW t \in Pipes, SendsEnd(t)
  PROVE  Inv'
<1> DEFINE r == thread[t]
           p == r.pipe
           e == [end |-> TRUE, line |-> NULL]
           pc == IF MayHang(t) THEN "hung" ELSE Replied
           n == [r EXCEPT !.pc = pc, !.temp = <<>>, !.read = 0]
<1>1. /\ thread \in [Pipes -> ThreadType] /\ r \in ThreadType /\ r.pc = "send" /\ r.read = Len(r.temp)
      /\ ThreadFrame /\ UNCHANGED <<ShutDown, sem, Key, output>> /\ pipe' = Written(p, e) /\ TypeOK
  BY Before DEF SendsEnd
<1>2. e \in Response
  BY Ranges, ResponseTyped
<1>3. pc \in Calls /\ pc \notin Busy
  BY <1>1 DEF Replied, Calls, Busy, TypeOK
<1>4. thread' = [thread EXCEPT ![t] = n]
  BY DEF SendsEnd
<1>5. pc = Replied \/ (pc = "hung" /\ CompletionPort)
  BY DEF MayHang
<1> HIDE DEF pc
<1>6. Is(n, pc, p, r.hConTh, r.file, <<>>, 0)
  BY <1>1, <1>3, EmptySeq, FormSends
<1> HIDE DEF n
<1>7. ASSUME NEW c \in Clients, NEW q \in PipeType, HasClient(p),
             PhaseOf(c, Own(c), client[c], pipe[p], output[c], {r}, ~CompletionPort, TRUE),
             q.by = pipe[p].by /\ q.open = pipe[p].open, q.request = pipe[p].request,
             q.responses = Append(pipe[p].responses, e)
      PROVE  PhaseOf(c, Own(c), client[c], q, output[c], {}, ~CompletionPort, TRUE)
  <2>1. client[c] \in ClientType /\ pipe[p] \in PipeType
    BY <1>1, BusyAt DEF TypeOK, Busy
  <2> QED BY <1>1, <1>7, <2>1, PhaseSent
<1> HIDE DEF e
<1>8. (IF pc \in Busy THEN {n} ELSE {}) = {}
  BY <1>3
<1> QED BY <1>1, <1>2, <1>4, <1>5, <1>6, <1>7, <1>8, ResponseStep

-----------------------------------------------------------------------------
(* serverNPCP.                                                             *)

LEMMA KeyTo ==
  ASSUME NEW k \in KeyType, NEW b \in BOOLEAN
  PROVE  LET j == [k EXCEPT !.pending = b] IN j \in KeyType /\ j.Type = k.Type /\ (j.pending <=> b)
BY DEF KeyType

LEMMA KeyStep ==
  ASSUME Inv, CompletionPort, NEW t \in Pipes, NEW p \in Pipes, NEW k \in KeyType, Key' = [Key EXCEPT ![p] = k],
         NEW n, ThreadTakes(t, n), PipesKept(t), k.Type = 1 => Usable(p)',
         \A u \in Pipes \ {t} : ~Works(u, p), \A q \in Pipes : Works(t, q)' => q = p
  PROVE  KeysKept(t)
<1>1. /\ Key \in [Pipes -> KeyType] /\ (\A q \in Pipes : KeyOK(q)) /\ (\A u \in Pipes : ThreadCP(u))
  BY DEF Inv, TypeOK, ControlInv
<1>2. Key'[p] = k /\ (\A q \in Pipes \ {p} : Key'[q] = Key[q]) /\ Key' \in [Pipes -> KeyType]
  BY <1>1
<1>3. ASSUME NEW q \in Pipes, q # p PROVE Key'[q].Type = 1 => Usable(q)'
  BY <1>1, <1>2, <1>3 DEF KeyOK, PipesKept
<1>4. ASSUME NEW q \in Pipes, NEW u \in Pipes \ {t}, Works(u, q) PROVE Key'[q].Type = 1 /\ ~Key'[q].pending
  <2>1. q # p
    BY <1>4
  <2> QED BY <1>1, <1>2, <1>4, <2>1 DEF ThreadCP, Works, CompletionPort
<1> QED BY <1>2, <1>3, <1>4 DEF KeysKept

LEMMA QuietCP ==
  ASSUME Inv, Running, CompletionPort, NEW t \in Pipes, TestsFlag(t)
  PROVE  Inv'
<1>1. /\ thread \in [Pipes -> ThreadType] /\ thread[t] \in ThreadType /\ ThreadOK(t) /\ ThreadCP(t)
      /\ Quiet /\ program' = program /\ program = "serverNPCP"
  BY Before DEF TestsFlag, Quiet, ThreadFrame, build, CompletionPort
<1> DEFINE r == thread[t]
<1>2. r.pc = "while" /\ r.temp = <<>>
  BY <1>1 DEF TestsFlag, ThreadOK
<1>3. \/ thread' = [thread EXCEPT ![t].pc = "get"]
      \/ \E p \in Pipes : thread' = [thread EXCEPT ![t] = [@ EXCEPT !.pc = "flush", !.pipe = p]]
  <2>1. r.pipe = 0 \/ r.pipe \in Pipes
    BY <1>1, ThreadFields DEF Pipes
  <2> QED BY <2>1 DEF TestsFlag, Goto
<1>4. ASSUME NEW n \in ThreadType, thread' = [thread EXCEPT ![t] = n], n.temp = <<>>,
             n.pc = "get" \/ (n.pc = "flush" /\ n.pipe \in Pipes)
      PROVE  Inv'
  <2>1. thread'[t] = n
    BY <1>1, <1>4
  <2>2. ThreadGood(t)'
    BY <1>1, <1>4, <2>1, GoodCP DEF CallsCP
  <2>3. n.pc \notin Busy \cup {"none", "read again"} /\ r.pc \notin Busy \cup {"none"}
    BY <1>2, <1>4 DEF Busy
  <2> QED BY <1>1, <1>4, <2>2, <2>3, QuietStep
<1>5. CASE thread' = [thread EXCEPT ![t].pc = "get"]
  <2> DEFINE n == [r EXCEPT !.pc = "get"]
  <2>1. Is(n, "get", r.pipe, r.hConTh, r.file, r.temp, r.read) /\ thread' = [thread EXCEPT ![t] = n]
    BY <1>1, <1>5, FormGoto DEF Calls
  <2> HIDE DEF n
  <2> QED BY <1>2, <1>4, <2>1 DEF Is
<1>6. CASE \E p \in Pipes : thread' = [thread EXCEPT ![t] = [@ EXCEPT !.pc = "flush", !.pipe = p]]
  <2>1. PICK p \in Pipes : thread' = [thread EXCEPT ![t] = [@ EXCEPT !.pc = "flush", !.pipe = p]]
    BY <1>6
  <2> DEFINE n == [r EXCEPT !.pc = "flush", !.pipe = p]
  <2>2. Is(n, "flush", p, r.hConTh, r.file, r.temp, r.read) /\ thread' = [thread EXCEPT ![t] = n]
    BY <1>1, <2>1, FormAt DEF Calls
  <2> HIDE DEF n
  <2> QED BY <1>2, <1>4, <2>2 DEF Is
<1> QED BY <1>3, <1>5, <1>6

(* Nobody works for an instance whose call is pending.                     *)
LEMMA PendingAlone ==
  ASSUME Inv, CompletionPort, NEW p \in Pipes, Key[p].pending, NEW t \in Pipes
  PROVE  (\A u \in Pipes : ~Works(u, p)) /\ Alone(t, p)
<1>1. \A u \in Pipes : ThreadCP(u) /\ ThreadOK(u)
  BY DEF Inv, ControlInv
<1>2. \A u \in Pipes : ~Works(u, p)
  BY <1>1 DEF ThreadCP, Works, CompletionPort
<1>3. \A u \in Pipes : Serves(u, p) => Works(u, p)
  BY <1>1 DEF ThreadCP, Works, Serves, Busy, CompletionPort
<1> QED BY <1>2, <1>3 DEF Alone

LEMMA GetsStep ==
  ASSUME Inv, Running, CompletionPort, NEW t \in Pipes, NEW p \in Pipes, GetsFailure(t, p) \/ GetsConnection(t, p)
  PROVE  Inv'
<1> DEFINE r == thread[t]
<1>1. /\ thread \in [Pipes -> ThreadType] /\ r \in ThreadType /\ ThreadOK(t) /\ TypeOK /\ ControlInv
      /\ program' = program /\ program = "serverNPCP" /\ ThreadFrame /\ ShutDown \in BOOLEAN
      /\ UNCHANGED <<ShutDown, sem, pipe, output>> /\ r.pc = "get" /\ Key[p].pending /\ Key[p] \in KeyType
      /\ Key \in [Pipes -> KeyType] /\ KeyOK(p)
  BY Before DEF GetsFailure, GetsConnection, Gets, Completed, ThreadFrame, build, CompletionPort, TypeOK, ControlInv
<1>2. r.temp = <<>>
  BY <1>1 DEF ThreadOK
<1>3. \A u \in Pipes \ {t} : ~Works(u, p)
  BY <1>1, PendingAlone
<1>4. Usable(p) /\ (Usable(p)' <=> Usable(p))
  BY <1>1 DEF GetsFailure, GetsConnection, Completed, Connected, Usable, KeyOK
<1>5. ASSUME NEW n \in ThreadType, thread' = [thread EXCEPT ![t] = n], NEW k \in KeyType, Key' = [Key EXCEPT ![p] = k],
             n.pipe = p, n.temp = <<>>, n.pc = "flush" \/ (n.pc = "read again" /\ k.Type = 1 /\ ~k.pending)
      PROVE  Inv'
  <2>1. thread'[t] = n /\ Key'[p] = k
    BY <1>1, <1>5
  <2>2. ThreadTakes(t, n)
    BY <1>1, <1>5 DEF ThreadTakes, ThreadFrame
  <2>3. PipesKept(t)
    BY <1>1, SamePipes
  <2>4. \A q \in Pipes : Works(t, q)' => q = p
    BY <1>5, <2>1 DEF Works
  <2>5. KeysKept(t)
    BY <1>3, <1>4, <1>5, <2>2, <2>3, <2>4, KeyStep
  <2>6. ThreadGood(t)'
    BY <1>1, <1>5, <2>1, GoodCP DEF CallsCP
  <2>7. n.pc \notin Busy /\ r.pc \notin Busy
    BY <1>1, <1>5 DEF Busy
  <2> QED BY <1>1, <2>2, <2>3, <2>5, <2>6, <2>7, AsideStep
<1>6. CASE GetsFailure(t, p)
  <2> DEFINE n == [r EXCEPT !.pipe = p, !.pc = "flush"]
             k == [Key[p] EXCEPT !.pending = FALSE]
  <2>1. Is(n, "flush", p, r.hConTh, r.file, r.temp, r.read) /\ thread' = [thread EXCEPT ![t] = n]
    BY <1>1, <1>6, FormAt DEF Calls, GetsFailure, Gets
  <2>2. k \in KeyType /\ Key' = [Key EXCEPT ![p] = k]
    BY <1>1, <1>6, KeyTo DEF GetsFailure
  <2> HIDE DEF n, k
  <2> QED BY <1>2, <1>5, <2>1, <2>2 DEF Is
<1>7. CASE GetsConnection(t, p)
  <2>1. PICK opened \in BOOLEAN :
          /\ Key' = [Key EXCEPT ![p] = [Type |-> IF opened THEN 1 ELSE 0, pending |-> FALSE]]
          /\ thread' = [thread EXCEPT ![t] =
               [@ EXCEPT !.pipe = p, !.pc = IF opened THEN "read again" ELSE "flush",
                         !.file = opened, !.temp = <<>>]]
    BY <1>7 DEF GetsConnection
  <2> DEFINE pc == IF opened THEN "read again" ELSE "flush"
             n == [r EXCEPT !.pipe = p, !.pc = pc, !.file = opened, !.temp = <<>>]
             k == [Type |-> IF opened THEN 1 ELSE 0, pending |-> FALSE]
  <2>2. Is(n, pc, p, r.hConTh, opened, <<>>, r.read) /\ thread' = [thread EXCEPT ![t] = n]
    <3>1. pc \in Calls /\ thread' = [thread EXCEPT ![t] = n]
      BY <1>1, <2>1 DEF Calls
    <3> HIDE DEF pc
    <3> QED BY <1>1, <3>1, FormAt
  <2>3. k \in KeyType /\ Key' = [Key EXCEPT ![p] = k] /\ k.Type = (IF opened THEN 1 ELSE 0) /\ ~k.pending
    BY <1>1, <2>1 DEF KeyType
  <2>4. pc = "flush" \/ (pc = "read again" /\ k.Type = 1 /\ ~k.pending)
    BY <2>3
  <2> HIDE DEF n, k, pc
  <2> QED BY <1>2, <1>5, <2>2, <2>3, <2>4 DEF Is
<1> QED BY <1>6, <1>7

LEMMA RequestCP ==
  ASSUME Inv, Running, CompletionPort, NEW t \in Pipes, NEW p \in Pipes, GetsRequest(t, p)
  PROVE  Inv'
<1> DEFINE r == thread[t]
<1>1. /\ thread \in [Pipes -> ThreadType] /\ r \in ThreadType /\ ThreadOK(t) /\ TypeOK /\ ControlInv
      /\ program' = program /\ program = "serverNPCP" /\ ThreadFrame /\ ShutDown \in BOOLEAN
      /\ UNCHANGED <<sem, output>> /\ r.pc = "get" /\ Key[p].pending /\ Key[p] \in KeyType /\ Key[p].Type = 1
      /\ Key \in [Pipes -> KeyType] /\ KeyOK(p) /\ Requested(p) /\ pipe' = Taken(p)
      /\ ShutDown' = (ShutDown \/ ShutRqst(p))
  BY Before DEF GetsRequest, Gets, Completed, ThreadFrame, build, CompletionPort, TypeOK, ControlInv
<1>2. r.temp = <<>> /\ Usable(p)
  BY <1>1 DEF ThreadOK, KeyOK
<1>3. (\A u \in Pipes \ {t} : ~Works(u, p)) /\ Alone(t, p)
  BY <1>1, PendingAlone
<1>4. PICK pc \in {"flush", "store"} : thread' = [thread EXCEPT ![t] = [@ EXCEPT !.pipe = p, !.pc = pc]]
  BY DEF GetsRequest, Gets
<1> DEFINE n == [r EXCEPT !.pipe = p, !.pc = pc]
           k == [Key[p] EXCEPT !.pending = FALSE]
<1>5. Is(n, pc, p, r.hConTh, r.file, r.temp, r.read) /\ thread' = [thread EXCEPT ![t] = n]
  BY <1>1, <1>4, FormAt DEF Calls
<1>6. k \in KeyType /\ k.Type = 1 /\ ~k.pending /\ Key' = [Key EXCEPT ![p] = k]
  BY <1>1, KeyTo DEF GetsRequest
<1> HIDE DEF n, k
<1>7. thread'[t] = n /\ Key'[p] = k /\ n \in ThreadType /\ n.pc = pc /\ n.pipe = p /\ n.temp = <<>>
  BY <1>1, <1>2, <1>5, <1>6 DEF Is
<1>8. ThreadTakes(t, n)
  BY <1>1, <1>5, <1>7 DEF ThreadTakes, ThreadFrame, ShutRqst
<1>9. \A q \in Pipes : Works(t, q)' => q = p
  BY <1>7 DEF Works
<1>10. Usable(p)'
  <2>1. pipe[p] \in PipeType /\ pipe \in [Pipes -> PipeType]
    BY <1>1 DEF TypeOK
  <2> QED BY <1>1, <1>2, <2>1, TakenFields DEF Usable, Taken
<1>11. PipesKept(t) => KeysKept(t)
  BY <1>3, <1>6, <1>8, <1>9, <1>10, KeyStep
<1>12. ThreadGood(t)'
  BY <1>1, <1>6, <1>7, GoodCP DEF CallsCP
<1>13. r.pc \notin Busy \cup {"none"} /\ n.pc \notin {"send", "none"} /\ ShutDown' \in BOOLEAN
  BY <1>1, <1>7 DEF Busy, ShutRqst
<1> QED BY <1>1, <1>3, <1>5, <1>7, <1>11, <1>12, <1>13, TakesStep

LEMMA AgainStep ==
  ASSUME Inv, Running, CompletionPort, NEW t \in Pipes, ReadsAgain(t)
  PROVE  Inv'
<1> DEFINE r == thread[t]
<1>1. /\ thread \in [Pipes -> ThreadType] /\ r \in ThreadType /\ ThreadOK(t) /\ ThreadCP(t) /\ TypeOK /\ ControlInv
      /\ program' = program /\ program = "serverNPCP" /\ ThreadFrame /\ ShutDown \in BOOLEAN
      /\ UNCHANGED <<ShutDown, sem, pipe, output>> /\ r.pc = "read again"
      /\ Key \in [Pipes -> KeyType]
  BY Before DEF ReadsAgain, ThreadFrame, build, CompletionPort, TypeOK, ControlInv
<1>2. PICK p \in Pipes : p = r.pipe /\ r.temp = <<>> /\ Key[p].Type = 1 /\ Works(t, p)
  BY <1>1 DEF ThreadOK, ThreadCP, Works
<1>3. KeyOK(p)
  BY <1>1, <1>2 DEF ControlInv
<1>4. Usable(p) /\ \A u \in Pipes \ {t} : ~Works(u, p)
  BY <1>2, <1>3 DEF KeyOK
<1> DEFINE b == Requested(p) \/ HasClient(p)
           n == [r EXCEPT !.pc = "while"]
           k == [Key[p] EXCEPT !.pending = b]
<1>5. b \in BOOLEAN
  BY <1>1, <1>2 DEF Requested, HasClient, TypeOK, PipeType, Connected
<1>6. Is(n, "while", p, r.hConTh, r.file, r.temp, r.read) /\ thread' = [thread EXCEPT ![t] = n]
  BY <1>1, <1>2, FormGoto DEF Calls, ReadsAgain, Goto
<1>7. Key' = [Key EXCEPT ![p] = k]
  BY <1>1, <1>2 DEF ReadsAgain
<1> HIDE DEF b
<1>8. k \in KeyType
  BY <1>1, <1>2, <1>5, KeyTo
<1> HIDE DEF n, k
<1>9. thread'[t] = n /\ n \in ThreadType /\ n.pc = "while" /\ n.temp = <<>>
  BY <1>1, <1>2, <1>6 DEF Is
<1>10. ThreadTakes(t, n)
  BY <1>1, <1>6, <1>9 DEF ThreadTakes, ThreadFrame
<1>11. PipesKept(t)
  BY <1>1, SamePipes
<1>12. Usable(p)' /\ \A q \in Pipes : Works(t, q)' => q = p
  BY <1>1, <1>4, <1>9 DEF Works, Usable
<1>13. KeysKept(t)
  BY <1>2, <1>4, <1>7, <1>8, <1>10, <1>11, <1>12, KeyStep
<1>14. ThreadGood(t)'
  BY <1>1, <1>9, GoodCP DEF CallsCP
<1>15. r.pc \notin Busy /\ n.pc \notin Busy
  BY <1>1, <1>9 DEF Busy
<1> QED BY <1>1, <1>10, <1>11, <1>13, <1>14, <1>15, AsideStep

LEMMA EndsStep ==
  ASSUME Inv, Running, CompletionPort, NEW t \in Pipes, EndsThread(t)
  PROVE  Inv'
<1> DEFINE r == thread[t]
           p == r.pipe
           n == [NoThread EXCEPT !.pc = "ended"]
<1>1. /\ thread \in [Pipes -> ThreadType] /\ r \in ThreadType /\ ThreadCP(t)
      /\ program' = program /\ program = "serverNPCP" /\ ThreadFrame
      /\ UNCHANGED <<ShutDown, sem, Key, output>> /\ r.pc = "flush"
      /\ pipe' = [pipe EXCEPT ![p] = Disconnected] /\ thread' = [thread EXCEPT ![t] = n]
  BY Before DEF EndsThread, ThreadFrame, build, CompletionPort
<1>2. p \in Pipes
  BY <1>1 DEF ThreadCP
<1>3. n \in ThreadType /\ n.pc = "ended" /\ n.temp = <<>>
  BY FormEnded DEF Is
<1> HIDE DEF n
<1>4. thread'[t] = n
  BY <1>1
<1>5. ThreadGood(t)'
  BY <1>1, <1>3, <1>4, GoodCP DEF CallsCP
<1>6. r.pc \notin Busy \cup {"none"} /\ n.pc \notin Busy \cup {"none", "read again"}
  BY <1>1, <1>3 DEF Busy
<1> QED BY <1>1, <1>2, <1>3, <1>5, <1>6, DisconnectedIs, PipeStep

-----------------------------------------------------------------------------
(* The process: its end, and main().                                       *)

LEMMA EndedFields ==
  ASSUME NEW r \in PipeType
  PROVE  LET q == [r EXCEPT !.state = "none", !.request = ""]
         IN  /\ q \in PipeType /\ q.request = "" /\ q.by = r.by /\ q.open = r.open /\ q.state = "none"
             /\ q.responses = r.responses
BY DEF PipeType

LEMMA DiesStep ==
  ASSUME Inv, Running, NEW how, how # "running", Dies(how)
  PROVE  Inv'
<1>1. TypeOK /\ TypeOK' /\ pipe \in [Pipes -> PipeType] /\ ~Running'
  BY Before, DiesTyped, Ranges DEF Inv, TypeOK, Dies, Running
<1>2. \A p \in Pipes :
        /\ pipe'[p] \in PipeType /\ pipe'[p].request = "" /\ pipe'[p].by = pipe[p].by
        /\ pipe'[p].open = pipe[p].open /\ pipe'[p].state = "none" /\ pipe'[p].responses = pipe[p].responses
  BY <1>1, EndedFields DEF Dies
<1>3. \A t \in Pipes : thread'[t] = NoThread
  BY DEF Dies
<1>4. /\ NoThread.pc = "none" /\ NoThread.temp = <<>> /\ NoThread.hConTh = "none"
  BY DEF NoThread
<1>5. client' = client /\ output' = output /\ program' = program
  BY DEF Dies, build
<1>6. ControlInv'
  <2>1. MainOK'
    BY <1>1 DEF MainOK
  <2>2. ASSUME NEW t \in Pipes PROVE (ThreadOK(t) /\ ThreadNP(t) /\ ThreadSM(t) /\ ThreadCP(t))'
    BY <1>3, <1>4 DEF ThreadOK, ThreadNP, Talking, ThreadSM, ThreadCP
  <2>3. ASSUME NEW p \in Pipes PROVE KeyOK(p)' /\ PipeOK(p)'
    <3>1. Key'[p].Type = 0
      BY DEF Dies
    <3>2. \A t \in Pipes : ~Works(t, p)'
      BY <1>3, <1>4 DEF Works
    <3>3. KeyOK(p)'
      BY <3>1, <3>2 DEF KeyOK
    <3>4. thread'[p].pc = "none" /\ pipe'[p].state = "none" /\ pipe'[p].request = ""
      BY <1>2, <1>3, <1>4
    <3> QED BY <1>1, <3>3, <3>4 DEF PipeOK
  <2> QED BY <2>1, <2>2, <2>3 DEF ControlInv
<1>7. ASSUME NEW p \in Pipes PROVE Held(p)'
  <2>1. Held(p)
    BY DEF Inv
  <2> QED BY <1>2, <1>5, <2>1, HeldKept
<1>8. ASSUME NEW c \in Clients PROVE Phase(c)'
  <2>1. CASE client[c].pc \notin {"prompt", "receive"}
    BY <1>5, <2>1 DEF Phase
  <2>2. CASE client[c].pc \in {"prompt", "receive"}
    <3>1. PICK p \in Pipes : p = client[c].pipe
      BY <1>1, <2>2 DEF TypeOK
    <3>2. client[c] \in ClientType /\ pipe[p] \in PipeType
      BY <1>1 DEF TypeOK
    <3>3. PhaseOf(c, Own(c), client[c], pipe[p], output[c], Serving(p), ~CompletionPort, TRUE)
      BY <2>2, <3>1 DEF Inv, Phase
    <3>4. PhaseOf(c, Own(c), client[c], pipe'[p], output[c], {}, ~CompletionPort, FALSE)
      BY <1>2, <3>2, <3>3, PhaseDies
    <3>5. Serving(p)' = {} /\ Own(c)' = Own(c) /\ (CompletionPort' <=> CompletionPort)
      BY <1>3, <1>4, <1>5 DEF Serving, Serves, Busy, Own, CompletionPort
    <3>6. PhaseOf(c, Own(c)', client'[c], pipe'[p], output'[c], Serving(p)', ~CompletionPort', Running')
      <4>1. (~CompletionPort') = (~CompletionPort) /\ Running' = FALSE
        BY <1>1, <3>5
      <4> QED BY <1>5, <3>4, <3>5, <4>1, Zenon
    <3>7. client'[c].pipe = p
      BY <1>5, <3>1
    <3> QED BY <3>6, <3>7 DEF Phase, PhaseOf
  <2> QED BY <2>1, <2>2
<1> QED BY <1>1, <1>6, <1>7, <1>8 DEF Inv

(* main() goes on: it may start a thread, and no client notices.           *)
LEMMA MainQuiet ==
  ASSUME Inv, TypeOK', ControlInv', MainFrame,
         \A p \in Pipes : pipe'[p] = pipe[p] \/ (pipe'[p].by = NULL /\ ~pipe'[p].open),
         \/ thread' = thread
         \/ \E t \in Pipes, n \in ThreadType :
              thread' = [thread EXCEPT ![t] = n] /\ thread[t].pc \notin Busy /\ n.pc \notin Busy
  PROVE  Inv'
<1>1. TypeOK /\ thread \in [Pipes -> ThreadType] /\ client' = client /\ output' = output
      /\ program' = program /\ process' = process
  BY Before DEF Inv, TypeOK, MainFrame, build
<1>2. \A p \in Pipes : Serving(p)' = Serving(p)
  <2>1. CASE thread' = thread
    BY <2>1 DEF Serving, Serves
  <2>2. CASE \E t \in Pipes, n \in ThreadType :
              thread' = [thread EXCEPT ![t] = n] /\ thread[t].pc \notin Busy /\ n.pc \notin Busy
    BY <1>1, <2>2, ServingKept DEF Serves
  <2> QED BY <2>1, <2>2
<1>3. ASSUME NEW p \in Pipes PROVE Held(p)'
  <2>1. Held(p)
    BY DEF Inv
  <2> QED BY <1>1, <2>1, HeldKept
<1>4. ASSUME NEW c \in Clients PROVE Phase(c)'
  <2>1. ASSUME Mine(c)' PROVE client[c].pipe \in Pipes /\ pipe'[client[c].pipe] = pipe[client[c].pipe]
    <3>1. client[c].pipe \in Pipes /\ pipe'[client[c].pipe].by = c
      BY <1>1, <2>1 DEF Mine, TypeOK
    <3> QED BY <3>1, Ranges
  <2>2. Phase(c)
    BY DEF Inv
  <2> QED BY <1>1, <1>2, <2>1, <2>2, PhaseKept
<1> QED BY <1>3, <1>4 DEF Inv

LEMMA ListeningNow ==
  ASSUME NEW r \in PipeType
  PROVE  LET q == [r EXCEPT !.state = "listening"]
         IN  /\ q \in PipeType /\ q.state = "listening" /\ q.by = r.by /\ q.open = r.open
             /\ q.request = r.request /\ q.responses = r.responses
BY DEF PipeType

LEMMA FirstIs ==
  ASSUME TypeOK
  PROVE  /\ First \in ThreadType /\ First.hConTh = "none" /\ First.temp = <<>>
         /\ First.pc = (IF program = "serverSM" THEN "connect" ELSE "while")
         /\ \A p \in Pipes : Is([First EXCEPT !.pipe = p], First.pc, p, "none", FALSE, <<>>, 0)
<1>1. First \in ThreadType
  BY FirstTyped
<1>2. /\ First.hConTh = "none" /\ First.temp = <<>> /\ First.file = FALSE /\ First.read = 0
      /\ First.pc = (IF program = "serverSM" THEN "connect" ELSE "while")
  BY DEF First, NoThread, TypeOK
<1>3. ASSUME NEW p \in Pipes PROVE Is([First EXCEPT !.pipe = p], First.pc, p, "none", FALSE, <<>>, 0)
  <2>1. \A r \in ThreadType : Is([r EXCEPT !.pipe = p], r.pc, p, r.hConTh, r.file, r.temp, r.read)
    BY Ranges DEF Is, ThreadType
  <2> QED BY <1>1, <1>2, <2>1
<1> QED BY <1>1, <1>2, <1>3

LEMMA MainAt ==
  ASSUME TypeOK
  PROVE  /\ main.i \in Pipes /\ main.i \in main.i .. MAX_CLIENTS /\ MAX_CLIENTS \in Nat
         /\ \A j \in main.i .. MAX_CLIENTS : j \in Pipes
         /\ \A j \in main.i + 1 .. MAX_CLIENTS : j \in main.i .. MAX_CLIENTS /\ j # main.i
BY PipeServerAssumption DEF TypeOK, MainType, Pipes

LEMMA CreatesStep ==
  ASSUME Inv, Running, MainCreates
  PROVE  Inv'
<1>1. TypeOK /\ ControlInv /\ TypeOK' /\ thread \in [Pipes -> ThreadType] /\ pipe \in [Pipes -> PipeType]
  <2>1. program \in {"serverNP", "serverSM", "serverNPCP"}
    BY DEF Inv, TypeOK
  <2>2. Main
    BY <2>1 DEF Main, serverNP_main, serverSM_main, serverNPCP_main
  <2> QED BY <2>2, MainTyped DEF Inv, TypeOK
<1>2. PICK i \in Pipes : i = main.i
  BY <1>1, MainAt
<1>3. /\ main.pc = "create" /\ pipe' = [pipe EXCEPT ![i].state = "listening"] /\ Key' = Key /\ MainFrame
      /\ program' = program /\ Running' /\ nThreads' = nThreads
  BY <1>2 DEF MainCreates, MainFrame, build, Running
<1>4. /\ \A j \in i .. MAX_CLIENTS : pipe[j].state = "none" /\ thread[j].pc = "none" /\ j \in Pipes
      /\ CompletionPort => \A j \in Pipes : thread[j].pc = "none" /\ Key[j].Type = 0
      /\ i \in i .. MAX_CLIENTS
  BY <1>1, <1>2, <1>3, MainAt DEF ControlInv, MainOK
<1> DEFINE q == [pipe[i] EXCEPT !.state = "listening"]
<1>5. PipeOK(i) /\ pipe[i] \in PipeType
  BY <1>1 DEF ControlInv
<1>6. /\ q \in PipeType /\ q.state = "listening" /\ q.by = NULL /\ ~q.open
      /\ q.request = "" /\ q.responses = <<>>
  BY <1>4, <1>5, ListeningNow DEF PipeOK, Clean
<1>7. pipe' = [pipe EXCEPT ![i] = q]
  BY <1>3
<1> HIDE DEF q
<1>8. pipe'[i] = q /\ \A p \in Pipes \ {i} : pipe'[p] = pipe[p]
  BY <1>1, <1>7
<1>9. \A p \in Pipes : pipe'[p] = pipe[p] \/ (pipe'[p].by = NULL /\ ~pipe'[p].open)
  BY <1>6, <1>8
<1>10. \A p \in Pipes : Usable(p)' <=> Usable(p)
  BY <1>4, <1>6, <1>8 DEF Usable
<1>11. \A p \in Pipes : PipeOK(p)'
  <2>1. \A p \in Pipes : PipeOK(p)
    BY <1>1 DEF ControlInv
  <2> QED BY <1>3, <1>6, <1>8, <2>1 DEF PipeOK, Clean
<1>12. \A t \in Pipes : ThreadOK(t) /\ ThreadNP(t) /\ ThreadSM(t) /\ ThreadCP(t) /\ KeyOK(t)
  BY <1>1 DEF ControlInv
<1>13. CASE CompletionPort
  <2>1. main' = [main EXCEPT !.pc = "connect"] /\ thread' = thread
    BY <1>13 DEF MainCreates
  <2>2. main'.pc = "connect" /\ main'.i = i
    BY <1>1, <1>2, <2>1 DEF TypeOK, MainType
  <2>3. MainOK'
    <3>1. \A j \in i + 1 .. MAX_CLIENTS : pipe'[j].state = "none"
      BY <1>1, <1>2, <1>4, <1>8, MainAt
    <3> QED BY <1>3, <1>4, <1>13, <2>1, <2>2, <3>1 DEF MainOK, CompletionPort
  <2>4. ASSUME NEW t \in Pipes PROVE (ThreadOK(t) /\ ThreadNP(t) /\ ThreadSM(t) /\ ThreadCP(t) /\ KeyOK(t))'
    <3>1. thread[t].pc = "none" /\ ThreadOK(t) /\ Key[t].Type = 0 /\ \A u \in Pipes : ~Works(u, t)
      BY <1>4, <1>12, <1>13 DEF Works
    <3>2. thread[t] = NoThread
      BY <3>1 DEF ThreadOK
    <3>3. \A u \in Pipes : ~Works(u, t)'
      BY <2>1, <3>1 DEF Works
    <3> QED BY <1>3, <2>1, <3>1, <3>2, <3>3 DEF ThreadOK, ThreadNP, Talking, ThreadSM, ThreadCP, KeyOK, NoThread
  <2>5. ControlInv'
    BY <1>11, <2>3, <2>4 DEF ControlInv
  <2> QED BY <1>1, <1>3, <1>9, <2>1, <2>5, MainQuiet
<1>14. CASE ~CompletionPort
  <2> DEFINE n == [First EXCEPT !.pipe = i]
  <2>1. thread' = [thread EXCEPT ![i] = n]
    BY <1>2, <1>14 DEF MainCreates
  <2>2. Is(n, First.pc, i, "none", FALSE, <<>>, 0) /\ First.pc = (IF program = "serverSM" THEN "connect" ELSE "while")
    BY <1>1, FirstIs
  <2> HIDE DEF n
  <2>3. thread'[i] = n /\ (\A t \in Pipes \ {i} : thread'[t] = thread[t]) /\ n \in ThreadType
        /\ n.pipe = i /\ n.pc = (IF program = "serverSM" THEN "connect" ELSE "while")
        /\ n.hConTh = "none" /\ n.temp = <<>>
    BY <1>1, <2>1, <2>2 DEF Is
  <2>4. main' = IF i < MAX_CLIENTS THEN [main EXCEPT !.i = i + 1] ELSE [main EXCEPT !.pc = "wait"]
    BY <1>2, <1>14 DEF MainCreates
  <2>5. main'.pc \in {"create", "wait"} /\ (main'.pc = "create" => main'.i = i + 1)
    BY <1>1, <1>2, <1>3, <2>4 DEF TypeOK, MainType
  <2>6. MainOK'
    <3>1. \A j \in i + 1 .. MAX_CLIENTS : pipe'[j].state = "none" /\ thread'[j].pc = "none"
      BY <1>1, <1>2, <1>4, <1>8, <2>3, MainAt
    <3> QED BY <1>3, <1>14, <2>5, <3>1 DEF MainOK, CompletionPort
  <2>7. ThreadGood(i)'
    <3>1. CASE program = "serverNP"
      BY <1>3, <2>3, <3>1, GoodNP DEF CallsNP, Talking, Usable
    <3>2. CASE program = "serverSM"
      BY <1>3, <2>3, <3>2, GoodSM DEF CallsSM
    <3> QED BY <1>1, <1>14, <3>1, <3>2 DEF TypeOK, CompletionPort
  <2>8. ASSUME NEW t \in Pipes PROVE (ThreadOK(t) /\ ThreadNP(t) /\ ThreadSM(t) /\ ThreadCP(t) /\ KeyOK(t))'
    <3>1. KeyOK(t)'
      BY <1>3, <1>10, <1>12, <1>14 DEF KeyOK, CompletionPort
    <3>2. CASE t = i
      BY <2>7, <3>1, <3>2 DEF ThreadGood
    <3>3. CASE t # i
      <4>1. ThreadOK(t) /\ ThreadNP(t) /\ ThreadSM(t) /\ thread'[t] = thread[t] /\ (Usable(t)' <=> Usable(t))
        BY <1>10, <1>12, <2>3, <3>3
      <4>2. ThreadOK(t)'
        BY <1>3, <4>1 DEF ThreadOK, CompletionPort
      <4>3. ThreadNP(t)'
        BY <1>3, <4>1 DEF ThreadNP
      <4>4. ThreadSM(t)'
        BY <1>3, <4>1 DEF ThreadSM
      <4>5. ThreadCP(t)'
        BY <1>3, <1>14 DEF ThreadCP, CompletionPort
      <4> QED BY <3>1, <4>2, <4>3, <4>4, <4>5
    <3> QED BY <3>2, <3>3
  <2>9. ControlInv'
    BY <1>11, <2>6, <2>8 DEF ControlInv
  <2>10. thread[i].pc \notin Busy /\ n.pc \notin Busy
    BY <1>4, <2>3 DEF Busy
  <2> QED BY <1>1, <1>3, <1>9, <2>1, <2>3, <2>9, <2>10, MainQuiet
<1> QED BY <1>13, <1>14

LEMMA ConnectsMain ==
  ASSUME Inv, Running, MainConnects, program = "serverNPCP"
  PROVE  Inv'
<1>1. TypeOK /\ ControlInv /\ TypeOK' /\ Key \in [Pipes -> KeyType]
  <2>1. Main
    BY DEF Main, serverNPCP_main
  <2> QED BY <2>1, MainTyped DEF Inv, TypeOK
<1>2. CASE ~Listens(main.i)
  BY <1>2, DiesStep DEF MainConnects
<1>3. CASE Listens(main.i)
  <2>1. PICK i \in Pipes : i = main.i
    BY <1>1, MainAt
  <2>2. /\ main.pc = "connect" /\ Key' = [Key EXCEPT ![i].pending = TRUE] /\ thread' = thread /\ pipe' = pipe
        /\ MainFrame /\ program' = program /\ Running'
        /\ main' = IF i < MAX_CLIENTS THEN [pc |-> "create", i |-> i + 1] ELSE [pc |-> "threads", i |-> 1]
    BY <1>3, <2>1 DEF MainConnects, MainFrame, build, Running
  <2>3. /\ \A j \in Pipes : thread[j].pc = "none" /\ Key[j].Type = 0
        /\ \A j \in i + 1 .. MAX_CLIENTS : pipe[j].state = "none"
    BY <1>1, <2>1, <2>2 DEF ControlInv, MainOK
  <2>4. \A j \in Pipes : Key'[j].Type = 0
    <3>1. [Key[i] EXCEPT !.pending = TRUE].Type = Key[i].Type
      BY <1>1, KeyTo
    <3> QED BY <1>1, <2>2, <2>3, <3>1
  <2>5. MainOK'
    <3>1. \/ i < MAX_CLIENTS /\ main'.pc = "create" /\ main'.i = i + 1
          \/ main'.pc = "threads" /\ main'.i = 1
      BY <2>2
    <3>2. \A j \in i + 1 .. MAX_CLIENTS : j \in Pipes
      BY <1>1, <2>1, MainAt
    <3>3. \A j \in 1 .. MAX_CLIENTS : j \in Pipes
      BY DEF Pipes
    <3> QED BY <2>2, <2>3, <2>4, <3>1, <3>2, <3>3 DEF MainOK, CompletionPort
  <2>6. ASSUME NEW t \in Pipes
        PROVE  (ThreadOK(t) /\ ThreadNP(t) /\ ThreadSM(t) /\ ThreadCP(t) /\ KeyOK(t) /\ PipeOK(t))'
    <3>1. thread'[t].pc = "none" /\ ThreadOK(t) /\ PipeOK(t) /\ \A u \in Pipes : ~Works(u, t)'
      BY <1>1, <2>2, <2>3 DEF ControlInv, Works
    <3>2. ThreadOK(t)'
      BY <2>2, <3>1 DEF ThreadOK, CompletionPort
    <3>3. PipeOK(t)'
      BY <2>2, <3>1 DEF PipeOK, Clean
    <3> QED BY <2>2, <2>4, <3>1, <3>2, <3>3 DEF ThreadNP, ThreadSM, ThreadCP, KeyOK
  <2>7. ControlInv'
    BY <2>5, <2>6 DEF ControlInv
  <2> QED BY <1>1, <2>2, <2>7, MainQuiet
<1> QED BY <1>2, <1>3

LEMMA BeginsStep ==
  ASSUME Inv, Running, MainBegins, program = "serverNPCP"
  PROVE  Inv'
<1>1. TypeOK /\ ControlInv /\ TypeOK' /\ thread \in [Pipes -> ThreadType]
  <2>1. Main
    BY DEF Main, serverNPCP_main
  <2> QED BY <2>1, MainTyped DEF Inv, TypeOK
<1>2. PICK i \in Pipes : i = main.i
  BY <1>1, MainAt
<1>3. /\ main.pc = "threads" /\ thread' = [thread EXCEPT ![i] = First] /\ pipe' = pipe /\ Key' = Key
      /\ MainFrame /\ program' = program /\ Running'
      /\ main' = IF i < nThreads THEN [main EXCEPT !.i = i + 1] ELSE [main EXCEPT !.pc = "wait"]
  BY <1>2 DEF MainBegins, MainFrame, build, Running
<1>4. First \in ThreadType /\ First.pc = "while" /\ First.temp = <<>>
  BY <1>1, FirstIs
<1>5. thread'[i] = First /\ \A t \in Pipes \ {i} : thread'[t] = thread[t]
  BY <1>1, <1>3
<1>6. \A j \in i .. MAX_CLIENTS : thread[j].pc = "none"
  BY <1>1, <1>2, <1>3 DEF ControlInv, MainOK
<1>7. MainOK'
  <2>1. main'.pc \in {"threads", "wait"} /\ (main'.pc = "threads" => main'.i = i + 1)
    BY <1>1, <1>2, <1>3 DEF TypeOK, MainType
  <2>2. \A j \in i + 1 .. MAX_CLIENTS : thread'[j].pc = "none"
    BY <1>1, <1>2, <1>5, <1>6, MainAt
  <2> QED BY <1>3, <2>1, <2>2 DEF MainOK, CompletionPort
<1>8. ASSUME NEW t \in Pipes
      PROVE  (ThreadOK(t) /\ ThreadNP(t) /\ ThreadSM(t) /\ ThreadCP(t) /\ KeyOK(t) /\ PipeOK(t))'
  <2>1. ThreadOK(t) /\ ThreadNP(t) /\ ThreadSM(t) /\ ThreadCP(t) /\ KeyOK(t) /\ PipeOK(t)
    BY <1>1 DEF ControlInv
  <2>2. PipeOK(t)'
    BY <1>3, <2>1 DEF PipeOK, Clean
  <2>3. KeyOK(t)'
    <3>1. ~Works(i, t)'
      BY <1>4, <1>5 DEF Works
    <3>2. \A u \in Pipes \ {i} : Works(u, t)' => Works(u, t)
      BY <1>5 DEF Works
    <3>3. Usable(t)' <=> Usable(t)
      BY <1>3 DEF Usable
    <3> QED BY <1>3, <2>1, <3>1, <3>2, <3>3 DEF KeyOK, CompletionPort
  <2>4. CASE t = i
    <3>1. ThreadGood(i)'
      BY <1>3, <1>4, <1>5, GoodCP DEF CallsCP
    <3> QED BY <2>2, <2>3, <2>4, <3>1 DEF ThreadGood
  <2>5. CASE t # i
    <3>1. thread'[t] = thread[t]
      BY <1>5, <2>5
    <3>2. ThreadOK(t)'
      BY <1>3, <2>1, <3>1 DEF ThreadOK, CompletionPort
    <3>3. ThreadCP(t)'
      BY <1>3, <2>1, <3>1 DEF ThreadCP
    <3> QED BY <1>3, <2>2, <2>3, <3>2, <3>3 DEF ThreadNP, ThreadSM
  <2> QED BY <2>4, <2>5
<1>9. ControlInv'
  BY <1>7, <1>8 DEF ControlInv
<1>10. thread[i].pc \notin Busy /\ First.pc \notin Busy
  <2>1. i \in i .. MAX_CLIENTS
    BY <1>1, <1>2, MainAt
  <2> QED BY <1>4, <1>6, <2>1 DEF Busy
<1> QED BY <1>1, <1>3, <1>4, <1>9, <1>10, MainQuiet

LEMMA MainStep ==
  ASSUME Inv, Main
  PROVE  Inv'
<1>1. Running /\ TypeOK
  BY DEF Main, Inv
<1>2. CASE MainFails \/ MainReturns
  BY <1>1, <1>2, DiesStep DEF MainFails, MainReturns
<1>3. CASE MainCreates
  BY <1>1, <1>3, CreatesStep
<1>4. CASE program = "serverNPCP" /\ (MainConnects \/ MainBegins)
  BY <1>1, <1>4, ConnectsMain, BeginsStep
<1> QED BY <1>2, <1>3, <1>4 DEF Main, serverNP_main, serverSM_main, serverNPCP_main

-----------------------------------------------------------------------------
(* The steps that leave the server threads alone.                          *)

LEMMA ControlKept ==
  ASSUME Inv, UNCHANGED <<program, process, main, thread, Key>>,
         \A p \in Pipes :
           /\ Usable(p) => Usable(p)'
           /\ pipe[p].state = "none" => pipe'[p].state = "none"
           /\ Running /\ pipe'[p].state # "connected" => Clean(p)'
           /\ ~Running => pipe'[p].state = "none" /\ pipe'[p].request = ""
  PROVE  ControlInv'
<1>1. TypeOK /\ ControlInv
  BY DEF Inv
<1>2. (CompletionPort' <=> CompletionPort) /\ (Running' <=> Running)
  BY DEF CompletionPort, Running
<1>3. MainOK'
  <2>1. MainOK
    BY <1>1 DEF ControlInv
  <2>2. \A j \in main.i .. MAX_CLIENTS : j \in Pipes
    BY <1>1, MainAt
  <2>3. \A j \in main.i + 1 .. MAX_CLIENTS : j \in Pipes
    BY <1>1, MainAt
  <2> QED BY <1>2, <2>1, <2>2, <2>3 DEF MainOK
<1>4. ASSUME NEW t \in Pipes
      PROVE  (ThreadOK(t) /\ ThreadNP(t) /\ ThreadSM(t) /\ ThreadCP(t) /\ KeyOK(t) /\ PipeOK(t))'
  <2>1. ThreadOK(t) /\ ThreadNP(t) /\ ThreadSM(t) /\ ThreadCP(t) /\ KeyOK(t) /\ PipeOK(t)
    BY <1>1 DEF ControlInv
  <2>2. ThreadOK(t)' /\ ThreadCP(t)'
    BY <1>2, <2>1 DEF ThreadOK, ThreadCP
  <2>3. ThreadNP(t)' /\ ThreadSM(t)'
    BY <2>1 DEF ThreadNP, ThreadSM
  <2>4. KeyOK(t)'
    BY <1>2, <2>1 DEF KeyOK, Works
  <2>5. PipeOK(t)'
    BY <1>2, <2>1 DEF PipeOK
  <2> QED BY <2>2, <2>3, <2>4, <2>5
<1> QED BY <1>3, <1>4 DEF ControlInv

LEMMA ServingSame ==
  ASSUME thread' = thread
  PROVE  \A p \in Pipes : Serving(p)' = Serving(p)
BY DEF Serving, Serves

LEMMA MonitorStep ==
  ASSUME Inv, Handler \/ ServerBroadcast \/ SRVRBCST
  PROVE  Inv'
<1>1. CASE MonitorFails /\ Running
  BY <1>1, DiesStep DEF MonitorFails
<1>2. CASE Handler \/ MonitorTests \/ MonitorWrites \/ SRVRBCST
  <2>1. /\ TypeOK' /\ UNCHANGED <<program, process, main, thread, Key, pipe, output>>
        /\ TypeOK
    BY <1>2, MonitorTyped
       DEF Inv, Handler, MonitorTests, MonitorWrites, SRVRBCST, MonitorFrame, ServerBroadcast, control, build
  <2>2. ASSUME NEW c \in Clients
        PROVE  client'[c] = client[c] \/ (client[c].pc = "locate" /\ client'[c].pc = "wait")
    <3>1. [client[c] EXCEPT !.pc = "wait"].pc = "wait"
      BY <2>1, ClientTo DEF TypeOK
    <3> QED BY <1>2, <3>1 DEF Handler, MonitorTests, MonitorWrites, SRVRBCST, Located, Locating
  <2>3. ControlInv'
    <3>1. \A p \in Pipes : PipeOK(p)
      BY DEF Inv, ControlInv
    <3>2. \A p \in Pipes : (Usable(p)' <=> Usable(p)) /\ (Clean(p)' <=> Clean(p)) /\ pipe'[p] = pipe[p]
      BY <2>1 DEF Usable, Clean
    <3> QED BY <2>1, <3>1, <3>2, ControlKept DEF PipeOK
  <2>4. ASSUME NEW p \in Pipes PROVE Held(p)'
    <3>1. Held(p)
      BY DEF Inv
    <3> QED BY <2>1, <2>2, <3>1 DEF Held
  <2>5. ASSUME NEW c \in Clients PROVE Phase(c)'
    <3>1. Phase(c)
      BY DEF Inv
    <3>2. CASE client'[c] = client[c]
      <4>1. ASSUME Mine(c)' PROVE client[c].pipe \in Pipes
        BY <2>1, <3>2, <4>1 DEF Mine, TypeOK
      <4> QED BY <2>1, <3>1, <3>2, <4>1, ServingSame, PhaseKept
    <3>3. CASE client'[c].pc = "wait"
      BY <3>3 DEF Phase
    <3> QED BY <2>2, <3>2, <3>3
  <2> QED BY <2>1, <2>3, <2>4, <2>5 DEF Inv
<1> QED BY <1>1, <1>2 DEF ServerBroadcast

(* A step of client c, which may change its own instance.                  *)
LEMMA ClientInv ==
  ASSUME Inv, NEW c \in Clients, ClientStep(c) \/ ClientKilled(c), ClientFrame,
         \A d \in Clients \ {c} : client'[d] = client[d],
         \A p \in Pipes :
           /\ pipe'[p] = pipe[p] \/ pipe'[p].by = c
           /\ pipe'[p].open /\ pipe'[p].by = c =>
                client'[c].pipe = p /\ client'[c].pc \in {"prompt", "receive"}
           /\ pipe'[p] # pipe[p] =>
                /\ Running => pipe'[p].state = "connected" /\ pipe[p].state # "none"
                /\ ~Running => pipe'[p].state = pipe[p].state /\ pipe'[p].request = pipe[p].request,
         Phase(c)'
  PROVE  Inv'
<1>1. TypeOK /\ TypeOK' /\ UNCHANGED <<program, process, main, thread, Key, output>>
  BY ClientTyped DEF Inv, ClientFrame, build, control
<1>2. ControlInv'
  <2>1. ASSUME NEW p \in Pipes
        PROVE  /\ Usable(p) => Usable(p)'
               /\ pipe[p].state = "none" => pipe'[p].state = "none"
               /\ Running /\ pipe'[p].state # "connected" => Clean(p)'
               /\ ~Running => pipe'[p].state = "none" /\ pipe'[p].request = ""
    <3>1. PipeOK(p)
      BY DEF Inv, ControlInv
    <3>2. CASE pipe'[p] = pipe[p]
      BY <3>1, <3>2 DEF PipeOK, Usable, Clean
    <3>3. CASE pipe'[p] # pipe[p]
      BY <3>1, <3>3 DEF PipeOK, Usable
    <3> QED BY <3>2, <3>3
  <2> QED BY <1>1, <2>1, ControlKept
<1>3. ASSUME NEW p \in Pipes PROVE Held(p)'
  <2>1. Held(p)
    BY DEF Inv
  <2>2. CASE pipe'[p].by = c
    BY <2>2 DEF Held
  <2>3. CASE pipe'[p].by # c
    BY <2>1, <2>3 DEF Held
  <2> QED BY <2>2, <2>3
<1>4. ASSUME NEW d \in Clients PROVE Phase(d)'
  <2>1. CASE d = c
    BY <2>1
  <2>2. CASE d # c
    <3>1. client'[d] = client[d] /\ Phase(d)
      BY <2>2 DEF Inv
    <3>2. ASSUME Mine(d)' PROVE client[d].pipe \in Pipes /\ pipe'[client[d].pipe] = pipe[client[d].pipe]
      <4>1. client[d].pipe \in Pipes /\ pipe'[client[d].pipe].by = d
        BY <1>1, <3>1, <3>2 DEF Mine, TypeOK
      <4> QED BY <2>2, <4>1
    <3> QED BY <1>1, <3>1, <3>2, ServingSame, PhaseKept
  <2> QED BY <2>1, <2>2
<1> QED BY <1>1, <1>2, <1>3, <1>4 DEF Inv

-----------------------------------------------------------------------------
(* The clients.                                                            *)

LEMMA WaitStep ==
  ASSUME Inv, NEW c \in Clients, WaitNamedPipe(c)
  PROVE  Inv'
<1>1. /\ TypeOK /\ client \in [Clients -> ClientType] /\ client[c].pc = "wait" /\ pipe' = pipe /\ ClientFrame
      /\ client' = [client EXCEPT ![c] = [client[c] EXCEPT !.pc = "open"]]
  BY DEF WaitNamedPipe, Client, Inv, TypeOK
<1>2. client'[c].pc = "open" /\ \A d \in Clients \ {c} : client'[d] = client[d]
  BY <1>1, ClientTo
<1>3. Phase(c)'
  BY <1>2 DEF Phase
<1>4. ASSUME NEW p \in Pipes PROVE ~(pipe'[p].open /\ pipe'[p].by = c)
  BY <1>1 DEF Inv, Held
<1> QED BY <1>1, <1>2, <1>3, <1>4, ClientInv DEF ClientStep

LEMMA OpenFields ==
  ASSUME NEW r \in PipeType, NEW c \in Clients
  PROVE  LET q == [r EXCEPT !.state = "connected", !.by = c, !.open = TRUE]
         IN  /\ q \in PipeType /\ q.state = "connected" /\ q.by = c /\ q.open
             /\ q.request = r.request /\ q.responses = r.responses
BY DEF PipeType

(* Nobody serves an instance that listens.                                 *)
LEMMA ListensIdle ==
  ASSUME Inv, NEW p \in Pipes, Listens(p)
  PROVE  Serving(p) = {}
<1>1. ASSUME NEW t \in Pipes, Serves(t, p) PROVE FALSE
  <2>1. ThreadOK(t) /\ ThreadNP(t) /\ ThreadSM(t) /\ ThreadCP(t) /\ TypeOK /\ KeyOK(p)
    BY DEF Inv, ControlInv
  <2>2. ~Usable(p)
    BY DEF Listens, Usable
  <2>3. thread[t].pc \in Busy /\ thread[t].pipe = p
    BY <1>1 DEF Serves
  <2>4. CASE program = "serverNP"
    BY <2>1, <2>2, <2>3, <2>4 DEF ThreadOK, ThreadNP, Busy, CompletionPort
  <2>5. CASE program = "serverSM"
    BY <2>1, <2>2, <2>3, <2>5 DEF ThreadOK, ThreadSM, Busy, CompletionPort
  <2>6. CASE program = "serverNPCP"
    BY <2>1, <2>2, <2>3, <2>6 DEF ThreadCP, KeyOK, Busy
  <2> QED BY <2>1, <2>4, <2>5, <2>6 DEF TypeOK
<1> QED BY <1>1 DEF Serving

LEMMA OpensStep ==
  ASSUME Inv, NEW c \in Clients, OpensPipe(c)
  PROVE  Inv'
<1>1. /\ TypeOK /\ client \in [Clients -> ClientType] /\ client[c].pc = "open" /\ ClientFrame
      /\ pipe \in [Pipes -> PipeType] /\ client[c] \in ClientType
  BY DEF OpensPipe, Inv, TypeOK
<1>2. ASSUME NEW p \in Pipes PROVE ~(pipe[p].open /\ pipe[p].by = c)
  BY <1>1 DEF Inv, Held
<1>3. CASE \E p \in Pipes : Listens(p)
  <2>1. PICK p \in {q \in Pipes : Listens(q)} :
          /\ pipe' = [pipe EXCEPT ![p] = [@ EXCEPT !.state = "connected", !.by = c, !.open = TRUE]]
          /\ Client(c, [client[c] EXCEPT !.pc = "prompt", !.pipe = p])
    BY <1>3 DEF OpensPipe
  <2> DEFINE q == [pipe[p] EXCEPT !.state = "connected", !.by = c, !.open = TRUE]
             k == [client[c] EXCEPT !.pc = "prompt", !.pipe = p]
  <2>2. PipeOK(p)
    BY DEF Inv, ControlInv
  <2>3. Running /\ Clean(p) /\ pipe[p].state = "listening"
    BY <2>1, <2>2 DEF PipeOK, Listens
  <2>4. /\ pipe' = [pipe EXCEPT ![p] = q] /\ q \in PipeType /\ q.state = "connected" /\ q.by = c /\ q.open
        /\ q.request = "" /\ q.responses = <<>>
    <3>1. pipe' = [pipe EXCEPT ![p] = q]
      BY <1>1, <2>1
    <3>2. /\ q \in PipeType /\ q.state = "connected" /\ q.by = c /\ q.open
          /\ q.request = pipe[p].request /\ q.responses = pipe[p].responses
      BY <1>1, <2>1, OpenFields
    <3> HIDE DEF q
    <3> QED BY <2>3, <3>1, <3>2 DEF Clean
  <2>5. client' = [client EXCEPT ![c] = k] /\ k \in ClientType /\ k.pc = "prompt" /\ k.pipe = p
    BY <1>1, <2>1, ClientOpens DEF Client
  <2> HIDE DEF q, k
  <2>6. pipe'[p] = q /\ \A r \in Pipes \ {p} : pipe'[r] = pipe[r]
    BY <1>1, <2>4
  <2>7. client'[c] = k /\ \A d \in Clients \ {c} : client'[d] = client[d]
    BY <1>1, <2>5
  <2>8. Serving(p)' = {}
    BY <1>1, <2>1, ListensIdle, ServingSame DEF ClientFrame
  <2>9. PhaseOf(c, Own(c)', k, q, output'[c], {}, ~CompletionPort', Running')
    BY <2>4, <2>5, PhaseOpens
  <2>10. Phase(c)'
    BY <2>5, <2>6, <2>7, <2>8, <2>9 DEF Phase
  <2> QED BY <1>1, <1>2, <2>3, <2>4, <2>5, <2>6, <2>7, <2>10, ClientInv DEF ClientStep
<1>4. CASE ~(\E p \in Pipes : Listens(p))
  <2>1. pipe' = pipe /\ client' = [client EXCEPT ![c] = NoClient]
    BY <1>4 DEF OpensPipe, Client
  <2>2. client'[c].pc = "ended" /\ \A d \in Clients \ {c} : client'[d] = client[d]
    BY <1>1, <2>1 DEF NoClient
  <2>3. Phase(c)'
    BY <2>2 DEF Phase
  <2> QED BY <1>1, <1>2, <2>1, <2>2, <2>3, ClientInv DEF ClientStep
<1> QED BY <1>3, <1>4

LEMMA RequestFields ==
  ASSUME NEW r \in PipeType, NEW s \in Requests
  PROVE  LET q == [r EXCEPT !.request = s]
         IN  /\ q \in PipeType /\ q.by = r.by /\ q.open = r.open /\ q.state = r.state
             /\ q.responses = r.responses
BY DEF PipeType, Requests

LEMMA AsksStep ==
  ASSUME Inv, NEW c \in Clients, Asks(c)
  PROVE  Inv'
<1>1. /\ TypeOK /\ client \in [Clients -> ClientType] /\ client[c].pc = "prompt" /\ ClientFrame
      /\ pipe \in [Pipes -> PipeType] /\ client[c] \in ClientType /\ client[c].pipe \in Pipes
  BY DEF Asks, Inv, TypeOK
<1>2. PICK p \in Pipes : p = client[c].pipe
  BY <1>1
<1> DEFINE n == client[c].asked + 1
           k == [client[c] EXCEPT !.pc = "receive", !.asked = n, !.printed = <<>>]
<1>3. n \in Nat
  BY <1>1, ClientFields
<1>4. client' = [client EXCEPT ![c] = k]
  BY <1>1 DEF Asks, Client
<1> HIDE DEF n
<1>5. k \in ClientType /\ k.pc = "receive" /\ k.pipe = p /\ k.printed = <<>>
  BY <1>1, <1>2, <1>3, ClientAsks
<1> HIDE DEF k
<1>6. client'[c] = k /\ \A d \in Clients \ {c} : client'[d] = client[d]
  BY <1>1, <1>4
<1>7. PICK s \in Requests : pipe' = IF Open(c) THEN [pipe EXCEPT ![p].request = s] ELSE pipe
  BY <1>2 DEF Asks, Requests
<1>8. PICK v \in PipeType :
        /\ v.by = pipe[p].by /\ v.open = pipe[p].open /\ v.state = pipe[p].state /\ v.responses = pipe[p].responses
        /\ pipe' = [pipe EXCEPT ![p] = v]
        /\ ~Open(c) => v = pipe[p]
  <2>1. CASE Open(c)
    BY <1>1, <1>7, <2>1, RequestFields
  <2>2. CASE ~Open(c)
    BY <1>1, <1>7, <2>2
  <2> QED BY <2>1, <2>2
<1>9. pipe'[p] = v /\ \A r \in Pipes \ {p} : pipe'[r] = pipe[r]
  BY <1>1, <1>8
<1>10. Phase(c)'
  <2>1. PhaseOf(c, Own(c), client[c], pipe[p], output[c], Serving(p), ~CompletionPort, Running)
    BY <1>1, <1>2 DEF Inv, Phase
  <2>2. PhaseOf(c, Own(c)', k, v, output[c], Serving(p), ~CompletionPort, Running)
    BY <1>1, <1>5, <1>8, <2>1, PhaseAsks
  <2>3. output' = output /\ Serving(p)' = Serving(p) /\ program' = program /\ process' = process
    BY <1>1, ServingSame DEF ClientFrame, build
  <2> QED BY <1>5, <1>6, <1>9, <2>2, <2>3 DEF Phase, CompletionPort, Running
<1>11. ASSUME NEW q \in Pipes
       PROVE  /\ pipe'[q] = pipe[q] \/ pipe'[q].by = c
              /\ pipe'[q].open /\ pipe'[q].by = c => q = p
              /\ pipe'[q] # pipe[q] => pipe'[q].state = "connected" /\ pipe[q].state = "connected"
  <2>1. Held(q)
    BY DEF Inv
  <2>2. CASE q = p
    BY <1>2, <1>8, <1>9, <2>2 DEF Open, Connected
  <2>3. CASE q # p
    BY <1>2, <1>9, <2>1, <2>3 DEF Held
  <2> QED BY <2>2, <2>3
<1>12. ASSUME ~Running, NEW q \in Pipes PROVE pipe'[q] = pipe[q]
  <2>1. PipeOK(q)
    BY DEF Inv, ControlInv
  <2> QED BY <1>11, <1>12, <2>1, <1>8, <1>9 DEF PipeOK
<1> QED BY <1>1, <1>5, <1>6, <1>10, <1>11, <1>12, ClientInv DEF ClientStep

LEMMA ClosedFields ==
  ASSUME NEW r \in PipeType
  PROVE  LET q == [r EXCEPT !.open = FALSE, !.responses = <<>>]
         IN  q \in PipeType /\ q.by = r.by /\ ~q.open /\ q.state = r.state /\ q.request = r.request
BY EmptySeq DEF PipeType

LEMMA ClosesStep ==
  ASSUME Inv, NEW c \in Clients, client[c].pc \in {"prompt", "receive"}, Closes(c), ClientStep(c) \/ ClientKilled(c)
  PROVE  Inv'
<1>1. /\ TypeOK /\ client \in [Clients -> ClientType] /\ ClientFrame
      /\ pipe \in [Pipes -> PipeType] /\ client[c].pipe \in Pipes
  BY DEF Closes, Inv, TypeOK
<1>2. PICK p \in Pipes : p = client[c].pipe
  BY <1>1
<1>3. client'[c].pc = "ended" /\ \A d \in Clients \ {c} : client'[d] = client[d]
  BY <1>1 DEF Closes, Client, NoClient
<1> DEFINE v == [pipe[p] EXCEPT !.open = FALSE, !.responses = <<>>]
<1>4. v.by = pipe[p].by /\ ~v.open /\ v.state = pipe[p].state /\ v.request = pipe[p].request
  BY <1>1, ClosedFields
<1>5. pipe' = IF pipe[p].by = c THEN [pipe EXCEPT ![p] = v] ELSE pipe
  BY <1>2 DEF Closes
<1> HIDE DEF v
<1>6. ASSUME NEW q \in Pipes
      PROVE  /\ pipe'[q] = pipe[q] \/ (q = p /\ pipe'[q] = v /\ pipe[q].by = c)
             /\ ~(pipe'[q].open /\ pipe'[q].by = c)
  <2>1. Held(q)
    BY DEF Inv
  <2> QED BY <1>1, <1>2, <1>4, <1>5, <2>1 DEF Held
<1>7. ASSUME NEW q \in Pipes, pipe'[q] # pipe[q], Running
      PROVE  pipe'[q].state = "connected" /\ pipe[q].state # "none"
  <2>1. PipeOK(q) /\ NULL # c
    BY Ranges DEF Inv, ControlInv
  <2> QED BY <1>4, <1>6, <1>7, <2>1 DEF PipeOK, Clean
<1>8. Phase(c)'
  BY <1>3 DEF Phase
<1> QED BY <1>1, <1>3, <1>4, <1>6, <1>7, <1>8, ClientInv

LEMMA TailFields ==
  ASSUME NEW r \in PipeType, r.responses # <<>>
  PROVE  LET q == [r EXCEPT !.responses = Tail(@)]
         IN  /\ q \in PipeType /\ q.by = r.by /\ q.open = r.open /\ q.state = r.state /\ q.request = r.request
             /\ q.responses = Tail(r.responses)
<1> DEFINE s == r.responses
           x == Tail(s)
           q == [r EXCEPT !.responses = x]
<1>1. s \in Seq(Response) /\ s # <<>>
  BY DEF PipeType
<1>2. x \in Seq(Response)
  <2> HIDE DEF s
  <2> QED BY <1>1
<1> HIDE DEF x
<1>3. /\ q \in PipeType /\ q.by = r.by /\ q.open = r.open /\ q.state = r.state /\ q.request = r.request
      /\ q.responses = x
  BY <1>2 DEF PipeType
<1> QED BY <1>3 DEF x

LEMMA ReadsClient ==
  ASSUME Inv, NEW c \in Clients, Reads(c)
  PROVE  Inv'
<1>1. /\ TypeOK /\ client \in [Clients -> ClientType] /\ client[c].pc = "receive" /\ ClientFrame
      /\ pipe \in [Pipes -> PipeType] /\ client[c] \in ClientType /\ client[c].pipe \in Pipes
  BY DEF Reads, Inv, TypeOK
<1>2. PICK p \in Pipes : p = client[c].pipe
  BY <1>1
<1>3. PhaseOf(c, Own(c), client[c], pipe[p], output[c], Serving(p), ~CompletionPort, Running)
  BY <1>1, <1>2 DEF Inv, Phase
<1>4. /\ output' = output /\ Serving(p)' = Serving(p) /\ program' = program /\ process' = process
      /\ pipe[p] \in PipeType
  BY <1>1, ServingSame DEF ClientFrame, build
<1>5. CASE pipe[p].by = c /\ pipe[p].responses # <<>>
  <2> DEFINE r == Head(pipe[p].responses)
             w == Append(client[c].printed, r.line)
             v == [pipe[p] EXCEPT !.responses = Tail(@)]
             k == IF r.end THEN [client[c] EXCEPT !.pc = "prompt"] ELSE [client[c] EXCEPT !.printed = w]
  <2>1. client' = [client EXCEPT ![c] = k] /\ pipe' = [pipe EXCEPT ![p] = v]
    BY <1>1, <1>2, <1>5 DEF Reads, Client
  <2>2. /\ v \in PipeType /\ v.by = pipe[p].by /\ v.open = pipe[p].open /\ v.state = pipe[p].state
        /\ v.request = pipe[p].request /\ v.responses = Tail(pipe[p].responses)
    BY <1>4, <1>5, TailFields
  <2>3. w \in Seq(Text)
    <3>1. pipe[p].responses \in Seq(Response)
      BY <1>4 DEF PipeType
    <3>2. r \in Response
      BY <1>5, <3>1
    <3>3. r.line \in Text
      BY <3>2 DEF Response
    <3>4. client[c].printed \in Seq(Text)
      BY <1>1, ClientFields
    <3> HIDE DEF r
    <3> QED BY <3>3, <3>4
  <2> HIDE DEF w, v
  <2>4. /\ k \in ClientType /\ k.pipe = p /\ k.asked = client[c].asked
        /\ IF r.end THEN k.pc = "prompt" ELSE k.pc = "receive" /\ k.printed = w
    <3>1. CASE r.end
      <4>1. k = [client[c] EXCEPT !.pc = "prompt"]
        BY <3>1
      <4> HIDE DEF k, r
      <4> QED BY <1>1, <1>2, <3>1, <4>1, ClientTo
    <3>2. CASE ~r.end
      <4>1. k = [client[c] EXCEPT !.printed = w]
        BY <3>2
      <4> HIDE DEF k, r
      <4> QED BY <1>1, <1>2, <2>3, <3>2, <4>1, ClientPrints
    <3> QED BY <3>1, <3>2
  <2> HIDE DEF k
  <2>5. client'[c] = k /\ \A d \in Clients \ {c} : client'[d] = client[d]
    BY <1>1, <2>1
  <2>6. pipe'[p] = v /\ \A q \in Pipes \ {p} : pipe'[q] = pipe[q]
    BY <1>1, <2>1
  <2>7. IF Head(pipe[p].responses).end THEN k.pc = "prompt"
        ELSE k.pc = "receive" /\ k.printed = Append(client[c].printed, Head(pipe[p].responses).line)
    BY <2>4 DEF w
  <2>8. Phase(c)'
    <3>1. PhaseOf(c, Own(c), k, v, output[c], Serving(p), ~CompletionPort, Running)
      BY <1>1, <1>3, <1>4, <1>5, <2>2, <2>4, <2>7, PhaseReads
    <3>2. Own(c)' = Own(c)
      BY <2>4, <2>5 DEF Own
    <3> QED BY <1>4, <2>4, <2>5, <2>6, <3>1, <3>2 DEF Phase, CompletionPort, Running
  <2>9. ASSUME NEW q \in Pipes
        PROVE  /\ pipe'[q] = pipe[q] \/ pipe'[q].by = c
               /\ pipe'[q].open /\ pipe'[q].by = c => q = p
               /\ pipe'[q].state = pipe[q].state /\ pipe'[q].request = pipe[q].request
    <3>1. Held(q)
      BY DEF Inv
    <3> QED BY <1>2, <1>5, <2>2, <2>6, <3>1 DEF Held
  <2>10. ASSUME Running PROVE pipe[p].state = "connected"
    <3>1. PipeOK(p) /\ NULL # c
      BY Ranges DEF Inv, ControlInv
    <3> QED BY <1>5, <2>10, <3>1 DEF PipeOK, Clean
  <2>11. k.pc \in {"prompt", "receive"}
    BY <2>4
  <2> QED BY <1>1, <2>4, <2>5, <2>6, <2>8, <2>9, <2>10, <2>11, ClientInv DEF ClientStep
<1>6. CASE ~(pipe[p].by = c /\ pipe[p].responses # <<>>)
  <2> DEFINE k == [client[c] EXCEPT !.pc = "prompt"]
  <2>1. client' = [client EXCEPT ![c] = k] /\ pipe' = pipe /\ ~Open(c)
    BY <1>1, <1>2, <1>6 DEF Reads, Client
  <2>2. k \in ClientType /\ k.pipe = p /\ k.asked = client[c].asked /\ k.pc = "prompt"
    BY <1>1, <1>2, ClientTo
  <2> HIDE DEF k
  <2>3. client'[c] = k /\ \A d \in Clients \ {c} : client'[d] = client[d]
    BY <1>1, <2>1
  <2>4. Phase(c)'
    <3>1. CASE pipe[p].by = c
      <4>1. Mine(c) /\ TypeOK /\ ControlInv
        BY <1>1, <1>2, <3>1 DEF Mine, Inv
      <4>2. ~Running
        BY <1>2, <2>1, <3>1, <4>1, MineConnected DEF Open
      <4>3. \A t \in Pipes : PipeOK(t)
        BY <4>1 DEF ControlInv
      <4>4. Serving(p) = {} /\ pipe[p].request = "" /\ pipe[p].responses = <<>> /\ pipe[p].open
        <5>1. \A t \in Pipes : ~Serves(t, p)
          BY <4>2, <4>3 DEF PipeOK, Serves, Busy
        <5>2. pipe[p].open
          BY <1>1, <1>3, <3>1 DEF PhaseOf
        <5> QED BY <1>6, <3>1, <4>2, <4>3, <5>1, <5>2 DEF Serving, PipeOK
      <4>5. PhaseOf(c, Own(c)', k, pipe[p], output'[c], {}, ~CompletionPort', Running')
        BY <1>4, <2>2, <4>4, PhaseOpens
      <4> QED BY <1>4, <2>1, <2>2, <2>3, <4>4, <4>5 DEF Phase
    <3>2. CASE pipe[p].by # c
      BY <2>1, <2>2, <2>3, <3>2 DEF Phase, PhaseOf
    <3> QED BY <3>1, <3>2
  <2>5. ASSUME NEW q \in Pipes PROVE pipe'[q].open /\ pipe'[q].by = c => q = p
    BY <1>2, <2>1 DEF Inv, Held
  <2> QED BY <1>1, <2>1, <2>2, <2>3, <2>4, <2>5, ClientInv DEF ClientStep
<1> QED BY <1>5, <1>6

-----------------------------------------------------------------------------
(* Every step.                                                             *)

LEMMA RespondsStep ==
  ASSUME Inv, Running, NEW t \in Pipes, Responds(t)
  PROVE  Inv'
<1>1. CASE CommandEnds(t)
  BY <1>1, BusyAt, CommandStep DEF CommandEnds, Busy
<1>2. CASE SendsLine(t)
  BY <1>2, LineStep
<1>3. CASE SendsEnd(t)
  BY <1>3, EndStep
<1>4. CASE OpenFails(t)
  BY <1>4, DiesStep DEF OpenFails
<1> QED BY <1>1, <1>2, <1>3, <1>4 DEF Responds

LEMMA ServerStep ==
  ASSUME Inv, NEW t \in Pipes, Server(t)
  PROVE  Inv'
<1>1. CASE serverNP(t)
  BY <1>1, QuietNP, ConnectsStep, ReadsStep, StoresStep, RespondsStep, DisconnectsStep, ForcesStep DEF serverNP
<1>2. CASE serverSM(t)
  <2>1. Running /\ program = "serverSM"
    BY <1>2 DEF serverSM
  <2>2. CASE ConnectsAndWaits(t) \/ ClosesPipe(t)
    BY <2>1, <2>2, PipesSM
  <2>3. CASE WaitReturns(t) \/ FlushesReply(t) \/ (OpensFile(t) /\ Quiet)
    BY <2>1, <2>3, QuietSM
  <2>7. CASE OpensFile(t) /\ ~Quiet
    BY <2>1, <2>7, DiesStep DEF OpensFile
  <2>4. CASE ReadsOrReconnects(t)
    BY <2>1, <2>4, ReadsSM
  <2>5. CASE LimitsReady(t)
    BY <2>1, <2>5, LimitsStep
  <2>6. CASE Responds(t)
    BY <2>1, <2>6, RespondsStep
  <2> QED BY <1>2, <2>2, <2>3, <2>4, <2>5, <2>6, <2>7 DEF serverSM
<1>3. CASE serverNPCP(t)
  <2>1. Running /\ CompletionPort
    BY <1>3 DEF serverNPCP
  <2>2. CASE TestsFlag(t)
    BY <2>1, <2>2, QuietCP
  <2>3. CASE GetsCompletion(t)
    BY <2>1, <2>3, GetsStep, RequestCP DEF GetsCompletion
  <2>4. CASE ReadsAgain(t)
    BY <2>1, <2>4, AgainStep
  <2>5. CASE Responds(t)
    BY <2>1, <2>5, RespondsStep
  <2>6. CASE EndsThread(t)
    BY <2>1, <2>6, EndsStep
  <2>7. CASE StoresFlag(t)
    BY <2>1, <2>7, StoresStep
  <2> QED BY <1>3, <2>2, <2>3, <2>4, <2>5, <2>6, <2>7 DEF serverNPCP
<1> QED BY <1>1, <1>2, <1>3 DEF Server

LEMMA ClientsStep ==
  ASSUME Inv, NEW c \in Clients, ClientStep(c) \/ ClientKilled(c)
  PROVE  Inv'
<1>1. CASE WaitNamedPipe(c)
  BY <1>1, WaitStep
<1>2. CASE OpensPipe(c)
  BY <1>2, OpensStep
<1>3. CASE Asks(c)
  BY <1>3, AsksStep
<1>4. CASE Quits(c)
  BY <1>4, ClosesStep DEF Quits, ClientStep
<1>5. CASE Reads(c)
  BY <1>5, ReadsClient
<1>6. CASE ClientKilled(c)
  BY <1>6, ClosesStep DEF ClientKilled
<1> QED BY <1>1, <1>2, <1>3, <1>4, <1>5, <1>6 DEF ClientStep

LEMMA InvInit == Init => Inv
<1> SUFFICES ASSUME Init PROVE Inv
  OBVIOUS
<1>1. TypeOK
  BY InitTyped
<1>2. /\ NoThread.pc = "none" /\ NoThread.temp = <<>> /\ NoThread.hConTh = "none"
      /\ NoPipe.state = "none" /\ NoPipe.by = NULL /\ ~NoPipe.open /\ NoPipe.request = ""
      /\ NoPipe.responses = <<>>
  BY DEF NoThread, NoPipe
<1>3. /\ \A t \in Pipes : thread[t] = NoThread
      /\ \A p \in Pipes : pipe[p] = NoPipe /\ Key[p].Type = 0
      /\ \A c \in Clients : client[c].pc = "locate"
      /\ Running /\ main.pc = "create" /\ main.i = 1
  BY DEF Init, Running, NoClient
<1>4. ControlInv
  <2>1. MainOK
    BY <1>2, <1>3, Ranges DEF MainOK, Pipes
  <2>2. ASSUME NEW t \in Pipes PROVE ThreadOK(t) /\ ThreadNP(t) /\ ThreadSM(t) /\ ThreadCP(t)
    BY <1>2, <1>3 DEF ThreadOK, ThreadNP, Talking, ThreadSM, ThreadCP
  <2>3. ASSUME NEW p \in Pipes PROVE KeyOK(p) /\ PipeOK(p)
    <3>1. \A t \in Pipes : ~Works(t, p)
      BY <1>2, <1>3 DEF Works
    <3>2. KeyOK(p)
      BY <1>3, <3>1 DEF KeyOK
    <3>3. PipeOK(p)
      BY <1>2, <1>3 DEF PipeOK, Clean
    <3> QED BY <3>2, <3>3
  <2> QED BY <2>1, <2>2, <2>3 DEF ControlInv
<1>5. \A p \in Pipes : Held(p)
  BY <1>2, <1>3 DEF Held
<1>6. \A c \in Clients : Phase(c)
  BY <1>3 DEF Phase
<1> QED BY <1>1, <1>4, <1>5, <1>6 DEF Inv

LEMMA InvStutter == Inv /\ UNCHANGED vars => Inv'
<1> SUFFICES ASSUME Inv, UNCHANGED vars PROVE Inv'
  OBVIOUS
<1>1. /\ program' = program /\ nThreads' = nThreads /\ process' = process /\ ShutDown' = ShutDown
      /\ main' = main /\ thread' = thread /\ Key' = Key /\ pipe' = pipe /\ output' = output
      /\ client' = client
  BY DEF vars, build, control
<1>2. TypeOK'
  BY <1>1 DEF Inv, TypeOK
<1>3. ControlInv'
  <2>1. Running' = Running /\ CompletionPort' = CompletionPort
    BY <1>1 DEF Running, CompletionPort
  <2>2. ASSUME NEW p \in Pipes
        PROVE  /\ Usable(p)' = Usable(p) /\ Clean(p)' = Clean(p)
               /\ \A t \in Pipes : Works(t, p)' = Works(t, p)
    BY <1>1 DEF Usable, Clean, Works
  <2>3. MainOK'
    BY <1>1, <2>1 DEF Inv, ControlInv, MainOK
  <2>4. ASSUME NEW t \in Pipes PROVE (ThreadOK(t) /\ ThreadNP(t) /\ ThreadSM(t) /\ ThreadCP(t))'
    <3>1. ThreadOK(t) /\ ThreadNP(t) /\ ThreadSM(t) /\ ThreadCP(t)
      BY DEF Inv, ControlInv
    <3>2. ThreadOK(t)'
      BY <1>1, <2>1, <3>1 DEF ThreadOK
    <3>3. ThreadNP(t)' /\ ThreadSM(t)'
      BY <1>1, <2>2, <3>1 DEF ThreadNP, ThreadSM
    <3>4. ThreadCP(t)'
      BY <1>1, <3>1 DEF ThreadCP
    <3> QED BY <3>2, <3>3, <3>4
  <2>5. ASSUME NEW p \in Pipes PROVE KeyOK(p)' /\ PipeOK(p)'
    <3>1. KeyOK(p) /\ PipeOK(p)
      BY DEF Inv, ControlInv
    <3>2. KeyOK(p)'
      BY <1>1, <2>1, <2>2, <3>1 DEF KeyOK
    <3>3. PipeOK(p)'
      BY <1>1, <2>1, <2>2, <3>1 DEF PipeOK
    <3> QED BY <3>2, <3>3
  <2> QED BY <2>3, <2>4, <2>5 DEF ControlInv
<1>4. ASSUME NEW p \in Pipes PROVE Held(p)'
  BY <1>1 DEF Inv, Held
<1>5. ASSUME NEW c \in Clients PROVE Phase(c)'
  <2>1. Serving(client[c].pipe)' = Serving(client[c].pipe)
    BY <1>1 DEF Serving, Serves
  <2>2. Phase(c)
    BY DEF Inv
  <2> QED BY <1>1, <2>1, <2>2 DEF Phase, Own, CompletionPort, Running
<1> QED BY <1>2, <1>3, <1>4, <1>5 DEF Inv

LEMMA InvNext == Inv /\ [Next]_vars => Inv'
<1> SUFFICES ASSUME Inv, [Next]_vars PROVE Inv'
  OBVIOUS
<1>1. CASE Main
  BY <1>1, MainStep
<1>2. CASE Handler \/ ServerBroadcast \/ SRVRBCST
  BY <1>2, MonitorStep
<1>3. ASSUME NEW t \in Pipes, Server(t) PROVE Inv'
  BY <1>3, ServerStep
<1>4. ASSUME NEW c \in Clients, ClientStep(c) \/ ClientKilled(c) PROVE Inv'
  BY <1>4, ClientsStep
<1>5. CASE UNCHANGED vars
  BY <1>5, InvStutter
<1> QED BY <1>1, <1>2, <1>3, <1>4, <1>5 DEF Next

-----------------------------------------------------------------------------
(* The end of the response stands at the head: all of it has been printed. *)
LEMMA AllPrinted ==
  ASSUME NEW x, NEW k \in ClientType, NEW q \in PipeType, NEW o \in Seq(Text), NEW S, NEW live,
         OwnText(x, k.printed), q.responses # <<>>, Head(q.responses).end,
         \/ Unanswered(k, q, S) \/ Answering(x, k, q, o, S, TRUE) \/ Answered(x, k, q, o, S, TRUE)
         \/ Cut(x, q, live)
  PROVE  k.printed = o
<1> DEFINE s == q.responses
           n == Len(s)
           w == k.printed
           a == Len(w)
           b == Len(o)
<1>1. s \in Seq(Response) /\ w \in Seq(Text)
  BY ClientFields DEF PipeType
<1>2. n \in Nat /\ n >= 1 /\ s[1].end /\ a \in Nat /\ b \in Nat
  <2> HIDE DEF s, w
  <2>1. s # <<>> /\ Head(s).end
    BY DEF s
  <2> QED BY <1>1, <2>1
<1>3. \A m \in Nat : Plain(x, s, m) => m < 1
  <2> HIDE DEF s, n
  <2> QED BY <1>2 DEF Plain
<1>4. Answered(x, k, q, o, S, TRUE)
  <2>1. ~Plain(x, s, n)
    <3> HIDE DEF s, n
    <3> QED BY <1>2, <1>3
  <2> QED BY <2>1, <1>2 DEF Unanswered, Answering, Cut
<1>5. OwnText(x, o) /\ Plain(x, s, n - 1) /\ a + n = b + 1
  BY <1>4 DEF Answered
<1>6. n = 1 /\ a = b
  <2> HIDE DEF s, n, a, b
  <2> QED BY <1>2, <1>3, <1>5
<1>7. \A i \in 1 .. a : w[i] = x /\ o[i] = x
  BY <1>5, <1>6 DEF OwnText
<1>8. Len(w) = Len(o)
  BY <1>6
<1> HIDE DEF w, b
<1> QED BY <1>1, <1>7, <1>8, SeqEqual DEF w

LEMMA InvPrinted == Inv => PrintedIsOwn
<1> SUFFICES ASSUME Inv, NEW c \in Clients, client[c].pc = "receive"
             PROVE  /\ \A i \in DOMAIN client[c].printed : client[c].printed[i] = <<c, client[c].asked>>
                    /\ pipe[client[c].pipe].by = c /\ pipe[client[c].pipe].responses # <<>>
                         /\ Head(pipe[client[c].pipe].responses).end /\ ~CompletionPort
                       => client[c].printed = output[c]
  BY DEF PrintedIsOwn
<1>1. client[c] \in ClientType /\ client[c].pipe \in Pipes /\ output[c] \in Seq(Text)
  BY DEF Inv, TypeOK
<1>2. PICK p \in Pipes : p = client[c].pipe
  BY <1>1
<1>3. pipe[p] \in PipeType
  BY DEF Inv, TypeOK
<1>4. PhaseOf(c, Own(c), client[c], pipe[p], output[c], Serving(p), ~CompletionPort, Running)
  BY <1>2 DEF Inv, Phase
<1>5. OwnText(Own(c), client[c].printed)
  BY <1>4 DEF PhaseOf
<1>6. \A i \in DOMAIN client[c].printed : client[c].printed[i] = <<c, client[c].asked>>
  <2>1. client[c].printed \in Seq(Text)
    BY <1>1, ClientFields
  <2> QED BY <1>5, <2>1 DEF OwnText, Own
<1>7. ASSUME pipe[p].by = c, pipe[p].responses # <<>>, Head(pipe[p].responses).end, ~CompletionPort
      PROVE  client[c].printed = output[c]
  <2>1. \/ Unanswered(client[c], pipe[p], Serving(p))
        \/ Answering(Own(c), client[c], pipe[p], output[c], Serving(p), TRUE)
        \/ Answered(Own(c), client[c], pipe[p], output[c], Serving(p), TRUE)
        \/ Cut(Own(c), pipe[p], Running)
    BY <1>4, <1>7 DEF PhaseOf, Answering, Answered
  <2> QED BY <1>1, <1>3, <1>5, <1>7, <2>1, AllPrinted
<1> QED BY <1>2, <1>6, <1>7

-----------------------------------------------------------------------------
(* In every reachable state the servers, the instances and the clients     *)
(* hold values of their kinds, and a client that talks to a server does so *)
(* over an instance that exists.                                           *)
THEOREM TypeCorrect == Spec => []TypeOK
<1>1. Inv => TypeOK
  BY DEF Inv
<1> QED BY <1>1, InvInit, InvNext, PTL DEF Spec

(* What a client prints of a response was written by its own command, by   *)
(* whichever of the servers, instance and thread it is served: serverNP    *)
(* and serverSM hand an instance and its temporary file on only when the   *)
(* client that was served has gone, and serverNPCP has one call at a time  *)
(* pending for an instance.  When the end of the response arrives, all of  *)
(* it has been printed, except in serverNPCP.                              *)
THEOREM Printed == Spec => []PrintedIsOwn
BY InvInit, InvNext, InvPrinted, PTL DEF Spec
=============================================================================
