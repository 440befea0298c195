------------------------- MODULE SocketServerProofs -------------------------
(***************************************************************************)
(* Theorems about the servers over sockets, for every number of clients,   *)
(* slots, handle values, commands and lines, every set of failing calls    *)
(* and of killed clients, and all four programs.                           *)
(***************************************************************************)
EXTENDS SocketMessages, SequenceTheorems, FiniteSetTheorems, WellFoundedInduction, TLAPS

(***************************************************************************)
(* Types.                                                                  *)
(***************************************************************************)

Text == (Clients \X Nat) \cup {<<>>}
Requests == {"", "command", "$Quit", "$ShutDownServer", "$ShutFlagServer", "other"}

MainType ==
  [pc : {"while", "for", "join", "begin", "poll", "shutdown", "last"}, ith : 0 .. MAX_CLIENTS,
   hAcceptTh : HandleValues \cup {NULL}]
AcceptType ==
  [pc : {"ended", "accept", "begin", "store"}, slot : Slots, of : Clients \cup {Accept},
   thd : HandleValues \cup {NULL}]
ServerType ==
  [pc : {"none", "begin", "receive", "execute", "send", "close", "shut down", "flag", "ended"},
   slot : Slots, record : Requests, read : Nat]
SlotType == [status : 0 .. 3, srv_thd : HandleValues \cup {NULL}]
ClientType ==
  [pc : {"start", "prompt", "receive", "spins", "ended"}, asked : Nat, quits : BOOLEAN,
   last : {"noise", "more", "last"}, printed : Seq(Text)]
Response == [end : BOOLEAN, line : Text]
NetType ==
  [state : {"none", "backlog", "open"}, request : Requests, cut : BOOLEAN,
   responses : Seq(Response), client : BOOLEAN, server : BOOLEAN]

TypeOK ==
  /\ build \in Builds
  /\ process \in {"running", "ended", "crashed"} /\ ShutFlag \in BOOLEAN
  /\ main \in MainType
  /\ main.pc \in {"for", "join", "begin", "poll"} => main.ith \in Slots
  /\ accept \in AcceptType
  /\ accept.pc \in {"begin", "store"} => accept.of \in Clients
  /\ accept.pc = "store" => accept.thd \in HandleValues
  /\ server \in [Clients -> ServerType]
  /\ srv_arg \in [Slots -> SlotType]
  /\ handles \in [HandleValues -> Clients \cup {Accept, Closed}]
  /\ temp \in [Slots -> Seq(Text)]
  /\ output \in [Clients -> Seq(Text)]
  /\ client \in [Clients -> ClientType]
  /\ net \in [Clients -> NetType]

-----------------------------------------------------------------------------
(* Who is there: the main and the accept thread, and the connections.      *)
ThreadsInv ==
  /\ main.pc \in {"shutdown", "last"} => ShutFlag
  /\ main.pc = "poll" => main.hAcceptTh \in HandleValues /\ handles[main.hAcceptTh] = Accept
  /\ accept.pc = "begin" => net[accept.of].state = "open" /\ server[accept.of].pc = "none"
  /\ accept.pc = "store" => server[accept.of].pc # "none"
  /\ \A c \in Clients : net[c].state # "open" => server[c].pc = "none"
  /\ \A c \in Clients : client[c].pc = "start" => net[c].state = "none"
  /\ \A c \in Clients : ~net[c].server =>
       server[c].pc \in IF Running THEN {"shut down", "flag", "ended"} ELSE {"none"}

Live(c) == server[c].pc \notin {"none", "ended"}

Active(c) == server[c].pc \in {"receive", "execute", "send"}

(* Two threads that execute requests have two slots, to the end.           *)
SlotsDiffer ==
  \A c, d \in Clients : c # d /\ Active(c) /\ Active(d) => server[c].slot # server[d].slot

(* Before a shutdown, and as long as main() waits for a thread that has    *)
(* stopped: a slot has one live thread, its status says how far the thread *)
(* is, and its handle refers to it.                                        *)
Early == Running /\ (~ShutFlag \/ main.pc = "join")

Status(c) ==
  IF server[c].pc = "shut down" THEN 1 ELSE IF server[c].pc = "flag" THEN 3 ELSE 2

Storing(c) == accept.pc = "store" /\ accept.of = c

HandleOf(i, c) == srv_arg[i].srv_thd \in HandleValues /\ handles[srv_arg[i].srv_thd] = c

Stopped(i) ==
  \E c \in Clients :
    /\ HandleOf(i, c) /\ server[c].slot = i /\ server[c].pc \in {"shut down", "flag", "ended"}

LiveInv(c) ==
  Live(c) =>
    /\ srv_arg[server[c].slot].status = Status(c)
    /\ ~Storing(c) => HandleOf(server[c].slot, c)
    /\ \A d \in Clients \ {c} : Live(d) => server[d].slot # server[c].slot

SlotInv(i) ==
  srv_arg[i].status \in {1, 3} /\ ~(accept.pc = "store" /\ accept.slot = i) => Stopped(i)

AcceptInv ==
  /\ accept.pc # "ended" => main.pc = "poll"
  /\ accept.pc = "accept" => srv_arg[accept.slot].status = 0
  /\ accept.pc = "begin" =>
       /\ srv_arg[accept.slot].status = 2
       /\ \A c \in Clients : Live(c) => server[c].slot # accept.slot
  /\ accept.pc = "store" =>
       /\ server[accept.of].slot = accept.slot /\ handles[accept.thd] = accept.of
       /\ \A c \in Clients : Live(c) /\ server[c].slot = accept.slot => c = accept.of
       /\ srv_arg[accept.slot].status # 0
       /\ ~Live(accept.of) => server[accept.of].pc = "ended"
  /\ main.pc = "begin" => srv_arg[main.ith].status = 0
  /\ main.pc = "join" => srv_arg[main.ith].status \in {1, 3}

TableInv ==
  Early => AcceptInv /\ (\A c \in Clients : LiveInv(c)) /\ (\A i \in Slots : SlotInv(i))

-----------------------------------------------------------------------------
(* What a client that waits for a response has printed, what is on its     *)
(* way and what its thread has still to send.                              *)
OwnText(x, s) == \A i \in 1 .. Len(s) : s[i] = x
Plain(x, s, n) == \A i \in 1 .. n : ~s[i].end /\ s[i].line = x

Unanswered(k, n, s) ==
  /\ k.printed = <<>> /\ n.responses = <<>>
  /\ s.pc # "send" /\ (s.pc = "execute" => n.request = "")

Answering(x, k, n, o, s, f) ==
  /\ s.pc = "send" /\ n.request = ""
  /\ OwnText(x, o) /\ OwnText(x, f) /\ Len(f) = Len(o)
  /\ Plain(x, n.responses, Len(n.responses))
  /\ s.read = Len(k.printed) + Len(n.responses) /\ s.read <= Len(f)

Answered(x, k, n, o, s) ==
  LET m == Len(n.responses)
  IN  /\ s.pc \notin {"execute", "send"} /\ n.request = "" /\ OwnText(x, o)
      /\ m > 0 /\ n.responses[m].end /\ Plain(x, n.responses, m - 1)
      /\ Len(k.printed) + m = Len(o) + 1

Cut(x, n, s) ==
  /\ s.pc \notin {"execute", "send"} /\ n.request = "" /\ ~n.server
  /\ Plain(x, n.responses, Len(n.responses))

PhaseOf(x, k, n, o, s, f) ==
  /\ ~n.server => n.request = ""
  /\ k.pc \in {"start", "prompt", "receive"} => n.client
  /\ k.pc \in {"start", "prompt"} =>
       n.responses = <<>> /\ n.request = "" /\ s.pc \notin {"execute", "send"}
  /\ k.pc = "receive" =>
       /\ OwnText(x, k.printed)
       /\ \/ Unanswered(k, n, s) \/ Answering(x, k, n, o, s, f)
          \/ Answered(x, k, n, o, s) \/ Cut(x, n, s)

Phase(c) ==
  PhaseOf(Line(c), client[c], net[c], output[c], server[c], temp[server[c].slot])

Inv ==
  /\ TypeOK /\ ThreadsInv /\ SlotsDiffer /\ TableInv
  /\ process # "crashed" => \A c \in Clients : Phase(c)

-----------------------------------------------------------------------------
(* Values.                                                                 *)
LEMMA Marks ==
  /\ NULL \notin HandleValues /\ Accept \notin Clients /\ Closed \notin Clients /\ Closed # Accept
  /\ 0 \in Slots /\ MAX_CLIENTS \in Nat \ {0} /\ Slots \subseteq 0 .. MAX_CLIENTS /\ Slots \subseteq Nat
BY SocketServerAssumption DEF Slots

LEMMA EmptySeqs == <<>> \in Seq(Text) /\ <<>> \in Seq(Response) /\ Len(<<>>) = 0
OBVIOUS

Stages == {"none", "begin", "receive", "execute", "send", "close", "shut down", "flag", "ended"}

LEMMA ServerFields ==
  ASSUME NEW r \in ServerType
  PROVE  r.pc \in Stages /\ r.slot \in Slots /\ r.record \in Requests /\ r.read \in Nat
BY DEF ServerType, Stages

LEMMA ServerTo ==
  ASSUME NEW r \in ServerType, NEW pc \in Stages
  PROVE  LET q == [r EXCEPT !.pc = pc]
         IN  q \in ServerType /\ q.pc = pc /\ q.slot = r.slot /\ q.record = r.record /\ q.read = r.read
BY DEF ServerType, Stages

LEMMA NetFields ==
  ASSUME NEW r \in NetType
  PROVE  /\ r.state \in {"none", "backlog", "open"} /\ r.request \in Requests /\ r.responses \in Seq(Response)
BY DEF NetType

LEMMA NetState ==
  ASSUME NEW r \in NetType, NEW s \in {"none", "backlog", "open"}
  PROVE  LET q == [r EXCEPT !.state = s]
         IN  /\ q \in NetType /\ q.state = s /\ q.request = r.request /\ q.cut = r.cut
             /\ q.responses = r.responses /\ q.client = r.client /\ q.server = r.server
BY DEF NetType

LEMMA NetRequest ==
  ASSUME NEW r \in NetType, NEW s \in Requests
  PROVE  LET q == [r EXCEPT !.request = s]
         IN  /\ q \in NetType /\ q.state = r.state /\ q.request = s /\ q.cut = r.cut
             /\ q.responses = r.responses /\ q.client = r.client /\ q.server = r.server
BY DEF NetType

LEMMA NetResponses ==
  ASSUME NEW r \in NetType, NEW s \in Seq(Response)
  PROVE  LET q == [r EXCEPT !.responses = s]
         IN  /\ q \in NetType /\ q.state = r.state /\ q.request = r.request /\ q.cut = r.cut
             /\ q.responses = s /\ q.client = r.client /\ q.server = r.server
BY DEF NetType

LEMMA ClientFields ==
  ASSUME NEW r \in ClientType
  PROVE  /\ r.pc \in {"start", "prompt", "receive", "spins", "ended"} /\ r.asked \in Nat
         /\ r.asked + 1 \in Nat /\ r.printed \in Seq(Text)
BY DEF ClientType

LEMMA GoneTyped == Gone \in ClientType /\ Gone.pc = "ended"
BY EmptySeqs DEF Gone, ClientType

LEMMA SlotTo ==
  ASSUME NEW r \in SlotType
  PROVE  /\ \A n \in 0 .. 3 : LET q == [r EXCEPT !.status = n]
                              IN  q \in SlotType /\ q.status = n /\ q.srv_thd = r.srv_thd
         /\ \A h \in HandleValues \cup {NULL} : LET q == [r EXCEPT !.srv_thd = h]
                              IN  q \in SlotType /\ q.srv_thd = h /\ q.status = r.status
BY DEF SlotType

LEMMA ResponseTyped ==
  ASSUME NEW x \in Text, NEW b \in BOOLEAN
  PROVE  LET r == [end |-> b, line |-> x] IN r \in Response /\ r.end = b /\ r.line = x
BY DEF Response

LEMMA LineTyped ==
  ASSUME TypeOK, NEW c \in Clients
  PROVE  Line(c) \in Text
<1>1. client[c].asked \in Nat
  BY ClientFields DEF TypeOK
<1> QED BY <1>1 DEF Line, Text

LEMMA LinesTyped ==
  ASSUME TypeOK, NEW c \in Clients, NEW n \in Nat
  PROVE  LET s == [i \in 1 .. n |-> Line(c)]
         IN  s \in Seq(Text) /\ Len(s) = n /\ OwnText(Line(c), s)
<1>1. Line(c) \in Text
  BY LineTyped
<1> DEFINE x == Line(c)
<1> HIDE DEF x
<1>2. x \in Text
  BY <1>1 DEF x
<1>3. LET s == [i \in 1 .. n |-> x] IN s \in Seq(Text) /\ Len(s) = n /\ \A i \in 1 .. n : s[i] = x
  BY <1>2
<1> QED BY <1>3 DEF OwnText, x

(* The memory of a process that does not run.                              *)
LEMMA MemoryTyped ==
  /\ Memory.main \in MainType /\ Memory.main.pc = "while"
  /\ Memory.accept \in AcceptType /\ Memory.accept.pc = "ended"
  /\ Memory.server \in [Clients -> ServerType] /\ \A c \in Clients : Memory.server[c].pc = "none"
  /\ Memory.srv_arg \in [Slots -> SlotType] /\ \A i \in Slots : Memory.srv_arg[i].status = 0
  /\ Memory.handles \in [HandleValues -> Clients \cup {Accept, Closed}]
<1>1. 0 \in Slots /\ 0 \in 0 .. MAX_CLIENTS /\ 0 \in 0 .. 3 /\ "" \in Requests
  BY Marks DEF Requests
<1>2. Memory.main \in MainType /\ Memory.main.pc = "while"
  <2> DEFINE m == [pc |-> "while", ith |-> 0, hAcceptTh |-> NULL]
  <2>1. m \in MainType /\ m.pc = "while"
    BY <1>1 DEF MainType
  <2> QED BY <2>1 DEF Memory
<1>3. Memory.accept \in AcceptType /\ Memory.accept.pc = "ended"
  <2> DEFINE m == [pc |-> "ended", slot |-> 0, of |-> Accept, thd |-> NULL]
  <2>1. m \in AcceptType /\ m.pc = "ended"
    BY <1>1 DEF AcceptType
  <2> QED BY <2>1 DEF Memory
<1>4. Memory.server \in [Clients -> ServerType] /\ \A c \in Clients : Memory.server[c].pc = "none"
  <2> DEFINE m == [pc |-> "none", slot |-> 0, record |-> "", read |-> 0]
  <2>1. m \in ServerType /\ m.pc = "none"
    BY <1>1 DEF ServerType
  <2>2. Memory.server = [c \in Clients |-> m]
    BY DEF Memory
  <2> HIDE DEF m
  <2> QED BY <2>1, <2>2
<1>5. Memory.srv_arg \in [Slots -> SlotType] /\ \A i \in Slots : Memory.srv_arg[i].status = 0
  <2> DEFINE m == [status |-> 0, srv_thd |-> NULL]
  <2>1. m \in SlotType /\ m.status = 0
    BY <1>1 DEF SlotType
  <2>2. Memory.srv_arg = [i \in Slots |-> m]
    BY DEF Memory
  <2> HIDE DEF m
  <2> QED BY <2>1, <2>2
<1>6. Memory.handles \in [HandleValues -> Clients \cup {Accept, Closed}]
  BY DEF Memory
<1> QED BY <1>2, <1>3, <1>4, <1>5, <1>6


-----------------------------------------------------------------------------
(* Lemmas.  The stages of a response, one for each change of the records.  *)
Nothing == ""

Apart == {"none", "begin", "receive", "close", "shut down", "flag", "ended"}

LEMMA PhaseFile ==
  ASSUME NEW x, NEW k, NEW n, NEW o, NEW s, NEW f, NEW g,
         PhaseOf(x, k, n, o, s, f), s.pc = "send" => g = f
  PROVE  PhaseOf(x, k, n, o, s, g)
BY DEF PhaseOf, Answering

LEMMA PhaseMoves ==
  ASSUME NEW x, NEW k, NEW n, NEW o, NEW s, NEW f, NEW t, NEW g,
         PhaseOf(x, k, n, o, s, f), s.pc \in Apart, t.pc \in Apart
  PROVE  PhaseOf(x, k, n, o, t, g)
BY DEF PhaseOf, Unanswered, Answering, Answered, Cut, Apart

LEMMA PhaseNet ==
  ASSUME NEW x, NEW k, NEW n, NEW o, NEW s, NEW f, NEW m,
         PhaseOf(x, k, n, o, s, f),
         m.request = n.request, m.responses = n.responses, m.client = n.client, m.server = n.server
  PROVE  PhaseOf(x, k, m, o, s, f)
BY DEF PhaseOf, Unanswered, Answering, Answered, Cut

LEMMA PhaseTaken ==
  ASSUME NEW x, NEW k, NEW n, NEW o, NEW s, NEW f, NEW m, NEW t, NEW g,
         PhaseOf(x, k, n, o, s, f), s.pc \in Apart, t.pc \in Apart \cup {"execute"}, n.request # Nothing,
         m.request = Nothing, m.responses = n.responses, m.client = n.client, m.server = n.server
  PROVE  PhaseOf(x, k, m, o, t, g)
BY DEF PhaseOf, Unanswered, Answering, Answered, Cut, Apart, Nothing

LEMMA PhaseExecutes ==
  ASSUME NEW x, NEW k, NEW n, NEW o, NEW s, NEW f, NEW t, NEW g \in Seq(Text),
         PhaseOf(x, k, n, o, s, f), s.pc = "execute", t.pc = "send", t.read = 0, OwnText(x, g)
  PROVE  PhaseOf(x, k, n, g, t, g)
<1>1. CASE k.pc = "receive"
  <2>1. Unanswered(k, n, s) /\ n.request = ""
    BY <1>1 DEF PhaseOf, Unanswered, Answering, Answered, Cut
  <2>2. k.printed = <<>> /\ n.responses = <<>>
    BY <2>1 DEF Unanswered
  <2>3. Len(k.printed) = 0 /\ Len(n.responses) = 0
    BY <2>2, EmptySeqs
  <2>4. Len(g) \in Nat
    OBVIOUS
  <2>5. Plain(x, n.responses, Len(n.responses))
    BY <2>3 DEF Plain
  <2>6. t.read = Len(k.printed) + Len(n.responses) /\ t.read <= Len(g)
    <3> DEFINE a == Len(k.printed)
               b == Len(n.responses)
               e == Len(g)
    <3>1. a = 0 /\ b = 0 /\ e \in Nat /\ t.read = 0
      BY <2>3, <2>4
    <3> HIDE DEF a, b, e
    <3>2. t.read = a + b /\ t.read <= e
      BY <3>1
    <3> QED BY <3>2 DEF a, b, e
  <2>7. Answering(x, k, n, g, t, g)
    BY <2>1, <2>5, <2>6 DEF Answering
  <2> QED BY <1>1, <2>7 DEF PhaseOf
<1>2. CASE k.pc # "receive"
  BY <1>2 DEF PhaseOf
<1> QED BY <1>1, <1>2

LEMMA PhaseSends ==
  ASSUME NEW x, NEW k, NEW n, NEW o, NEW s, NEW f, NEW m, NEW t, NEW r \in Response,
         PhaseOf(x, k, n, o, s, f), s.pc = "send", s.read \in Nat, s.read < Len(f),
         f \in Seq(Text), n.responses \in Seq(Response), k.printed \in Seq(Text),
         ~r.end, r.line = f[s.read + 1],
         m.request = n.request, m.client = n.client, m.server = n.server,
         n.client => m.responses = Append(n.responses, r),
         t.pc = "send", t.read = s.read + 1
  PROVE  PhaseOf(x, k, m, o, t, f)
<1>1. CASE k.pc = "receive"
  <2>1. Answering(x, k, n, o, s, f)
    BY <1>1 DEF PhaseOf, Unanswered, Answering, Answered, Cut
  <2>2. m.responses = Append(n.responses, r)
    BY <1>1 DEF PhaseOf
  <2>3. r.line = x
    <3>1. Len(f) \in Nat
      OBVIOUS
    <3>2. s.read + 1 \in 1 .. Len(f)
      BY <3>1
    <3> QED BY <2>1, <3>2 DEF Answering, OwnText
  <2>4. Len(m.responses) = Len(n.responses) + 1 /\ Len(n.responses) \in Nat
    BY <2>2
  <2>5. Plain(x, m.responses, Len(m.responses))
    <3>1. \A i \in 1 .. Len(m.responses) :
            m.responses[i] = IF i \in 1 .. Len(n.responses) THEN n.responses[i] ELSE r
      BY <2>2, <2>4
    <3> QED BY <2>1, <2>3, <3>1 DEF Answering, Plain
  <2>6. Len(k.printed) \in Nat /\ Len(f) \in Nat
    OBVIOUS
  <2>7. t.read = Len(k.printed) + Len(m.responses) /\ t.read <= Len(f)
    <3> DEFINE a == Len(k.printed)
               b == Len(n.responses)
               e == Len(f)
               y == Len(m.responses)
    <3>1. s.read = a + b /\ y = b + 1 /\ a \in Nat /\ b \in Nat /\ e \in Nat /\ s.read < e
      BY <2>1, <2>4, <2>6 DEF Answering
    <3> HIDE DEF a, b, e, y
    <3>2. t.read = a + y /\ t.read <= e
      BY <3>1
    <3> QED BY <3>2 DEF a, y, e
  <2>8. Answering(x, k, m, o, t, f)
    BY <2>1, <2>5, <2>7 DEF Answering
  <2> QED BY <1>1, <2>8 DEF PhaseOf
<1>2. CASE k.pc # "receive"
  BY <1>2 DEF PhaseOf
<1> QED BY <1>1, <1>2

LEMMA PhaseSent ==
  ASSUME NEW x, NEW k, NEW n, NEW o, NEW s, NEW f, NEW m, NEW t, NEW g, NEW r \in Response,
         PhaseOf(x, k, n, o, s, f), s.pc = "send", s.read \in Nat, s.read >= Len(f),
         f \in Seq(Text), n.responses \in Seq(Response), k.printed \in Seq(Text), o \in Seq(Text),
         r.end, m.request = n.request, m.client = n.client, m.server = n.server,
         n.client => m.responses = Append(n.responses, r),
         t.pc \in Apart
  PROVE  PhaseOf(x, k, m, o, t, g)
<1>1. CASE k.pc = "receive"
  <2>1. Answering(x, k, n, o, s, f)
    BY <1>1 DEF PhaseOf, Unanswered, Answering, Answered, Cut
  <2>2. m.responses = Append(n.responses, r)
    BY <1>1 DEF PhaseOf
  <2>3. Len(m.responses) = Len(n.responses) + 1 /\ Len(n.responses) \in Nat
    BY <2>2
  <2>4. m.responses[Len(m.responses)] = r
    BY <2>2, <2>3
  <2>5. Plain(x, m.responses, Len(m.responses) - 1)
    <3>1. \A i \in 1 .. Len(n.responses) : m.responses[i] = n.responses[i]
      BY <2>2, <2>3
    <3>2. Len(m.responses) - 1 = Len(n.responses)
      BY <2>3
    <3> QED BY <2>1, <3>1, <3>2 DEF Answering, Plain
  <2>6. Len(k.printed) + Len(m.responses) = Len(o) + 1 /\ Len(m.responses) > 0
    <3> DEFINE a == Len(k.printed)
               b == Len(n.responses)
               e == Len(f)
               y == Len(m.responses)
               z == Len(o)
    <3>1. s.read = a + b /\ s.read <= e /\ e = z
      BY <2>1 DEF Answering
    <3>2. y = b + 1 /\ a \in Nat /\ b \in Nat /\ e \in Nat /\ s.read >= e
      BY <2>3
    <3> HIDE DEF a, b, e, y, z
    <3>3. a + y = z + 1 /\ y > 0
      BY <3>1, <3>2
    <3> QED BY <3>3 DEF a, y, z
  <2>7. Answered(x, k, m, o, t)
    BY <2>1, <2>4, <2>5, <2>6 DEF Answering, Answered, Apart
  <2> QED BY <1>1, <2>7 DEF PhaseOf
<1>2. CASE k.pc # "receive"
  BY <1>2 DEF PhaseOf, Apart
<1> QED BY <1>1, <1>2

LEMMA PhaseDies ==
  ASSUME NEW x, NEW k, NEW n, NEW o, NEW s, NEW f, NEW m, NEW t, NEW g,
         PhaseOf(x, k, n, o, s, f), t.pc \in Apart,
         m.request = Nothing, m.responses = n.responses, m.client = n.client, ~m.server
  PROVE  PhaseOf(x, k, m, o, t, g)
BY DEF PhaseOf, Unanswered, Answering, Answered, Cut, Apart, Nothing

LEMMA NoText ==
  /\ \A s : Len(s) # 0 => s # <<>>
  /\ \A x : OwnText(x, <<>>)
<1>1. \A s : s = <<>> => Len(s) = 0
  BY EmptySeqs
<1>2. \A i \in 1 .. 0 : FALSE
  OBVIOUS
<1>3. Len(<<>>) = 0
  BY EmptySeqs
<1>4. \A x : OwnText(x, <<>>)
  BY <1>2, <1>3 DEF OwnText
<1> QED BY <1>1, <1>4

LEMMA PhaseAsks ==
  ASSUME NEW x, NEW y, NEW k, NEW n, NEW o, NEW s, NEW f, NEW m, NEW l,
         PhaseOf(x, k, n, o, s, f), k.pc = "prompt", l.pc = "receive", l.printed = <<>>,
         m.responses = n.responses, m.client = n.client, m.server = n.server, ~n.server => m.request = Nothing
  PROVE  PhaseOf(y, l, m, o, s, f)
<1>2. OwnText(y, l.printed)
  BY NoText
<1>3. Unanswered(l, m, s)
  BY DEF PhaseOf, Unanswered, Nothing
<1> QED BY <1>2, <1>3 DEF PhaseOf, Nothing

LEMMA PhaseConnects ==
  ASSUME NEW x, NEW k, NEW n, NEW o, NEW s, NEW f, NEW m, NEW l,
         PhaseOf(x, k, n, o, s, f), k.pc = "start", l.pc = "prompt",
         m.request = n.request, m.responses = n.responses, m.client = n.client, m.server = n.server
  PROVE  PhaseOf(x, l, m, o, s, f)
BY DEF PhaseOf

LEMMA PhaseAway ==
  ASSUME NEW x, NEW k, NEW n, NEW o, NEW s, NEW f,
         k.pc \in {"spins", "ended"}, ~n.server => n.request = Nothing
  PROVE  PhaseOf(x, k, n, o, s, f)
BY DEF PhaseOf, Nothing

LEMMA PhaseReads ==
  ASSUME NEW x, NEW k, NEW n, NEW o, NEW s, NEW f, NEW m, NEW l,
         PhaseOf(x, k, n, o, s, f), k.pc = "receive", l.pc = "receive",
         f \in Seq(Text), n.responses \in Seq(Response), k.printed \in Seq(Text), o \in Seq(Text),
         n.responses # <<>>, ~Head(n.responses).end, l.printed = Append(k.printed, Head(n.responses).line),
         m.request = n.request, m.responses = Tail(n.responses), m.client = n.client, m.server = n.server
  PROVE  PhaseOf(x, l, m, o, s, f)
<1> DEFINE r == Head(n.responses)
<1>1. Len(n.responses) \in Nat \ {0} /\ r = n.responses[1] /\ r.line \in Text
  <2>1. Len(n.responses) \in Nat \ {0} /\ r = n.responses[1] /\ r \in Response
    OBVIOUS
  <2> QED BY <2>1 DEF Response
<1>2. /\ Len(m.responses) = Len(n.responses) - 1
      /\ \A i \in 1 .. Len(m.responses) : m.responses[i] = n.responses[i + 1]
  BY <1>1
<1>3. Len(l.printed) = Len(k.printed) + 1 /\ Len(k.printed) \in Nat
  BY <1>1
<1>4. ~Unanswered(k, n, s)
  BY DEF Unanswered
<1>5. r.line = x
  <2>1. CASE Plain(x, n.responses, Len(n.responses))
    BY <2>1, <1>1 DEF Plain
  <2>2. CASE Answered(x, k, n, o, s)
    <3>1. n.responses[Len(n.responses)].end
      BY <2>2 DEF Answered
    <3>2. Len(n.responses) # 1
      BY <1>1, <3>1
    <3>3. 1 \in 1 .. Len(n.responses) - 1
      <4> DEFINE b == Len(n.responses)
      <4>1. b \in Nat \ {0} /\ b # 1
        BY <1>1, <3>2
      <4> HIDE DEF b
      <4>2. 1 \in 1 .. b - 1
        BY <4>1
      <4> QED BY <4>2 DEF b
    <3> QED BY <2>2, <1>1, <3>3 DEF Answered, Plain
  <2> QED BY <1>4, <2>1, <2>2 DEF PhaseOf, Answering, Cut
<1>6. OwnText(x, l.printed)
  <2>1. OwnText(x, k.printed)
    BY DEF PhaseOf
  <2>2. \A i \in 1 .. Len(l.printed) : l.printed[i] = IF i \in 1 .. Len(k.printed) THEN k.printed[i] ELSE r.line
    BY <1>1, <1>3
  <2> QED BY <2>1, <2>2, <1>5 DEF OwnText
<1>7. ASSUME NEW j \in Nat, j <= Len(n.responses), Plain(x, n.responses, j)
      PROVE  Plain(x, m.responses, j - 1)
  <2>1. \A i \in 1 .. j - 1 : i + 1 \in 1 .. j /\ i \in 1 .. Len(m.responses)
    BY <1>1, <1>2, <1>7
  <2> QED BY <1>2, <1>7, <2>1 DEF Plain
<1>11. ASSUME Plain(x, n.responses, Len(n.responses))
       PROVE  Plain(x, m.responses, Len(m.responses))
  <2>1. Len(n.responses) \in Nat /\ Len(n.responses) <= Len(n.responses)
    BY <1>1
  <2>2. Plain(x, m.responses, Len(n.responses) - 1)
    BY <1>7, <1>11, <2>1
  <2> QED BY <1>2, <2>2
<1>8. CASE Answering(x, k, n, o, s, f)
  <2>1. Plain(x, m.responses, Len(m.responses))
    BY <1>1, <1>2, <1>11, <1>8 DEF Answering
  <2>2. s.read = Len(l.printed) + Len(m.responses)
    <3> DEFINE a == Len(k.printed)
               b == Len(n.responses)
               y == Len(m.responses)
               z == Len(l.printed)
    <3>1. s.read = a + b /\ y = b - 1 /\ a \in Nat /\ b \in Nat /\ z = a + 1
      BY <1>1, <1>2, <1>3, <1>8 DEF Answering
    <3> HIDE DEF a, b, y, z
    <3>2. s.read = z + y
      BY <3>1
    <3> QED BY <3>2 DEF y, z
  <2>3. Answering(x, l, m, o, s, f)
    BY <1>8, <2>1, <2>2 DEF Answering
  <2> QED BY <1>6, <2>3 DEF PhaseOf
<1>9. CASE Answered(x, k, n, o, s)
  <2>1. n.responses[Len(n.responses)].end /\ Plain(x, n.responses, Len(n.responses) - 1)
    BY <1>9 DEF Answered
  <2>2. Len(n.responses) # 1
    BY <1>1, <2>1
  <2>3. Len(m.responses) > 0 /\ m.responses[Len(m.responses)] = n.responses[Len(n.responses)]
    <3> DEFINE b == Len(n.responses)
               y == Len(m.responses)
    <3>1. b \in Nat \ {0} /\ b # 1 /\ y = b - 1 /\ \A i \in 1 .. y : m.responses[i] = n.responses[i + 1]
      BY <1>1, <1>2, <2>2
    <3> HIDE DEF b, y
    <3>2. y > 0 /\ y \in 1 .. y /\ y + 1 = b
      BY <3>1
    <3>3. m.responses[y] = n.responses[b]
      BY <3>1, <3>2
    <3> QED BY <3>2, <3>3 DEF b, y
  <2>4. Plain(x, m.responses, Len(m.responses) - 1)
    BY <1>1, <1>2, <1>7, <2>1
  <2>5. Len(l.printed) + Len(m.responses) = Len(o) + 1
    <3> DEFINE a == Len(k.printed)
               b == Len(n.responses)
               y == Len(m.responses)
               z == Len(l.printed)
               e == Len(o)
    <3>1. a + b = e + 1 /\ y = b - 1 /\ a \in Nat /\ b \in Nat /\ z = a + 1
      BY <1>1, <1>2, <1>3, <1>9 DEF Answered
    <3> HIDE DEF a, b, y, z, e
    <3>2. z + y = e + 1
      BY <3>1
    <3> QED BY <3>2 DEF y, z, e
  <2>6. Answered(x, l, m, o, s)
    BY <1>9, <2>1, <2>3, <2>4, <2>5 DEF Answered
  <2> QED BY <1>6, <2>6 DEF PhaseOf
<1>10. CASE Cut(x, n, s)
  <2>1. Plain(x, m.responses, Len(m.responses))
    BY <1>1, <1>2, <1>11, <1>10 DEF Cut
  <2>2. Cut(x, m, s)
    BY <1>10, <2>1 DEF Cut
  <2> QED BY <1>6, <2>2 DEF PhaseOf
<1> QED BY <1>4, <1>8, <1>9, <1>10 DEF PhaseOf

(* The closing message is the last one, and all the lines were read.       *)
LEMMA PhaseEnds ==
  ASSUME NEW x, NEW k, NEW n, NEW o \in Seq(Text), NEW s, NEW f,
         PhaseOf(x, k, n, o, s, f), k.pc = "receive",
         n.responses \in Seq(Response), k.printed \in Seq(Text),
         n.responses # <<>>, Head(n.responses).end = TRUE
  PROVE  /\ k.printed = o /\ Tail(n.responses) = <<>> /\ n.client
         /\ n.request = Nothing /\ s.pc \notin {"execute", "send"}
<1>1. Len(n.responses) \in Nat \ {0} /\ Head(n.responses) = n.responses[1]
  OBVIOUS
<1>2. ~Plain(x, n.responses, Len(n.responses))
  BY <1>1 DEF Plain
<1>3. Answered(x, k, n, o, s)
  BY <1>2 DEF PhaseOf, Unanswered, Answering, Cut
<1>4. Len(n.responses) = 1
  <2>1. SUFFICES ASSUME Len(n.responses) # 1 PROVE FALSE
    OBVIOUS
  <2>2. 1 \in 1 .. Len(n.responses) - 1
    <3> DEFINE b == Len(n.responses)
    <3>1. b \in Nat \ {0} /\ b # 1
      BY <1>1, <2>1
    <3> HIDE DEF b
    <3>2. 1 \in 1 .. b - 1
      BY <3>1
    <3> QED BY <3>2 DEF b
  <2> QED BY <1>1, <1>3, <2>2 DEF Answered, Plain
<1>5. Tail(n.responses) = <<>>
  <2> DEFINE q == n.responses
  <2>1. q \in Seq(Response) /\ Len(q) = 1
    BY <1>4
  <2> HIDE DEF q
  <2>2. Tail(q) \in Seq(Response) /\ Len(Tail(q)) = 0
    <3>0. Len(q) # 0
      BY <2>1
    <3>1. q # <<>>
      BY <3>0, NoText, Zenon
    <3> QED BY <2>1, <3>1, HeadTailProperties
  <2>3. Tail(q) = <<>>
    BY <2>2, EmptySeq
  <2> QED BY <2>3 DEF q
<1>6. Len(k.printed) = Len(o)
  <2> DEFINE a == Len(k.printed)
             b == Len(n.responses)
             e == Len(o)
  <2>1. a + b = e + 1
    BY <1>3 DEF Answered
  <2>2. a \in Nat /\ e \in Nat /\ b = 1
    BY <1>4
  <2> HIDE DEF a, b, e
  <2>3. a = e
    BY <2>1, <2>2
  <2> QED BY <2>3 DEF a, e
<1>7. \A i \in 1 .. Len(o) : k.printed[i] = o[i]
  BY <1>3, <1>6 DEF PhaseOf, Answered, OwnText
<1>8. k.printed = o
  BY <1>6, <1>7
<1> QED BY <1>3, <1>5, <1>8 DEF PhaseOf, Answered, Nothing

LEMMA PhasePrompts ==
  ASSUME NEW x, NEW k, NEW n, NEW o, NEW s, NEW f,
         k.pc = "prompt", n.client, n.responses = <<>>, n.request = Nothing, s.pc \in Apart
  PROVE  PhaseOf(x, k, n, o, s, f)
BY DEF PhaseOf, Apart, Nothing

(* The phase of a client that a step of another one does not touch.        *)
LEMMA PhaseKept ==
  ASSUME NEW d \in Clients, Phase(d), client'[d] = client[d], net'[d] = net[d], output'[d] = output[d],
         server'[d] = server[d], server[d].pc = "send" => temp'[server[d].slot] = temp[server[d].slot]
  PROVE  Phase(d)'
<1>1. Line(d)' = Line(d)
  BY DEF Line
<1> DEFINE f == temp[server[d].slot]
           g == temp'[server[d].slot]
<1>2. PhaseOf(Line(d), client[d], net[d], output[d], server[d], f) /\ (server[d].pc = "send" => g = f)
  BY DEF Phase
<1> HIDE DEF f, g
<1>3. PhaseOf(Line(d), client[d], net[d], output[d], server[d], g)
  BY <1>2, PhaseFile
<1> QED BY <1>1, <1>3 DEF Phase, g

-----------------------------------------------------------------------------
(* Lemmas.  The table of the slots and the values of the handles.          *)
LEMMA NewIsUnused == \A h \in NewHandles : h \in HandleValues /\ handles[h] = Closed
BY DEF NewHandles, Unused

LEMMA StatusOf ==
  ASSUME NEW c \in Clients
  PROVE  /\ server[c].pc = "shut down" => Status(c) = 1
         /\ server[c].pc = "flag" => Status(c) = 3
         /\ server[c].pc \notin {"shut down", "flag"} => Status(c) = 2
BY DEF Status

(* A step that changes no slot, no handle and no stage that the table      *)
(* tells apart.                                                            *)
Working == {"begin", "receive", "execute", "send", "close"}

LEMMA TableKept ==
  ASSUME TypeOK, TableInv, Early' => Early, UNCHANGED <<accept, main, srv_arg, handles>>,
         \A d \in Clients : /\ server'[d].slot = server[d].slot
                            /\ \/ server'[d].pc = server[d].pc
                               \/ server'[d].pc \in Working /\ server[d].pc \in Working
  PROVE  TableInv'
<1>1. SUFFICES ASSUME Early'
               PROVE  AcceptInv' /\ (\A c \in Clients : LiveInv(c)') /\ (\A i \in Slots : SlotInv(i)')
  BY DEF TableInv
<1>2. AcceptInv /\ (\A c \in Clients : LiveInv(c)) /\ (\A i \in Slots : SlotInv(i))
  BY <1>1 DEF TableInv
<1>3. \A d \in Clients :
        /\ Live(d)' <=> Live(d)
        /\ Status(d)' = Status(d)
        /\ Storing(d)' <=> Storing(d)
        /\ server'[d].slot = server[d].slot
        /\ server[d].pc \in {"shut down", "flag", "ended"} =>
             server'[d].pc \in {"shut down", "flag", "ended"}
        /\ server[d].pc = "ended" => server'[d].pc = "ended"
  BY DEF Live, Status, Storing, Working
<1>4. \A i \in Slots, d \in Clients : HandleOf(i, d)' <=> HandleOf(i, d)
  BY DEF HandleOf
<1>5. ASSUME NEW c \in Clients PROVE LiveInv(c)'
  <2>1. LiveInv(c)
    BY <1>2
  <2>2. server[c].slot = server'[c].slot /\ (HandleOf(server[c].slot, c) => HandleOf(server[c].slot, c)')
    BY <1>3 DEF HandleOf
  <2>3. SUFFICES ASSUME Live(c)'
                 PROVE  /\ srv_arg'[server'[c].slot].status = Status(c)'
                        /\ ~Storing(c)' => HandleOf(server[c].slot, c)'
                        /\ \A d \in Clients \ {c} : Live(d)' => server'[d].slot # server'[c].slot
    BY <2>2 DEF LiveInv, HandleOf
  <2> QED BY <1>3, <2>1, <2>2, <2>3 DEF LiveInv
<1>6. ASSUME NEW i \in Slots PROVE SlotInv(i)'
  <2>1. Stopped(i) => Stopped(i)'
    BY <1>3, <1>4 DEF Stopped
  <2> QED BY <1>2, <2>1 DEF SlotInv
<1>7. AcceptInv'
  <2>1. \A c \in Clients : Live(c)' <=> Live(c)
    BY <1>3
  <2>2. accept.pc = "store" => (server[accept.of].slot = server'[accept.of].slot)
    BY <1>3 DEF TypeOK
  <2>3. accept.pc = "store" =>
          (/\ server'[accept.of].pc = "ended" <=> server[accept.of].pc = "ended"
           /\ Live(accept.of)' <=> Live(accept.of))
    BY DEF Live, Working, TypeOK
  <2> QED BY <1>2, <1>3, <2>1, <2>2, <2>3 DEF AcceptInv
<1> QED BY <1>5, <1>6, <1>7

LEMMA Statuses == \A x \in {1, 2, 3} : x # 0
OBVIOUS

(* The thread of c stops: it reports the status n of its new stage.        *)
LEMMA TableLeaves ==
  ASSUME TypeOK, TableInv, Early' => Early, UNCHANGED <<accept, main, handles>>,
         NEW c \in Clients, NEW n \in {1, 3}, Live(c),
         \A d \in Clients \ {c} : server'[d] = server[d],
         server'[c].slot = server[c].slot, server'[c].pc \in {"shut down", "flag", "ended"},
         server'[c].pc = "shut down" => n = 1, server'[c].pc = "flag" => n = 3,
         \A i \in Slots : /\ srv_arg'[i].srv_thd = srv_arg[i].srv_thd
                          /\ srv_arg'[i].status = IF i = server[c].slot THEN n ELSE srv_arg[i].status
  PROVE  TableInv'
<1>1. SUFFICES ASSUME Early'
               PROVE  AcceptInv' /\ (\A d \in Clients : LiveInv(d)') /\ (\A i \in Slots : SlotInv(i)')
  BY DEF TableInv
<1>2. AcceptInv /\ (\A d \in Clients : LiveInv(d)) /\ (\A i \in Slots : SlotInv(i))
  BY <1>1 DEF TableInv
<1> DEFINE j == server[c].slot
<1>3. j \in Slots /\ \A d \in Clients : server[d].slot \in Slots
  BY ServerFields DEF TypeOK
<1>4. LiveInv(c) /\ srv_arg[j].status \in {1, 2, 3}
  BY <1>2, StatusOf DEF LiveInv
<1>5. \A d \in Clients \ {c} : Live(d) => server[d].slot # j
  BY <1>4 DEF LiveInv
<1>6. \A d \in Clients : server'[d].slot = server[d].slot
  OBVIOUS
<1>7. \A d \in Clients \ {c} : (Live(d)' <=> Live(d)) /\ Status(d)' = Status(d)
  BY DEF Live, Status
<1>8. \A d \in Clients : Live(d)' => Live(d)
  BY <1>7
<1>9. \A i \in Slots, d \in Clients : HandleOf(i, d)' <=> HandleOf(i, d)
  BY DEF HandleOf
<1> HIDE DEF j
<1>10. ASSUME NEW d \in Clients PROVE LiveInv(d)'
  <2>1. SUFFICES ASSUME Live(d)'
                 PROVE  /\ srv_arg'[server[d].slot].status = Status(d)'
                        /\ ~Storing(d) => HandleOf(server[d].slot, d)
                        /\ \A e \in Clients \ {d} : Live(e) => server[e].slot # server[d].slot
    <3> DEFINE k == server[d].slot
    <3>1. k \in Slots
      BY <1>3
    <3>2. HandleOf(k, d)' <=> HandleOf(k, d)
      BY <1>9, <3>1
    <3> QED BY <1>6, <1>8, <3>2 DEF LiveInv, Storing, HandleOf
  <2>2. LiveInv(d) /\ Live(d)
    BY <1>2, <1>8, <2>1
  <2>3. CASE d = c
    <3>1. Status(c)' = n
      BY <2>1, <2>3 DEF Live, Status
    <3> QED BY <1>3, <2>2, <2>3, <3>1 DEF LiveInv, j
  <2>4. CASE d # c
    BY <1>3, <1>5, <1>7, <2>2, <2>4 DEF LiveInv, j
  <2> QED BY <2>3, <2>4
<1>11. ASSUME NEW i \in Slots PROVE SlotInv(i)'
  <2>1. SUFFICES ASSUME srv_arg'[i].status \in {1, 3}, ~(accept.pc = "store" /\ accept.slot = i)
                 PROVE  Stopped(i)'
    BY DEF SlotInv
  <2>2. CASE i = j
    <3>1. ~Storing(c)
      BY <1>2, <2>1, <2>2 DEF Storing, AcceptInv, j
    <3>2. HandleOf(i, c)
      BY <1>4, <2>2, <3>1 DEF LiveInv, j
    <3> QED BY <1>6, <1>9, <2>2, <3>2 DEF Stopped, j
  <2>3. CASE i # j
    <3>1. srv_arg[i].status \in {1, 3}
      BY <2>1, <2>3 DEF j
    <3>2. PICK d \in Clients : HandleOf(i, d) /\ server[d].slot = i
                               /\ server[d].pc \in {"shut down", "flag", "ended"}
      BY <1>2, <2>1, <3>1 DEF SlotInv, Stopped
    <3>3. d # c
      BY <2>3, <3>2 DEF j
    <3> QED BY <1>9, <3>2, <3>3 DEF Stopped
  <2> QED BY <2>2, <2>3
<1>12. AcceptInv'
  <2>1. accept.slot \in Slots /\ (accept.pc = "store" => accept.of \in Clients)
        /\ (main.pc \in {"begin", "join"} => main.ith \in Slots)
    BY DEF TypeOK, AcceptType
  <2>0. \A i \in Slots : (srv_arg'[i].status = 0 <=> srv_arg[i].status = 0)
    <3>1. ASSUME NEW i \in Slots, i = j PROVE srv_arg[i].status # 0 /\ srv_arg'[i].status # 0
      <4>1. srv_arg[i].status # 0
        BY <1>4, Statuses, <3>1, Zenon
      <4>2. srv_arg'[i].status = n
        BY <3>1 DEF j
      <4>3. n \in {1, 2, 3}
        OBVIOUS
      <4> QED BY Statuses, <4>1, <4>2, <4>3, Zenon
    <3>2. ASSUME NEW i \in Slots, i # j PROVE srv_arg'[i].status = srv_arg[i].status
      BY <3>2 DEF j
    <3> QED BY <3>1, <3>2
  <2>2. accept.pc # "ended" => main.pc = "poll"
    BY <1>2 DEF AcceptInv
  <2>3. accept.pc = "accept" => srv_arg'[accept.slot].status = 0
    BY <1>2, <2>0, <2>1 DEF AcceptInv
  <2>4. accept.pc = "begin" =>
          /\ srv_arg'[accept.slot].status = 2
          /\ \A d \in Clients : Live(d)' => server'[d].slot # accept.slot
    <3>1. accept.pc = "begin" => accept.slot # j
      BY <1>2 DEF AcceptInv, j
    <3> QED BY <1>2, <1>6, <1>8, <2>1, <3>1 DEF AcceptInv, j
  <2>5. accept.pc = "store" =>
          /\ server'[accept.of].slot = accept.slot /\ handles[accept.thd] = accept.of
          /\ \A d \in Clients : Live(d)' /\ server'[d].slot = accept.slot => d = accept.of
          /\ srv_arg'[accept.slot].status # 0
    BY <1>2, <1>6, <1>8, <2>0, <2>1 DEF AcceptInv
  <2>6. accept.pc = "store" => (~Live(accept.of)' => server'[accept.of].pc = "ended")
    <3>1. ASSUME accept.pc = "store", ~Live(accept.of)' PROVE server'[accept.of].pc = "ended"
      <4>1. CASE accept.of = c
        BY <3>1, <4>1 DEF Live
      <4>2. CASE accept.of # c
        BY <1>2, <1>7, <2>1, <3>1, <4>2 DEF AcceptInv
      <4> QED BY <4>1, <4>2
    <3> QED BY <3>1
  <2>7. main.pc = "begin" => srv_arg'[main.ith].status = 0
    BY <1>2, <2>0, <2>1 DEF AcceptInv
  <2>8. main.pc = "join" => srv_arg'[main.ith].status \in {1, 3}
    BY <1>2, <2>1 DEF AcceptInv
  <2> QED BY <2>2, <2>3, <2>4, <2>5, <2>6, <2>7, <2>8 DEF AcceptInv
<1> QED BY <1>10, <1>11, <1>12

(* The steps of the accept thread.                                         *)
LEMMA AcceptFields ==
  ASSUME NEW r \in AcceptType
  PROVE  r.pc \in {"ended", "accept", "begin", "store"} /\ r.slot \in Slots
BY DEF AcceptType

LEMMA AcceptBegun ==
  ASSUME NEW r \in AcceptType, NEW c \in Clients
  PROVE  LET q == [r EXCEPT !.pc = "begin", !.of = c]
         IN  q \in AcceptType /\ q.pc = "begin" /\ q.of = c /\ q.slot = r.slot /\ q.thd = r.thd
BY DEF AcceptType

LEMMA AcceptStored ==
  ASSUME NEW r \in AcceptType, NEW h \in HandleValues
  PROVE  LET q == [r EXCEPT !.pc = "store", !.thd = h]
         IN  q \in AcceptType /\ q.pc = "store" /\ q.of = r.of /\ q.slot = r.slot /\ q.thd = h
BY DEF AcceptType

LEMMA StatusTo ==
  ASSUME TypeOK, NEW i \in Slots, NEW n \in 0 .. 3
  PROVE  LET q == [srv_arg EXCEPT ![i].status = n]
         IN  /\ q \in [Slots -> SlotType]
             /\ \A k \in Slots : /\ q[k].srv_thd = srv_arg[k].srv_thd
                                 /\ q[k].status = IF k = i THEN n ELSE srv_arg[k].status
<1> DEFINE r == [srv_arg[i] EXCEPT !.status = n]
           q == [srv_arg EXCEPT ![i] = r]
<1>1. r \in SlotType /\ r.status = n /\ r.srv_thd = srv_arg[i].srv_thd
  BY SlotTo DEF TypeOK
<1>2. srv_arg \in [Slots -> SlotType]
  BY DEF TypeOK
<1> HIDE DEF r
<1>3. q \in [Slots -> SlotType] /\ \A k \in Slots : q[k] = IF k = i THEN r ELSE srv_arg[k]
  BY <1>1, <1>2
<1> HIDE DEF q
<1>4. /\ q \in [Slots -> SlotType]
      /\ \A k \in Slots : /\ q[k].srv_thd = srv_arg[k].srv_thd
                          /\ q[k].status = IF k = i THEN n ELSE srv_arg[k].status
  BY <1>1, <1>3
<1> QED BY <1>4 DEF q, r

LEMMA HandleTo ==
  ASSUME TypeOK, NEW i \in Slots, NEW h \in HandleValues \cup {NULL}
  PROVE  LET q == [srv_arg EXCEPT ![i].srv_thd = h]
         IN  /\ q \in [Slots -> SlotType]
             /\ \A k \in Slots : /\ q[k].status = srv_arg[k].status
                                 /\ q[k].srv_thd = IF k = i THEN h ELSE srv_arg[k].srv_thd
<1> DEFINE r == [srv_arg[i] EXCEPT !.srv_thd = h]
           q == [srv_arg EXCEPT ![i] = r]
<1>1. r \in SlotType /\ r.srv_thd = h /\ r.status = srv_arg[i].status
  BY SlotTo DEF TypeOK
<1>2. srv_arg \in [Slots -> SlotType]
  BY DEF TypeOK
<1> HIDE DEF r
<1>3. q \in [Slots -> SlotType] /\ \A k \in Slots : q[k] = IF k = i THEN r ELSE srv_arg[k]
  BY <1>1, <1>2
<1> HIDE DEF q
<1>4. /\ q \in [Slots -> SlotType]
      /\ \A k \in Slots : /\ q[k].status = srv_arg[k].status
                          /\ q[k].srv_thd = IF k = i THEN h ELSE srv_arg[k].srv_thd
  BY <1>1, <1>3
<1> QED BY <1>4 DEF q, r

(* The threads, the slots and the handles, without a change of a thread.   *)
LEMMA TableReturns ==
  ASSUME TypeOK, TableInv, ThreadsInv, AcceptReturns
  PROVE  TableInv'
<1>1. SUFFICES ASSUME Early'
               PROVE  AcceptInv' /\ (\A d \in Clients : LiveInv(d)') /\ (\A i \in Slots : SlotInv(i)')
  BY DEF TableInv
<1>2. UNCHANGED <<process, ShutFlag, main, handles, server>>
  BY DEF AcceptReturns, AcceptFrame
<1>3. AcceptInv /\ (\A d \in Clients : LiveInv(d)) /\ (\A i \in Slots : SlotInv(i))
  BY <1>1, <1>2 DEF TableInv, Early, Running
<1>4. PICK c \in Clients : accept' = [accept EXCEPT !.pc = "begin", !.of = c]
  BY DEF AcceptReturns, Waiting
<1>17. accept \in AcceptType
  BY DEF TypeOK
<1>5. accept'.pc = "begin" /\ accept'.of = c /\ accept'.slot = accept.slot
  <2> DEFINE q == [accept EXCEPT !.pc = "begin", !.of = c]
  <2>1. q.pc = "begin" /\ q.of = c /\ q.slot = accept.slot
    BY <1>17, AcceptBegun
  <2>2. accept' = q
    BY <1>4
  <2> HIDE DEF q
  <2> QED BY <2>1, <2>2
<1>6. accept.pc = "accept" /\ srv_arg' = [srv_arg EXCEPT ![accept.slot].status = 2]
  BY DEF AcceptReturns
<1> DEFINE j == accept.slot
<1>18. 2 \in 0 .. 3
  OBVIOUS
<1>7. j \in Slots
  BY <1>17, AcceptFields
<1>8. \A k \in Slots : /\ srv_arg'[k].srv_thd = srv_arg[k].srv_thd
                       /\ srv_arg'[k].status = IF k = j THEN 2 ELSE srv_arg[k].status
  <2> DEFINE q == [srv_arg EXCEPT ![j].status = 2]
  <2>1. \A k \in Slots : /\ q[k].srv_thd = srv_arg[k].srv_thd
                         /\ q[k].status = IF k = j THEN 2 ELSE srv_arg[k].status
    BY <1>18, <1>7, StatusTo
  <2>2. srv_arg' = q
    BY <1>6
  <2> HIDE DEF q
  <2> QED BY <2>1, <2>2
<1>9. main.pc = "poll" /\ srv_arg[j].status = 0
  BY <1>3, <1>6 DEF AcceptInv
<1> HIDE DEF j
<1>10. \A d \in Clients : server[d].slot \in Slots
  BY ServerFields DEF TypeOK
<1>11. \A d \in Clients : Live(d) => server[d].slot # j
  <2>1. ASSUME NEW d \in Clients, Live(d) PROVE srv_arg[server[d].slot].status \in {1, 2, 3}
    <3>1. srv_arg[server[d].slot].status = Status(d)
      BY <1>3, <2>1 DEF LiveInv
    <3>2. Status(d) \in {1, 2, 3}
      BY StatusOf, Zenon
    <3> QED BY <3>1, <3>2
  <2> QED BY <1>9, <2>1, Statuses, Zenon
<1>12. \A d \in Clients : (Live(d)' <=> Live(d)) /\ Status(d)' = Status(d) /\ ~Storing(d) /\ ~Storing(d)'
  BY <1>2, <1>5, <1>6 DEF Live, Status, Storing
<1>13. \A i \in Slots, d \in Clients : HandleOf(i, d)' <=> HandleOf(i, d)
  BY <1>2, <1>8 DEF HandleOf
<1>14. ASSUME NEW d \in Clients PROVE LiveInv(d)'
  <2> DEFINE k == server[d].slot
  <2>1. k \in Slots /\ (HandleOf(k, d)' <=> HandleOf(k, d)) /\ k = server'[d].slot
    BY <1>2, <1>10, <1>13
  <2>2. Live(d) => k # j
    BY <1>11
  <2>3. LiveInv(d)
    BY <1>3
  <2>4. Live(d) => /\ srv_arg'[k].status = Status(d)'
                   /\ HandleOf(k, d)'
                   /\ \A e \in Clients \ {d} : Live(e)' => server'[e].slot # k
    BY <1>2, <1>8, <1>12, <2>1, <2>2, <2>3 DEF LiveInv
  <2> QED BY <1>12, <2>1, <2>4 DEF LiveInv, HandleOf
<1>15. ASSUME NEW i \in Slots PROVE SlotInv(i)'
  <2>1. CASE i = j
    BY <1>8, <2>1 DEF SlotInv
  <2>2. CASE i # j
    <3>1. srv_arg'[i].status = srv_arg[i].status /\ (Stopped(i) => Stopped(i)')
      BY <1>2, <1>8, <1>13, <2>2 DEF Stopped
    <3> QED BY <1>3, <1>5, <1>6, <3>1 DEF SlotInv
  <2> QED BY <2>1, <2>2
<1>16. AcceptInv'
  <2>1. srv_arg'[j].status = 2 /\ j = accept'.slot
    BY <1>5, <1>7, <1>8 DEF j
  <2>2. \A d \in Clients : Live(d)' => server'[d].slot # accept'.slot
    BY <1>2, <1>11, <1>12, <2>1
  <2> QED BY <1>2, <1>5, <1>9, <2>1, <2>2 DEF AcceptInv
<1> QED BY <1>14, <1>15, <1>16

LEMMA ServerBegun ==
  ASSUME TypeOK, NEW c \in Clients, NEW i \in Slots
  PROVE  LET q == [server EXCEPT ![c] = [@ EXCEPT !.pc = "begin", !.slot = i]]
         IN  /\ q \in [Clients -> ServerType]
             /\ q[c].pc = "begin" /\ q[c].slot = i
             /\ \A d \in Clients \ {c} : q[d] = server[d]
<1> DEFINE r == [server[c] EXCEPT !.pc = "begin", !.slot = i]
           q == [server EXCEPT ![c] = r]
<1>1. "begin" \in Stages
  BY DEF Stages
<1>2. server \in [Clients -> ServerType] /\ server[c] \in ServerType
  BY DEF TypeOK
<1>3. r \in ServerType /\ r.pc = "begin" /\ r.slot = i
  <2> DEFINE s == server[c]
  <2>1. s \in ServerType
    BY <1>2
  <2> HIDE DEF s
  <2>2. LET p == [s EXCEPT !.pc = "begin", !.slot = i] IN p \in ServerType /\ p.pc = "begin" /\ p.slot = i
    BY <2>1 DEF ServerType
  <2> QED BY <2>2 DEF r, s
<1> HIDE DEF r
<1>4. q \in [Clients -> ServerType] /\ q[c] = r /\ \A d \in Clients \ {c} : q[d] = server[d]
  BY <1>2, <1>3
<1> HIDE DEF q
<1>5. /\ q \in [Clients -> ServerType]
      /\ q[c].pc = "begin" /\ q[c].slot = i
      /\ \A d \in Clients \ {c} : q[d] = server[d]
  BY <1>3, <1>4
<1> QED BY <1>5 DEF q, r

LEMMA AcceptBeginsPoints ==
  ASSUME TypeOK, AcceptBeginsServer
  PROVE  \E c \in Clients, h \in HandleValues :
           /\ c = accept.of /\ handles[h] = Closed /\ accept.pc = "begin"
           /\ accept' \in AcceptType /\ accept'.pc = "store" /\ accept'.of = c
           /\ accept'.slot = accept.slot /\ accept'.thd = h
           /\ handles' \in [HandleValues -> Clients \cup {Accept, Closed}]
           /\ \A v \in HandleValues : handles'[v] = IF v = h THEN c ELSE handles[v]
           /\ server' \in [Clients -> ServerType]
           /\ server'[c].pc = "begin" /\ server'[c].slot = accept.slot
           /\ \A d \in Clients \ {c} : server'[d] = server[d]
<1> DEFINE c == accept.of
           j == accept.slot
<1>1. accept.pc = "begin"
  BY DEF AcceptBeginsServer
<1>2. c \in Clients /\ accept \in AcceptType /\ j \in Slots
  BY <1>1, AcceptFields DEF TypeOK
<1>3. PICK h \in NewHandles : /\ handles' = [handles EXCEPT ![h] = c]
                              /\ accept' = [accept EXCEPT !.pc = "store", !.thd = h]
  BY DEF AcceptBeginsServer
<1>4. h \in HandleValues /\ handles[h] = Closed
  BY NewIsUnused
<1>5. /\ accept' \in AcceptType /\ accept'.pc = "store" /\ accept'.of = c
      /\ accept'.slot = j /\ accept'.thd = h
  <2> DEFINE q == [accept EXCEPT !.pc = "store", !.thd = h]
  <2>1. q \in AcceptType /\ q.pc = "store" /\ q.of = c /\ q.slot = j /\ q.thd = h
    BY <1>2, <1>4, AcceptStored
  <2>2. accept' = q
    BY <1>3
  <2> HIDE DEF q
  <2> QED BY <2>1, <2>2
<1>6. /\ handles' \in [HandleValues -> Clients \cup {Accept, Closed}]
      /\ \A v \in HandleValues : handles'[v] = IF v = h THEN c ELSE handles[v]
  <2>1. handles \in [HandleValues -> Clients \cup {Accept, Closed}]
    BY DEF TypeOK
  <2> QED BY <1>2, <1>3, <1>4, <2>1
<1>7. /\ server' \in [Clients -> ServerType]
      /\ server'[c].pc = "begin" /\ server'[c].slot = j
      /\ \A d \in Clients \ {c} : server'[d] = server[d]
  <2> DEFINE q == [server EXCEPT ![c] = [@ EXCEPT !.pc = "begin", !.slot = j]]
  <2>1. /\ q \in [Clients -> ServerType]
        /\ q[c].pc = "begin" /\ q[c].slot = j
        /\ \A d \in Clients \ {c} : q[d] = server[d]
    BY <1>2, ServerBegun
  <2>2. server' = q
    BY DEF AcceptBeginsServer
  <2> HIDE DEF q
  <2> QED BY <2>1, <2>2
<1> QED BY <1>1, <1>2, <1>4, <1>5, <1>6, <1>7

LEMMA TableBegins ==
  ASSUME TypeOK, TableInv, ThreadsInv, AcceptBeginsServer
  PROVE  TableInv'
<1>1. SUFFICES ASSUME Early'
               PROVE  AcceptInv' /\ (\A d \in Clients : LiveInv(d)') /\ (\A i \in Slots : SlotInv(i)')
  BY DEF TableInv
<1>2. UNCHANGED <<process, ShutFlag, main, srv_arg>>
  BY DEF AcceptBeginsServer, AcceptFrame
<1>3. AcceptInv /\ (\A d \in Clients : LiveInv(d)) /\ (\A i \in Slots : SlotInv(i))
  BY <1>1, <1>2 DEF TableInv, Early, Running
<1>4. PICK c \in Clients, h \in HandleValues :
           /\ c = accept.of /\ handles[h] = Closed /\ accept.pc = "begin"
           /\ accept' \in AcceptType /\ accept'.pc = "store" /\ accept'.of = c
           /\ accept'.slot = accept.slot /\ accept'.thd = h
           /\ handles' \in [HandleValues -> Clients \cup {Accept, Closed}]
           /\ \A v \in HandleValues : handles'[v] = IF v = h THEN c ELSE handles[v]
           /\ server' \in [Clients -> ServerType]
           /\ server'[c].pc = "begin" /\ server'[c].slot = accept.slot
           /\ \A d \in Clients \ {c} : server'[d] = server[d]
  BY AcceptBeginsPoints
<1> DEFINE j == accept.slot
<1>5. j \in Slots /\ \A d \in Clients : server[d].slot \in Slots
  BY ServerFields, AcceptFields DEF TypeOK
<1>6. /\ main.pc = "poll" /\ srv_arg[j].status = 2
      /\ \A d \in Clients : Live(d) => server[d].slot # j
  BY <1>3, <1>4 DEF AcceptInv
<1>7. server[c].pc = "none" /\ ~Live(c)
  BY <1>4 DEF ThreadsInv, Live
<1> HIDE DEF j
<1>8. \A d \in Clients \ {c} : (Live(d)' <=> Live(d)) /\ Status(d)' = Status(d)
  BY <1>4 DEF Live, Status
<1>9. Live(c)' /\ Status(c)' = 2 /\ Storing(c)'
  BY <1>4 DEF Live, Status, Storing
<1>10. \A i \in Slots, d \in Clients : HandleOf(i, d) => HandleOf(i, d)'
  <2>1. \A d \in Clients : d # Closed
    BY Marks
  <2> QED BY <1>2, <1>4, <2>1 DEF HandleOf
<1>11. ASSUME NEW d \in Clients PROVE LiveInv(d)'
  <2>1. CASE d = c
    <3>1. srv_arg'[server'[d].slot].status = Status(d)'
      BY <1>2, <1>4, <1>6, <1>9, <2>1 DEF j
    <3>2. \A e \in Clients \ {d} : Live(e)' => server'[e].slot # server'[d].slot
      BY <1>4, <1>6, <1>8, <2>1 DEF j
    <3> QED BY <1>9, <2>1, <3>1, <3>2 DEF LiveInv
  <2>2. CASE d # c
    <3> DEFINE k == server[d].slot
    <3>1. k = server'[d].slot /\ k \in Slots
      BY <1>4, <1>5, <2>2
    <3>2. SUFFICES ASSUME Live(d)
                   PROVE  /\ srv_arg'[k].status = Status(d)'
                          /\ HandleOf(k, d)'
                          /\ \A e \in Clients \ {d} : Live(e)' => server'[e].slot # k
      BY <1>8, <2>2, <3>1 DEF LiveInv, HandleOf
    <3>3. ~Storing(d) /\ k # j
      BY <1>4, <1>6, <3>2 DEF Storing
    <3>4. LiveInv(d)
      BY <1>3
    <3> QED BY <1>2, <1>4, <1>8, <1>10, <2>2, <3>1, <3>2, <3>3, <3>4 DEF LiveInv, j
  <2> QED BY <2>1, <2>2
<1>12. ASSUME NEW i \in Slots PROVE SlotInv(i)'
  <2>1. SUFFICES ASSUME srv_arg[i].status \in {1, 3} PROVE Stopped(i)'
    BY <1>2 DEF SlotInv
  <2>2. PICK d \in Clients : HandleOf(i, d) /\ server[d].slot = i
                             /\ server[d].pc \in {"shut down", "flag", "ended"}
    BY <1>3, <1>4, <2>1 DEF SlotInv, Stopped
  <2>3. d # c
    BY <1>7, <2>2
  <2>4. server'[d] = server[d] /\ HandleOf(i, d)'
    BY <1>4, <1>10, <2>2, <2>3
  <2> QED BY <2>2, <2>4 DEF Stopped
<1>13. AcceptInv'
  <2>1. server'[accept'.of].slot = accept'.slot /\ handles'[accept'.thd] = accept'.of
    BY <1>4
  <2>2. \A d \in Clients : Live(d)' /\ server'[d].slot = accept'.slot => d = accept'.of
    BY <1>4, <1>6, <1>8 DEF j
  <2>3. srv_arg'[accept'.slot].status = 2
    BY <1>2, <1>4, <1>6 DEF j
  <2>4. srv_arg'[accept'.slot].status # 0
    BY <2>3, Statuses
  <2>5. Live(accept.of)'
    <3>1. accept'.of = c
      BY <1>4
    <3>2. server'[accept'.of].pc = "begin"
      BY <1>4, <3>1
    <3> QED BY <3>2 DEF Live
  <2> QED BY <1>2, <1>4, <1>6, <2>1, <2>2, <2>4, <2>5 DEF AcceptInv
<1> QED BY <1>11, <1>12, <1>13

(* The accept thread ends: without a server thread, or with its handle     *)
(* stored.                                                                 *)
LEMMA TableStores ==
  ASSUME TypeOK, TableInv, UNCHANGED <<process, ShutFlag, main, handles, server>>,
         accept'.pc = "ended", NEW h \in HandleValues \cup {NULL},
         accept.pc = "begin" \/ (accept.pc = "store" /\ h = accept.thd),
         \A k \in Slots : /\ srv_arg'[k].status = srv_arg[k].status
                          /\ srv_arg'[k].srv_thd = IF k = accept.slot THEN h ELSE srv_arg[k].srv_thd
  PROVE  TableInv'
<1>1. SUFFICES ASSUME Early'
               PROVE  AcceptInv' /\ (\A d \in Clients : LiveInv(d)') /\ (\A i \in Slots : SlotInv(i)')
  BY DEF TableInv
<1>2. AcceptInv /\ (\A d \in Clients : LiveInv(d)) /\ (\A i \in Slots : SlotInv(i))
  BY <1>1 DEF TableInv, Early, Running
<1>12. PICK j \in Slots : j = accept.slot
  BY AcceptFields DEF TypeOK
<1>3. j \in Slots /\ \A d \in Clients : server[d].slot \in Slots
  BY ServerFields DEF TypeOK
<1>4. accept.pc # "ended" /\ main.pc = "poll"
  BY <1>2 DEF AcceptInv
<1>5. AcceptInv'
  BY <1>4 DEF AcceptInv
<1>6. \A d \in Clients : (Live(d)' <=> Live(d)) /\ Status(d)' = Status(d) /\ ~Storing(d)'
  BY DEF Live, Status, Storing
<1>13. PICK c : c = accept.of
  OBVIOUS
<1>7. ASSUME accept.pc = "store"
      PROVE  /\ c \in Clients /\ server[c].slot = j /\ HandleOf(j, c)'
             /\ \A d \in Clients : Live(d) /\ server[d].slot = j => d = c
             /\ ~Live(c) => server[c].pc = "ended"
  <2>1. c \in Clients /\ accept.thd \in HandleValues /\ h = accept.thd
    BY <1>7, <1>13 DEF TypeOK
  <2>2. /\ server[c].slot = j /\ handles[accept.thd] = c
        /\ \A d \in Clients : Live(d) /\ server[d].slot = j => d = c
        /\ ~Live(c) => server[c].pc = "ended"
    BY <1>2, <1>7, <1>12, <1>13 DEF AcceptInv
  <2>3. HandleOf(j, c)'
    BY <1>3, <1>12, <2>1, <2>2 DEF HandleOf
  <2> QED BY <2>1, <2>2, <2>3
<1>8. ASSUME accept.pc = "begin"
      PROVE  srv_arg[j].status = 2 /\ \A d \in Clients : Live(d) => server[d].slot # j
  BY <1>2, <1>8, <1>12 DEF AcceptInv
<1>9. \A d \in Clients, i \in Slots \ {j} : HandleOf(i, d)' <=> HandleOf(i, d)
  BY <1>12 DEF HandleOf
<1>10. ASSUME NEW d \in Clients PROVE LiveInv(d)'
  <2> DEFINE k == server[d].slot
  <2>1. k \in Slots
    BY <1>3
  <2>2. SUFFICES ASSUME Live(d)
                 PROVE  /\ srv_arg'[k].status = Status(d)'
                        /\ HandleOf(k, d)'
                        /\ \A e \in Clients \ {d} : Live(e)' => server'[e].slot # k
    BY <1>6 DEF LiveInv, HandleOf
  <2>3. LiveInv(d)
    BY <1>2
  <2>4. HandleOf(k, d)'
    <3>1. CASE k = j
      BY <1>7, <1>8, <2>2, <3>1
    <3>2. CASE k # j
      <4>1. ~Storing(d)
        BY <1>7, <1>13, <3>2 DEF Storing
      <4> QED BY <1>9, <2>1, <2>2, <2>3, <3>2, <4>1 DEF LiveInv
    <3> QED BY <3>1, <3>2
  <2> QED BY <1>6, <2>1, <2>2, <2>3, <2>4 DEF LiveInv
<1>11. ASSUME NEW i \in Slots PROVE SlotInv(i)'
  <2>1. SUFFICES ASSUME srv_arg[i].status \in {1, 3} PROVE Stopped(i)'
    BY DEF SlotInv
  <2>2. CASE i = j /\ accept.pc = "store"
    <3>1. c \in Clients /\ server[c].slot = j /\ HandleOf(j, c)'
      BY <1>7, <2>2
    <3>2. server[c].pc \in {"shut down", "flag", "ended"}
      <4>1. CASE Live(c)
        <5>1. srv_arg[j].status = Status(c)
          BY <1>2, <3>1, <4>1 DEF LiveInv
        <5>2. Status(c) # 2
          BY <2>1, <2>2, <5>1
        <5> QED BY <3>1, <5>2, StatusOf
      <4>2. CASE ~Live(c)
        BY <1>7, <2>2, <4>2
      <4> QED BY <4>1, <4>2
    <3> QED BY <2>2, <3>1, <3>2 DEF Stopped
  <2>3. CASE i # j
    <3>1. Stopped(i)
      BY <1>2, <1>12, <2>1, <2>3 DEF SlotInv
    <3> QED BY <1>9, <2>3, <3>1 DEF Stopped
  <2>4. CASE i = j /\ accept.pc = "begin"
    <3>1. srv_arg[j].status = 2
      BY <1>8, <2>4
    <3>2. 2 \notin {1, 3}
      BY Statuses
    <3> QED BY <2>1, <2>4, <3>1, <3>2, Zenon
  <2> QED BY <2>2, <2>3, <2>4
<1> QED BY <1>5, <1>10, <1>11

(* The steps of main() that run while no connection is accepted.           *)
LEMMA TableMain ==
  ASSUME TableInv, Early' => Early, UNCHANGED <<accept, server, srv_arg, handles>>,
         AcceptInv => AcceptInv'
  PROVE  TableInv'
<1>1. \A d \in Clients : LiveInv(d) => LiveInv(d)'
  BY DEF LiveInv, Live, Status, Storing, HandleOf
<1>2. \A i \in Slots : SlotInv(i) => SlotInv(i)'
  BY DEF SlotInv, Stopped, HandleOf
<1> QED BY <1>1, <1>2 DEF TableInv

LEMMA MainFields ==
  ASSUME NEW r \in MainType
  PROVE  /\ r.pc \in {"while", "for", "join", "begin", "poll", "shutdown", "last"}
         /\ r.ith \in 0 .. MAX_CLIENTS /\ r.hAcceptTh \in HandleValues \cup {NULL}
BY DEF MainType

LEMMA MainTo ==
  ASSUME NEW r \in MainType,
         NEW pc \in {"while", "for", "join", "begin", "poll", "shutdown", "last"}
  PROVE  LET q == [r EXCEPT !.pc = pc]
         IN  q \in MainType /\ q.pc = pc /\ q.ith = r.ith /\ q.hAcceptTh = r.hAcceptTh
BY DEF MainType


(* Where main() goes, and what it closes.                                  *)
LEMMA WhileTo ==
  ASSUME TypeOK, MainWhile
  PROVE  /\ main' \in MainType /\ main'.hAcceptTh = main.hAcceptTh /\ main'.ith = 0
         /\ main.pc = "while" /\ main'.pc = IF ShutFlag THEN "shutdown" ELSE "for"
<1> DEFINE pc == IF ShutFlag THEN "shutdown" ELSE "for"
           q == [main EXCEPT !.pc = pc, !.ith = 0]
<1>1. main \in MainType /\ pc \in {"while", "for", "join", "begin", "poll", "shutdown", "last"}
  BY DEF TypeOK
<1>2. main' = q /\ main.pc = "while"
  BY DEF MainWhile
<1>3. 0 \in 0 .. MAX_CLIENTS
  BY Marks
<1> HIDE DEF pc
<1>4. q \in MainType /\ q.pc = pc /\ q.ith = 0 /\ q.hAcceptTh = main.hAcceptTh
  BY <1>1, <1>3 DEF MainType
<1> HIDE DEF q
<1>5. main' \in MainType /\ main'.pc = pc /\ main'.ith = 0 /\ main'.hAcceptTh = main.hAcceptTh
  BY <1>2, <1>4
<1> QED BY <1>2, <1>5 DEF pc

LEMMA ForTo ==
  ASSUME TypeOK, MainFor
  PROVE  /\ main' \in MainType /\ main'.hAcceptTh = main.hAcceptTh /\ main.pc = "for"
         /\ main'.ith \in Slots
         /\ \/ main'.pc = "for"
            \/ /\ main'.pc = "join" /\ ~ShutFlag /\ main'.ith = main.ith
               /\ srv_arg[main.ith].status \in {1, 3}
            \/ /\ main'.pc = "begin" /\ main'.ith = main.ith
               /\ ShutFlag \/ srv_arg[main.ith].status = 0
<1> DEFINE i == main.ith
<1>1. main \in MainType /\ main.pc = "for" /\ i \in Slots /\ srv_arg[i].status \in 0 .. 3
  BY DEF TypeOK, SlotType, MainFor
<1>2. CASE ~ShutFlag /\ srv_arg[i].status = 2
  <2> DEFINE n == (i + 1) % MAX_CLIENTS
             q == [main EXCEPT !.ith = n]
  <2>1. n \in Slots /\ n \in 0 .. MAX_CLIENTS
    BY <1>1, Marks DEF Slots
  <2>2. main' = q
    BY <1>2 DEF MainFor
  <2> HIDE DEF n
  <2>3. q \in MainType /\ q.pc = main.pc /\ q.ith = n /\ q.hAcceptTh = main.hAcceptTh
    BY <1>1, <2>1 DEF MainType
  <2> HIDE DEF q
  <2> QED BY <1>1, <2>1, <2>2, <2>3
<1>3. CASE ~(~ShutFlag /\ srv_arg[i].status = 2)
  <2> DEFINE pc == IF ~ShutFlag /\ srv_arg[i].status # 0 THEN "join" ELSE "begin"
             q == [main EXCEPT !.pc = pc]
  <2>1. pc \in {"while", "for", "join", "begin", "poll", "shutdown", "last"}
    OBVIOUS
  <2>2. main' = q
    BY <1>3 DEF MainFor
  <2>3. \/ pc = "join" /\ ~ShutFlag /\ srv_arg[i].status \in {1, 3}
        \/ pc = "begin" /\ (ShutFlag \/ srv_arg[i].status = 0)
    BY <1>1, <1>3
  <2> HIDE DEF pc
  <2>4. q \in MainType /\ q.pc = pc /\ q.ith = i /\ q.hAcceptTh = main.hAcceptTh
    BY <1>1, <2>1, MainTo
  <2> HIDE DEF q
  <2> QED BY <1>1, <2>2, <2>3, <2>4
<1> QED BY <1>2, <1>3

LEMMA GotoTo ==
  ASSUME TypeOK, NEW pc \in {"while", "for", "join", "begin", "poll", "shutdown", "last"}, MainGoto(pc)
  PROVE  main' \in MainType /\ main'.pc = pc /\ main'.ith = main.ith /\ main'.hAcceptTh = main.hAcceptTh
<1> DEFINE q == [main EXCEPT !.pc = pc]
<1>1. main \in MainType /\ main' = q
  BY DEF TypeOK, MainGoto
<1>2. q \in MainType /\ q.pc = pc /\ q.ith = main.ith /\ q.hAcceptTh = main.hAcceptTh
  BY <1>1, MainTo
<1> HIDE DEF q
<1> QED BY <1>1, <1>2

LEMMA HoldsTo ==
  ASSUME TypeOK, NEW h \in HandleValues \cup {NULL}, NEW pc \in {"while", "poll"},
         main' = [main EXCEPT !.pc = pc, !.hAcceptTh = h]
  PROVE  main' \in MainType /\ main'.pc = pc /\ main'.ith = main.ith /\ main'.hAcceptTh = h
<1> DEFINE q == [main EXCEPT !.pc = pc, !.hAcceptTh = h]
<1>1. main \in MainType /\ main' = q
  BY DEF TypeOK
<1>2. pc \in {"while", "for", "join", "begin", "poll", "shutdown", "last"}
  OBVIOUS
<1>3. q \in MainType /\ q.pc = pc /\ q.ith = main.ith /\ q.hAcceptTh = h
  BY <1>1, <1>2 DEF MainType
<1> HIDE DEF q
<1> QED BY <1>1, <1>3

LEMMA CloseTyped ==
  ASSUME TypeOK, NEW h
  PROVE  Close(h) \in [HandleValues -> Clients \cup {Accept, Closed}]
BY DEF TypeOK, Close

(* The handle of main()'s slot refers to the stopped thread of the slot.   *)
LEMMA JoinsStopped ==
  ASSUME TypeOK, TableInv, Running, main.pc = "join", Refers(SlotHandle(main.ith)) # Closed
  PROVE  \E c \in Clients :
           /\ main.ith \in Slots /\ SlotHandle(main.ith) = srv_arg[main.ith].srv_thd
           /\ HandleOf(main.ith, c) /\ Refers(SlotHandle(main.ith)) = c
           /\ server[c].slot = main.ith /\ server[c].pc \in {"shut down", "flag", "ended"}
<1> DEFINE i == main.ith
<1>1. i \in Slots
  BY DEF TypeOK
<1>2. AcceptInv /\ SlotInv(i)
  BY <1>1 DEF TableInv, Early
<1>3. accept.pc = "ended" /\ srv_arg[i].status \in {1, 3}
  BY <1>2 DEF AcceptInv
<1>4. PICK c \in Clients : HandleOf(i, c) /\ server[c].slot = i
                           /\ server[c].pc \in {"shut down", "flag", "ended"}
  BY <1>2, <1>3 DEF SlotInv, Stopped
<1>5. SlotHandle(i) = srv_arg[i].srv_thd
  BY DEF SlotHandle, Refers
<1>6. Refers(SlotHandle(i)) = c
  BY <1>4, <1>5, Marks DEF HandleOf, Refers
<1> QED BY <1>1, <1>4, <1>5, <1>6

LEMMA TableJoin ==
  ASSUME TypeOK, TableInv, Running, MainJoin
  PROVE  TableInv'
<1>1. SUFFICES ASSUME Early'
               PROVE  AcceptInv' /\ (\A d \in Clients : LiveInv(d)') /\ (\A i \in Slots : SlotInv(i)')
  BY DEF TableInv
<1>2. UNCHANGED <<process, accept, server>>
  BY DEF MainJoin, MainFrame
<1>3. main.pc = "join" /\ Refers(SlotHandle(main.ith)) # Closed /\ Ended(Refers(SlotHandle(main.ith)))
      /\ MainGoto("begin") /\ handles' = Close(SlotHandle(main.ith))
  BY DEF MainJoin
<1>4. main'.pc = "begin" /\ main'.ith = main.ith
  BY <1>3, GotoTo
<1>5. AcceptInv /\ (\A d \in Clients : LiveInv(d)) /\ (\A i \in Slots : SlotInv(i))
  BY <1>3 DEF TableInv, Early
<1>6. accept.pc = "ended" /\ srv_arg[main.ith].status \in {1, 3}
  BY <1>3, <1>5 DEF AcceptInv
<1>7. PICK c \in Clients :
           /\ main.ith \in Slots /\ SlotHandle(main.ith) = srv_arg[main.ith].srv_thd
           /\ HandleOf(main.ith, c) /\ Refers(SlotHandle(main.ith)) = c
           /\ server[c].slot = main.ith /\ server[c].pc \in {"shut down", "flag", "ended"}
  BY <1>3, JoinsStopped
<1>8. PICK i \in Slots : i = main.ith
  BY <1>7
<1>9. server[c].pc = "ended"
  BY <1>3, <1>7, Marks DEF Ended
<1>10. /\ \A k \in Slots : /\ srv_arg'[k].srv_thd = srv_arg[k].srv_thd
                           /\ srv_arg'[k].status = IF k = i THEN 0 ELSE srv_arg[k].status
  <2>1. srv_arg[i].status # 3
    <3>1. ~ShutFlag'
      BY <1>1, <1>4 DEF Early
    <3> QED BY <1>8, <3>1 DEF MainJoin
  <2> DEFINE q == [srv_arg EXCEPT ![i].status = 0]
  <2>2. srv_arg' = q
    BY <1>8, <2>1 DEF MainJoin
  <2>3. 0 \in 0 .. 3
    OBVIOUS
  <2>4. \A k \in Slots : /\ q[k].srv_thd = srv_arg[k].srv_thd
                         /\ q[k].status = IF k = i THEN 0 ELSE srv_arg[k].status
    BY <2>3, StatusTo
  <2> HIDE DEF q
  <2> QED BY <2>2, <2>4
<1>11. \A v \in HandleValues : handles'[v] = IF v = srv_arg[i].srv_thd THEN Closed ELSE handles[v]
  BY <1>3, <1>7, <1>8 DEF Close
<1>12. \A d \in Clients : server[d].slot \in Slots
  BY ServerFields DEF TypeOK
<1>13. handles[srv_arg[i].srv_thd] = c
  BY <1>7, <1>8 DEF HandleOf
<1>14. \A k \in Slots, d \in Clients \ {c} : HandleOf(k, d) => HandleOf(k, d)'
  BY <1>10, <1>11, <1>13 DEF HandleOf
<1>15. \A d \in Clients : (Live(d)' <=> Live(d)) /\ Status(d)' = Status(d) /\ ~Storing(d) /\ ~Storing(d)'
  BY <1>2, <1>6 DEF Live, Status, Storing
<1>16. ASSUME NEW d \in Clients PROVE LiveInv(d)'
  <2> DEFINE k == server[d].slot
  <2>1. k \in Slots /\ k = server'[d].slot
    BY <1>2, <1>12
  <2>2. SUFFICES ASSUME Live(d)
                 PROVE  /\ srv_arg'[k].status = Status(d)'
                        /\ HandleOf(k, d)'
                        /\ \A e \in Clients \ {d} : Live(e)' => server'[e].slot # k
    BY <1>2, <1>15 DEF LiveInv, HandleOf
  <2>3. LiveInv(d) /\ HandleOf(k, d) /\ d # c
    BY <1>5, <1>9, <1>15, <2>2 DEF LiveInv, Live
  <2>4. k # i
    BY <1>13, <2>3 DEF HandleOf
  <2>5. HandleOf(k, d)'
    BY <1>14, <2>1, <2>3
  <2> QED BY <1>2, <1>10, <1>15, <2>1, <2>2, <2>3, <2>4, <2>5 DEF LiveInv
<1>17. ASSUME NEW k \in Slots PROVE SlotInv(k)'
  <2>1. SUFFICES ASSUME srv_arg'[k].status \in {1, 3} PROVE Stopped(k)'
    BY DEF SlotInv
  <2>2. k # i /\ srv_arg[k].status \in {1, 3}
    <3>1. 0 \notin {1, 3}
      OBVIOUS
    <3> QED BY <1>10, <2>1, <3>1, Zenon
  <2>3. PICK d \in Clients : HandleOf(k, d) /\ server[d].slot = k
                             /\ server[d].pc \in {"shut down", "flag", "ended"}
    BY <1>5, <1>6, <2>2 DEF SlotInv, Stopped
  <2>4. d # c
    BY <1>7, <1>8, <2>2, <2>3
  <2> QED BY <1>2, <1>14, <2>3, <2>4 DEF Stopped
<1>18. AcceptInv'
  <2>1. srv_arg'[main'.ith].status = 0
    BY <1>4, <1>8, <1>10
  <2> QED BY <1>2, <1>4, <1>6, <2>1 DEF AcceptInv
<1> QED BY <1>16, <1>17, <1>18

LEMMA BeginTo ==
  ASSUME TypeOK, MainBegin
  PROVE  \E h \in HandleValues :
           /\ main.pc = "begin" /\ main.ith \in Slots /\ handles[h] = Closed
           /\ main' \in MainType /\ main'.pc = "poll" /\ main'.ith = main.ith /\ main'.hAcceptTh = h
           /\ handles' \in [HandleValues -> Clients \cup {Accept, Closed}]
           /\ \A v \in HandleValues : handles'[v] = IF v = h THEN Accept ELSE handles[v]
           /\ accept' \in AcceptType /\ accept'.pc = "accept" /\ accept'.slot = main.ith
<1>1. PICK h \in NewHandles : /\ main' = [main EXCEPT !.pc = "poll", !.hAcceptTh = h]
                              /\ handles' = [handles EXCEPT ![h] = Accept]
  BY DEF MainBegin
<1>2. h \in HandleValues /\ handles[h] = Closed /\ main.pc = "begin" /\ main.ith \in Slots
  BY NewIsUnused DEF TypeOK, MainBegin
<1>3. main' \in MainType /\ main'.pc = "poll" /\ main'.ith = main.ith /\ main'.hAcceptTh = h
  BY <1>1, <1>2, HoldsTo
<1>4. /\ handles' \in [HandleValues -> Clients \cup {Accept, Closed}]
      /\ \A v \in HandleValues : handles'[v] = IF v = h THEN Accept ELSE handles[v]
  BY <1>1, <1>2 DEF TypeOK
<1>5. accept' \in AcceptType /\ accept'.pc = "accept" /\ accept'.slot = main.ith
  <2> DEFINE q == [pc |-> "accept", slot |-> main.ith, of |-> Accept, thd |-> NULL]
  <2>1. q \in AcceptType /\ q.pc = "accept" /\ q.slot = main.ith
    BY <1>2 DEF AcceptType
  <2>2. accept' = q
    BY DEF MainBegin
  <2> HIDE DEF q
  <2> QED BY <2>1, <2>2
<1> QED BY <1>2, <1>3, <1>4, <1>5

(* A handle that is opened for the accept thread, or closed after it.      *)
LEMMA TableHandles ==
  ASSUME TypeOK, TableInv, Early' => Early, UNCHANGED <<server, srv_arg>>, AcceptInv => AcceptInv',
         accept.pc = "ended", accept'.pc # "store",
         \A v \in HandleValues : handles[v] \in Clients => handles'[v] = handles[v]
  PROVE  TableInv'
<1>1. SUFFICES ASSUME Early'
               PROVE  AcceptInv' /\ (\A d \in Clients : LiveInv(d)') /\ (\A i \in Slots : SlotInv(i)')
  BY DEF TableInv
<1>2. AcceptInv /\ (\A d \in Clients : LiveInv(d)) /\ (\A i \in Slots : SlotInv(i))
  BY <1>1 DEF TableInv
<1>3. \A i \in Slots, d \in Clients : HandleOf(i, d) => HandleOf(i, d)'
  BY DEF HandleOf
<1>4. \A d \in Clients : (Live(d)' <=> Live(d)) /\ Status(d)' = Status(d) /\ ~Storing(d)
  BY DEF Live, Status, Storing
<1>5. \A d \in Clients : server[d].slot \in Slots
  BY ServerFields DEF TypeOK
<1>6. \A d \in Clients : LiveInv(d)'
  BY <1>2, <1>3, <1>4, <1>5 DEF LiveInv, HandleOf
<1>7. \A i \in Slots : Stopped(i) => Stopped(i)'
  BY <1>3 DEF Stopped
<1>8. \A i \in Slots : SlotInv(i)'
  BY <1>2, <1>7 DEF SlotInv
<1> QED BY <1>2, <1>6, <1>8

LEMMA TableMainSteps ==
  ASSUME TypeOK, TableInv, ThreadsInv, Running,
         MainWhile \/ MainFor \/ MainBegin \/ MainPoll \/ MainShutdown \/ MainLast
  PROVE  TableInv'
<1>1. ASSUME process' # "running" PROVE TableInv'
  BY <1>1 DEF TableInv, Early, Running
<1>2. CASE MainWhile
  <2>1. UNCHANGED <<process, ShutFlag, accept, server, srv_arg, handles>>
    BY <1>2 DEF MainWhile, MainFrame, table
  <2>2. main.pc = "while" /\ main'.pc \in {"shutdown", "for"}
    BY <1>2, WhileTo
  <2>3. Early' => Early
    BY <2>1, <2>2 DEF Early, Running
  <2>4. AcceptInv => AcceptInv'
    BY <2>1, <2>2 DEF AcceptInv
  <2> QED BY <2>1, <2>3, <2>4, TableMain
<1>3. CASE MainFor
  <2>1. UNCHANGED <<process, ShutFlag, accept, server, srv_arg, handles>>
    BY <1>3 DEF MainFor, MainFrame, table
  <2>2. /\ main.pc = "for"
        /\ \/ main'.pc = "for"
           \/ /\ main'.pc = "join" /\ ~ShutFlag /\ main'.ith = main.ith
              /\ srv_arg[main.ith].status \in {1, 3}
           \/ /\ main'.pc = "begin" /\ main'.ith = main.ith
              /\ ShutFlag \/ srv_arg[main.ith].status = 0
    BY <1>3, ForTo
  <2>3. CASE main'.pc \in {"for", "join"} \/ ~ShutFlag
    <3>1. Early' => Early
      BY <2>1, <2>2, <2>3 DEF Early, Running
    <3>2. AcceptInv => AcceptInv'
      BY <2>1, <2>2, <2>3, Live(accept.of)' = Live(accept.of) DEF AcceptInv, Live
    <3> QED BY <2>1, <3>1, <3>2, TableMain
  <2>4. CASE main'.pc = "begin" /\ ShutFlag
    BY <2>1, <2>4 DEF TableInv, Early
  <2> QED BY <2>2, <2>3, <2>4
<1>4. CASE MainBegin
  <2>1. SUFFICES ASSUME Early' PROVE TableInv'
    BY DEF TableInv
  <2>2. UNCHANGED <<process, ShutFlag, srv_arg, server>>
    BY <1>4 DEF MainBegin
  <2>3. PICK h \in HandleValues :
           /\ main.pc = "begin" /\ main.ith \in Slots /\ handles[h] = Closed
           /\ main'.pc = "poll" /\ main'.ith = main.ith
           /\ \A v \in HandleValues : handles'[v] = IF v = h THEN Accept ELSE handles[v]
           /\ accept'.pc = "accept" /\ accept'.slot = main.ith
    BY <1>4, BeginTo
  <2>4. Early /\ AcceptInv
    BY <2>1, <2>2, <2>3 DEF Early, Running, TableInv
  <2>5. accept.pc = "ended" /\ srv_arg[main.ith].status = 0
    BY <2>3, <2>4 DEF AcceptInv
  <2>6. AcceptInv'
    BY <2>2, <2>3, <2>5 DEF AcceptInv
  <2>7. \A v \in HandleValues : handles[v] \in Clients => handles'[v] = handles[v]
    BY <2>3, Marks
  <2> QED BY <2>2, <2>3, <2>4, <2>5, <2>6, <2>7, TableHandles
<1>5. CASE MainPoll
  <2>1. SUFFICES ASSUME Early' PROVE TableInv'
    BY DEF TableInv
  <2>2. UNCHANGED <<process, ShutFlag, srv_arg, server, accept>>
    BY <1>5 DEF MainPoll, MainFrame
  <2>3. main.pc = "poll" /\ main'.pc = "while"
    <3>1. main.pc = "poll" /\ NULL \in HandleValues \cup {NULL}
          /\ (MainGoto("while") \/ main' = [main EXCEPT !.pc = "while", !.hAcceptTh = NULL])
      BY <1>5 DEF MainPoll
    <3>2. ASSUME MainGoto("while") PROVE main'.pc = "while"
      BY <3>2, GotoTo
    <3>3. ASSUME main' = [main EXCEPT !.pc = "while", !.hAcceptTh = NULL] PROVE main'.pc = "while"
      BY <3>1, <3>3, HoldsTo
    <3> QED BY <3>1, <3>2, <3>3
  <2>4. ~ShutFlag /\ Early /\ AcceptInv
    BY <2>1, <2>2, <2>3 DEF Early, Running, TableInv
  <2>5. accept.pc = "ended" /\ handles' = Close(main.hAcceptTh)
    BY <1>5, <2>4 DEF MainPoll, Ended
  <2>6. AcceptInv'
    BY <2>2, <2>3, <2>5 DEF AcceptInv
  <2>7. \A v \in HandleValues : handles[v] \in Clients => handles'[v] = handles[v]
    <3>1. handles[main.hAcceptTh] = Accept
      BY <2>3 DEF ThreadsInv
    <3> QED BY <2>5, <3>1, Marks DEF Close
  <2> QED BY <2>2, <2>4, <2>5, <2>6, <2>7, TableHandles
<1>6. CASE MainShutdown
  <2>1. ShutFlag
    BY <1>6 DEF MainShutdown, ThreadsInv
  <2>2. CASE Exit
    BY <1>1, <2>2 DEF Exit, Dies
  <2>3. CASE ~Exit
    <3>1. main' = [main EXCEPT !.pc = "last", !.ith = 0] /\ ShutFlag' = ShutFlag
      BY <1>6, <2>3 DEF MainShutdown
    <3>2. main'.pc # "join"
      BY <3>1 DEF TypeOK, MainType
    <3> QED BY <2>1, <3>1, <3>2 DEF TableInv, Early
  <2> QED BY <2>2, <2>3
<1>7. CASE MainLast
  <2>1. ShutFlag
    BY <1>7 DEF MainLast, ThreadsInv
  <2>2. CASE Exit
    BY <1>1, <2>2 DEF Exit, Dies
  <2>3. CASE ~Exit
    <3>1. main' = [main EXCEPT !.ith = @ + 1] /\ ShutFlag' = ShutFlag /\ main.pc = "last"
      BY <1>7, <2>3 DEF MainLast
    <3>2. main'.pc # "join"
      BY <3>1 DEF TypeOK, MainType
    <3> QED BY <2>1, <3>1, <3>2 DEF TableInv, Early
  <2> QED BY <2>2, <2>3
<1> QED BY <1>2, <1>3, <1>4, <1>5, <1>6, <1>7

-----------------------------------------------------------------------------
(* Lemmas.  The steps of a server thread.                                  *)
ServerOnly(c) ==
  /\ server' \in [Clients -> ServerType]
  /\ server'[c].slot = server[c].slot
  /\ \A d \in Clients \ {c} : server'[d] = server[d]

LEMMA ServerChanges ==
  ASSUME TypeOK, NEW c \in Clients, NEW r \in ServerType, r.slot = server[c].slot,
         server' = [server EXCEPT ![c] = r]
  PROVE  ServerOnly(c) /\ server'[c] = r
<1>1. server \in [Clients -> ServerType]
  BY DEF TypeOK
<1> QED BY <1>1 DEF ServerOnly

LEMMA GotoServer ==
  ASSUME TypeOK, NEW c \in Clients, NEW pc \in Stages, ServerGoto(c, pc)
  PROVE  /\ ServerOnly(c) /\ server'[c].pc = pc
         /\ server'[c].record = server[c].record /\ server'[c].read = server[c].read
<1> DEFINE r == [server[c] EXCEPT !.pc = pc]
<1>1. server[c] \in ServerType
  BY DEF TypeOK
<1>2. r \in ServerType /\ r.pc = pc /\ r.slot = server[c].slot /\ r.record = server[c].record
      /\ r.read = server[c].read
  BY <1>1, ServerTo
<1>3. server' = [server EXCEPT ![c] = r]
  BY DEF ServerGoto
<1> HIDE DEF r
<1> QED BY <1>2, <1>3, ServerChanges

LEMMA GetsServer ==
  ASSUME TypeOK, NEW c \in Clients, NEW pc \in Stages, NEW s \in Requests,
         server' = [server EXCEPT ![c] = [@ EXCEPT !.pc = pc, !.record = s]]
  PROVE  ServerOnly(c) /\ server'[c].pc = pc
<1> DEFINE r == [server[c] EXCEPT !.pc = pc, !.record = s]
<1>1. server[c] \in ServerType
  BY DEF TypeOK
<1>2. r \in ServerType /\ r.pc = pc /\ r.slot = server[c].slot
  BY <1>1 DEF ServerType, Stages
<1>3. server' = [server EXCEPT ![c] = r]
  OBVIOUS
<1> HIDE DEF r
<1> QED BY <1>2, <1>3, ServerChanges

LEMMA ReadsServer ==
  ASSUME TypeOK, NEW c \in Clients
  PROVE  /\ server' = [server EXCEPT ![c] = [@ EXCEPT !.pc = "send", !.read = 0]]
              => ServerOnly(c) /\ server'[c].pc = "send" /\ server'[c].read = 0
         /\ server' = [server EXCEPT ![c].read = @ + 1]
              => ServerOnly(c) /\ server'[c].pc = server[c].pc /\ server'[c].read = server[c].read + 1
         /\ \A pc \in Stages :
              server' = [server EXCEPT ![c] = [@ EXCEPT !.pc = pc, !.record = "", !.read = 0]]
                => ServerOnly(c) /\ server'[c].pc = pc
<1>5. server[c] \in ServerType
  BY DEF TypeOK
<1>1. server[c] \in ServerType /\ server[c].read + 1 \in Nat
  <2>1. server[c].read \in Nat
    BY <1>5, ServerFields
  <2> QED BY <1>5, <2>1
<1>2. ASSUME server' = [server EXCEPT ![c] = [@ EXCEPT !.pc = "send", !.read = 0]]
      PROVE  ServerOnly(c) /\ server'[c].pc = "send" /\ server'[c].read = 0
  <2> DEFINE r == [server[c] EXCEPT !.pc = "send", !.read = 0]
  <2>1. r \in ServerType /\ r.pc = "send" /\ r.slot = server[c].slot /\ r.read = 0
    BY <1>1 DEF ServerType
  <2>2. server' = [server EXCEPT ![c] = r]
    BY <1>2
  <2> HIDE DEF r
  <2> QED BY <2>1, <2>2, ServerChanges
<1>3. ASSUME server' = [server EXCEPT ![c].read = @ + 1]
      PROVE  ServerOnly(c) /\ server'[c].pc = server[c].pc /\ server'[c].read = server[c].read + 1
  <2> DEFINE r == [server[c] EXCEPT !.read = server[c].read + 1]
  <2>1. r \in ServerType /\ r.pc = server[c].pc /\ r.slot = server[c].slot /\ r.read = server[c].read + 1
    BY <1>1 DEF ServerType
  <2>2. server' = [server EXCEPT ![c] = r]
    BY <1>3
  <2> HIDE DEF r
  <2> QED BY <2>1, <2>2, ServerChanges
<1>4. ASSUME NEW pc \in Stages,
             server' = [server EXCEPT ![c] = [@ EXCEPT !.pc = pc, !.record = "", !.read = 0]]
      PROVE  ServerOnly(c) /\ server'[c].pc = pc
  <2> DEFINE r == [server[c] EXCEPT !.pc = pc, !.record = "", !.read = 0]
  <2>1. r \in ServerType /\ r.pc = pc /\ r.slot = server[c].slot
    BY <1>1 DEF ServerType, Stages, Requests
  <2>2. server' = [server EXCEPT ![c] = r]
    BY <1>4
  <2> HIDE DEF r
  <2> QED BY <2>1, <2>2, ServerChanges
<1> QED BY <1>2, <1>3, <1>4

(* A thread goes on, or reports that it stops.                             *)
GoesOn(c) ==
  /\ ServerOnly(c) /\ server[c].pc \in Working /\ server'[c].pc \in Working
  /\ server[c].pc = "begin" /\ Active(c)' => ~ShutFlag
  /\ server[c].pc = "close" => ~Active(c)'
  /\ UNCHANGED <<build, process, ShutFlag, main, accept, srv_arg, handles, client>>

Leaves(c) ==
  /\ ServerOnly(c) /\ Live(c)
  /\ server'[c].pc \in {"shut down", "flag", "ended"}
  /\ \E n \in {1, 3} :
       /\ server'[c].pc = "shut down" => n = 1
       /\ server'[c].pc = "flag" => n = 3
       /\ srv_arg' = [srv_arg EXCEPT ![server[c].slot].status = n]
  /\ UNCHANGED <<build, process, ShutFlag, main, accept, handles, client, files>>

LEMMA BeginsGoesOn ==
  ASSUME TypeOK, NEW c \in Clients, ServerBegins(c)
  PROVE  GoesOn(c) /\ UNCHANGED <<files, net>> /\ server'[c].pc \in {"close", "receive"}
<1> DEFINE pc == NextRequest
<1>1. ServerGoto(c, pc) /\ server[c].pc = "begin"
  BY DEF ServerBegins
<1>2. UNCHANGED <<build, process, ShutFlag, main, accept, srv_arg, handles, client, files, net>>
  BY DEF ServerBegins, ServerFrame
<1>3. pc \in Stages /\ pc = IF ShutFlag THEN "close" ELSE "receive"
  BY DEF NextRequest, Stages
<1> HIDE DEF pc
<1>4. ServerOnly(c) /\ server'[c].pc = pc
  BY <1>1, <1>3, GotoServer
<1>5. server'[c].pc \in {"close", "receive"} /\ (server'[c].pc = "receive" => ~ShutFlag)
  BY <1>3, <1>4
<1> QED BY <1>1, <1>2, <1>4, <1>5 DEF GoesOn, Working, Active

LEMMA ReceivesGoesOn ==
  ASSUME TypeOK, NEW c \in Clients, ReceiveRequestMessage(c)
  PROVE  GoesOn(c) /\ UNCHANGED files /\ server[c].pc = "receive" /\ server'[c].pc \in {"close", "execute"}
<1> DEFINE s == net[c].request
           pc == IF s \in build.Server.stops THEN "close" ELSE "execute"
<1>1. server[c].pc = "receive" /\ server' = [server EXCEPT ![c] = [@ EXCEPT !.pc = pc, !.record = s]]
  BY DEF ReceiveRequestMessage, Received
<1>2. UNCHANGED <<build, process, ShutFlag, main, accept, srv_arg, handles, client, files>>
  BY DEF ReceiveRequestMessage, ServerFrame
<1>3. s \in Requests
  BY NetFields DEF TypeOK
<1>4. pc \in Stages /\ pc \in {"close", "execute"}
  BY DEF Stages
<1> HIDE DEF s, pc
<1>5. ServerOnly(c) /\ server'[c].pc = pc
  BY <1>1, <1>3, <1>4, GetsServer
<1>6. server'[c].pc \in {"close", "execute"}
  BY <1>4, <1>5
<1> QED BY <1>1, <1>2, <1>5, <1>6 DEF GoesOn, Working, Active

LEMMA DisconnectGoesOn ==
  ASSUME TypeOK, NEW c \in Clients, ReceiveDisconnect(c)
  PROVE  \/ Exit
         \/ GoesOn(c) /\ UNCHANGED <<files, net>> /\ server[c].pc = "receive" /\ server'[c].pc = "close"
<1>1. CASE Exit
  BY <1>1
<1>2. CASE ~Exit
  <2>1. server[c].pc = "receive"
        /\ UNCHANGED <<build, process, ShutFlag, main, accept, srv_arg, handles, client, files, net>>
    BY <1>2 DEF ReceiveDisconnect, ServerFrame
  <2>2. PICK s \in {server[c].record} \cup Remains(c) :
          server' = [server EXCEPT ![c] = [@ EXCEPT !.pc = "close", !.record = s]]
    BY <1>2 DEF ReceiveDisconnect
  <2>3. s \in Requests
    BY NetFields, ServerFields DEF Remains, TypeOK, Requests
  <2>4. "close" \in Stages
    BY DEF Stages
  <2>5. ServerOnly(c) /\ server'[c].pc = "close"
    BY <2>2, <2>3, <2>4, GetsServer
  <2> QED BY <2>1, <2>5 DEF GoesOn, Working, Active
<1> QED BY <1>1, <1>2

LEMMA ExecutesGoesOn ==
  ASSUME TypeOK, NEW c \in Clients, Execute(c)
  PROVE  /\ GoesOn(c) /\ UNCHANGED net /\ server[c].pc = "execute" /\ server'[c].pc = "send"
         /\ server'[c].read = 0
<1>1. server[c].pc = "execute" /\ server' = [server EXCEPT ![c] = [@ EXCEPT !.pc = "send", !.read = 0]]
  BY DEF Execute
<1>2. UNCHANGED <<build, process, ShutFlag, main, accept, srv_arg, handles, client, net>>
  BY DEF Execute, ServerFrame
<1>3. ServerOnly(c) /\ server'[c].pc = "send" /\ server'[c].read = 0
  BY <1>1, ReadsServer
<1> QED BY <1>1, <1>2, <1>3 DEF GoesOn, Working, Active

LEMMA SendsGoesOn ==
  ASSUME TypeOK, NEW c \in Clients, SendLine(c)
  PROVE  \/ Exit /\ UNCHANGED files
         \/ /\ GoesOn(c) /\ UNCHANGED files /\ server[c].pc = "send" /\ server'[c].pc = "send"
            /\ server'[c].read = server[c].read + 1
<1>1. CASE Exit
  BY <1>1 DEF SendLine
<1>2. CASE ~Exit
  <2>1. server[c].pc = "send" /\ server' = [server EXCEPT ![c].read = @ + 1]
    BY <1>2 DEF SendLine, Sends
  <2>2. UNCHANGED <<build, process, ShutFlag, main, accept, srv_arg, handles, client, files>>
    BY <1>2 DEF SendLine, Sends, table
  <2>3. ServerOnly(c) /\ server'[c].pc = "send" /\ server'[c].read = server[c].read + 1
    BY <2>1, ReadsServer
  <2> QED BY <2>1, <2>2, <2>3 DEF GoesOn, Working, Active
<1> QED BY <1>1, <1>2

LEMMA EndsGoesOn ==
  ASSUME TypeOK, NEW c \in Clients, SendEnd(c)
  PROVE  \/ Exit
         \/ GoesOn(c) /\ UNCHANGED output /\ server[c].pc = "send" /\ server'[c].pc \in {"close", "receive"}
<1>1. CASE Exit
  BY <1>1
<1>2. CASE ~Exit
  <2> DEFINE pc == NextRequest
  <2>1. server[c].pc = "send" /\ ServerGoto(c, pc)
    BY <1>2 DEF SendEnd, Sends, ServerGoto
  <2>2. UNCHANGED <<build, process, ShutFlag, main, accept, srv_arg, handles, client, output>>
    BY <1>2 DEF SendEnd, Sends, table
  <2>3. pc \in Stages /\ pc \in {"close", "receive"}
    BY DEF NextRequest, Stages
  <2> HIDE DEF pc
  <2>4. ServerOnly(c) /\ server'[c].pc = pc
    BY <2>1, <2>3, GotoServer
  <2>5. server'[c].pc \in {"close", "receive"}
    BY <2>3, <2>4
  <2> QED BY <2>1, <2>2, <2>4, <2>5 DEF GoesOn, Working, Active
<1> QED BY <1>1, <1>2

LEMMA StopsLeaves ==
  ASSUME TypeOK, NEW c \in Clients, ServerStops(c)
  PROVE  Leaves(c) /\ server[c].pc = "close" /\ server'[c].pc \in {"shut down", "ended"}
<1> DEFINE pc == IF server[c].record = "$ShutDownServer" THEN "shut down" ELSE "ended"
<1>1. /\ server' = [server EXCEPT ![c] = [@ EXCEPT !.pc = pc, !.record = "", !.read = 0]]
      /\ server[c].pc = "close"
  BY DEF ServerStops, ServerStatus
<1>2. srv_arg' = [srv_arg EXCEPT ![server[c].slot].status = 1]
  BY DEF ServerStops, ServerStatus
<1>3. UNCHANGED <<build, process, ShutFlag, main, accept, handles, client, files>>
  BY DEF ServerStops, ServerStatus, ServerFrame
<1>4. pc \in Stages /\ pc \in {"shut down", "ended"}
  BY DEF Stages
<1> HIDE DEF pc
<1>5. ServerOnly(c) /\ server'[c].pc = pc
  BY <1>1, <1>4, ReadsServer
<1>6. server'[c].pc \in {"shut down", "ended"}
  BY <1>4, <1>5
<1> QED BY <1>1, <1>2, <1>3, <1>5, <1>6 DEF Leaves, Live

LEMMA ShutsDownLeaves ==
  ASSUME TypeOK, NEW c \in Clients, ServerShutsDown(c)
  PROVE  Leaves(c) /\ UNCHANGED net
<1>1. /\ server' = [server EXCEPT ![c] = [@ EXCEPT !.pc = "flag", !.record = "", !.read = 0]]
      /\ server[c].pc = "shut down"
  BY DEF ServerShutsDown, ServerStatus
<1>2. srv_arg' = [srv_arg EXCEPT ![server[c].slot].status = 3]
  BY DEF ServerShutsDown, ServerStatus
<1>3. UNCHANGED <<build, process, ShutFlag, main, accept, handles, client, files, net>>
  BY DEF ServerShutsDown, ServerStatus, ServerFrame
<1>4. "flag" \in Stages
  BY DEF Stages
<1>5. ServerOnly(c) /\ server'[c].pc = "flag"
  BY <1>1, <1>4, ReadsServer
<1> QED BY <1>1, <1>2, <1>3, <1>5 DEF Leaves, Live

LEMMA SetsFlagGoes ==
  ASSUME TypeOK, NEW c \in Clients, ServerSetsFlag(c)
  PROVE  /\ ServerOnly(c) /\ server[c].pc = "flag" /\ server'[c].pc = "ended" /\ ShutFlag' = TRUE
         /\ UNCHANGED <<build, process, main, accept, srv_arg, handles, client, files, net>>
<1>1. "ended" \in Stages
  BY DEF Stages
<1>2. ServerGoto(c, "ended") /\ server[c].pc = "flag" /\ ShutFlag' = TRUE
  BY DEF ServerSetsFlag
<1>3. UNCHANGED <<build, process, main, accept, srv_arg, handles, client, files, net>>
  BY DEF ServerSetsFlag, ServerFrame
<1> QED BY <1>1, <1>2, <1>3, GotoServer

LEMMA TableGoesOn ==
  ASSUME TypeOK, TableInv, NEW c \in Clients, GoesOn(c)
  PROVE  TableInv'
<1>1. UNCHANGED <<accept, main, srv_arg, handles>> /\ (Early' => Early)
  BY DEF GoesOn, Early, Running
<1>2. \A d \in Clients : /\ server'[d].slot = server[d].slot
                         /\ \/ server'[d].pc = server[d].pc
                            \/ server'[d].pc \in Working /\ server[d].pc \in Working
  BY DEF GoesOn, ServerOnly
<1> QED BY <1>1, <1>2, TableKept

LEMMA TableLeft ==
  ASSUME TypeOK, TableInv, Running, NEW c \in Clients, Leaves(c)
  PROVE  TableInv'
<1>1. UNCHANGED <<accept, main, handles>> /\ (Early' => Early)
  BY DEF Leaves, Early, Running
<1>2. PICK n \in {1, 3} : /\ server'[c].pc = "shut down" => n = 1
                          /\ server'[c].pc = "flag" => n = 3
                          /\ srv_arg' = [srv_arg EXCEPT ![server[c].slot].status = n]
  BY DEF Leaves
<1>3. server[c].slot \in Slots
  BY ServerFields DEF TypeOK
<1>4. \A i \in Slots : /\ srv_arg'[i].srv_thd = srv_arg[i].srv_thd
                       /\ srv_arg'[i].status = IF i = server[c].slot THEN n ELSE srv_arg[i].status
  <2> DEFINE j == server[c].slot
             q == [srv_arg EXCEPT ![j].status = n]
  <2>0. \A x \in {1, 3} : x \in 0 .. 3
    BY Statuses
  <2>4. srv_arg' = q
    BY <1>2
  <2>1. n \in 0 .. 3 /\ j \in Slots /\ srv_arg' = q
    BY <1>3, <2>0, <2>4
  <2> HIDE DEF j
  <2>2. \A k \in Slots : /\ q[k].srv_thd = srv_arg[k].srv_thd
                         /\ q[k].status = IF k = j THEN n ELSE srv_arg[k].status
    BY <2>1, StatusTo
  <2> HIDE DEF q
  <2>3. \A i \in Slots : /\ srv_arg'[i].srv_thd = srv_arg[i].srv_thd
                         /\ srv_arg'[i].status = IF i = j THEN n ELSE srv_arg[i].status
    BY <2>1, <2>2
  <2> QED BY <2>3 DEF j
<1>5. /\ Live(c) /\ \A d \in Clients \ {c} : server'[d] = server[d]
      /\ server'[c].slot = server[c].slot /\ server'[c].pc \in {"shut down", "flag", "ended"}
  BY DEF Leaves, ServerOnly
<1> QED BY <1>1, <1>2, <1>4, <1>5, TableLeaves

LEMMA TableFlag ==
  ASSUME TypeOK, TableInv, Running, NEW c \in Clients, ServerSetsFlag(c)
  PROVE  TableInv'
<1>1. /\ ServerOnly(c) /\ server[c].pc = "flag" /\ server'[c].pc = "ended" /\ ShutFlag' = TRUE
      /\ UNCHANGED <<build, process, main, accept, srv_arg, handles, client, files, net>>
  BY SetsFlagGoes
<1>2. SUFFICES ASSUME Early' PROVE TableInv'
  BY DEF TableInv
<1>3. Early' => Early
  BY <1>1 DEF Early, Running
<1>4. Live(c) /\ LiveInv(c)
  BY <1>1, <1>2, <1>3 DEF Live, TableInv
<1>5. srv_arg[server[c].slot].status = 3
  BY <1>1, <1>4, StatusOf DEF LiveInv
<1>6. /\ \A d \in Clients \ {c} : server'[d] = server[d]
      /\ server'[c].slot = server[c].slot /\ server'[c].pc \in {"shut down", "flag", "ended"}
  BY <1>1 DEF ServerOnly
<1>7. \A i \in Slots : /\ srv_arg'[i].srv_thd = srv_arg[i].srv_thd
                       /\ srv_arg'[i].status = IF i = server[c].slot THEN 3 ELSE srv_arg[i].status
  BY <1>1, <1>5
<1>8. /\ 3 \in {1, 3} /\ server'[c].pc = "shut down" => 3 = 1
      /\ server'[c].pc = "flag" => 3 = 3
  BY <1>1
<1> QED BY <1>1, <1>3, <1>4, <1>6, <1>7, <1>8, TableLeaves

(* Two threads that execute requests have two slots.                       *)
LEMMA SlotsKept ==
  ASSUME SlotsDiffer, \A d \in Clients : server'[d] = server[d] \/ ~Active(d)'
  PROVE  SlotsDiffer'
BY DEF SlotsDiffer, Active

LEMMA SlotsGoOn ==
  ASSUME SlotsDiffer, TableInv, Running, NEW c \in Clients, GoesOn(c)
  PROVE  SlotsDiffer'
<1>1. /\ server'[c].slot = server[c].slot
      /\ \A d \in Clients \ {c} : server'[d] = server[d]
  BY DEF GoesOn, ServerOnly
<1>2. \A d \in Clients \ {c} : Active(d)' <=> Active(d)
  BY <1>1 DEF Active
<1>3. CASE ~Active(c)'
  BY <1>1, <1>3, SlotsKept
<1>4. CASE Active(c)
  BY <1>1, <1>2, <1>4 DEF SlotsDiffer
<1>5. CASE Active(c)' /\ ~Active(c)
  <2>1. server[c].pc = "begin" /\ ~ShutFlag
    BY <1>5 DEF GoesOn, Working, Active
  <2>2. Early /\ Live(c)
    BY <2>1 DEF Early, Live
  <2>3. \A d \in Clients : LiveInv(d)
    BY <2>2 DEF TableInv
  <2>4. \A d \in Clients \ {c} : Active(d) => server[d].slot # server[c].slot
    <3>1. \A d \in Clients : Active(d) => Live(d)
      BY DEF Active, Live
    <3> QED BY <2>2, <2>3, <3>1 DEF LiveInv
  <2>5. \A d, e \in Clients \ {c} : d # e /\ Active(d) /\ Active(e) => server[d].slot # server[e].slot
    BY DEF SlotsDiffer
  <2> QED BY <1>1, <1>2, <2>4, <2>5 DEF SlotsDiffer
<1> QED BY <1>3, <1>4, <1>5

-----------------------------------------------------------------------------
(* Lemmas.  The end of the process.                                        *)
NetOnly(c) ==
  /\ net' \in [Clients -> NetType]
  /\ \A d \in Clients \ {c} : net'[d] = net[d]

LEMMA NetChanges ==
  ASSUME TypeOK, NEW c \in Clients, NEW r \in NetType, net' = [net EXCEPT ![c] = r]
  PROVE  NetOnly(c) /\ net'[c] = r
<1>1. net \in [Clients -> NetType]
  BY DEF TypeOK
<1> QED BY <1>1 DEF NetOnly

LEMMA AllClosedPoints ==
  ASSUME TypeOK
  PROVE  /\ AllClosed \in [Clients -> NetType]
         /\ \A d \in Clients : /\ AllClosed[d].state = net[d].state /\ AllClosed[d].request = ""
                               /\ AllClosed[d].responses = net[d].responses
                               /\ AllClosed[d].client = net[d].client /\ ~AllClosed[d].server
<1>1. ASSUME NEW d \in Clients
      PROVE  LET q == [net[d] EXCEPT !.server = FALSE, !.request = "", !.cut = FALSE]
             IN  /\ q \in NetType /\ q.state = net[d].state /\ q.request = ""
                 /\ q.responses = net[d].responses
                 /\ q.client = net[d].client /\ ~q.server
  <2> DEFINE r == net[d]
  <2>1. r \in NetType
    BY DEF TypeOK
  <2> HIDE DEF r
  <2>2. LET q == [r EXCEPT !.server = FALSE, !.request = "", !.cut = FALSE]
        IN  /\ q \in NetType /\ q.state = r.state /\ q.request = ""
            /\ q.responses = r.responses
            /\ q.client = r.client /\ ~q.server
    BY <2>1 DEF NetType, Requests
  <2> QED BY <2>2 DEF r
<1> DEFINE Q(d) == [net[d] EXCEPT !.server = FALSE, !.request = "", !.cut = FALSE]
<1>2. AllClosed = [d \in Clients |-> Q(d)]
  BY DEF AllClosed
<1>3. \A d \in Clients : /\ Q(d) \in NetType /\ Q(d).state = net[d].state /\ Q(d).request = ""
                         /\ Q(d).responses = net[d].responses
                         /\ Q(d).client = net[d].client /\ ~Q(d).server
  BY <1>1
<1> HIDE DEF Q
<1> QED BY <1>2, <1>3

LEMMA DiesKeeps ==
  ASSUME TypeOK, ThreadsInv, NEW how \in {"ended", "crashed"}, Dies(how),
         net' \in [Clients -> NetType],
         \A d \in Clients : net'[d].state = net[d].state
  PROVE  /\ TypeOK' /\ ThreadsInv' /\ SlotsDiffer' /\ TableInv'
         /\ \A d \in Clients : server'[d].pc = "none"
<1>1. /\ process' = how /\ ShutFlag' = FALSE
      /\ main' = Memory.main /\ accept' = Memory.accept /\ server' = Memory.server
      /\ srv_arg' = Memory.srv_arg /\ handles' = Memory.handles
      /\ build' = build /\ temp' = temp /\ output' = output /\ client' = client
  BY DEF Dies, files
<1>2. /\ main' \in MainType /\ main'.pc = "while"
      /\ accept' \in AcceptType /\ accept'.pc = "ended"
      /\ server' \in [Clients -> ServerType] /\ \A c \in Clients : server'[c].pc = "none"
      /\ srv_arg' \in [Slots -> SlotType]
      /\ handles' \in [HandleValues -> Clients \cup {Accept, Closed}]
  BY <1>1, MemoryTyped
<1>3. how # "running" /\ how \in {"running", "ended", "crashed"}
  OBVIOUS
<1>4. TypeOK'
  BY <1>1, <1>2, <1>3 DEF TypeOK
<1>5. ThreadsInv'
  BY <1>1, <1>2, <1>3 DEF ThreadsInv, Running
<1>6. SlotsDiffer'
  BY <1>2 DEF SlotsDiffer, Active
<1>7. TableInv'
  BY <1>1, <1>3 DEF TableInv, Early, Running
<1> QED BY <1>2, <1>4, <1>5, <1>6, <1>7

LEMMA ExitKeeps ==
  ASSUME Inv, Running, Exit
  PROVE  Inv'
<1>1. Dies("ended") /\ net' = AllClosed /\ TypeOK /\ ThreadsInv
  BY DEF Exit, Inv
<1>2. /\ net' \in [Clients -> NetType]
      /\ \A d \in Clients : /\ net'[d].state = net[d].state /\ net'[d].request = ""
                            /\ net'[d].responses = net[d].responses
                            /\ net'[d].client = net[d].client /\ ~net'[d].server
  BY <1>1, AllClosedPoints
<1>3. "ended" \in {"ended", "crashed"}
  OBVIOUS
<1>4. /\ TypeOK' /\ ThreadsInv' /\ SlotsDiffer' /\ TableInv'
      /\ \A d \in Clients : server'[d].pc = "none"
  BY <1>1, <1>2, <1>3, DiesKeeps
<1>5. UNCHANGED <<client, output>>
  BY <1>1 DEF Dies, files
<1>6. ASSUME NEW d \in Clients PROVE Phase(d)'
  <2>1. PhaseOf(Line(d), client[d], net[d], output[d], server[d], temp[server[d].slot])
    BY DEF Inv, Running, Phase
  <2>2. server'[d].pc \in Apart
    BY <1>4 DEF Apart
  <2> DEFINE n == net[d]
             m == net'[d]
             s == server'[d]
             f == temp'[server'[d].slot]
  <2>5. m.request = Nothing /\ m.responses = n.responses /\ m.client = n.client /\ ~m.server /\ s.pc \in Apart
    BY <1>2, <2>2 DEF Nothing
  <2>7. PhaseOf(Line(d), client[d], n, output[d], server[d], temp[server[d].slot])
    BY <2>1
  <2> HIDE DEF m, n, s, f
  <2>6. PhaseOf(Line(d), client[d], m, output[d], s, f)
    BY <2>7, <2>5, PhaseDies
  <2>3. PhaseOf(Line(d), client[d], net'[d], output[d], server'[d], temp'[server'[d].slot])
    BY <2>6 DEF m, s, f
  <2>4. Line(d)' = Line(d)
    BY <1>5 DEF Line
  <2> QED BY <1>5, <2>3, <2>4 DEF Phase
<1> QED BY <1>4, <1>6 DEF Inv

LEMMA OpenFailsKeeps ==
  ASSUME Inv, Running, NEW c \in Clients, OpenFails(c)
  PROVE  Inv'
<1>1. Dies("crashed") /\ TypeOK /\ ThreadsInv
  BY DEF OpenFails, Inv
<1> DEFINE e == [end |-> TRUE, line |-> <<>>]
           s == IF net[c].client THEN Append(net[c].responses, e) ELSE net[c].responses
           a == AllClosed[c]
           r == [a EXCEPT !.responses = s]
<1>2. /\ AllClosed \in [Clients -> NetType]
      /\ \A d \in Clients : AllClosed[d].state = net[d].state /\ AllClosed[d].responses = net[d].responses
  BY <1>1, AllClosedPoints
<1>3. e \in Response
  BY DEF Response, Text
<1>4. s \in Seq(Response)
  <2>1. net[c].responses \in Seq(Response)
    BY <1>1, NetFields DEF TypeOK
  <2> HIDE DEF e
  <2> QED BY <1>3, <2>1
<1>5. net' = [AllClosed EXCEPT ![c] = r]
  BY <1>2 DEF OpenFails
<1>6. a \in NetType /\ a.state = net[c].state
  BY <1>2
<1> HIDE DEF a, s
<1>7. r \in NetType /\ r.state = net[c].state
  BY <1>4, <1>6, NetResponses
<1> HIDE DEF r
<1>8. net' \in [Clients -> NetType] /\ \A d \in Clients : net'[d].state = net[d].state
  BY <1>2, <1>5, <1>7
<1>9. "crashed" \in {"ended", "crashed"}
  OBVIOUS
<1>10. TypeOK' /\ ThreadsInv' /\ SlotsDiffer' /\ TableInv'
  BY <1>1, <1>8, <1>9, DiesKeeps
<1>11. process' = "crashed"
  BY <1>1 DEF Dies
<1> QED BY <1>10, <1>11 DEF Inv

-----------------------------------------------------------------------------
(* Lemmas.  A step of a server thread keeps the invariant.                 *)
LEMMA ThreadsServer ==
  ASSUME TypeOK, ThreadsInv, Running, NEW c \in Clients, ServerOnly(c),
         UNCHANGED <<process, main, accept, handles, client>>, ShutFlag => ShutFlag',
         server[c].pc # "none", server'[c].pc # "none",
         \A d \in Clients : net'[d].state = net[d].state,
         \A d \in Clients \ {c} : net'[d] = net[d],
         ~net'[c].server => server'[c].pc \in {"shut down", "flag", "ended"}
  PROVE  ThreadsInv'
<1>1. \A d \in Clients \ {c} : server'[d] = server[d]
  BY DEF ServerOnly
<1>2. accept.pc \in {"begin", "store"} => accept.of \in Clients
  BY DEF TypeOK
<1>3. accept.pc = "begin" => accept.of # c
  BY DEF ThreadsInv
<1>4. main.pc \in {"shutdown", "last"} => ShutFlag'
  BY DEF ThreadsInv
<1>5. main.pc = "poll" => main.hAcceptTh \in HandleValues /\ handles[main.hAcceptTh] = Accept
  BY DEF ThreadsInv
<1>6. accept.pc = "begin" => net'[accept.of].state = "open" /\ server'[accept.of].pc = "none"
  BY <1>1, <1>2, <1>3 DEF ThreadsInv
<1>7. accept.pc = "store" => server'[accept.of].pc # "none"
  BY <1>1, <1>2 DEF ThreadsInv
<1>8. ASSUME NEW d \in Clients, net'[d].state # "open" PROVE server'[d].pc = "none"
  <2>1. server[d].pc = "none"
    BY <1>8 DEF ThreadsInv
  <2>2. d # c
    BY <2>1
  <2> QED BY <1>1, <2>1, <2>2
<1>9. \A d \in Clients : client[d].pc = "start" => net'[d].state = "none"
  BY DEF ThreadsInv
<1>10. ASSUME NEW d \in Clients, ~net'[d].server PROVE server'[d].pc \in {"shut down", "flag", "ended"}
  <2>1. CASE d = c
    BY <1>10, <2>1
  <2>2. CASE d # c
    BY <1>1, <1>10, <2>2 DEF ThreadsInv
  <2> QED BY <2>1, <2>2
<1> QED BY <1>4, <1>5, <1>6, <1>7, <1>8, <1>9, <1>10 DEF ThreadsInv, Running

LEMMA TypeServer ==
  ASSUME TypeOK, NEW c \in Clients, ServerOnly(c),
         UNCHANGED <<build, process, main, accept, handles, client>>, ShutFlag' \in BOOLEAN,
         srv_arg' \in [Slots -> SlotType], net' \in [Clients -> NetType],
         temp' \in [Slots -> Seq(Text)], output' \in [Clients -> Seq(Text)]
  PROVE  TypeOK'
BY DEF TypeOK, ServerOnly

LEMMA GoesOnKeeps ==
  ASSUME Inv, Running, NEW c \in Clients, GoesOn(c), NetOnly(c),
         net'[c].state = net[c].state, net'[c].server = net[c].server,
         temp' \in [Slots -> Seq(Text)], output' \in [Clients -> Seq(Text)]
  PROVE  TypeOK' /\ ThreadsInv' /\ SlotsDiffer' /\ TableInv'
<1>1. TypeOK /\ ThreadsInv /\ SlotsDiffer /\ TableInv
  BY DEF Inv
<1>2. /\ ServerOnly(c) /\ server[c].pc \in Working /\ server'[c].pc \in Working
      /\ UNCHANGED <<build, process, ShutFlag, main, accept, srv_arg, handles, client>>
  BY DEF GoesOn
<1>3. /\ net' \in [Clients -> NetType] /\ \A d \in Clients \ {c} : net'[d] = net[d]
  BY DEF NetOnly
<1>4. TypeOK'
  <2>1. ShutFlag' \in BOOLEAN /\ srv_arg' \in [Slots -> SlotType]
    BY <1>1, <1>2 DEF TypeOK
  <2> QED BY <1>1, <1>2, <1>3, <2>1, TypeServer
<1>5. ThreadsInv'
  <2>1. server[c].pc # "none" /\ server'[c].pc # "none" /\ net[c].server
    BY <1>1, <1>2 DEF Working, ThreadsInv, Running
  <2>2. ~net'[c].server => server'[c].pc \in {"shut down", "flag", "ended"}
    BY <2>1
  <2>3. \A d \in Clients : net'[d].state = net[d].state
    BY <1>3
  <2>4. ShutFlag => ShutFlag'
    BY <1>2
  <2> QED BY <1>1, <1>2, <1>3, <2>1, <2>2, <2>3, <2>4, ThreadsServer
<1>6. SlotsDiffer'
  BY <1>1, SlotsGoOn
<1>7. TableInv'
  BY <1>1, TableGoesOn
<1> QED BY <1>4, <1>5, <1>6, <1>7

LEMMA FilesTyped ==
  ASSUME TypeOK
  PROVE  temp \in [Slots -> Seq(Text)] /\ output \in [Clients -> Seq(Text)] /\ net \in [Clients -> NetType]
BY DEF TypeOK

LEMMA InvIs ==
  ASSUME Inv, Running
  PROVE  /\ TypeOK /\ ThreadsInv /\ SlotsDiffer /\ TableInv
         /\ \A d \in Clients : Phase(d)
BY DEF Inv, Running

LEMMA OthersKept ==
  ASSUME Inv, Running, NEW c \in Clients, ServerOnly(c), NetOnly(c), UNCHANGED client,
         \A d \in Clients \ {c} : output'[d] = output[d],
         \/ temp' = temp
         \/ /\ Active(c)
            /\ \A i \in Slots : i # server[c].slot => temp'[i] = temp[i],
         Phase(c)'
  PROVE  \A d \in Clients : Phase(d)'
<1>1. SlotsDiffer /\ TypeOK /\ \A d \in Clients : Phase(d)
  BY InvIs
<1>2. ASSUME NEW d \in Clients \ {c} PROVE Phase(d)'
  <2>1. client'[d] = client[d] /\ net'[d] = net[d] /\ output'[d] = output[d] /\ server'[d] = server[d]
    BY DEF NetOnly, ServerOnly
  <2>2. server[d].slot \in Slots
    BY <1>1, ServerFields DEF TypeOK
  <2>3. server[d].pc = "send" => temp'[server[d].slot] = temp[server[d].slot]
    <3>1. CASE temp' = temp
      BY <3>1
    <3>2. CASE Active(c) /\ \A i \in Slots : i # server[c].slot => temp'[i] = temp[i]
      <4>1. server[d].pc = "send" => server[d].slot # server[c].slot
        BY <1>1, <3>2 DEF SlotsDiffer, Active
      <4> QED BY <2>2, <3>2, <4>1
    <3> QED BY <3>1, <3>2
  <2> QED BY <1>1, <2>1, <2>3, PhaseKept
<1> QED BY <1>2

(* A thread between two requests.                                          *)
LEMMA PhaseSteps ==
  ASSUME Inv, Running, NEW c \in Clients, ServerOnly(c), server[c].pc \in Apart, server'[c].pc \in Apart,
         UNCHANGED <<client, net, files>>
  PROVE  \A d \in Clients : Phase(d)'
<1>1. TypeOK /\ Phase(c)
  BY InvIs
<1>2. Phase(c)'
  <2> DEFINE f == temp[server[c].slot]
             g == temp'[server'[c].slot]
  <2>1. PhaseOf(Line(c), client[c], net[c], output[c], server[c], f)
    BY <1>1 DEF Phase
  <2> HIDE DEF f, g
  <2>2. PhaseOf(Line(c), client[c], net[c], output[c], server'[c], g)
    BY <2>1, PhaseMoves
  <2>3. Line(c)' = Line(c)
    BY DEF Line
  <2> QED BY <2>2, <2>3 DEF Phase, g, files
<1>3. NetOnly(c)
  BY <1>1, FilesTyped DEF NetOnly
<1> QED BY <1>2, <1>3, OthersKept DEF files

LEMMA InvBegins ==
  ASSUME Inv, Running, NEW c \in Clients, ServerBegins(c)
  PROVE  Inv'
<1>1. TypeOK
  BY DEF Inv
<1>2. GoesOn(c) /\ UNCHANGED <<files, net>> /\ server'[c].pc \in {"close", "receive"}
  BY <1>1, BeginsGoesOn
<1>3. ServerOnly(c) /\ UNCHANGED client /\ server[c].pc = "begin"
  BY <1>2 DEF GoesOn, ServerBegins
<1>4. NetOnly(c) /\ temp' \in [Slots -> Seq(Text)] /\ output' \in [Clients -> Seq(Text)]
  BY <1>1, <1>2, FilesTyped DEF NetOnly, files
<1>5. TypeOK' /\ ThreadsInv' /\ SlotsDiffer' /\ TableInv'
  BY <1>2, <1>4, GoesOnKeeps
<1>6. server[c].pc \in Apart /\ server'[c].pc \in Apart
  BY <1>2, <1>3 DEF Apart
<1>7. \A d \in Clients : Phase(d)'
  BY <1>2, <1>3, <1>6, PhaseSteps
<1> QED BY <1>5, <1>7 DEF Inv

LEMMA InvDisconnects ==
  ASSUME Inv, Running, NEW c \in Clients, ReceiveDisconnect(c)
  PROVE  Inv'
<1>1. TypeOK
  BY DEF Inv
<1>2. CASE Exit
  BY <1>2, ExitKeeps
<1>3. CASE GoesOn(c) /\ UNCHANGED <<files, net>> /\ server[c].pc = "receive" /\ server'[c].pc = "close"
  <2>1. ServerOnly(c) /\ UNCHANGED client
    BY <1>3 DEF GoesOn
  <2>2. NetOnly(c) /\ temp' \in [Slots -> Seq(Text)] /\ output' \in [Clients -> Seq(Text)]
    BY <1>1, <1>3, FilesTyped DEF NetOnly, files
  <2>3. TypeOK' /\ ThreadsInv' /\ SlotsDiffer' /\ TableInv'
    BY <1>3, <2>2, GoesOnKeeps
  <2>4. server[c].pc \in Apart /\ server'[c].pc \in Apart
    BY <1>3 DEF Apart
  <2>5. \A d \in Clients : Phase(d)'
    BY <1>3, <2>1, <2>4, PhaseSteps
  <2> QED BY <2>3, <2>5 DEF Inv
<1> QED BY <1>1, <1>2, <1>3, DisconnectGoesOn

LEMMA InvReceives ==
  ASSUME Inv, Running, NEW c \in Clients, ReceiveRequestMessage(c)
  PROVE  Inv'
<1>1. TypeOK /\ Phase(c)
  BY InvIs
<1>2. GoesOn(c) /\ UNCHANGED files /\ server[c].pc = "receive" /\ server'[c].pc \in {"close", "execute"}
  BY <1>1, ReceivesGoesOn
<1>3. ServerOnly(c) /\ UNCHANGED client
  BY <1>2 DEF GoesOn
<1> DEFINE n == net[c]
           r == [n EXCEPT !.request = ""]
<1>4. n \in NetType /\ "" \in Requests
  BY <1>1 DEF TypeOK, Requests
<1>5. net' = [net EXCEPT ![c] = r] /\ n.request # ""
  BY DEF ReceiveRequestMessage
<1> HIDE DEF n
<1>6. /\ r \in NetType /\ r.state = n.state /\ r.request = ""
      /\ r.responses = n.responses /\ r.client = n.client /\ r.server = n.server
  BY <1>4, NetRequest
<1> HIDE DEF r
<1>7. NetOnly(c) /\ net'[c] = r
  BY <1>1, <1>5, <1>6, NetChanges
<1>8. temp' \in [Slots -> Seq(Text)] /\ output' \in [Clients -> Seq(Text)]
  BY <1>1, <1>2, FilesTyped DEF files
<1>9. TypeOK' /\ ThreadsInv' /\ SlotsDiffer' /\ TableInv'
  BY <1>2, <1>6, <1>7, <1>8, GoesOnKeeps DEF n
<1>10. Phase(c)'
  <2> DEFINE f == temp[server[c].slot]
             g == temp'[server'[c].slot]
             s == server'[c]
  <2>1. PhaseOf(Line(c), client[c], n, output[c], server[c], f)
    BY <1>1 DEF Phase, n
  <2>2. server[c].pc \in Apart /\ s.pc \in Apart \cup {"execute"}
    BY <1>2 DEF Apart
  <2>3. /\ n.request # Nothing /\ r.request = Nothing
        /\ r.responses = n.responses /\ r.client = n.client /\ r.server = n.server
    BY <1>5, <1>6 DEF Nothing
  <2> HIDE DEF f, g, s
  <2>4. PhaseOf(Line(c), client[c], r, output[c], s, g)
    BY <2>1, <2>2, <2>3, PhaseTaken
  <2>5. Line(c)' = Line(c)
    BY <1>3 DEF Line
  <2> QED BY <1>2, <1>3, <1>7, <2>4, <2>5 DEF Phase, g, s, files
<1>11. \A d \in Clients : Phase(d)'
  BY <1>2, <1>3, <1>7, <1>10, OthersKept DEF files
<1> QED BY <1>9, <1>11 DEF Inv

LEMMA InvExecutes ==
  ASSUME Inv, Running, NEW c \in Clients, Execute(c)
  PROVE  Inv'
<1>1. TypeOK /\ Phase(c)
  BY InvIs
<1>2. /\ GoesOn(c) /\ UNCHANGED net /\ server[c].pc = "execute" /\ server'[c].pc = "send"
      /\ server'[c].read = 0
  BY <1>1, ExecutesGoesOn
<1>3. ServerOnly(c) /\ UNCHANGED client /\ server'[c].slot = server[c].slot
  BY <1>2 DEF GoesOn, ServerOnly
<1>4. PICK n \in LineCounts :
        LET lines == [i \in 1 .. n |-> Line(c)]
        IN  /\ temp' = [temp EXCEPT ![server[c].slot] = lines]
            /\ output' = [output EXCEPT ![c] = lines]
  BY DEF Execute
<1>5. n \in Nat
  BY SocketServerAssumption
<1> DEFINE lines == [i \in 1 .. n |-> Line(c)]
<1>6. temp' = [temp EXCEPT ![server[c].slot] = lines] /\ output' = [output EXCEPT ![c] = lines]
  BY <1>4
<1>7. lines \in Seq(Text) /\ OwnText(Line(c), lines)
  BY <1>1, <1>5, LinesTyped
<1> HIDE DEF lines
<1>8. PICK i \in Slots : i = server[c].slot
  BY <1>1, ServerFields DEF TypeOK
<1>9. /\ temp' \in [Slots -> Seq(Text)] /\ output' \in [Clients -> Seq(Text)]
      /\ temp'[i] = lines /\ \A k \in Slots : k # i => temp'[k] = temp[k]
      /\ output'[c] = lines /\ \A d \in Clients \ {c} : output'[d] = output[d]
  BY <1>1, <1>6, <1>7, <1>8, FilesTyped
<1>10. NetOnly(c) /\ net'[c].state = net[c].state /\ net'[c].server = net[c].server
  BY <1>1, <1>2, FilesTyped DEF NetOnly
<1>11. TypeOK' /\ ThreadsInv' /\ SlotsDiffer' /\ TableInv'
  BY <1>2, <1>9, <1>10, GoesOnKeeps
<1>12. Phase(c)'
  <2> DEFINE f == temp[server[c].slot]
             s == server'[c]
  <2>1. PhaseOf(Line(c), client[c], net[c], output[c], server[c], f)
    BY <1>1 DEF Phase
  <2>2. s.pc = "send" /\ s.read = 0 /\ s.slot = i
    BY <1>2, <1>3, <1>8
  <2> HIDE DEF f, s
  <2>3. PhaseOf(Line(c), client[c], net[c], lines, s, lines)
    BY <1>2, <1>7, <2>1, <2>2, PhaseExecutes
  <2>4. Line(c)' = Line(c) /\ client'[c] = client[c] /\ net'[c] = net[c]
    BY <1>2, <1>3 DEF Line
  <2>5. server'[c] = s /\ temp'[s.slot] = lines /\ output'[c] = lines
    BY <1>9, <2>2 DEF s
  <2> QED BY <2>3, <2>4, <2>5 DEF Phase
<1>13. Active(c) /\ \A k \in Slots : k # server[c].slot => temp'[k] = temp[k]
  BY <1>2, <1>8, <1>9 DEF Active
<1>14. \A d \in Clients : Phase(d)'
  BY <1>3, <1>9, <1>10, <1>12, <1>13, OthersKept
<1> QED BY <1>11, <1>14 DEF Inv

(* The connection after a message to the client.                           *)
LEMMA SendsTo ==
  ASSUME TypeOK, NEW c \in Clients, NEW e \in Response,
         net' = [net EXCEPT ![c].responses = IF net[c].client THEN Append(@, e) ELSE @]
  PROVE  /\ NetOnly(c) /\ net'[c].state = net[c].state /\ net'[c].request = net[c].request
         /\ net'[c].client = net[c].client /\ net'[c].server = net[c].server
         /\ net[c].client => net'[c].responses = Append(net[c].responses, e)
<1> DEFINE n == net[c]
           q == IF n.client THEN Append(n.responses, e) ELSE n.responses
           r == [n EXCEPT !.responses = q]
<1>1. n \in NetType /\ n.responses \in Seq(Response)
  BY NetFields DEF TypeOK
<1>2. net' = [net EXCEPT ![c] = r]
  OBVIOUS
<1> HIDE DEF n
<1>3. q \in Seq(Response) /\ (n.client => q = Append(n.responses, e))
  BY <1>1
<1> HIDE DEF q
<1>4. /\ r \in NetType /\ r.state = n.state /\ r.request = n.request
      /\ r.responses = q /\ r.client = n.client /\ r.server = n.server
  BY <1>1, <1>3, NetResponses
<1> HIDE DEF r
<1>5. NetOnly(c) /\ net'[c] = r
  BY <1>2, <1>4, NetChanges
<1> QED BY <1>3, <1>4, <1>5 DEF n

LEMMA InvSendsLine ==
  ASSUME Inv, Running, NEW c \in Clients, SendLine(c)
  PROVE  Inv'
<1>1. TypeOK /\ Phase(c)
  BY InvIs
<1>2. CASE Exit
  BY <1>2, ExitKeeps
<1>3. CASE ~Exit
  <2> DEFINE n == net[c]
             m == net'[c]
             s == server[c]
             t == server'[c]
             f == temp[server[c].slot]
             k == client[c]
             e == [end |-> FALSE, line |-> f[s.read + 1]]
  <2>1. /\ GoesOn(c) /\ UNCHANGED files /\ s.pc = "send" /\ t.pc = "send"
        /\ t.read = s.read + 1
    BY <1>1, <1>3, SendsGoesOn
  <2>2. ServerOnly(c) /\ UNCHANGED client /\ t.slot = s.slot
    BY <2>1 DEF GoesOn, ServerOnly
  <2>3. s.read < Len(f) /\ net' = [net EXCEPT ![c].responses = IF net[c].client THEN Append(@, e) ELSE @]
    BY <1>3 DEF SendLine, Sends
  <2>4. f \in Seq(Text) /\ s.read \in Nat /\ n.responses \in Seq(Response) /\ k.printed \in Seq(Text)
    BY <1>1, ServerFields, NetFields, ClientFields DEF TypeOK
  <2>5. e \in Response /\ ~e.end /\ e.line = f[s.read + 1]
    <3> DEFINE x == f[s.read + 1]
    <3>1. x \in Text
      <4> DEFINE a == s.read
                 b == Len(f)
      <4>1. a \in Nat /\ b \in Nat /\ a < b
        BY <2>3, <2>4
      <4> HIDE DEF a, b
      <4>2. a + 1 \in 1 .. b
        BY <4>1
      <4>3. s.read + 1 \in 1 .. Len(f)
        BY <4>2 DEF a, b
      <4> QED BY <2>4, <4>3
    <3> HIDE DEF x
    <3>2. LET r == [end |-> FALSE, line |-> x] IN r \in Response /\ r.end = FALSE /\ r.line = x
      BY <3>1, ResponseTyped
    <3> QED BY <3>2 DEF x
  <2> HIDE DEF e
  <2>6. /\ NetOnly(c) /\ m.state = n.state /\ m.request = n.request
        /\ m.client = n.client /\ m.server = n.server
        /\ n.client => m.responses = Append(n.responses, e)
    BY <1>1, <2>3, <2>5, SendsTo
  <2>7. temp' \in [Slots -> Seq(Text)] /\ output' \in [Clients -> Seq(Text)]
    BY <1>1, <2>1, FilesTyped DEF files
  <2>8. TypeOK' /\ ThreadsInv' /\ SlotsDiffer' /\ TableInv'
    BY <2>1, <2>6, <2>7, GoesOnKeeps
  <2>9. Phase(c)'
    <3>1. PhaseOf(Line(c), k, n, output[c], s, f)
      BY <1>1 DEF Phase
    <3>2. temp'[t.slot] = f /\ output'[c] = output[c] /\ client'[c] = k
      BY <2>1, <2>2 DEF files
    <3>3. Line(c)' = Line(c)
      BY <2>2 DEF Line
    <3> HIDE DEF n, m, s, t, f, k
    <3>4. PhaseOf(Line(c), k, m, output[c], t, f)
      BY <2>1, <2>3, <2>4, <2>5, <2>6, <3>1, PhaseSends
    <3> QED BY <3>2, <3>3, <3>4 DEF Phase, m, t
  <2>10. \A d \in Clients : Phase(d)'
    BY <2>1, <2>2, <2>6, <2>9, OthersKept DEF files
  <2> QED BY <2>8, <2>10 DEF Inv
<1> QED BY <1>2, <1>3

LEMMA InvSendsEnd ==
  ASSUME Inv, Running, NEW c \in Clients, SendEnd(c)
  PROVE  Inv'
<1>1. TypeOK /\ Phase(c)
  BY InvIs
<1>2. CASE Exit
  BY <1>2, ExitKeeps
<1>3. CASE ~Exit
  <2> DEFINE n == net[c]
             m == net'[c]
             s == server[c]
             t == server'[c]
             f == temp[server[c].slot]
             g == temp'[server'[c].slot]
             k == client[c]
             e == [end |-> TRUE, line |-> <<>>]
  <2>1. GoesOn(c) /\ UNCHANGED output /\ s.pc = "send" /\ t.pc \in {"close", "receive"}
    BY <1>1, <1>3, EndsGoesOn
  <2>2. ServerOnly(c) /\ UNCHANGED client /\ t.slot = s.slot
    BY <2>1 DEF GoesOn, ServerOnly
  <2>3. s.read >= Len(f) /\ net' = [net EXCEPT ![c].responses = IF net[c].client THEN Append(@, e) ELSE @]
    BY <1>3 DEF SendEnd, Sends
  <2>4. /\ f \in Seq(Text) /\ s.read \in Nat /\ n.responses \in Seq(Response) /\ k.printed \in Seq(Text)
        /\ output[c] \in Seq(Text)
    BY <1>1, ServerFields, NetFields, ClientFields DEF TypeOK
  <2>5. e \in Response /\ e.end
    BY DEF Response, Text
  <2> HIDE DEF e
  <2>6. /\ NetOnly(c) /\ m.state = n.state /\ m.request = n.request
        /\ m.client = n.client /\ m.server = n.server
        /\ n.client => m.responses = Append(n.responses, e)
    BY <1>1, <2>3, <2>5, SendsTo
  <2>7. PICK i \in Slots : i = server[c].slot
    BY <1>1, ServerFields DEF TypeOK
  <2>8. /\ temp' \in [Slots -> Seq(Text)] /\ output' \in [Clients -> Seq(Text)]
        /\ \A j \in Slots : j # server[c].slot => temp'[j] = temp[j]
    <3>1. temp' \in {temp, [temp EXCEPT ![i] = <<>>]}
      BY <2>7 DEF SendEnd
    <3> QED BY <1>1, <2>1, <2>7, <3>1, FilesTyped, EmptySeqs
  <2>9. TypeOK' /\ ThreadsInv' /\ SlotsDiffer' /\ TableInv'
    BY <2>1, <2>6, <2>8, GoesOnKeeps
  <2>10. Phase(c)'
    <3>1. PhaseOf(Line(c), k, n, output[c], s, f)
      BY <1>1 DEF Phase
    <3>2. output'[c] = output[c] /\ client'[c] = k
      BY <2>1, <2>2
    <3>3. Line(c)' = Line(c)
      BY <2>2 DEF Line
    <3>5. t.pc \in Apart
      BY <2>1 DEF Apart
    <3> HIDE DEF n, m, s, t, f, g, k
    <3>4. PhaseOf(Line(c), k, m, output[c], t, g)
      BY <2>1, <2>3, <2>4, <2>5, <2>6, <3>1, <3>5, PhaseSent
    <3> QED BY <3>2, <3>3, <3>4 DEF Phase, m, t, g
  <2>11. Active(c)
    BY <2>1 DEF Active
  <2>12. \A d \in Clients : Phase(d)'
    BY <2>1, <2>2, <2>6, <2>8, <2>10, <2>11, OthersKept
  <2> QED BY <2>9, <2>12 DEF Inv
<1> QED BY <1>2, <1>3

(* The end of a thread.                                                    *)
LEMMA LeavesKeeps ==
  ASSUME Inv, Running, NEW c \in Clients, Leaves(c), NetOnly(c), net'[c].state = net[c].state
  PROVE  TypeOK' /\ ThreadsInv' /\ SlotsDiffer' /\ TableInv'
<1>1. TypeOK /\ ThreadsInv /\ SlotsDiffer /\ TableInv
  BY DEF Inv
<1>2. /\ ServerOnly(c) /\ server[c].pc # "none" /\ server'[c].pc \in {"shut down", "flag", "ended"}
      /\ UNCHANGED <<build, process, ShutFlag, main, accept, handles, client, files>>
  BY DEF Leaves, Live
<1>3. /\ net' \in [Clients -> NetType] /\ \A d \in Clients \ {c} : net'[d] = net[d]
      /\ \A d \in Clients : net'[d].state = net[d].state
  BY DEF NetOnly
<1>4. srv_arg' \in [Slots -> SlotType]
  <2>1. PICK n \in {1, 3} : srv_arg' = [srv_arg EXCEPT ![server[c].slot].status = n]
    BY DEF Leaves
  <2> DEFINE j == server[c].slot
             q == [srv_arg EXCEPT ![j].status = n]
  <2>2. \A x \in {1, 3} : x \in 0 .. 3
    BY Statuses
  <2>3. n \in 0 .. 3 /\ j \in Slots /\ srv_arg' = q
    BY <1>1, <2>1, <2>2, ServerFields DEF TypeOK
  <2> HIDE DEF j
  <2>4. q \in [Slots -> SlotType]
    BY <1>1, <2>3, StatusTo
  <2> QED BY <2>3, <2>4
<1>5. TypeOK'
  BY <1>1, <1>2, <1>3, <1>4, TypeServer, FilesTyped DEF files, TypeOK
<1>6. ThreadsInv'
  <2>1. server'[c].pc # "none" /\ (ShutFlag => ShutFlag')
    BY <1>2
  <2> QED BY <1>1, <1>2, <1>3, <2>1, ThreadsServer
<1>7. SlotsDiffer'
  <2>1. \A d \in Clients : server'[d] = server[d] \/ ~Active(d)'
    BY <1>2 DEF ServerOnly, Active
  <2> QED BY <1>1, <2>1, SlotsKept
<1>8. TableInv'
  BY <1>1, TableLeft
<1> QED BY <1>5, <1>6, <1>7, <1>8

LEMMA InvStops ==
  ASSUME Inv, Running, NEW c \in Clients, ServerStops(c)
  PROVE  Inv'
<1>1. TypeOK /\ Phase(c)
  BY InvIs
<1>2. Leaves(c) /\ server[c].pc = "close" /\ server'[c].pc \in {"shut down", "ended"}
  BY <1>1, StopsLeaves
<1>3. ServerOnly(c) /\ UNCHANGED <<client, files>>
  BY <1>2 DEF Leaves
<1>4. CASE build.Server.closes
  <2> DEFINE n == net[c]
             r == [n EXCEPT !.server = FALSE, !.request = "", !.cut = FALSE]
  <2>1. n \in NetType
    BY <1>1 DEF TypeOK
  <2>2. net' = [net EXCEPT ![c] = r]
    BY <1>4 DEF ServerStops, Hangup
  <2> HIDE DEF n
  <2>3. /\ r \in NetType /\ r.state = n.state /\ r.request = "" /\ r.responses = n.responses
        /\ r.client = n.client /\ ~r.server
    BY <2>1 DEF NetType, Requests
  <2> HIDE DEF r
  <2>4. NetOnly(c) /\ net'[c] = r
    BY <1>1, <2>2, <2>3, NetChanges
  <2>5. TypeOK' /\ ThreadsInv' /\ SlotsDiffer' /\ TableInv'
    BY <1>2, <2>3, <2>4, LeavesKeeps DEF n
  <2>6. Phase(c)'
    <3> DEFINE f == temp[server[c].slot]
               g == temp'[server'[c].slot]
               t == server'[c]
    <3>1. PhaseOf(Line(c), client[c], n, output[c], server[c], f)
      BY <1>1 DEF Phase, n
    <3>2. t.pc \in Apart
      BY <1>2 DEF Apart
    <3>3. r.request = Nothing /\ r.responses = n.responses /\ r.client = n.client /\ ~r.server
      BY <2>3 DEF Nothing
    <3> HIDE DEF f, g, t
    <3>4. PhaseOf(Line(c), client[c], r, output[c], t, g)
      BY <3>1, <3>2, <3>3, PhaseDies
    <3>5. Line(c)' = Line(c)
      BY <1>3 DEF Line
    <3> QED BY <1>3, <2>4, <3>4, <3>5 DEF Phase, g, t, files
  <2>7. \A d \in Clients : Phase(d)'
    BY <1>3, <2>4, <2>6, OthersKept DEF files
  <2> QED BY <2>5, <2>7 DEF Inv
<1>5. CASE ~build.Server.closes
  <2>1. UNCHANGED net
    BY <1>5 DEF ServerStops
  <2>2. NetOnly(c) /\ net'[c].state = net[c].state
    BY <1>1, <2>1, FilesTyped DEF NetOnly
  <2>3. TypeOK' /\ ThreadsInv' /\ SlotsDiffer' /\ TableInv'
    BY <1>2, <2>2, LeavesKeeps
  <2>4. server[c].pc \in Apart /\ server'[c].pc \in Apart
    BY <1>2 DEF Apart
  <2>5. \A d \in Clients : Phase(d)'
    BY <1>3, <2>1, <2>4, PhaseSteps
  <2> QED BY <2>3, <2>5 DEF Inv
<1> QED BY <1>4, <1>5

LEMMA InvShutsDown ==
  ASSUME Inv, Running, NEW c \in Clients, ServerShutsDown(c)
  PROVE  Inv'
<1>1. TypeOK
  BY InvIs
<1>2. Leaves(c) /\ UNCHANGED net /\ server[c].pc = "shut down"
  BY <1>1, ShutsDownLeaves DEF ServerShutsDown
<1>3. ServerOnly(c) /\ UNCHANGED <<client, net, files>>
  BY <1>2 DEF Leaves
<1>4. NetOnly(c) /\ net'[c].state = net[c].state
  BY <1>1, <1>2, FilesTyped DEF NetOnly
<1>5. TypeOK' /\ ThreadsInv' /\ SlotsDiffer' /\ TableInv'
  BY <1>2, <1>4, LeavesKeeps
<1>6. server[c].pc \in Apart /\ server'[c].pc \in Apart
  BY <1>2 DEF Leaves, Apart
<1>7. \A d \in Clients : Phase(d)'
  BY <1>3, <1>6, PhaseSteps
<1> QED BY <1>5, <1>7 DEF Inv

LEMMA InvSetsFlag ==
  ASSUME Inv, Running, NEW c \in Clients, ServerSetsFlag(c)
  PROVE  Inv'
<1>1. TypeOK /\ ThreadsInv /\ SlotsDiffer /\ TableInv
  BY DEF Inv
<1>2. /\ ServerOnly(c) /\ server[c].pc = "flag" /\ server'[c].pc = "ended" /\ ShutFlag' = TRUE
      /\ UNCHANGED <<build, process, main, accept, srv_arg, handles, client, files, net>>
  BY <1>1, SetsFlagGoes
<1>3. TypeOK'
  <2>1. ShutFlag' \in BOOLEAN /\ srv_arg' \in [Slots -> SlotType]
    BY <1>1, <1>2 DEF TypeOK
  <2> QED BY <1>1, <1>2, <2>1, TypeServer, FilesTyped DEF files
<1>4. ThreadsInv'
  <2>1. server[c].pc # "none" /\ server'[c].pc # "none" /\ (ShutFlag => ShutFlag')
        /\ server'[c].pc \in {"shut down", "flag", "ended"}
    BY <1>2
  <2> QED BY <1>1, <1>2, <2>1, ThreadsServer
<1>5. SlotsDiffer'
  <2>1. \A d \in Clients : server'[d] = server[d] \/ ~Active(d)'
    BY <1>2 DEF ServerOnly, Active
  <2> QED BY <1>1, <2>1, SlotsKept
<1>6. TableInv'
  BY <1>1, TableFlag
<1>7. \A d \in Clients : Phase(d)'
  <2>1. server[c].pc \in Apart /\ server'[c].pc \in Apart
    BY <1>2 DEF Apart
  <2> QED BY <1>2, <2>1, PhaseSteps
<1> QED BY <1>3, <1>4, <1>5, <1>6, <1>7 DEF Inv

LEMMA InvServer ==
  ASSUME Inv, NEW c \in Clients, Server(c)
  PROVE  Inv'
BY InvBegins, InvReceives, InvDisconnects, InvExecutes, InvSendsLine, InvSendsEnd, OpenFailsKeeps,
   InvStops, InvShutsDown, InvSetsFlag DEF Server

-----------------------------------------------------------------------------
(* Lemmas.  A step of the accept thread keeps the invariant.               *)
LEMMA EndedAccept == Memory.accept \in AcceptType /\ Memory.accept.pc = "ended"
BY MemoryTyped

LEMMA AcceptReturnsPoints ==
  ASSUME TypeOK, AcceptReturns
  PROVE  \E c \in Clients :
           /\ NetOnly(c) /\ net[c].state = "backlog" /\ net'[c].state = "open"
           /\ net'[c].request = net[c].request /\ net'[c].responses = net[c].responses
           /\ net'[c].client = net[c].client /\ net'[c].server = net[c].server
           /\ accept' \in AcceptType /\ accept'.pc = "begin" /\ accept'.of = c
<1>1. PICK c \in Waiting : /\ net' = [net EXCEPT ![c].state = "open"]
                           /\ accept' = [accept EXCEPT !.pc = "begin", !.of = c]
  BY DEF AcceptReturns
<1>2. c \in Clients /\ net[c].state = "backlog" /\ accept \in AcceptType
  BY DEF Waiting, TypeOK
<1> DEFINE n == net[c]
           r == [n EXCEPT !.state = "open"]
           q == [accept EXCEPT !.pc = "begin", !.of = c]
<1>3. n \in NetType /\ net' = [net EXCEPT ![c] = r]
  BY <1>1, <1>2 DEF TypeOK
<1> HIDE DEF n
<1>4. /\ r \in NetType /\ r.state = "open" /\ r.request = n.request
      /\ r.responses = n.responses /\ r.client = n.client /\ r.server = n.server
  <2>1. "open" \in {"none", "backlog", "open"}
    OBVIOUS
  <2> QED BY <1>3, <2>1, NetState
<1> HIDE DEF r
<1>5. NetOnly(c) /\ net'[c] = r
  BY <1>2, <1>3, <1>4, NetChanges
<1>6. q \in AcceptType /\ q.pc = "begin" /\ q.of = c
  BY <1>2 DEF AcceptType
<1>7. accept' = q
  BY <1>1
<1> HIDE DEF q
<1>8. /\ net'[c].state = "open" /\ net'[c].request = n.request /\ net'[c].responses = n.responses
      /\ net'[c].client = n.client /\ net'[c].server = n.server
  BY <1>4, <1>5
<1> QED BY <1>2, <1>5, <1>6, <1>7, <1>8 DEF n

LEMMA InvReturns ==
  ASSUME Inv, Running, AcceptReturns
  PROVE  Inv'
<1>1. TypeOK /\ ThreadsInv /\ SlotsDiffer /\ TableInv /\ \A d \in Clients : Phase(d)
  BY InvIs
<1>2. PICK c \in Clients :
           /\ NetOnly(c) /\ net[c].state = "backlog" /\ net'[c].state = "open"
           /\ net'[c].request = net[c].request /\ net'[c].responses = net[c].responses
           /\ net'[c].client = net[c].client /\ net'[c].server = net[c].server
           /\ accept' \in AcceptType /\ accept'.pc = "begin" /\ accept'.of = c
  BY <1>1, AcceptReturnsPoints
<1>3. UNCHANGED <<build, process, ShutFlag, main, temp, output, client, handles, server>>
  BY DEF AcceptReturns, AcceptFrame, files
<1>4. net' \in [Clients -> NetType] /\ \A d \in Clients \ {c} : net'[d] = net[d]
  BY <1>2 DEF NetOnly
<1>5. srv_arg' \in [Slots -> SlotType]
  <2> DEFINE j == accept.slot
             q == [srv_arg EXCEPT ![j].status = 2]
  <2>1. accept \in AcceptType
    BY <1>1 DEF TypeOK
  <2>2. j \in Slots
    BY <2>1, AcceptFields
  <2>3. srv_arg' = q
    BY DEF AcceptReturns
  <2>4. 2 \in 0 .. 3
    BY Statuses
  <2> HIDE DEF j
  <2>5. q \in [Slots -> SlotType]
    BY <1>1, <2>2, <2>4, StatusTo
  <2> QED BY <2>3, <2>5
<1>6. TypeOK'
  BY <1>1, <1>2, <1>3, <1>4, <1>5 DEF TypeOK
<1>7. ThreadsInv'
  <2>1. server[c].pc = "none" /\ client[c].pc # "start"
    BY <1>1, <1>2 DEF ThreadsInv
  <2>2. main'.pc \in {"shutdown", "last"} => ShutFlag'
    BY <1>1, <1>3 DEF ThreadsInv
  <2>3. main'.pc = "poll" => main'.hAcceptTh \in HandleValues /\ handles'[main'.hAcceptTh] = Accept
    BY <1>1, <1>3 DEF ThreadsInv
  <2>4. net'[accept'.of].state = "open" /\ server'[accept'.of].pc = "none"
    BY <1>2, <1>3, <2>1
  <2>5. ASSUME NEW d \in Clients, net'[d].state # "open" PROVE server'[d].pc = "none"
    <3>1. d # c
      BY <1>2, <2>5
    <3> QED BY <1>1, <1>3, <1>4, <2>5, <3>1 DEF ThreadsInv
  <2>6. \A d \in Clients : client'[d].pc = "start" => net'[d].state = "none"
    BY <1>1, <1>3, <1>4, <2>1 DEF ThreadsInv
  <2>7. \A d \in Clients : ~net'[d].server =>
          server'[d].pc \in IF Running' THEN {"shut down", "flag", "ended"} ELSE {"none"}
    <3>1. ASSUME NEW d \in Clients, ~net'[d].server PROVE ~net[d].server
      <4>1. CASE d = c
        BY <1>2, <3>1, <4>1
      <4>2. CASE d # c
        BY <1>4, <3>1, <4>2
      <4> QED BY <4>1, <4>2
    <3> QED BY <1>1, <1>3, <3>1 DEF ThreadsInv, Running
  <2> QED BY <1>2, <2>2, <2>3, <2>4, <2>5, <2>6, <2>7 DEF ThreadsInv
<1>8. SlotsDiffer'
  BY <1>1, <1>3 DEF SlotsDiffer, Active
<1>9. TableInv'
  BY <1>1, TableReturns
<1>10. ASSUME NEW d \in Clients PROVE Phase(d)'
  <2>1. CASE d # c
    BY <1>1, <1>3, <1>4, <2>1, PhaseKept
  <2>2. CASE d = c
    <3> DEFINE f == temp[server[c].slot]
               n == net[c]
               m == net'[c]
    <3>1. PhaseOf(Line(c), client[c], n, output[c], server[c], f)
      BY <1>1 DEF Phase
    <3>2. m.request = n.request /\ m.responses = n.responses /\ m.client = n.client /\ m.server = n.server
      BY <1>2
    <3> HIDE DEF n, m
    <3>3. PhaseOf(Line(c), client[c], m, output[c], server[c], f)
      BY <3>1, <3>2, PhaseNet
    <3>4. Line(c)' = Line(c)
      BY <1>3 DEF Line
    <3> QED BY <1>3, <2>2, <3>3, <3>4 DEF Phase, m
  <2> QED BY <2>1, <2>2
<1> QED BY <1>6, <1>7, <1>8, <1>9, <1>10 DEF Inv

LEMMA InvBeginsServer ==
  ASSUME Inv, Running, AcceptBeginsServer
  PROVE  Inv'
<1>1. TypeOK /\ ThreadsInv /\ SlotsDiffer /\ TableInv /\ \A d \in Clients : Phase(d)
  BY InvIs
<1>2. PICK c \in Clients, h \in HandleValues :
           /\ c = accept.of /\ handles[h] = Closed /\ accept.pc = "begin"
           /\ accept' \in AcceptType /\ accept'.pc = "store" /\ accept'.of = c
           /\ accept'.slot = accept.slot /\ accept'.thd = h
           /\ handles' \in [HandleValues -> Clients \cup {Accept, Closed}]
           /\ \A v \in HandleValues : handles'[v] = IF v = h THEN c ELSE handles[v]
           /\ server' \in [Clients -> ServerType]
           /\ server'[c].pc = "begin" /\ server'[c].slot = accept.slot
           /\ \A d \in Clients \ {c} : server'[d] = server[d]
  BY <1>1, AcceptBeginsPoints
<1>3. UNCHANGED <<build, process, ShutFlag, main, temp, output, client, srv_arg, net>>
  BY DEF AcceptBeginsServer, AcceptFrame, files
<1>4. TypeOK'
  BY <1>1, <1>2, <1>3 DEF TypeOK
<1>5. server[c].pc = "none" /\ net[c].state = "open"
  BY <1>1, <1>2 DEF ThreadsInv
<1>6. net[c].server
  BY <1>1, <1>5 DEF ThreadsInv, Running
<1>7. ThreadsInv'
  <2>1. main'.pc \in {"shutdown", "last"} => ShutFlag'
    BY <1>1, <1>3 DEF ThreadsInv
  <2>2. main'.pc = "poll" => main'.hAcceptTh \in HandleValues /\ handles'[main'.hAcceptTh] = Accept
    BY <1>1, <1>2, <1>3, Marks DEF ThreadsInv
  <2>3. server'[accept'.of].pc # "none"
    BY <1>2
  <2>4. \A d \in Clients : net'[d].state # "open" => server'[d].pc = "none"
    <3>1. ASSUME NEW d \in Clients, net[d].state # "open" PROVE server'[d].pc = "none"
      <4>1. d # c
        BY <1>5, <3>1
      <4> QED BY <1>1, <1>2, <3>1, <4>1 DEF ThreadsInv
    <3> QED BY <1>3, <3>1
  <2>5. \A d \in Clients : client'[d].pc = "start" => net'[d].state = "none"
    BY <1>1, <1>3 DEF ThreadsInv
  <2>6. \A d \in Clients : ~net'[d].server =>
          server'[d].pc \in IF Running' THEN {"shut down", "flag", "ended"} ELSE {"none"}
    <3>1. ASSUME NEW d \in Clients, ~net[d].server PROVE server'[d].pc \in {"shut down", "flag", "ended"}
      <4>1. d # c
        BY <1>6, <3>1
      <4> QED BY <1>1, <1>2, <3>1, <4>1 DEF ThreadsInv, Running
    <3> QED BY <1>3, <3>1 DEF Running
  <2> QED BY <1>2, <2>1, <2>2, <2>3, <2>4, <2>5, <2>6 DEF ThreadsInv
<1>8. SlotsDiffer'
  <2>1. \A d \in Clients : server'[d] = server[d] \/ ~Active(d)'
    BY <1>2 DEF Active
  <2> QED BY <1>1, <2>1, SlotsKept
<1>9. TableInv'
  BY <1>1, TableBegins
<1>10. ASSUME NEW d \in Clients PROVE Phase(d)'
  <2>1. CASE d # c
    BY <1>1, <1>2, <1>3, <2>1, PhaseKept
  <2>2. CASE d = c
    <3> DEFINE f == temp[server[c].slot]
               g == temp'[server'[c].slot]
               t == server'[c]
    <3>1. PhaseOf(Line(c), client[c], net[c], output[c], server[c], f)
      BY <1>1 DEF Phase
    <3>2. server[c].pc \in Apart /\ t.pc \in Apart
      BY <1>2, <1>5 DEF Apart
    <3> HIDE DEF f, g, t
    <3>3. PhaseOf(Line(c), client[c], net[c], output[c], t, g)
      BY <3>1, <3>2, PhaseMoves
    <3>4. Line(c)' = Line(c)
      BY <1>3 DEF Line
    <3> QED BY <1>3, <2>2, <3>3, <3>4 DEF Phase, g, t
  <2> QED BY <2>1, <2>2
<1> QED BY <1>4, <1>7, <1>8, <1>9, <1>10 DEF Inv

LEMMA InvAcceptEnds ==
  ASSUME Inv, Running, AcceptBeginFails \/ AcceptStoresHandle
  PROVE  Inv'
<1>1. TypeOK /\ ThreadsInv /\ SlotsDiffer /\ TableInv /\ \A d \in Clients : Phase(d)
  BY InvIs
<1>2. UNCHANGED <<build, process, ShutFlag, main, temp, output, client, handles, server, net>>
  BY DEF AcceptBeginFails, AcceptStoresHandle, AcceptFrame, files
<1>3. accept' \in AcceptType /\ accept'.pc = "ended"
  BY EndedAccept DEF AcceptBeginFails, AcceptStoresHandle
<1>4. PICK h \in HandleValues \cup {NULL} :
        /\ accept.pc = "begin" \/ (accept.pc = "store" /\ h = accept.thd)
        /\ srv_arg' = [srv_arg EXCEPT ![accept.slot].srv_thd = h]
  <2>1. CASE AcceptBeginFails
    BY <2>1 DEF AcceptBeginFails
  <2>2. CASE AcceptStoresHandle
    <3>1. accept.thd \in HandleValues
      BY <1>1, <2>2 DEF TypeOK, AcceptStoresHandle
    <3> QED BY <2>2, <3>1 DEF AcceptStoresHandle
  <2> QED BY <2>1, <2>2
<1>5. /\ srv_arg' \in [Slots -> SlotType]
      /\ \A k \in Slots : /\ srv_arg'[k].status = srv_arg[k].status
                          /\ srv_arg'[k].srv_thd = IF k = accept.slot THEN h ELSE srv_arg[k].srv_thd
  <2> DEFINE j == accept.slot
             q == [srv_arg EXCEPT ![j].srv_thd = h]
  <2>1. accept \in AcceptType
    BY <1>1 DEF TypeOK
  <2>2. j \in Slots /\ srv_arg' = q
    BY <1>4, <2>1, AcceptFields
  <2> HIDE DEF j
  <2>3. /\ q \in [Slots -> SlotType]
        /\ \A k \in Slots : /\ q[k].status = srv_arg[k].status
                            /\ q[k].srv_thd = IF k = j THEN h ELSE srv_arg[k].srv_thd
    BY <1>1, <2>2, HandleTo
  <2> HIDE DEF q
  <2>4. /\ srv_arg' \in [Slots -> SlotType]
        /\ \A k \in Slots : /\ srv_arg'[k].status = srv_arg[k].status
                            /\ srv_arg'[k].srv_thd = IF k = j THEN h ELSE srv_arg[k].srv_thd
    BY <2>2, <2>3
  <2> QED BY <2>4 DEF j
<1>6. TypeOK'
  BY <1>1, <1>2, <1>3, <1>5 DEF TypeOK
<1>7. ThreadsInv'
  BY <1>1, <1>2, <1>3 DEF ThreadsInv, Running
<1>8. SlotsDiffer'
  BY <1>1, <1>2 DEF SlotsDiffer, Active
<1>9. TableInv'
  BY <1>1, <1>2, <1>3, <1>4, <1>5, TableStores
<1>10. \A d \in Clients : Phase(d)'
  BY <1>1, <1>2, PhaseKept
<1> QED BY <1>6, <1>7, <1>8, <1>9, <1>10 DEF Inv

LEMMA InvAccept ==
  ASSUME Inv, AcceptTh
  PROVE  Inv'
BY InvReturns, InvBeginsServer, InvAcceptEnds DEF AcceptTh

-----------------------------------------------------------------------------
(* Lemmas.  A step of main(), or of the console's handler.                 *)
LEMMA MainKeeps ==
  ASSUME Inv, MainFrame, main' \in MainType, main'.pc \in {"for", "join", "begin", "poll"} => main'.ith \in Slots,
         ShutFlag' \in BOOLEAN, srv_arg' \in [Slots -> SlotType],
         handles' \in [HandleValues -> Clients \cup {Accept, Closed}],
         main'.pc \in {"shutdown", "last"} => ShutFlag',
         main'.pc = "poll" => main.pc = "poll" /\ main'.hAcceptTh = main.hAcceptTh /\ handles' = handles,
         TableInv'
  PROVE  Inv'
<1>1. TypeOK /\ ThreadsInv /\ SlotsDiffer /\ TableInv
  BY DEF Inv
<1>2. UNCHANGED <<build, process, accept, server, temp, output, client, net>>
  BY DEF MainFrame, files
<1>3. TypeOK'
  BY <1>1, <1>2 DEF TypeOK
<1>4. ThreadsInv'
  BY <1>1, <1>2 DEF ThreadsInv, Running
<1>5. SlotsDiffer'
  BY <1>1, <1>2 DEF SlotsDiffer, Active
<1>6. process' # "crashed" => \A d \in Clients : Phase(d)'
  BY <1>1, <1>2, PhaseKept DEF Inv
<1> QED BY <1>3, <1>4, <1>5, <1>6 DEF Inv

LEMMA TablesTyped ==
  ASSUME TypeOK
  PROVE  /\ srv_arg \in [Slots -> SlotType] /\ handles \in [HandleValues -> Clients \cup {Accept, Closed}]
         /\ ShutFlag \in BOOLEAN /\ main \in MainType
         /\ main.pc \in {"for", "join", "begin", "poll"} => main.ith \in Slots
BY DEF TypeOK

LEMMA InvMain ==
  ASSUME Inv, Main
  PROVE  Inv'
<1>1. TypeOK /\ ThreadsInv /\ TableInv /\ Running
  BY DEF Inv, Main
<1>2. MainWhile \/ MainFor \/ MainBegin \/ MainPoll \/ MainShutdown \/ MainLast => TableInv'
  BY <1>1, TableMainSteps
<1>3. CASE Exit
  BY <1>1, <1>3, ExitKeeps
<1>4. CASE MainWhile
  <2>1. UNCHANGED <<ShutFlag, srv_arg, handles>> /\ MainFrame
    BY <1>4 DEF MainWhile, table
  <2>2. main' \in MainType /\ main'.ith = 0 /\ main'.pc = IF ShutFlag THEN "shutdown" ELSE "for"
    BY <1>1, <1>4, WhileTo
  <2>3. main'.ith \in Slots /\ (main'.pc \in {"shutdown", "last"} => ShutFlag') /\ main'.pc # "poll"
    BY <2>1, <2>2, Marks
  <2> QED BY <1>1, <1>2, <1>4, <2>1, <2>2, <2>3, TablesTyped, MainKeeps
<1>5. CASE MainFor
  <2>1. UNCHANGED <<ShutFlag, srv_arg, handles>> /\ MainFrame
    BY <1>5 DEF MainFor, table
  <2>2. main' \in MainType /\ main'.ith \in Slots /\ main'.pc \in {"for", "join", "begin"}
    BY <1>1, <1>5, ForTo
  <2>3. (main'.pc \in {"shutdown", "last"} => ShutFlag') /\ main'.pc # "poll"
    BY <2>2
  <2> QED BY <1>1, <1>2, <1>5, <2>1, <2>2, <2>3, TablesTyped, MainKeeps
<1>6. CASE MainJoin
  <2>1. MainFrame /\ MainGoto("begin") /\ main.pc = "join" /\ handles' = Close(SlotHandle(main.ith))
    BY <1>6 DEF MainJoin
  <2>2. main' \in MainType /\ main'.pc = "begin" /\ main'.ith = main.ith /\ main.ith \in Slots
    BY <1>1, <2>1, GotoTo, TablesTyped
  <2>3. handles' \in [HandleValues -> Clients \cup {Accept, Closed}]
    BY <1>1, <2>1, CloseTyped
  <2>4. srv_arg' \in [Slots -> SlotType] /\ ShutFlag' \in BOOLEAN
    <3> DEFINE j == main.ith
               q == [srv_arg EXCEPT ![j].status = 0]
    <3>1. srv_arg' \in {srv_arg, q} /\ ShutFlag' \in {ShutFlag, TRUE}
      BY <1>6 DEF MainJoin
    <3>2. 0 \in 0 .. 3 /\ j \in Slots
      BY <2>2
    <3> HIDE DEF j
    <3>3. q \in [Slots -> SlotType]
      BY <1>1, <3>2, StatusTo
    <3> HIDE DEF q
    <3> QED BY <1>1, <3>1, <3>3, TablesTyped
  <2>5. (main'.pc \in {"shutdown", "last"} => ShutFlag') /\ main'.pc # "poll" /\ main'.ith \in Slots
    BY <2>2
  <2>6. TableInv'
    BY <1>1, <1>6, TableJoin
  <2> QED BY <2>1, <2>2, <2>3, <2>4, <2>5, <2>6, MainKeeps
<1>7. CASE MainBegin
  <2>1. UNCHANGED <<build, process, ShutFlag, srv_arg, server, temp, output, client, net>>
    BY <1>7 DEF MainBegin, files
  <2>2. PICK h \in HandleValues :
           /\ main.pc = "begin" /\ main.ith \in Slots /\ handles[h] = Closed
           /\ main' \in MainType /\ main'.pc = "poll" /\ main'.ith = main.ith /\ main'.hAcceptTh = h
           /\ handles' \in [HandleValues -> Clients \cup {Accept, Closed}]
           /\ \A v \in HandleValues : handles'[v] = IF v = h THEN Accept ELSE handles[v]
           /\ accept' \in AcceptType /\ accept'.pc = "accept" /\ accept'.slot = main.ith
    BY <1>1, <1>7, BeginTo
  <2>3. TypeOK'
    BY <1>1, <2>1, <2>2 DEF TypeOK
  <2>4. ThreadsInv'
    BY <1>1, <2>1, <2>2 DEF ThreadsInv, Running
  <2>5. SlotsDiffer'
    BY <2>1 DEF Inv, SlotsDiffer, Active
  <2>6. \A d \in Clients : Phase(d)'
    BY <1>1, <2>1, InvIs, PhaseKept
  <2> QED BY <1>2, <1>7, <2>3, <2>4, <2>5, <2>6 DEF Inv
<1>8. CASE MainPoll
  <2>1. MainFrame /\ UNCHANGED <<ShutFlag, srv_arg>> /\ main.pc = "poll"
    BY <1>8 DEF MainPoll
  <2>2. main' \in MainType /\ main'.pc = "while" /\ handles' \in {handles, Close(main.hAcceptTh)}
    <3>1. CASE MainGoto("while") /\ UNCHANGED handles
      BY <1>1, <3>1, GotoTo
    <3>2. CASE main' = [main EXCEPT !.pc = "while", !.hAcceptTh = NULL] /\ handles' = Close(main.hAcceptTh)
      <4>1. NULL \in HandleValues \cup {NULL}
        OBVIOUS
      <4> QED BY <1>1, <3>2, <4>1, HoldsTo
    <3> QED BY <1>8, <3>1, <3>2 DEF MainPoll
  <2>3. handles' \in [HandleValues -> Clients \cup {Accept, Closed}]
    BY <1>1, <2>2, CloseTyped, TablesTyped
  <2>4. (main'.pc \in {"shutdown", "last"} => ShutFlag') /\ main'.pc \notin {"for", "join", "begin", "poll"}
    BY <2>2
  <2> QED BY <1>1, <1>2, <1>8, <2>1, <2>2, <2>3, <2>4, TablesTyped, MainKeeps
<1>9. CASE MainShutdown /\ ~Exit
  <2>1. /\ main' = [main EXCEPT !.pc = "last", !.ith = 0]
        /\ UNCHANGED <<ShutFlag, srv_arg, handles>> /\ MainFrame /\ main.pc = "shutdown"
    BY <1>9 DEF MainShutdown, table
  <2>2. main' \in MainType /\ main'.pc = "last"
    <3>1. 0 \in 0 .. MAX_CLIENTS /\ main \in MainType
      BY <1>1, Marks, TablesTyped
    <3> QED BY <2>1, <3>1 DEF MainType
  <2>3. (main'.pc \in {"shutdown", "last"} => ShutFlag') /\ main'.pc \notin {"for", "join", "begin", "poll"}
    BY <1>1, <2>1, <2>2 DEF ThreadsInv
  <2> QED BY <1>1, <1>2, <1>9, <2>1, <2>2, <2>3, TablesTyped, MainKeeps
<1>10. CASE MainLast /\ ~Exit
  <2>1. /\ main' = [main EXCEPT !.ith = @ + 1] /\ handles' = Close(SlotHandle(main.ith))
        /\ UNCHANGED <<ShutFlag, srv_arg>> /\ MainFrame /\ main.pc = "last" /\ main.ith < MAX_CLIENTS
    BY <1>10 DEF MainLast
  <2>2. main' \in MainType /\ main'.pc = "last"
    <3>1. main \in MainType /\ main.ith \in 0 .. MAX_CLIENTS
      BY <1>1, TablesTyped, MainFields
    <3> DEFINE k == main.ith + 1
    <3>2. k \in 0 .. MAX_CLIENTS
      BY <2>1, <3>1, Marks
    <3>3. main' = [main EXCEPT !.ith = k]
      BY <2>1
    <3> HIDE DEF k
    <3> QED BY <2>1, <3>1, <3>2, <3>3 DEF MainType
  <2>3. handles' \in [HandleValues -> Clients \cup {Accept, Closed}]
    BY <1>1, <2>1, CloseTyped
  <2>4. (main'.pc \in {"shutdown", "last"} => ShutFlag') /\ main'.pc \notin {"for", "join", "begin", "poll"}
    BY <1>1, <2>1, <2>2 DEF ThreadsInv
  <2> QED BY <1>1, <1>2, <1>10, <2>1, <2>2, <2>3, <2>4, TablesTyped, MainKeeps
<1> QED BY <1>3, <1>4, <1>5, <1>6, <1>7, <1>8, <1>9, <1>10 DEF Main, MainJoinFails, MainReturns

LEMMA InvHandler ==
  ASSUME Inv, Handler
  PROVE  Inv'
<1>1. TypeOK /\ ThreadsInv /\ SlotsDiffer /\ TableInv /\ Running /\ \A d \in Clients : Phase(d)
  BY InvIs DEF Handler
<1>2. /\ ShutFlag' = TRUE
      /\ UNCHANGED <<build, process, main, accept, server, srv_arg, handles, temp, output, client, net>>
  BY DEF Handler, threads, table, files
<1>3. TypeOK'
  BY <1>1, <1>2 DEF TypeOK
<1>4. ThreadsInv'
  BY <1>1, <1>2 DEF ThreadsInv, Running
<1>5. SlotsDiffer'
  BY <1>1, <1>2 DEF SlotsDiffer, Active
<1>6. TableInv'
  <2>1. Early' => Early
    BY <1>2 DEF Early, Running
  <2>2. \A d \in Clients : server'[d].slot = server[d].slot /\ server'[d].pc = server[d].pc
    BY <1>2
  <2> QED BY <1>1, <1>2, <2>1, <2>2, TableKept
<1>7. \A d \in Clients : Phase(d)'
  BY <1>1, <1>2, PhaseKept
<1> QED BY <1>3, <1>4, <1>5, <1>6, <1>7 DEF Inv

-----------------------------------------------------------------------------
(* Lemmas.  A step of a client keeps the invariant.                        *)
LEMMA ClientKeeps ==
  ASSUME Inv, NEW c \in Clients, ClientFrame,
         NEW k \in ClientType, NEW n \in NetType, NEW o \in Seq(Text),
         client' = [client EXCEPT ![c] = k], net' = [net EXCEPT ![c] = n], output' = [output EXCEPT ![c] = o],
         k.pc # "start", n.server = net[c].server, net[c].state = "open" => n.state = "open",
         process # "crashed" => PhaseOf(<<c, k.asked>>, k, n, o, server[c], temp[server[c].slot])
  PROVE  Inv'
<1>1. TypeOK /\ ThreadsInv /\ SlotsDiffer /\ TableInv
  BY DEF Inv
<1>2. UNCHANGED <<build, process, ShutFlag, main, accept, server, srv_arg, handles, temp>>
  BY DEF ClientFrame, threads, table
<1>3. /\ client \in [Clients -> ClientType] /\ net \in [Clients -> NetType]
      /\ output \in [Clients -> Seq(Text)]
  BY <1>1 DEF TypeOK
<1>4. /\ client' \in [Clients -> ClientType] /\ client'[c] = k
      /\ net' \in [Clients -> NetType] /\ net'[c] = n
      /\ output' \in [Clients -> Seq(Text)] /\ output'[c] = o
      /\ \A d \in Clients \ {c} : client'[d] = client[d] /\ net'[d] = net[d] /\ output'[d] = output[d]
  BY <1>3
<1>5. TypeOK'
  BY <1>1, <1>2, <1>4 DEF TypeOK
<1>6. ThreadsInv'
  <2>1. \A d \in Clients : net'[d].server = net[d].server /\ (net[d].state = "open" => net'[d].state = "open")
    BY <1>4
  <2>2. \A d \in Clients : client'[d].pc = "start" => client[d].pc = "start" /\ net'[d] = net[d]
    BY <1>4
  <2>3. accept.pc = "begin" => accept.of \in Clients
    BY <1>1 DEF TypeOK
  <2>4. \A d \in Clients : net'[d].state # "open" => server'[d].pc = "none"
    BY <1>1, <1>2, <2>1 DEF ThreadsInv
  <2>5. \A d \in Clients : client'[d].pc = "start" => net'[d].state = "none"
    <3>1. \A d \in Clients : client[d].pc = "start" => net[d].state = "none"
      BY <1>1 DEF ThreadsInv
    <3> QED BY <2>2, <3>1
  <2>6. ASSUME NEW d \in Clients, ~net'[d].server
        PROVE  server'[d].pc \in IF Running' THEN {"shut down", "flag", "ended"} ELSE {"none"}
    <3>1. ~net[d].server
      BY <2>1, <2>6
    <3> QED BY <1>1, <1>2, <3>1 DEF ThreadsInv, Running
  <2>7. accept'.pc = "begin" => net'[accept'.of].state = "open" /\ server'[accept'.of].pc = "none"
    BY <1>1, <1>2, <2>1, <2>3 DEF ThreadsInv
  <2>8. /\ main'.pc \in {"shutdown", "last"} => ShutFlag'
        /\ main'.pc = "poll" => main'.hAcceptTh \in HandleValues /\ handles'[main'.hAcceptTh] = Accept
        /\ accept'.pc = "store" => server'[accept'.of].pc # "none"
    BY <1>1, <1>2 DEF ThreadsInv
  <2> QED BY <2>4, <2>5, <2>6, <2>7, <2>8 DEF ThreadsInv
<1>7. SlotsDiffer'
  BY <1>1, <1>2 DEF SlotsDiffer, Active
<1>8. TableInv'
  <2>1. Early' => Early
    BY <1>2 DEF Early, Running
  <2>2. \A d \in Clients : server'[d].slot = server[d].slot /\ server'[d].pc = server[d].pc
    BY <1>2
  <2> QED BY <1>1, <1>2, <2>1, <2>2, TableKept
<1>9. ASSUME process' # "crashed", NEW d \in Clients PROVE Phase(d)'
  <2>1. process # "crashed" /\ \A e \in Clients : Phase(e)
    BY <1>2, <1>9 DEF Inv
  <2>2. CASE d # c
    BY <1>2, <1>4, <2>1, <2>2, PhaseKept
  <2>3. CASE d = c
    <3>1. PhaseOf(<<c, k.asked>>, k, n, o, server[c], temp[server[c].slot])
      BY <2>1
    <3>2. Line(c)' = <<c, k.asked>>
      BY <1>4 DEF Line
    <3>3. PhaseOf(Line(c)', client'[c], net'[c], output'[c], server'[c], temp'[server'[c].slot])
      BY <1>2, <1>4, <3>1, <3>2
    <3> QED BY <2>3, <3>3 DEF Phase
  <2> QED BY <2>2, <2>3
<1> QED BY <1>5, <1>6, <1>7, <1>8, <1>9 DEF Inv

LEMMA ClientIs ==
  ASSUME Inv, NEW c \in Clients
  PROVE  /\ client[c] \in ClientType /\ net[c] \in NetType /\ output[c] \in Seq(Text)
         /\ server[c] \in ServerType
         /\ net[c].responses \in Seq(Response) /\ client[c].printed \in Seq(Text)
         /\ server[c].slot \in Slots /\ temp[server[c].slot] \in Seq(Text)
         /\ client' = client => client' = [client EXCEPT ![c] = client[c]]
         /\ net' = net => net' = [net EXCEPT ![c] = net[c]]
         /\ output' = output => output' = [output EXCEPT ![c] = output[c]]
<1>1. TypeOK
  BY DEF Inv
<1>2. /\ client \in [Clients -> ClientType] /\ net \in [Clients -> NetType]
      /\ output \in [Clients -> Seq(Text)] /\ server \in [Clients -> ServerType]
      /\ temp \in [Slots -> Seq(Text)]
  BY <1>1 DEF TypeOK
<1>3. server[c].slot \in Slots /\ net[c].responses \in Seq(Response) /\ client[c].printed \in Seq(Text)
  BY <1>2, ServerFields, NetFields, ClientFields
<1> QED BY <1>2, <1>3

(* What the phase of a client says at once.                                *)
LEMMA PhaseHolds ==
  ASSUME Inv, NEW c \in Clients, process # "crashed"
  PROVE  /\ PhaseOf(Line(c), client[c], net[c], output[c], server[c], temp[server[c].slot])
         /\ ~net[c].server => net[c].request = Nothing
         /\ client[c].pc \in {"start", "prompt", "receive"} => net[c].client
<1>1. PhaseOf(Line(c), client[c], net[c], output[c], server[c], temp[server[c].slot])
  BY DEF Inv, Phase
<1> DEFINE f == temp[server[c].slot]
<1>2. PhaseOf(Line(c), client[c], net[c], output[c], server[c], f)
  BY <1>1
<1> HIDE DEF f
<1>3. /\ ~net[c].server => net[c].request = Nothing
      /\ client[c].pc \in {"start", "prompt", "receive"} => net[c].client
  BY <1>2 DEF PhaseOf, Nothing
<1> QED BY <1>1, <1>3

LEMMA InvConnects ==
  ASSUME Inv, NEW c \in Clients, ClientConnects(c)
  PROVE  Inv'
<1> DEFINE a == client[c]
           b == net[c]
           o == output[c]
           s == server[c]
           f == temp[server[c].slot]
           k == [a EXCEPT !.pc = "prompt"]
           l == [a EXCEPT !.pc = "ended"]
           n == [b EXCEPT !.state = "backlog"]
<1>1. a.pc = "start" /\ ClientFrame /\ output' = output
  BY DEF ClientConnects
<1>2. a \in ClientType /\ b \in NetType /\ o \in Seq(Text) /\ b.state # "open"
  BY <1>1, ClientIs DEF Inv, ThreadsInv
<1>3. output' = [output EXCEPT ![c] = o] /\ (net' = net => net' = [net EXCEPT ![c] = b])
  BY <1>1, ClientIs
<1>4. \/ client' = [client EXCEPT ![c] = k] /\ net' = [net EXCEPT ![c] = n]
      \/ client' = [client EXCEPT ![c] = l] /\ net' = [net EXCEPT ![c] = b]
  BY <1>3 DEF ClientConnects
<1>5. process # "crashed" => PhaseOf(<<c, a.asked>>, a, b, o, s, f) /\ (~b.server => b.request = Nothing)
  BY PhaseHolds DEF Line
<1> HIDE DEF a, b, f, o, s
<1>6. /\ k \in ClientType /\ k.pc = "prompt" /\ k.asked = a.asked
      /\ l \in ClientType /\ l.pc = "ended" /\ l.asked = a.asked
  BY <1>2 DEF ClientType
<1>7. /\ n \in NetType /\ n.state = "backlog" /\ n.request = b.request /\ n.responses = b.responses
      /\ n.client = b.client /\ n.server = b.server
  <2>1. "backlog" \in {"none", "backlog", "open"}
    OBVIOUS
  <2> QED BY <1>2, <2>1, NetState
<1> HIDE DEF k, l, n
<1>8. process # "crashed" => PhaseOf(<<c, k.asked>>, k, n, o, s, f)
  <2>1. SUFFICES ASSUME process # "crashed" PROVE PhaseOf(<<c, k.asked>>, k, n, o, s, f)
    OBVIOUS
  <2> DEFINE x == <<c, a.asked>>
  <2>2. PhaseOf(x, a, b, o, s, f) /\ x = <<c, k.asked>>
    BY <1>5, <1>6, <2>1
  <2> HIDE DEF x
  <2>3. PhaseOf(x, k, n, o, s, f)
    BY <1>1, <1>6, <1>7, <2>2, PhaseConnects
  <2> QED BY <2>2, <2>3
<1>9. process # "crashed" => PhaseOf(<<c, l.asked>>, l, b, o, s, f)
  BY <1>5, <1>6, PhaseAway
<1>10. CASE client' = [client EXCEPT ![c] = k] /\ net' = [net EXCEPT ![c] = n]
  <2>1. k.pc # "start" /\ n.server = net[c].server /\ (net[c].state = "open" => n.state = "open")
    BY <1>2, <1>6, <1>7 DEF b
  <2>2. process # "crashed" => PhaseOf(<<c, k.asked>>, k, n, o, server[c], temp[server[c].slot])
    BY <1>8 DEF s, f
  <2> QED BY <1>1, <1>2, <1>3, <1>6, <1>7, <1>10, <2>1, <2>2, ClientKeeps
<1>11. CASE client' = [client EXCEPT ![c] = l] /\ net' = [net EXCEPT ![c] = b]
  <2>1. l.pc # "start" /\ b.server = net[c].server /\ (net[c].state = "open" => b.state = "open")
    BY <1>6 DEF b
  <2>2. process # "crashed" => PhaseOf(<<c, l.asked>>, l, b, o, server[c], temp[server[c].slot])
    BY <1>9 DEF s, f
  <2> QED BY <1>1, <1>2, <1>3, <1>6, <1>11, <2>1, <2>2, ClientKeeps
<1> QED BY <1>4, <1>10, <1>11

LEMMA InvSends ==
  ASSUME Inv, NEW c \in Clients, ClientSends(c)
  PROVE  Inv'
<1>1. client[c].pc = "prompt" /\ ClientFrame /\ output' = output
  BY DEF ClientSends
<1>2. PICK r \in MayAsk(c) :
        /\ client' = [client EXCEPT ![c] = [client[c] EXCEPT !.pc = "receive", !.asked = @ + 1,
                                                             !.quits = r # "command", !.printed = <<>>]]
        /\ net' = [net EXCEPT ![c].request = IF net[c].server THEN r ELSE ""]
  BY DEF ClientSends
<1> DEFINE a == client[c]
           b == net[c]
           o == output[c]
           s == server[c]
           f == temp[server[c].slot]
           u == a.asked + 1
           v == r # "command"
           w == IF b.server THEN r ELSE ""
           k == [a EXCEPT !.pc = "receive", !.asked = u, !.quits = v, !.printed = <<>>]
           n == [b EXCEPT !.request = w]
<1>3. a \in ClientType /\ b \in NetType /\ o \in Seq(Text) /\ a.asked + 1 \in Nat
  BY ClientIs, ClientFields
<1>4. output' = [output EXCEPT ![c] = o] /\ a.pc = "prompt"
  BY <1>1, ClientIs
<1>5. client' = [client EXCEPT ![c] = k] /\ net' = [net EXCEPT ![c] = n]
  BY <1>2
<1>6. r \in Requests /\ w \in Requests /\ (~b.server => w = Nothing)
  BY DEF MayAsk, Requests, Nothing
<1>7. process # "crashed" => PhaseOf(Line(c), a, b, o, s, f)
  BY PhaseHolds
<1>8. u \in Nat /\ v \in BOOLEAN
  BY <1>3
<1>13. b = net[c] /\ f = temp[server[c].slot] /\ s = server[c]
  OBVIOUS
<1> HIDE DEF a, b, f, o, s, u, v, w
<1>9. k \in ClientType /\ k.pc = "receive" /\ k.asked = u /\ k.printed = <<>>
  BY <1>3, <1>8, EmptySeqs DEF ClientType
<1>10. /\ n \in NetType /\ n.state = b.state /\ n.request = w /\ n.responses = b.responses
       /\ n.client = b.client /\ n.server = b.server
  BY <1>3, <1>6, NetRequest
<1> HIDE DEF k, n
<1>11. process # "crashed" => PhaseOf(<<c, k.asked>>, k, n, o, s, f)
  <2> DEFINE x == Line(c)
             y == <<c, k.asked>>
  <2>1. SUFFICES ASSUME process # "crashed" PROVE PhaseOf(y, k, n, o, s, f)
    OBVIOUS
  <2>2. PhaseOf(x, a, b, o, s, f)
    BY <1>7, <2>1
  <2>3. ~b.server => n.request = Nothing
    BY <1>6, <1>10
  <2> HIDE DEF x, y
  <2> QED BY <1>4, <1>9, <1>10, <2>2, <2>3, PhaseAsks
<1>12. /\ k.pc # "start" /\ n.server = net[c].server /\ (net[c].state = "open" => n.state = "open")
       /\ process # "crashed" => PhaseOf(<<c, k.asked>>, k, n, o, server[c], temp[server[c].slot])
  BY <1>9, <1>10, <1>11, <1>13
<1> QED BY <1>1, <1>3, <1>4, <1>5, <1>9, <1>10, <1>12, ClientKeeps

(* The client closes the connection and ends.                              *)
LEMMA InvLeaves ==
  ASSUME Inv, NEW c \in Clients, ClientFrame, NEW n \in NetType,
         client' = [client EXCEPT ![c] = Gone], net' = [net EXCEPT ![c] = n],
         output' = [output EXCEPT ![c] = <<>>],
         n.state = net[c].state, n.server = net[c].server,
         process # "crashed" /\ ~n.server => n.request = Nothing
  PROVE  Inv'
<1> DEFINE s == server[c]
           f == temp[server[c].slot]
           o == <<>>
           x == <<c, Gone.asked>>
<1>1. Gone \in ClientType /\ Gone.pc = "ended" /\ o \in Seq(Text)
  BY GoneTyped, EmptySeqs
<1>2. Gone.pc \in {"spins", "ended"} /\ Gone.pc # "start"
  BY <1>1
<1> HIDE DEF s, f, o, x
<1>3. process # "crashed" => PhaseOf(x, Gone, n, o, s, f)
  BY <1>2, PhaseAway
<1>4. process # "crashed" => PhaseOf(<<c, Gone.asked>>, Gone, n, o, server[c], temp[server[c].slot])
  BY <1>3 DEF s, f, x
<1>5. output' = [output EXCEPT ![c] = o]
  BY DEF o
<1> QED BY <1>1, <1>2, <1>4, <1>5, ClientKeeps

LEMMA InvClientEnds ==
  ASSUME Inv, NEW c \in Clients, ClientFrame, ClientEnds(c)
  PROVE  Inv'
<1> DEFINE b == net[c]
           n == [b EXCEPT !.client = FALSE, !.responses = <<>>]
<1>1. b \in NetType /\ b = net[c]
  BY ClientIs
<1>2. process # "crashed" /\ ~b.server => b.request = Nothing
  BY PhaseHolds
<1>3. /\ client' = [client EXCEPT ![c] = Gone] /\ net' = [net EXCEPT ![c] = n]
      /\ output' = [output EXCEPT ![c] = <<>>]
  BY DEF ClientEnds
<1> HIDE DEF b
<1>4. n \in NetType /\ n.state = b.state /\ n.server = b.server /\ n.request = b.request
  BY <1>1, EmptySeqs DEF NetType
<1> HIDE DEF n
<1>5. /\ n.state = net[c].state /\ n.server = net[c].server
      /\ process # "crashed" /\ ~n.server => n.request = Nothing
  BY <1>1, <1>2, <1>4
<1> QED BY <1>3, <1>4, <1>5, InvLeaves

LEMMA InvKilled ==
  ASSUME Inv, NEW c \in Clients, ClientKilled(c)
  PROVE  Inv'
<1>1. PICK cut \in BOOLEAN :
        /\ cut => client[c].pc = "prompt" /\ net[c].server
        /\ net' = [net EXCEPT ![c] = [net[c] EXCEPT !.client = FALSE, !.responses = <<>>, !.cut = cut,
                                                    !.request = IF cut THEN "$ShutDownServer" ELSE @]]
  BY DEF ClientKilled
<1> DEFINE b == net[c]
           w == IF cut THEN "$ShutDownServer" ELSE b.request
           n == [b EXCEPT !.client = FALSE, !.responses = <<>>, !.cut = cut, !.request = w]
<1>2. b \in NetType /\ b = net[c] /\ b.request \in Requests
  BY ClientIs, NetFields
<1>3. process # "crashed" /\ ~b.server => b.request = Nothing
  BY PhaseHolds
<1>4. /\ client' = [client EXCEPT ![c] = Gone] /\ net' = [net EXCEPT ![c] = n]
      /\ output' = [output EXCEPT ![c] = <<>>] /\ ClientFrame
  BY <1>1 DEF ClientKilled
<1>5. w \in Requests /\ (~b.server => w = b.request)
  BY <1>1, <1>2 DEF Requests
<1> HIDE DEF b, w
<1>6. n \in NetType /\ n.state = b.state /\ n.server = b.server /\ n.request = w
  BY <1>2, <1>5, EmptySeqs DEF NetType
<1> HIDE DEF n
<1>7. /\ n.state = net[c].state /\ n.server = net[c].server
      /\ process # "crashed" /\ ~n.server => n.request = Nothing
  BY <1>2, <1>3, <1>5, <1>6
<1> QED BY <1>4, <1>6, <1>7, InvLeaves

(* The last record of a response: the client is at its prompt again, or    *)
(* has left.                                                               *)
LEMMA InvAfterResponse ==
  ASSUME Inv, NEW c \in Clients, ClientFrame, AfterResponse(c),
         net[c].responses # <<>> /\ process # "crashed" => Tail(net[c].responses) = <<>>,
         process # "crashed" => /\ net[c].client /\ net[c].request = Nothing
                                /\ server[c].pc \in Apart
  PROVE  Inv'
<1> DEFINE a == client[c]
           b == net[c]
           s == server[c]
           f == temp[server[c].slot]
           o == <<>>
           q == IF b.responses = <<>> THEN <<>> ELSE Tail(b.responses)
           k == [a EXCEPT !.pc = "prompt", !.last = "last", !.printed = <<>>]
           n == [b EXCEPT !.responses = q]
<1>1. CASE client[c].quits
  <2>1. ClientEnds(c)
    BY <1>1 DEF AfterResponse
  <2> QED BY <2>1, InvClientEnds
<1>2. CASE ~client[c].quits
  <2>1. /\ client' = [client EXCEPT ![c] = k] /\ net' = [net EXCEPT ![c] = n]
        /\ output' = [output EXCEPT ![c] = o]
    BY <1>2 DEF AfterResponse
  <2>2. a \in ClientType /\ b \in NetType /\ o \in Seq(Text) /\ b.responses \in Seq(Response)
    BY ClientIs, EmptySeqs
  <2>3. q \in Seq(Response) /\ (process # "crashed" => q = <<>>)
    <3> DEFINE r == b.responses
    <3>1. r \in Seq(Response) /\ (r # <<>> /\ process # "crashed" => Tail(r) = <<>>)
      BY <2>2
    <3> HIDE DEF b
    <3>2. q = IF r = <<>> THEN <<>> ELSE Tail(r)
      OBVIOUS
    <3> HIDE DEF r
    <3>3. r # <<>> => Tail(r) \in Seq(Response)
      BY <3>1
    <3> HIDE DEF q
    <3> QED BY <3>1, <3>2, <3>3, EmptySeqs
  <2>4. b = net[c] /\ f = temp[server[c].slot] /\ s = server[c]
    OBVIOUS
  <2>5. process # "crashed" => b.client /\ b.request = Nothing /\ s.pc \in Apart
    OBVIOUS
  <2> HIDE DEF a, b, s, f, q
  <2>6. k \in ClientType /\ k.pc = "prompt"
    BY <2>2, EmptySeqs DEF ClientType
  <2>7. /\ n \in NetType /\ n.state = b.state /\ n.request = b.request /\ n.responses = q
        /\ n.client = b.client /\ n.server = b.server
    BY <2>2, <2>3, NetResponses
  <2> HIDE DEF k, n, o
  <2>8. process # "crashed" => PhaseOf(<<c, k.asked>>, k, n, o, s, f)
    <3> DEFINE x == <<c, k.asked>>
    <3>1. SUFFICES ASSUME process # "crashed" PROVE PhaseOf(x, k, n, o, s, f)
      OBVIOUS
    <3>2. n.client /\ n.responses = <<>> /\ n.request = Nothing /\ s.pc \in Apart
      BY <2>3, <2>5, <2>7, <3>1
    <3> HIDE DEF x
    <3> QED BY <2>6, <3>2, PhasePrompts
  <2>9. /\ k.pc # "start" /\ n.server = net[c].server /\ (net[c].state = "open" => n.state = "open")
        /\ process # "crashed" => PhaseOf(<<c, k.asked>>, k, n, o, server[c], temp[server[c].slot])
    BY <2>4, <2>6, <2>7, <2>8
  <2> QED BY <2>1, <2>2, <2>6, <2>7, <2>9, ClientKeeps
<1> QED BY <1>1, <1>2

LEMMA InvReadsLine ==
  ASSUME Inv, NEW c \in Clients, ReceiveLine(c)
  PROVE  Inv'
<1> DEFINE a == client[c]
           b == net[c]
           s == server[c]
           f == temp[server[c].slot]
           o == output[c]
           r == Head(b.responses)
           p == Append(a.printed, r.line)
           q == Tail(b.responses)
           k == [a EXCEPT !.last = "more", !.printed = p]
           n == [b EXCEPT !.responses = q]
<1>1. /\ a.pc = "receive" /\ b.responses # <<>> /\ ~r.end /\ ClientFrame
      /\ client' = [client EXCEPT ![c] = k] /\ net' = [net EXCEPT ![c] = n] /\ output' = output
  BY DEF ReceiveLine
<1>2. /\ a \in ClientType /\ b \in NetType /\ o \in Seq(Text) /\ f \in Seq(Text)
      /\ b.responses \in Seq(Response) /\ a.printed \in Seq(Text)
      /\ output' = [output EXCEPT ![c] = o]
  BY <1>1, ClientIs
<1>3. p \in Seq(Text) /\ q \in Seq(Response)
  <2>1. r \in Response
    BY <1>1, <1>2
  <2>2. r.line \in Text
    BY <2>1 DEF Response
  <2> QED BY <1>1, <1>2, <2>2
<1>4. process # "crashed" => PhaseOf(<<c, a.asked>>, a, b, o, s, f)
  BY PhaseHolds DEF Line
<1>5. b = net[c] /\ f = temp[server[c].slot] /\ s = server[c]
  OBVIOUS
<1> HIDE DEF a, b, s, f, o
<1>6. p = Append(a.printed, Head(b.responses).line) /\ q = Tail(b.responses)
  OBVIOUS
<1>7. ~Head(b.responses).end
  BY <1>1
<1> HIDE DEF r, p, q
<1>8. k \in ClientType /\ k.pc = a.pc /\ k.asked = a.asked /\ k.printed = p
  BY <1>2, <1>3 DEF ClientType
<1>9. /\ n \in NetType /\ n.state = b.state /\ n.request = b.request /\ n.responses = q
      /\ n.client = b.client /\ n.server = b.server
  BY <1>2, <1>3, NetResponses
<1> HIDE DEF k, n
<1>10. process # "crashed" => PhaseOf(<<c, k.asked>>, k, n, o, s, f)
  <2> DEFINE x == <<c, a.asked>>
  <2>1. SUFFICES ASSUME process # "crashed" PROVE PhaseOf(<<c, k.asked>>, k, n, o, s, f)
    OBVIOUS
  <2>2. PhaseOf(x, a, b, o, s, f) /\ x = <<c, k.asked>>
    BY <1>4, <1>8, <2>1
  <2>3. k.pc = "receive" /\ k.printed = Append(a.printed, Head(b.responses).line) /\ n.responses = Tail(b.responses)
    BY <1>1, <1>6, <1>8, <1>9
  <2> HIDE DEF x
  <2>4. PhaseOf(x, k, n, o, s, f)
    BY <1>1, <1>2, <1>7, <1>9, <2>2, <2>3, PhaseReads
  <2> QED BY <2>2, <2>4
<1>11. /\ k.pc # "start" /\ n.server = net[c].server /\ (net[c].state = "open" => n.state = "open")
       /\ process # "crashed" => PhaseOf(<<c, k.asked>>, k, n, o, server[c], temp[server[c].slot])
  BY <1>1, <1>5, <1>8, <1>9, <1>10
<1> QED BY <1>1, <1>2, <1>8, <1>9, <1>11, ClientKeeps

(* What the client has when it reads the last record of a response.        *)
LEMMA LastRecord ==
  ASSUME Inv, NEW c \in Clients, process # "crashed", client[c].pc = "receive",
         net[c].responses # <<>>, Head(net[c].responses).end
  PROVE  /\ client[c].printed = output[c] /\ Tail(net[c].responses) = <<>> /\ net[c].client
         /\ net[c].request = Nothing /\ server[c].pc \in Apart
<1> DEFINE a == client[c]
           b == net[c]
           s == server[c]
           f == temp[server[c].slot]
           o == output[c]
           x == Line(c)
<1>1. PhaseOf(x, a, b, o, s, f) /\ s \in ServerType
  BY PhaseHolds, ClientIs
<1>2. /\ a.pc = "receive" /\ b.responses # <<>> /\ Head(b.responses).end
      /\ o \in Seq(Text) /\ b.responses \in Seq(Response) /\ a.printed \in Seq(Text)
  BY ClientIs
<1>6. Head(b.responses).end = TRUE
  <2>1. Head(b.responses) \in Response
    BY <1>2
  <2> QED BY <1>2, <2>1 DEF Response
<1> HIDE DEF a, b, s, f, o, x
<1>3. a.printed = o /\ Tail(b.responses) = <<>> /\ b.client
      /\ b.request = Nothing /\ s.pc \notin {"execute", "send"}
  BY <1>1, <1>2, <1>6, PhaseEnds
<1>4. s.pc \in Stages
  BY <1>1, ServerFields
<1>5. s.pc \in Apart
  BY <1>3, <1>4 DEF Stages, Apart
<1> QED BY <1>3, <1>5 DEF a, b, s, o

LEMMA InvReadsLast ==
  ASSUME Inv, NEW c \in Clients, ReceiveLast(c)
  PROVE  Inv'
<1>1. /\ client[c].pc = "receive" /\ net[c].responses # <<>> /\ Head(net[c].responses).end
      /\ AfterResponse(c) /\ ClientFrame
  BY DEF ReceiveLast
<1>2. process # "crashed" => /\ Tail(net[c].responses) = <<>> /\ net[c].client
                             /\ net[c].request = Nothing /\ server[c].pc \in Apart
  BY <1>1, LastRecord
<1> QED BY <1>1, <1>2, InvAfterResponse

LEMMA InvReadsNothing ==
  ASSUME Inv, NEW c \in Clients, ReceiveNothing(c)
  PROVE  Inv'
<1>1. client[c].pc = "receive" /\ net[c].responses = <<>> /\ ~net[c].server /\ ClientFrame
  BY DEF ReceiveNothing
<1>2. CASE ClientEnds(c)
  BY <1>1, <1>2, InvClientEnds
<1>3. CASE AfterResponse(c)
  <2>1. server[c].pc \in Apart
    BY <1>1 DEF Inv, ThreadsInv, Apart
  <2>2. process # "crashed" => net[c].client /\ net[c].request = Nothing
    BY <1>1, PhaseHolds
  <2> QED BY <1>1, <1>3, <2>1, <2>2, InvAfterResponse
<1>4. CASE client' = [client EXCEPT ![c].pc = "spins"] /\ UNCHANGED <<net, output>>
  <2> DEFINE a == client[c]
             b == net[c]
             o == output[c]
             s == server[c]
             f == temp[server[c].slot]
             k == [a EXCEPT !.pc = "spins"]
  <2>1. client' = [client EXCEPT ![c] = k] /\ net' = [net EXCEPT ![c] = b] /\ output' = [output EXCEPT ![c] = o]
    BY <1>4, ClientIs
  <2>2. a \in ClientType /\ b \in NetType /\ o \in Seq(Text)
    BY ClientIs
  <2>3. process # "crashed" /\ ~b.server => b.request = Nothing
    BY PhaseHolds
  <2>4. b = net[c] /\ f = temp[server[c].slot] /\ s = server[c]
    OBVIOUS
  <2> HIDE DEF a, b, o, s, f
  <2>5. k \in ClientType /\ k.pc = "spins"
    BY <2>2 DEF ClientType
  <2>6. k.pc \in {"spins", "ended"} /\ k.pc # "start"
    BY <2>5
  <2> HIDE DEF k
  <2>7. process # "crashed" => PhaseOf(<<c, k.asked>>, k, b, o, s, f)
    <3> DEFINE x == <<c, k.asked>>
    <3> HIDE DEF x
    <3>1. process # "crashed" => PhaseOf(x, k, b, o, s, f)
      BY <2>3, <2>6, PhaseAway
    <3> QED BY <3>1 DEF x
  <2>8. /\ b.server = net[c].server /\ (net[c].state = "open" => b.state = "open")
        /\ process # "crashed" => PhaseOf(<<c, k.asked>>, k, b, o, server[c], temp[server[c].slot])
    BY <2>4, <2>7
  <2> QED BY <1>1, <2>1, <2>2, <2>5, <2>6, <2>8, ClientKeeps
<1> QED BY <1>2, <1>3, <1>4 DEF ReceiveNothing

LEMMA InvClient ==
  ASSUME Inv, NEW c \in Clients, Client(c) \/ ClientKilled(c)
  PROVE  Inv'
<1>1. ClientSendFails(c) => Inv'
  BY InvClientEnds DEF ClientSendFails
<1> QED BY <1>1, InvConnects, InvSends, InvReadsLine, InvReadsLast, InvReadsNothing, InvKilled DEF Client

-----------------------------------------------------------------------------
(* Lemmas.  The invariant.                                                 *)
LEMMA InitInv ==
  ASSUME Init
  PROVE  Inv
<1>1. /\ main = Memory.main /\ accept = Memory.accept /\ server = Memory.server
      /\ srv_arg = Memory.srv_arg /\ handles = Memory.handles
      /\ process = "running" /\ ShutFlag = FALSE /\ build \in Builds
  BY DEF Init
<1>2. /\ main \in MainType /\ main.pc = "while"
      /\ accept \in AcceptType /\ accept.pc = "ended"
      /\ server \in [Clients -> ServerType] /\ \A c \in Clients : server[c].pc = "none"
      /\ srv_arg \in [Slots -> SlotType] /\ \A i \in Slots : srv_arg[i].status = 0
      /\ handles \in [HandleValues -> Clients \cup {Accept, Closed}]
  BY <1>1, MemoryTyped
<1> DEFINE k == [Gone EXCEPT !.pc = "start"]
           n == [state |-> "none", request |-> "", cut |-> FALSE,
                 responses |-> <<>>, client |-> TRUE, server |-> TRUE]
<1>3. client = [c \in Clients |-> k] /\ net = [c \in Clients |-> n]
  BY DEF Init
<1>4. k \in ClientType /\ k.pc = "start"
  <2>1. Gone \in ClientType
    BY GoneTyped
  <2> QED BY <2>1 DEF ClientType
<1>5. n \in NetType
  <2>1. "" \in Requests
    BY DEF Requests
  <2> QED BY <2>1, EmptySeqs DEF NetType
<1>6. n.state = "none" /\ n.request = Nothing /\ n.responses = <<>> /\ n.client /\ n.server
  BY DEF Nothing
<1> HIDE DEF k, n
<1>7. /\ client \in [Clients -> ClientType] /\ net \in [Clients -> NetType]
      /\ \A c \in Clients : client[c] = k /\ net[c] = n
  BY <1>3, <1>4, <1>5
<1>8. temp \in [Slots -> Seq(Text)] /\ output \in [Clients -> Seq(Text)]
  BY EmptySeqs DEF Init
<1>9. TypeOK
  BY <1>1, <1>2, <1>7, <1>8 DEF TypeOK
<1>10. ThreadsInv
  BY <1>2, <1>6, <1>7 DEF ThreadsInv
<1>11. SlotsDiffer
  BY <1>2 DEF SlotsDiffer, Active
<1>12. TableInv
  <2>1. AcceptInv
    BY <1>2 DEF AcceptInv
  <2>2. \A c \in Clients : LiveInv(c)
    BY <1>2 DEF LiveInv, Live
  <2>3. ASSUME NEW i \in Slots PROVE SlotInv(i)
    <3>1. srv_arg[i].status \notin {1, 3}
      BY <1>2
    <3> QED BY <3>1 DEF SlotInv
  <2> QED BY <2>1, <2>2, <2>3 DEF TableInv
<1>13. ASSUME NEW c \in Clients PROVE Phase(c)
  <2> DEFINE x == Line(c)
             o == output[c]
             s == server[c]
             f == temp[server[c].slot]
  <2>1. s.pc = "none"
    BY <1>2
  <2> HIDE DEF x, o, s, f
  <2>2. PhaseOf(x, k, n, o, s, f)
    BY <1>4, <1>6, <2>1 DEF PhaseOf, Nothing
  <2> QED BY <1>7, <2>2 DEF Phase, x, o, s, f
<1> QED BY <1>9, <1>10, <1>11, <1>12, <1>13 DEF Inv

LEMMA InvStutters ==
  ASSUME Inv, UNCHANGED vars
  PROVE  Inv'
<1>1. UNCHANGED <<build, process, ShutFlag, main, accept, server, srv_arg, handles, temp, output, client, net>>
  BY DEF vars, threads, table, files
<1>2. TypeOK'
  BY <1>1 DEF Inv, TypeOK
<1>3. ThreadsInv'
  BY <1>1 DEF Inv, ThreadsInv, Running
<1>4. SlotsDiffer'
  BY <1>1 DEF Inv, SlotsDiffer, Active
<1>5. TableInv'
  <2>1. (Early' => Early) /\ TypeOK /\ TableInv
    BY <1>1 DEF Early, Running, Inv
  <2>2. \A d \in Clients : server'[d].slot = server[d].slot /\ server'[d].pc = server[d].pc
    BY <1>1
  <2> QED BY <1>1, <2>1, <2>2, TableKept
<1>6. process' # "crashed" => \A d \in Clients : Phase(d)'
  BY <1>1, PhaseKept DEF Inv
<1> QED BY <1>2, <1>3, <1>4, <1>5, <1>6 DEF Inv

LEMMA InvNext ==
  ASSUME Inv, [Next]_vars
  PROVE  Inv'
BY InvMain, InvHandler, InvAccept, InvServer, InvClient, InvStutters DEF Next

LEMMA Invariant == Spec => []Inv
BY InitInv, InvNext, PTL DEF Spec

-----------------------------------------------------------------------------
(* Every variable has its type, and the fields that depend on a stage have *)
(* theirs there: serverSK.c main(), AcceptTh(), Server(), clientSK.c.      *)
THEOREM TypeCorrect == Spec => []TypeOK
<1>1. Inv => TypeOK
  BY DEF Inv
<1> QED BY <1>1, Invariant, PTL

(* main() joins a slot only when its thread has stopped, and the handle in *)
(* the slot still is that thread's: serverSK.c main(), AcceptTh().         *)
THEOREM Joins == Spec => []JoinsTheStoppedThread
<1>1. Inv => JoinsTheStoppedThread
  <2>1. SUFFICES ASSUME Inv, main.pc = "join", build.main.joins = "srv_arg", Running
                 PROVE  \E c \in Clients :
                          /\ Refers(SlotHandle(main.ith)) = c /\ server[c].slot = main.ith
                          /\ server[c].pc \in {"shut down", "flag", "ended"}
    BY DEF JoinsTheStoppedThread
  <2> DEFINE i == main.ith
  <2>2. i \in Slots
    BY <2>1 DEF Inv, TypeOK
  <2>3. AcceptInv /\ SlotInv(i)
    BY <2>1, <2>2 DEF Inv, TableInv, Early
  <2>4. accept.pc = "ended" /\ srv_arg[i].status \in {1, 3}
    BY <2>1, <2>3 DEF AcceptInv
  <2>5. PICK c \in Clients : HandleOf(i, c) /\ server[c].slot = i
                             /\ server[c].pc \in {"shut down", "flag", "ended"}
    BY <2>3, <2>4 DEF SlotInv, Stopped
  <2>6. Refers(SlotHandle(i)) = c
    BY <2>1, <2>5, Marks DEF SlotHandle, HandleOf, Refers
  <2> QED BY <2>5, <2>6
<1> QED BY <1>1, Invariant, PTL

(* A client that reads the last record of a response has printed the whole *)
(* output of its own command and nothing else, whoever used the slot and   *)
(* its temporary file before: serverSK.c Server(), clientSK.c.             *)
THEOREM OwnResponse == Spec => []ResponseIsOwn
<1>1. Inv => ResponseIsOwn
  BY LastRecord DEF ResponseIsOwn
<1> QED BY <1>1, Invariant, PTL

-----------------------------------------------------------------------------
(***************************************************************************)
(* The framing of the messages, for every text, every buffer and every way *)
(* in which recv() cuts the stream.                                        *)
(***************************************************************************)

(* Induction over the natural numbers, for a set in place of a predicate.  *)
LEMMA NatSetInduction ==
  ASSUME NEW S, 0 \in S, \A n \in Nat : n \in S => n + 1 \in S
  PROVE  Nat \subseteq S
<1> DEFINE T == Nat \ S
           R == OpToRel(<, Nat)
<1> SUFFICES ASSUME T # {} PROVE FALSE
  OBVIOUS
<1>1. IsWellFoundedOn(R, Nat)
  BY NatLessThanWellFounded
<1>2. T \subseteq Nat
  OBVIOUS
<1> HIDE DEF T, R
<1>3. PICK x \in T : \A y \in T : ~ (<<y, x>> \in R)
  BY <1>1, <1>2, WFMin
<1> USE DEF T, R
<1>4. x \in Nat \ {0}
  OBVIOUS
<1>5. x - 1 \in T
  BY <1>4
<1>6. <<x - 1, x>> \in R
  BY <1>4 DEF OpToRel
<1> QED BY <1>3, <1>5, <1>6

(* A function defined step by step from its value at 0.                    *)
StepsOf(f, S, base, n, step) ==
  f \in [0 .. n -> S] /\ f[0] = base /\ \A k \in 1 .. n : f[k] = step[<<k, f[k - 1]>>]

(* Such a function exists, whatever the steps are.                         *)
LEMMA StepByStep ==
  ASSUME NEW S, NEW base \in S, NEW n \in Nat, NEW step \in [(1 .. n) \X S -> S]
  PROVE  \E f : StepsOf(f, S, base, n, step)
<1> DEFINE Good(j) == j <= n => \E f \in [0 .. j -> S] :
             f[0] = base /\ \A k \in 1 .. j : f[k] = step[<<k, f[k - 1]>>]
           G == {j \in Nat : Good(j)}
<1>1. 0 \in G
  <2> DEFINE f == [k \in 0 .. 0 |-> base]
  <2>1. f \in [0 .. 0 -> S] /\ f[0] = base
    OBVIOUS
  <2>2. \A k \in 1 .. 0 : f[k] = step[<<k, f[k - 1]>>]
    OBVIOUS
  <2> HIDE DEF f
  <2> QED BY <2>1, <2>2
<1>2. ASSUME NEW j \in Nat, j \in G PROVE j + 1 \in G
  <2> SUFFICES ASSUME j + 1 <= n PROVE Good(j + 1)
    OBVIOUS
  <2>1. PICK f \in [0 .. j -> S] :
          f[0] = base /\ \A k \in 1 .. j : f[k] = step[<<k, f[k - 1]>>]
    BY <1>2
  <2> DEFINE g == [k \in 0 .. j + 1 |-> IF k = j + 1 THEN step[<<k, f[j]>>] ELSE f[k]]
  <2>2. step[<<j + 1, f[j]>>] \in S
    <3>1. <<j + 1, f[j]>> \in (1 .. n) \X S
      OBVIOUS
    <3> QED BY <3>1
  <2>3. g \in [0 .. j + 1 -> S]
    BY <2>2
  <2>4. g[0] = base
    BY <2>1
  <2>5. ASSUME NEW k \in 1 .. j + 1 PROVE g[k] = step[<<k, g[k - 1]>>]
    <3>1. CASE k = j + 1
      BY <3>1
    <3>2. CASE k # j + 1
      BY <2>1, <3>2
    <3> QED BY <3>1, <3>2
  <2> QED BY <2>3, <2>4, <2>5
<1>3. Nat \subseteq G
  <2> HIDE DEF G
  <2> QED BY <1>1, <1>2, NatSetInduction
<1> QED BY <1>3 DEF StepsOf


-----------------------------------------------------------------------------
(* A part of a stream.                                                     *)
LEMMA PartType ==
  ASSUME NEW w \in Seq(Nat), NEW a \in 0 .. Len(w), NEW b \in a .. Len(w)
  PROVE  /\ SubSeq(w, a + 1, b) \in Seq(Nat) /\ Len(SubSeq(w, a + 1, b)) = b - a
         /\ \A i \in 1 .. b - a : SubSeq(w, a + 1, b)[i] = w[a + i]
<1> DEFINE p == SubSeq(w, a + 1, b)
<1>0. Len(w) \in Nat /\ \A i \in 1 .. Len(w) : w[i] \in Nat
  BY LenProperties, ElementOfSeq
<1>1. \A i \in a + 1 .. b : w[i] \in Nat
  BY <1>0
<1>2. a + 1 \in Int /\ b \in Int /\ b - (a + 1) + 1 = b - a
  BY <1>0
<1>3. /\ p \in Seq(Nat) /\ Len(p) = IF a + 1 <= b THEN b - (a + 1) + 1 ELSE 0
      /\ \A i \in 1 .. b - (a + 1) + 1 : p[i] = w[a + 1 + i - 1]
  BY <1>1, <1>2, SubSeqProperties
<1>4. Len(p) = b - a
  BY <1>0, <1>3
<1>5. \A i \in 1 .. b - a : p[i] = w[a + i]
  BY <1>0, <1>2, <1>3
<1> QED
  BY <1>3, <1>4, <1>5

(* A part of a part of a stream.                                           *)
LEMMA PartOfPart ==
  ASSUME NEW w \in Seq(Nat), NEW a \in 0 .. Len(w), NEW b \in a .. Len(w),
         NEW c \in 0 .. b - a, NEW d \in c .. b - a
  PROVE  SubSeq(SubSeq(w, a + 1, b), c + 1, d) = SubSeq(w, a + c + 1, a + d)
<1> DEFINE p == SubSeq(w, a + 1, b)
           q == SubSeq(p, c + 1, d)
           r == SubSeq(w, (a + c) + 1, a + d)
<1>0. Len(w) \in Nat
  BY LenProperties
<1>1. p \in Seq(Nat) /\ Len(p) = b - a /\ \A i \in 1 .. b - a : p[i] = w[a + i]
  BY PartType
<1>2. q \in Seq(Nat) /\ Len(q) = d - c /\ \A i \in 1 .. d - c : q[i] = p[c + i]
  <2> HIDE DEF p
  <2>1. c \in 0 .. Len(p) /\ d \in c .. Len(p)
    BY <1>1
  <2> QED BY <1>1, <2>1, PartType
<1>3. r \in Seq(Nat) /\ Len(r) = d - c /\ \A i \in 1 .. d - c : r[i] = w[a + c + i]
  <2>1. a + c \in 0 .. Len(w) /\ a + d \in a + c .. Len(w) /\ (a + d) - (a + c) = d - c
    BY <1>0
  <2>2. /\ r \in Seq(Nat) /\ Len(r) = (a + d) - (a + c)
        /\ \A i \in 1 .. (a + d) - (a + c) : r[i] = w[(a + c) + i]
    BY <2>1, PartType
  <2> QED BY <2>1, <2>2
<1>4. ASSUME NEW i \in 1 .. d - c PROVE q[i] = r[i]
  <2>1. c + i \in 1 .. b - a /\ a + (c + i) = a + c + i
    BY <1>0
  <2> HIDE DEF p, q, r
  <2> QED BY <1>1, <1>2, <1>3, <2>1
<1> HIDE DEF p, q, r
<1>5. q = r
  BY <1>2, <1>3, <1>4, SeqEqual
<1> QED
  BY <1>5 DEF p, q, r

(* A beginning and the part that follows it.                               *)
LEMMA PartsJoin ==
  ASSUME NEW w \in Seq(Nat), NEW a \in 0 .. Len(w), NEW b \in a .. Len(w)
  PROVE  SubSeq(w, 1, a) \o SubSeq(w, a + 1, b) = SubSeq(w, 1, b)
<1>1. Len(w) \in Nat
  BY LenProperties
<1>2. 1 \in 1 .. Len(w) + 1 /\ a \in 1 - 1 .. Len(w) /\ b \in a .. Len(w)
  BY <1>1
<1> QED
  BY <1>2, ConcatAdjacentSubSeq

(* The first null of a piece.                                              *)
LEMMA WithoutNul ==
  ASSUME NEW s \in Seq(Nat), \A i \in 1 .. Len(s) : s[i] # NUL
  PROVE  ~Complete(s)
<1>1. DOMAIN s = 1 .. Len(s)
  BY LenProperties
<1> QED
  BY <1>1 DEF Complete, ToSet

(* A piece with a null is cut at the first one.                            *)
LEMMA WithNul ==
  ASSUME NEW s \in Seq(Nat), NEW k \in 1 .. Len(s), s[k] = NUL, \A i \in 1 .. k - 1 : s[i] # NUL
  PROVE  Complete(s) /\ FirstNul(s) = k
<1>1. DOMAIN s = 1 .. Len(s) /\ Len(s) \in Nat
  BY LenProperties
<1>2. Complete(s)
  BY <1>1 DEF Complete, ToSet
<1> DEFINE I == {i \in 1 .. Len(s) : s[i] = NUL}
<1>3. FirstNul(s) = IF I # {} THEN CHOOSE i \in I : \A j \in I : i <= j ELSE 0
  BY DEF FirstNul, SelectInSeq, Min
<1>4. k \in I /\ \A j \in I : k <= j
  BY <1>1
<1>5. \A i \in I : (\A j \in I : i <= j) => i = k
  BY <1>1, <1>4
<1> HIDE DEF I
<1>6. (CHOOSE i \in I : \A j \in I : i <= j) = k
  BY <1>4, <1>5
<1> QED
  BY <1>2, <1>3, <1>4, <1>6

-----------------------------------------------------------------------------
(* A message of n characters at the beginning of w, and its parts.         *)
Begins(w, n) ==
  /\ w \in Seq(Nat) /\ n \in Nat /\ n < Len(w)
  /\ w[n + 1] = NUL /\ \A i \in 1 .. n : w[i] # NUL

LEMMA PieceOfMessage ==
  ASSUME NEW w, NEW n, Begins(w, n), NEW a \in 0 .. n, NEW b \in a .. Len(w)
  PROVE  LET piece == SubSeq(w, a + 1, b)
         IN  /\ b <= n => ~Complete(piece)
             /\ b > n => /\ Complete(piece)
                         /\ Before(piece) = SubSeq(w, a + 1, n)
                         /\ After(piece) = SubSeq(w, n + 2, b)
<1> DEFINE piece == SubSeq(w, a + 1, b)
<1>0. w \in Seq(Nat) /\ Len(w) \in Nat /\ n \in Nat /\ n < Len(w)
  BY LenProperties DEF Begins
<1>1. piece \in Seq(Nat) /\ Len(piece) = b - a /\ \A i \in 1 .. b - a : piece[i] = w[a + i]
  <2>1. a \in 0 .. Len(w) /\ b \in a .. Len(w)
    BY <1>0
  <2> QED BY <1>0, <2>1, PartType
<1>2. ASSUME b <= n PROVE ~Complete(piece)
  <2>1. \A i \in 1 .. Len(piece) : piece[i] # NUL
    <3>1. \A i \in 1 .. b - a : a + i \in 1 .. n
      BY <1>0, <1>2
    <3> HIDE DEF piece
    <3> QED BY <1>1, <3>1 DEF Begins
  <2> HIDE DEF piece
  <2> QED BY <1>1, <2>1, WithoutNul
<1>3. ASSUME b > n
      PROVE  /\ Complete(piece)
             /\ Before(piece) = SubSeq(w, a + 1, n) /\ After(piece) = SubSeq(w, n + 2, b)
  <2> DEFINE k == (n - a) + 1
  <2>1. /\ k \in 1 .. b - a /\ a + k = n + 1
        /\ \A i \in 1 .. k - 1 : i \in 1 .. b - a /\ a + i \in 1 .. n
    BY <1>0, <1>3
  <2> HIDE DEF piece, k
  <2>2. piece[k] = NUL /\ \A i \in 1 .. k - 1 : piece[i] # NUL
    BY <1>1, <2>1 DEF Begins
  <2>3. Complete(piece) /\ FirstNul(piece) = k
    BY <1>1, <2>1, <2>2, WithNul
  <2>4. Before(piece) = SubSeq(piece, 0 + 1, n - a) /\ After(piece) = SubSeq(piece, k + 1, b - a)
    <3>1. k - 1 = n - a /\ 0 + 1 = 1
      BY <1>0 DEF k
    <3>2. FirstNul(piece) - 1 = n - a
      BY <2>3, <3>1
    <3>3. Before(piece) = SubSeq(piece, 0 + 1, n - a)
      BY <3>1, <3>2, Zenon DEF Before
    <3>4. After(piece) = SubSeq(piece, k + 1, b - a)
      BY <1>1, <2>3, Zenon DEF After
    <3> QED BY <3>3, <3>4
  <2>5. /\ a \in 0 .. Len(w) /\ b \in a .. Len(w) /\ 0 \in 0 .. b - a /\ n - a \in 0 .. b - a
        /\ k \in 0 .. b - a /\ b - a \in k .. b - a
        /\ a + 0 + 1 = a + 1 /\ a + (n - a) = n /\ a + k + 1 = n + 2 /\ a + (b - a) = b
    BY <1>0, <1>3, <2>1
  <2>6. SubSeq(piece, 0 + 1, n - a) = SubSeq(w, a + 0 + 1, a + (n - a))
    BY <1>0, <2>5, PartOfPart DEF piece
  <2>7. SubSeq(piece, k + 1, b - a) = SubSeq(w, a + k + 1, a + (b - a))
    BY <1>0, <2>5, PartOfPart DEF piece
  <2> QED BY <2>3, <2>4, <2>5, <2>6, <2>7
<1> QED
  BY <1>2, <1>3

(* The calls that receive it: before its null has come, after m characters *)
(* that had been kept and i passes of the loop, and when it has.           *)
Coming(w, n, m, i) ==
  {Receiving(SubSeq(w, 1, j), SubSeq(w, j + 1, Len(w)), MAX_RQRS_LEN + m - 2 * j) :
     j \in {k \in 0 .. n : k >= m + i}}

Come(w, n) ==
  {Returned(SubSeq(w, 1, n), SubSeq(w, n + 2, b), SubSeq(w, b + 1, Len(w))) : b \in n + 1 .. Len(w)}

LEMMA PassComes ==
  ASSUME NEW w, NEW n, Begins(w, n), 2 * n < MAX_RQRS_LEN, NEW m \in Nat, NEW i \in Nat,
         NEW call \in Coming(w, n, m, i) \cup Come(w, n)
  PROVE  Pass(call) # {} /\ Pass(call) \subseteq Coming(w, n, m, i + 1) \cup Come(w, n)
<1>0. w \in Seq(Nat) /\ Len(w) \in Nat /\ n \in Nat /\ n < Len(w) /\ MAX_RQRS_LEN \in Nat
  BY LenProperties, StreamAssumption DEF Begins
<1>1. CASE call \in Come(w, n)
  <2>1. call.nRemainRecv = 0
    BY <1>1 DEF Come, Returned
  <2>2. Pass(call) = {call}
    BY <2>1 DEF Pass
  <2> QED BY <1>1, <2>2
<1>2. CASE call \in Coming(w, n, m, i)
  <2>1. PICK j \in {k \in 0 .. n : k >= m + i} :
          call = Receiving(SubSeq(w, 1, j), SubSeq(w, j + 1, Len(w)), MAX_RQRS_LEN + m - 2 * j)
    BY <1>2 DEF Coming
  <2> DEFINE left == MAX_RQRS_LEN + m - 2 * j
             stream == SubSeq(w, j + 1, Len(w))
  <2>2. /\ call.text = SubSeq(w, 1, j) /\ call.stream = stream /\ call.nRemainRecv = left
        /\ call.disconnect = FALSE
    BY <2>1 DEF Receiving
  <2>3. left \in Int /\ left > 0 /\ j \in 0 .. Len(w) /\ j \in 0 .. n
    BY <1>0, <2>1
  <2>4. stream \in Seq(Nat) /\ Len(stream) = Len(w) - j
    <3>1. Len(w) \in j .. Len(w)
      BY <1>0, <2>3
    <3> QED BY <1>0, <2>3, <3>1, PartType
  <2>5. Len(stream) > 0
    BY <1>0, <2>3, <2>4
  <2> HIDE DEF stream, left
  <2>6. Pass(call) = {Transfer(call, l) : l \in {k \in 1 .. Len(stream) : k <= left}}
    <3>1. stream # <<>>
      BY <2>4, <2>5, EmptySeq
    <3> QED BY <2>2, <2>3, <3>1 DEF Pass
  <2>7. 1 \in {k \in 1 .. Len(stream) : k <= left}
    BY <1>0, <2>3, <2>4, <2>5
  <2>8. ASSUME NEW l \in 1 .. Len(stream)
        PROVE  Transfer(call, l) \in Coming(w, n, m, i + 1) \cup Come(w, n)
    <3> DEFINE b == j + l
               piece == SubSeq(w, j + 1, b)
               rest == SubSeq(w, b + 1, Len(w))
    <3>1. b \in j + 1 .. Len(w) /\ b \in j .. Len(w) /\ b \in 0 .. Len(w) /\ l \in 0 .. Len(w) - j
          /\ Len(w) - j \in l .. Len(w) - j /\ Len(w) \in j .. Len(w) /\ 0 \in 0 .. Len(w) - j
      BY <1>0, <2>3, <2>4
    <3>2. SubSeq(stream, 1, l) = piece
      <4>1. SubSeq(stream, 0 + 1, l) = SubSeq(w, j + 0 + 1, j + l)
        BY <1>0, <2>3, <3>1, PartOfPart DEF stream
      <4>2. 0 + 1 = 1 /\ j + 0 + 1 = j + 1
        BY <2>3
      <4> QED BY <4>1, <4>2
    <3>3. SubSeq(stream, l + 1, Len(stream)) = rest
      <4>1. SubSeq(stream, l + 1, Len(w) - j) = SubSeq(w, j + l + 1, j + (Len(w) - j))
        BY <1>0, <2>3, <3>1, PartOfPart DEF stream
      <4>2. j + (Len(w) - j) = Len(w)
        BY <1>0, <2>3
      <4> QED BY <2>4, <4>1, <4>2
    <3>4. /\ b <= n => ~Complete(piece)
          /\ b > n => /\ Complete(piece)
                      /\ Before(piece) = SubSeq(w, j + 1, n) /\ After(piece) = SubSeq(w, n + 2, b)
      BY <2>3, <3>1, PieceOfMessage
    <3>5. Transfer(call, l) =
            IF Complete(piece) THEN Returned(SubSeq(w, 1, j) \o Before(piece), After(piece), rest)
            ELSE Receiving(SubSeq(w, 1, j) \o piece, rest, left - 2 * l)
      BY <2>2, <3>2, <3>3 DEF Transfer
    <3>6. SubSeq(w, 1, j) \o piece = SubSeq(w, 1, b)
      <4> HIDE DEF b
      <4> QED BY <1>0, <2>3, <3>1, PartsJoin
    <3>7. SubSeq(w, 1, j) \o SubSeq(w, j + 1, n) = SubSeq(w, 1, n)
      <4>1. n \in j .. Len(w)
        BY <1>0, <2>3
      <4> QED BY <1>0, <2>3, <4>1, PartsJoin
    <3> HIDE DEF piece, rest
    <3>8. CASE b <= n
      <4>1. b \in {k \in 0 .. n : k >= m + (i + 1)} /\ left - 2 * l = MAX_RQRS_LEN + m - 2 * b
        BY <1>0, <2>1, <2>3, <3>1, <3>8 DEF left
      <4>2. Transfer(call, l) = Receiving(SubSeq(w, 1, b), rest, MAX_RQRS_LEN + m - 2 * b)
        BY <3>4, <3>5, <3>6, <3>8, <4>1
      <4> HIDE DEF b
      <4> QED BY <4>1, <4>2 DEF Coming, rest
    <3>9. CASE b > n
      <4>1. b \in n + 1 .. Len(w)
        BY <1>0, <3>1, <3>9
      <4>2. Transfer(call, l) = Returned(SubSeq(w, 1, n), SubSeq(w, n + 2, b), rest)
        BY <3>4, <3>5, <3>7, <3>9
      <4> HIDE DEF b
      <4> QED BY <4>1, <4>2 DEF Come, rest
    <3> QED BY <1>0, <2>3, <3>1, <3>8, <3>9
  <2> QED BY <2>6, <2>7, <2>8
<1> QED
  BY <1>1, <1>2

(* The loop is its passes, one after the other, whatever calls they stay   *)
(* among.                                                                  *)
Passes(f, text, nRemainRecv, stream) ==
  /\ f[0] = {Receiving(text, stream, nRemainRecv)}
  /\ \A i \in 1 .. Len(stream) + 1 : f[i] = UNION {Pass(call) : call \in f[i - 1]}
  /\ RecvLoop(text, nRemainRecv, stream) = f[Len(stream) + 1]

LEMMA LoopIsPasses ==
  ASSUME NEW U, NEW text, NEW stream, NEW nRemainRecv, Len(stream) \in Nat,
         Receiving(text, stream, nRemainRecv) \in U,
         \A call \in U : Pass(call) \subseteq U
  PROVE  \E f : Passes(f, text, nRemainRecv, stream)
<1> DEFINE n == Len(stream) + 1
           base == {Receiving(text, stream, nRemainRecv)}
           S == SUBSET U
           step == [p \in (1 .. n) \X S |-> UNION {Pass(call) : call \in p[2]}]
           Is(g) == g = [i \in 0 .. Len(stream) + 1 |->
                           IF i = 0 THEN {Receiving(text, stream, nRemainRecv)}
                           ELSE UNION {Pass(call) : call \in g[i - 1]}]
           passes == CHOOSE g : Is(g)
<1>1. n \in Nat /\ base \in S /\ n \in 0 .. n
  OBVIOUS
<1>2. step \in [(1 .. n) \X S -> S]
  OBVIOUS
<1>3. \A k \in 1 .. n, X \in S : step[<<k, X>>] = UNION {Pass(call) : call \in X}
  OBVIOUS
<1> HIDE DEF step
<1>4. PICK f : StepsOf(f, S, base, n, step)
  <2> HIDE DEF n, base, S
  <2> QED BY <1>1, <1>2, StepByStep
<1>5. f \in [0 .. n -> S] /\ f[0] = base
  BY <1>4 DEF StepsOf
<1>6. ASSUME NEW k \in 1 .. n PROVE f[k] = UNION {Pass(call) : call \in f[k - 1]}
  <2>1. k - 1 \in 0 .. n
    BY <1>1
  <2>2. f[k - 1] \in S
    BY <1>5, <2>1
  <2>3. f[k] = step[<<k, f[k - 1]>>]
    BY <1>4 DEF StepsOf
  <2> HIDE DEF n, S
  <2> QED BY <1>3, <2>2, <2>3
<1>7. Is(f)
  <2> DEFINE F == [i \in 0 .. Len(stream) + 1 |->
                     IF i = 0 THEN {Receiving(text, stream, nRemainRecv)}
                     ELSE UNION {Pass(call) : call \in f[i - 1]}]
  <2>1. f = [i \in 0 .. n |-> f[i]] /\ F = [i \in 0 .. n |-> F[i]]
    BY <1>5
  <2>2. ASSUME NEW i \in 0 .. n PROVE f[i] = F[i]
    <3>1. CASE i = 0
      BY <1>5, <3>1
    <3>2. CASE i # 0
      <4>1. i \in 1 .. n
        BY <1>1, <3>2
      <4>2. f[i] = UNION {Pass(call) : call \in f[i - 1]}
        BY <1>6, <4>1
      <4>3. F[i] = UNION {Pass(call) : call \in f[i - 1]}
        BY <3>2
      <4> QED BY <4>2, <4>3
    <3> QED BY <3>1, <3>2
  <2> HIDE DEF F
  <2>3. f = F
    BY <2>1, <2>2
  <2> QED BY <2>3 DEF F
<1>8. Is(passes)
  <2> HIDE DEF Is
  <2> QED BY <1>7
<1>9. RecvLoop(text, nRemainRecv, stream) = passes[Len(stream) + 1]
  BY DEF RecvLoop
<1> HIDE DEF passes
<1>10. passes[0] = base
  BY <1>8
<1>11. ASSUME NEW i \in 1 .. Len(stream) + 1
       PROVE  passes[i] = UNION {Pass(call) : call \in passes[i - 1]}
  <2>1. i \in 0 .. Len(stream) + 1 /\ i # 0
    OBVIOUS
  <2> QED BY <1>8, <2>1
<1>12. Passes(passes, text, nRemainRecv, stream)
  BY <1>9, <1>10, <1>11 DEF Passes
<1> QED
  BY <1>12

(* However recv() cuts it, the loop ends with the message and nothing else.*)
LEMMA LoopComes ==
  ASSUME NEW w, NEW n, Begins(w, n), 2 * n < MAX_RQRS_LEN, NEW m \in 0 .. n
  PROVE  LET got == RecvLoop(SubSeq(w, 1, m), MAX_RQRS_LEN - m, SubSeq(w, m + 1, Len(w)))
         IN  got # {} /\ got \subseteq Come(w, n)
<1> DEFINE text == SubSeq(w, 1, m)
           stream == SubSeq(w, m + 1, Len(w))
           left == MAX_RQRS_LEN - m
           start == Receiving(text, stream, left)
           U == Coming(w, n, m, 0) \cup Come(w, n)
           Good(i) == Coming(w, n, m, i) \cup Come(w, n)
<1>0. w \in Seq(Nat) /\ Len(w) \in Nat /\ n \in Nat /\ n < Len(w) /\ MAX_RQRS_LEN \in Nat
      /\ m \in Nat /\ m <= n
  BY LenProperties, StreamAssumption DEF Begins
<1>1. Len(stream) = Len(w) - m /\ Len(stream) \in Nat
  <2>1. m \in 0 .. Len(w) /\ Len(w) \in m .. Len(w)
    BY <1>0
  <2>2. Len(stream) = Len(w) - m
    BY <1>0, <2>1, PartType
  <2> QED BY <1>0, <2>2
<1>2. start \in Good(0)
  <2>1. m \in {k \in 0 .. n : k >= m + 0} /\ left = MAX_RQRS_LEN + m - 2 * m
    BY <1>0
  <2> HIDE DEF left
  <2> QED BY <2>1 DEF Coming
<1>3. ASSUME NEW i \in Nat, NEW call \in Good(i)
      PROVE  Pass(call) # {} /\ Pass(call) \subseteq Good(i + 1)
  BY <1>0, <1>3, PassComes
<1>4. \A i \in Nat : Coming(w, n, m, i + 1) \subseteq Coming(w, n, m, i)
  BY <1>0 DEF Coming
<1> HIDE DEF text, stream, left, start
<1>5. \A call \in U : Pass(call) \subseteq U
  <2>1. Good(0 + 1) \subseteq U
    BY <1>4
  <2>2. \A call \in Good(0) : Pass(call) \subseteq Good(0 + 1)
    BY <1>3
  <2> QED BY <2>1, <2>2
<1>6. PICK f : /\ f[0] = {start}
               /\ \A i \in 1 .. Len(stream) + 1 : f[i] = UNION {Pass(call) : call \in f[i - 1]}
               /\ RecvLoop(text, left, stream) = f[Len(stream) + 1]
  <2> HIDE DEF U
  <2>1. start \in U
    BY <1>2 DEF U
  <2>2. Receiving(text, stream, left) \in U /\ start = Receiving(text, stream, left)
    BY <2>1 DEF start
  <2>3. \E f : Passes(f, text, left, stream)
    BY <1>1, <1>5, <2>2, LoopIsPasses
  <2> QED BY <2>2, <2>3 DEF Passes
<1> DEFINE G == {i \in Nat : i <= Len(stream) + 1 => f[i] # {} /\ f[i] \subseteq Good(i)}
<1> HIDE DEF Good
<1>7. 0 \in G
  BY <1>2, <1>6
<1>8. ASSUME NEW i \in Nat, i \in G PROVE i + 1 \in G
  <2> SUFFICES ASSUME i + 1 <= Len(stream) + 1
               PROVE  f[i + 1] # {} /\ f[i + 1] \subseteq Good(i + 1)
    OBVIOUS
  <2>1. i + 1 \in 1 .. Len(stream) + 1 /\ (i + 1) - 1 = i /\ i <= Len(stream) + 1
    BY <1>1
  <2>2. f[i] # {} /\ f[i] \subseteq Good(i)
    BY <1>8, <2>1
  <2>3. f[i + 1] = UNION {Pass(call) : call \in f[i]}
    BY <1>6, <2>1
  <2>4. \A call \in f[i] : Pass(call) # {} /\ Pass(call) \subseteq Good(i + 1)
    BY <1>3, <2>2
  <2> HIDE DEF G
  <2> QED BY <2>2, <2>3, <2>4
<1>9. Nat \subseteq G
  <2> HIDE DEF G
  <2> QED BY <1>7, <1>8, NatSetInduction
<1>10. f[Len(stream) + 1] # {} /\ f[Len(stream) + 1] \subseteq Good(Len(stream) + 1)
  <2> DEFINE l == Len(stream) + 1
  <2>1. l \in Nat /\ l <= Len(stream) + 1
    BY <1>1
  <2>2. l \in G
    <3> HIDE DEF G, l
    <3> QED BY <1>9, <2>1
  <2> QED BY <2>1, <2>2
<1>11. Coming(w, n, m, Len(stream) + 1) = {}
  BY <1>0, <1>1 DEF Coming
<1> QED
  BY <1>6, <1>10, <1>11 DEF Good, text, stream, left

-----------------------------------------------------------------------------
(* Two sequences are the parts of what they make up.                       *)
LEMMA PartsOfWhole ==
  ASSUME NEW w, NEW s \in Seq(Nat), NEW t \in Seq(Nat), w = s \o t
  PROVE  /\ w \in Seq(Nat) /\ Len(w) = Len(s) + Len(t) /\ Len(s) \in 0 .. Len(w)
         /\ s = SubSeq(w, 1, Len(s)) /\ t = SubSeq(w, Len(s) + 1, Len(w))
         /\ \A i \in 1 .. Len(s) : w[i] = s[i]
         /\ \A i \in 1 .. Len(t) : w[Len(s) + i] = t[i]
<1>0. Len(s) \in Nat /\ Len(t) \in Nat
  BY LenProperties
<1>1. /\ w \in Seq(Nat) /\ Len(w) = Len(s) + Len(t)
      /\ \A i \in 1 .. Len(s) + Len(t) : w[i] = IF i <= Len(s) THEN s[i] ELSE t[i - Len(s)]
  BY ConcatProperties
<1>2. \A i \in 1 .. Len(s) : w[i] = s[i]
  BY <1>0, <1>1
<1>3. ASSUME NEW i \in 1 .. Len(t) PROVE w[Len(s) + i] = t[i]
  <2>1. Len(s) + i \in 1 .. Len(s) + Len(t) /\ ~(Len(s) + i <= Len(s)) /\ Len(s) + i - Len(s) = i
    BY <1>0
  <2> QED BY <1>1, <2>1
<1>4. Len(s) \in 0 .. Len(w) /\ 0 \in 0 .. Len(w) /\ Len(w) \in Len(s) .. Len(w)
  BY <1>0, <1>1
<1>5. s = SubSeq(w, 1, Len(s))
  <2> DEFINE p == SubSeq(w, 1, Len(s))
  <2>1. p \in Seq(Nat) /\ Len(p) = Len(s) /\ \A i \in 1 .. Len(s) : p[i] = w[i]
    <3>1. \A i \in 1 .. Len(s) : w[i] \in Nat
      BY <1>2, ElementOfSeq
    <3>2. Len(s) - 1 + 1 = Len(s) /\ 1 \in Int /\ Len(s) \in Int /\ \A i \in 1 .. Len(s) : 1 + i - 1 = i
      BY <1>0
    <3>3. /\ p \in Seq(Nat) /\ Len(p) = IF 1 <= Len(s) THEN Len(s) - 1 + 1 ELSE 0
          /\ \A i \in 1 .. Len(s) - 1 + 1 : p[i] = w[1 + i - 1]
      BY <3>1, <3>2, SubSeqProperties
    <3>4. Len(p) = Len(s)
      BY <1>0, <3>3
    <3> QED BY <3>2, <3>3, <3>4
  <2> HIDE DEF p
  <2> QED BY <1>2, <2>1, SeqEqual DEF p
<1>6. t = SubSeq(w, Len(s) + 1, Len(w))
  <2> DEFINE p == SubSeq(w, Len(s) + 1, Len(w))
  <2>1. p \in Seq(Nat) /\ Len(p) = Len(w) - Len(s) /\ \A i \in 1 .. Len(w) - Len(s) : p[i] = w[Len(s) + i]
    BY <1>1, <1>4, PartType
  <2>2. Len(w) - Len(s) = Len(t)
    BY <1>0, <1>1
  <2> HIDE DEF p
  <2> QED BY <1>3, <2>1, <2>2, SeqEqual DEF p
<1> QED
  BY <1>1, <1>2, <1>3, <1>4, <1>5, <1>6

(* What is left of a stream after a message, in what is kept and in what   *)
(* is still to come.                                                       *)
LEMMA RestInTwo ==
  ASSUME NEW w, NEW n, Begins(w, n), NEW b \in n + 1 .. Len(w)
  PROVE  /\ SubSeq(w, n + 2, b) \in Seq(Nat) /\ SubSeq(w, b + 1, Len(w)) \in Seq(Nat)
         /\ SubSeq(w, n + 2, b) \o SubSeq(w, b + 1, Len(w)) = SubSeq(w, n + 2, Len(w))
<1>0. w \in Seq(Nat) /\ Len(w) \in Nat /\ n \in Nat /\ n < Len(w)
  BY LenProperties DEF Begins
<1>1. /\ n + 1 \in 0 .. Len(w) /\ b \in 0 .. Len(w) /\ Len(w) \in b .. Len(w) /\ b \in n + 1 .. Len(w)
      /\ n + 1 + 1 = n + 2 /\ n + 2 \in 1 .. Len(w) + 1 /\ b \in (n + 2) - 1 .. Len(w)
  BY <1>0
<1>2. SubSeq(w, n + 1 + 1, b) \in Seq(Nat)
  BY <1>0, <1>1, PartType
<1>3. SubSeq(w, b + 1, Len(w)) \in Seq(Nat)
  BY <1>0, <1>1, PartType
<1>4. SubSeq(w, n + 2, b) \o SubSeq(w, b + 1, Len(w)) = SubSeq(w, n + 2, Len(w))
  BY <1>0, <1>1, ConcatAdjacentSubSeq
<1> QED
  BY <1>1, <1>2, <1>3, <1>4

(* A call that got the text and left the rest.                             *)
Got(call, text, rest) ==
  /\ call.disconnect = FALSE /\ call.text = text
  /\ call.kept \in Seq(Nat) /\ call.stream \in Seq(Nat) /\ call.kept \o call.stream = rest

(* A message that ends in a null is received whole, whatever was kept of   *)
(* it.                                                                     *)
LEMMA CSMessageWhole ==
  ASSUME NEW w, NEW n, Begins(w, n), 2 * n < MAX_RQRS_LEN,
         NEW kept \in Seq(Nat), NEW stream \in Seq(Nat), kept \o stream = w
  PROVE  /\ ReceiveCSMessage(kept, stream) # {}
         /\ \A call \in ReceiveCSMessage(kept, stream) :
              Got(call, SubSeq(w, 1, n), SubSeq(w, n + 2, Len(w)))
<1> DEFINE m == Len(kept)
<1>0. w \in Seq(Nat) /\ Len(w) \in Nat /\ n \in Nat /\ n < Len(w)
  BY LenProperties DEF Begins
<1>1. m \in 0 .. Len(w) /\ m \in Nat /\ kept = SubSeq(w, 1, m) /\ stream = SubSeq(w, m + 1, Len(w))
  BY PartsOfWhole, LenProperties
<1> HIDE DEF m
<1>2. ASSUME NEW b \in n + 1 .. Len(w), NEW call,
             call = Returned(SubSeq(w, 1, n), SubSeq(w, n + 2, b), SubSeq(w, b + 1, Len(w)))
      PROVE  Got(call, SubSeq(w, 1, n), SubSeq(w, n + 2, Len(w)))
  BY <1>2, RestInTwo DEF Returned, Got
<1>3. /\ m <= n => ~Complete(kept)
      /\ m > n => /\ Complete(kept)
                  /\ Before(kept) = SubSeq(w, 1, n) /\ After(kept) = SubSeq(w, n + 2, m)
  <2>1. 0 \in 0 .. n /\ m \in 0 .. Len(w)
    BY <1>0, <1>1
  <2>2. LET piece == SubSeq(w, 0 + 1, m)
        IN  /\ m <= n => ~Complete(piece)
            /\ m > n => /\ Complete(piece)
                        /\ Before(piece) = SubSeq(w, 0 + 1, n)
                        /\ After(piece) = SubSeq(w, n + 2, m)
    BY <2>1, PieceOfMessage
  <2>3. 0 + 1 = 1
    OBVIOUS
  <2> QED BY <1>1, <2>2, <2>3
<1>4. CASE m <= n
  <2>1. ReceiveCSMessage(kept, stream) = RecvLoop(kept, MAX_RQRS_LEN - m, stream)
    BY <1>3, <1>4 DEF ReceiveCSMessage, m
  <2>2. m \in 0 .. n
    BY <1>0, <1>1, <1>4
  <2>3. ReceiveCSMessage(kept, stream) # {} /\ ReceiveCSMessage(kept, stream) \subseteq Come(w, n)
    BY <1>1, <2>1, <2>2, LoopComes
  <2> QED BY <1>2, <2>3 DEF Come
<1>5. CASE m > n
  <2>1. ReceiveCSMessage(kept, stream) =
          {Returned(SubSeq(w, 1, n), SubSeq(w, n + 2, m), SubSeq(w, m + 1, Len(w)))}
    BY <1>1, <1>3, <1>5 DEF ReceiveCSMessage
  <2>2. m \in n + 1 .. Len(w)
    BY <1>0, <1>1, <1>5
  <2> QED BY <1>2, <2>1, <2>2
<1> QED
  BY <1>0, <1>1, <1>4, <1>5

(* The same of the loop that receives a number of bytes that is known.     *)
Pieces(f, n, stream) ==
  /\ f[0] = {Receiving(<<>>, stream, n)}
  /\ \A i \in 1 .. Len(stream) + 1 : f[i] = UNION {PiecePass(call) : call \in f[i - 1]}
  /\ ReceiveAll(n, stream) = f[Len(stream) + 1]

LEMMA PieceLoopIsPasses ==
  ASSUME NEW U, NEW n, NEW stream, Len(stream) \in Nat,
         Receiving(<<>>, stream, n) \in U,
         \A call \in U : PiecePass(call) \subseteq U
  PROVE  \E f : Pieces(f, n, stream)
<1> DEFINE last == Len(stream) + 1
           base == {Receiving(<<>>, stream, n)}
           S == SUBSET U
           step == [p \in (1 .. last) \X S |-> UNION {PiecePass(call) : call \in p[2]}]
           Is(g) == g = [i \in 0 .. Len(stream) + 1 |->
                           IF i = 0 THEN {Receiving(<<>>, stream, n)}
                           ELSE UNION {PiecePass(call) : call \in g[i - 1]}]
           passes == CHOOSE g : Is(g)
<1>1. last \in Nat /\ base \in S /\ last \in 0 .. last
  OBVIOUS
<1>2. step \in [(1 .. last) \X S -> S]
  OBVIOUS
<1>3. \A k \in 1 .. last, X \in S : step[<<k, X>>] = UNION {PiecePass(call) : call \in X}
  OBVIOUS
<1> HIDE DEF step
<1>4. PICK f : StepsOf(f, S, base, last, step)
  <2> HIDE DEF last, base, S
  <2> QED BY <1>1, <1>2, StepByStep
<1>5. f \in [0 .. last -> S] /\ f[0] = base
  BY <1>4 DEF StepsOf
<1>6. ASSUME NEW k \in 1 .. last PROVE f[k] = UNION {PiecePass(call) : call \in f[k - 1]}
  <2>1. k - 1 \in 0 .. last
    BY <1>1
  <2>2. f[k - 1] \in S
    BY <1>5, <2>1
  <2>3. f[k] = step[<<k, f[k - 1]>>]
    BY <1>4 DEF StepsOf
  <2> HIDE DEF last, S
  <2> QED BY <1>3, <2>2, <2>3
<1>7. Is(f)
  <2> DEFINE F == [i \in 0 .. Len(stream) + 1 |->
                     IF i = 0 THEN {Receiving(<<>>, stream, n)}
                     ELSE UNION {PiecePass(call) : call \in f[i - 1]}]
  <2>1. f = [i \in 0 .. last |-> f[i]] /\ F = [i \in 0 .. last |-> F[i]]
    BY <1>5
  <2>2. ASSUME NEW i \in 0 .. last PROVE f[i] = F[i]
    <3>1. CASE i = 0
      BY <1>5, <3>1
    <3>2. CASE i # 0
      <4>1. i \in 1 .. last
        BY <1>1, <3>2
      <4>2. f[i] = UNION {PiecePass(call) : call \in f[i - 1]}
        BY <1>6, <4>1
      <4>3. F[i] = UNION {PiecePass(call) : call \in f[i - 1]}
        BY <3>2
      <4> QED BY <4>2, <4>3
    <3> QED BY <3>1, <3>2
  <2> HIDE DEF F
  <2>3. f = F
    BY <2>1, <2>2
  <2> QED BY <2>3 DEF F
<1>8. Is(passes)
  <2> HIDE DEF Is
  <2> QED BY <1>7
<1>9. ReceiveAll(n, stream) = passes[Len(stream) + 1]
  BY DEF ReceiveAll
<1> HIDE DEF passes
<1>10. passes[0] = base
  BY <1>8
<1>11. ASSUME NEW i \in 1 .. Len(stream) + 1
       PROVE  passes[i] = UNION {PiecePass(call) : call \in passes[i - 1]}
  <2>1. i \in 0 .. Len(stream) + 1 /\ i # 0
    OBVIOUS
  <2> QED BY <1>8, <2>1
<1>12. Pieces(passes, n, stream)
  BY <1>9, <1>10, <1>11 DEF Pieces
<1> QED
  BY <1>12

(* However recv() cuts them, a loop that asks for k bytes brings the first *)
(* k: the calls after i passes.                                            *)
Taking(w, k, i) ==
  {Receiving(SubSeq(w, 1, j), SubSeq(w, j + 1, Len(w)), k - j) :
     j \in {l \in 0 .. k : l >= i \/ l = k}}

LEMMA PieceTakes ==
  ASSUME NEW w \in Seq(Nat), NEW k \in 1 .. Len(w), NEW i \in Nat, NEW call \in Taking(w, k, i)
  PROVE  PiecePass(call) # {} /\ PiecePass(call) \subseteq Taking(w, k, i + 1)
<1>0. Len(w) \in Nat /\ k \in Nat /\ k <= Len(w)
  BY LenProperties
<1>1. PICK j \in {l \in 0 .. k : l >= i \/ l = k} :
        call = Receiving(SubSeq(w, 1, j), SubSeq(w, j + 1, Len(w)), k - j)
  BY DEF Taking
<1> DEFINE left == k - j
           stream == SubSeq(w, j + 1, Len(w))
<1>2. /\ call.text = SubSeq(w, 1, j) /\ call.stream = stream /\ call.nRemainRecv = left
      /\ call.disconnect = FALSE
  BY <1>1 DEF Receiving
<1>3. left \in Nat /\ j \in 0 .. Len(w) /\ j \in 0 .. k
  BY <1>0, <1>1
<1>4. stream \in Seq(Nat) /\ Len(stream) = Len(w) - j
  <2>1. Len(w) \in j .. Len(w)
    BY <1>0, <1>3
  <2> QED BY <1>0, <1>3, <2>1, PartType
<1>5. CASE j = k
  <2>1. call.nRemainRecv <= 0
    BY <1>0, <1>2, <1>5
  <2>2. PiecePass(call) = {call}
    BY <2>1 DEF PiecePass
  <2>3. j \in {l \in 0 .. k : l >= i + 1 \/ l = k}
    BY <1>0, <1>5
  <2>4. call \in Taking(w, k, i + 1)
    BY <1>1, <2>3 DEF Taking
  <2> QED BY <2>2, <2>4
<1>6. CASE j # k
  <2>1. Len(stream) > 0 /\ left > 0 /\ j >= i
    BY <1>0, <1>1, <1>3, <1>4, <1>6
  <2> HIDE DEF stream, left
  <2>2. PiecePass(call) = {Piece(call, n) : n \in {l \in 1 .. Len(stream) : l <= left}}
    <3>1. stream # <<>>
      BY <1>4, <2>1, EmptySeq
    <3> QED BY <1>2, <1>3, <2>1, <3>1 DEF PiecePass
  <2>3. 1 \in {l \in 1 .. Len(stream) : l <= left}
    BY <1>0, <1>3, <1>4, <2>1
  <2>4. ASSUME NEW n \in 1 .. Len(stream), n <= left
        PROVE  Piece(call, n) \in Taking(w, k, i + 1)
    <3> DEFINE b == j + n
               piece == SubSeq(w, j + 1, b)
               rest == SubSeq(w, b + 1, Len(w))
    <3>1. b \in j .. Len(w) /\ b \in 0 .. Len(w) /\ n \in 0 .. Len(w) - j
          /\ Len(w) - j \in n .. Len(w) - j /\ Len(w) \in j .. Len(w) /\ 0 \in 0 .. Len(w) - j
      BY <1>0, <1>3, <1>4
    <3>2. b \in {l \in 0 .. k : l >= i + 1 \/ l = k} /\ left - n = k - b
      BY <1>0, <1>3, <2>1, <2>4 DEF left
    <3>3. SubSeq(stream, 1, n) = piece
      <4>1. SubSeq(stream, 0 + 1, n) = SubSeq(w, j + 0 + 1, j + n)
        BY <1>0, <1>3, <3>1, PartOfPart DEF stream
      <4>2. 0 + 1 = 1 /\ j + 0 + 1 = j + 1
        BY <1>3
      <4> QED BY <4>1, <4>2
    <3>4. SubSeq(stream, n + 1, Len(stream)) = rest
      <4>1. SubSeq(stream, n + 1, Len(w) - j) = SubSeq(w, j + n + 1, j + (Len(w) - j))
        BY <1>0, <1>3, <3>1, PartOfPart DEF stream
      <4>2. j + (Len(w) - j) = Len(w)
        BY <1>0, <1>3
      <4> QED BY <1>4, <4>1, <4>2
    <3>5. SubSeq(w, 1, j) \o piece = SubSeq(w, 1, b)
      <4> HIDE DEF b
      <4> QED BY <1>0, <1>3, <3>1, PartsJoin
    <3>6. Piece(call, n) = Receiving(SubSeq(w, 1, b), rest, k - b)
      <4> HIDE DEF b, piece, rest
      <4> QED BY <1>2, <3>2, <3>3, <3>4, <3>5 DEF Piece
    <3> HIDE DEF b
    <3> QED BY <3>2, <3>6 DEF Taking, rest
  <2> QED BY <2>2, <2>3, <2>4
<1> QED
  BY <1>5, <1>6

LEMMA AllReceived ==
  ASSUME NEW w \in Seq(Nat), NEW k \in 1 .. Len(w)
  PROVE  ReceiveAll(k, w) = {Receiving(SubSeq(w, 1, k), SubSeq(w, k + 1, Len(w)), 0)}
<1> DEFINE start == Receiving(<<>>, w, k)
           l == Len(w) + 1
           Good(i) == Taking(w, k, i)
           U == Taking(w, k, 0)
<1>0. Len(w) \in Nat /\ k \in Nat /\ k <= Len(w) /\ l \in Nat
  BY LenProperties
<1>1. start \in U
  <2>1. 0 \in {j \in 0 .. k : j >= 0 \/ j = k} /\ k - 0 = k /\ 0 + 1 = 1
    BY <1>0
  <2>2. SubSeq(w, 1, 0) = <<>> /\ SubSeq(w, 1, Len(w)) = w
    <3>1. <<>> \in Seq(Nat) /\ w = <<>> \o w /\ Len(<<>>) = 0
      BY ConcatEmptySeq
    <3>2. <<>> = SubSeq(w, 1, Len(<<>>)) /\ w = SubSeq(w, Len(<<>>) + 1, Len(w))
      BY <3>1, PartsOfWhole
    <3> QED BY <3>1, <3>2
  <2> QED BY <2>1, <2>2 DEF Taking
<1>2. ASSUME NEW i \in Nat, NEW call \in Good(i)
      PROVE  PiecePass(call) # {} /\ PiecePass(call) \subseteq Good(i + 1)
  BY <1>2, PieceTakes
<1>3. Good(0 + 1) \subseteq U
  BY <1>0 DEF Taking
<1>4. \A call \in U : PiecePass(call) \subseteq U
  BY <1>2, <1>3
<1>5. PICK f : /\ f[0] = {start}
               /\ \A i \in 1 .. Len(w) + 1 : f[i] = UNION {PiecePass(call) : call \in f[i - 1]}
               /\ ReceiveAll(k, w) = f[Len(w) + 1]
  <2>1. Receiving(<<>>, w, k) \in U
    BY <1>1
  <2> HIDE DEF U
  <2>2. \E f : Pieces(f, k, w)
    BY <1>0, <1>4, <2>1, PieceLoopIsPasses
  <2> QED BY <2>2 DEF Pieces
<1> DEFINE G == {i \in Nat : i <= l => f[i] # {} /\ f[i] \subseteq Good(i)}
<1>6. 0 \in G
  BY <1>1, <1>5
<1> HIDE DEF Good, U, start
<1>7. ASSUME NEW i \in Nat, i \in G PROVE i + 1 \in G
  <2> SUFFICES ASSUME i + 1 <= l
               PROVE  f[i + 1] # {} /\ f[i + 1] \subseteq Good(i + 1)
    OBVIOUS
  <2>1. i + 1 \in 1 .. Len(w) + 1 /\ (i + 1) - 1 = i /\ i <= l
    BY <1>0
  <2>2. f[i] # {} /\ f[i] \subseteq Good(i)
    BY <1>7, <2>1
  <2>3. f[i + 1] = UNION {PiecePass(call) : call \in f[i]}
    BY <1>5, <2>1
  <2>4. \A call \in f[i] : PiecePass(call) # {} /\ PiecePass(call) \subseteq Good(i + 1)
    BY <1>2, <2>2
  <2> HIDE DEF G
  <2> QED BY <2>2, <2>3, <2>4
<1>8. Nat \subseteq G
  <2> HIDE DEF G
  <2> QED BY <1>6, <1>7, NatSetInduction
<1>9. f[l] # {} /\ f[l] \subseteq Good(l)
  <2>1. l \in G /\ l <= l
    <3> HIDE DEF G, l
    <3> QED BY <1>0, <1>8
  <2> HIDE DEF l
  <2> QED BY <2>1
<1>10. Good(l) = {Receiving(SubSeq(w, 1, k), SubSeq(w, k + 1, Len(w)), 0)}
  <2>1. {j \in 0 .. k : j >= l \/ j = k} = {k} /\ k - k = 0
    BY <1>0
  <2> HIDE DEF l
  <2> QED BY <2>1 DEF Good, Taking
<1> QED
  BY <1>5, <1>9, <1>10

LEMMA ThreeParts ==
  ASSUME NEW s \in Seq(Nat), NEW t \in Seq(Nat), NEW u \in Seq(Nat)
  PROVE  (s \o t) \o u = s \o (t \o u)
BY ConcatAssociative, SMTT(60)

Regroups(s, t, u, v) == ((s \o t) \o u) \o v = s \o ((t \o u) \o v)

LEMMA FourParts ==
  ASSUME NEW s \in Seq(Nat), NEW t \in Seq(Nat), NEW u \in Seq(Nat), NEW v \in Seq(Nat)
  PROVE  Regroups(s, t, u, v)
<1>1. t \o u \in Seq(Nat)
  BY ConcatProperties
<1>2. (s \o t) \o u = s \o (t \o u)
  BY ThreeParts, ZenonT(60)
<1>3. (s \o (t \o u)) \o v = s \o ((t \o u) \o v)
  <2>1. \A x \in Seq(Nat) : (s \o x) \o v = s \o (x \o v)
    <3> TAKE x \in Seq(Nat)
    <3> QED BY ThreeParts, ZenonT(60)
  <2> QED BY <1>1, <2>1, Zenon
<1> QED BY <1>2, <1>3, Zenon DEF Regroups

(* A message that begins with its length is received whole.                *)
LEMMA LengthMessageWhole ==
  ASSUME NEW text \in Seq(Nat \ {NUL}), NEW rest \in Seq(Nat)
  PROVE  ReceiveLengthMessage(<<>>, SendLengthMessage(text) \o rest) = {Returned(text, <<>>, rest)}
<1> DEFINE n == Len(text)
           header == [i \in 1 .. HeaderLen |-> Len(text) + 1]
           h == header \o text
           message == h \o <<NUL>>
           w == message \o rest
           t == text \o <<NUL>>
           body == t \o rest
<1>0. n \in Nat /\ HeaderLen \in Nat /\ HeaderLen > 0 /\ text \in Seq(Nat)
  <2>1. text \in Seq(Nat)
    BY SeqMonotonic
  <2> QED BY <2>1, LenProperties, StreamAssumption
<1>1. header \in Seq(Nat) /\ Len(header) = HeaderLen /\ header[1] = n + 1
  <2>1. n + 1 \in Nat
    BY <1>0
  <2>2. header \in [1 .. HeaderLen -> Nat]
    BY <2>1
  <2>3. header[1] = n + 1
    BY <1>0
  <2> HIDE DEF header, n
  <2> QED BY <1>0, <2>2, <2>3
<1>2. <<NUL>> \in Seq(Nat) /\ Len(<<NUL>>) = 1
  BY DEF NUL
<1> HIDE DEF header, n
<1>3. /\ h \in Seq(Nat) /\ Len(h) = HeaderLen + n
      /\ \A i \in 1 .. HeaderLen : h[i] = header[i]
      /\ \A i \in 1 .. n : h[HeaderLen + i] = text[i]
  <2>1. h = header \o text
    OBVIOUS
  <2> HIDE DEF h
  <2>2. /\ h \in Seq(Nat) /\ Len(h) = Len(header) + Len(text)
        /\ \A i \in 1 .. Len(header) : h[i] = header[i]
        /\ \A i \in 1 .. Len(text) : h[Len(header) + i] = text[i]
    <3>1. header \in Seq(Nat) /\ text \in Seq(Nat)
      BY <1>0, <1>1
    <3> QED BY <2>1, <3>1, PartsOfWhole
  <2> QED BY <1>1, <2>2 DEF n
<1> HIDE DEF h
<1>4. /\ message \in Seq(Nat) /\ Len(message) = HeaderLen + n + 1
      /\ \A i \in 1 .. HeaderLen + n : message[i] = h[i]
  <2>1. message = h \o <<NUL>>
    OBVIOUS
  <2> HIDE DEF message
  <2>2. /\ message \in Seq(Nat) /\ Len(message) = Len(h) + Len(<<NUL>>)
        /\ \A i \in 1 .. Len(h) : message[i] = h[i]
    BY <1>2, <1>3, <2>1, PartsOfWhole
  <2> QED BY <1>2, <1>3, <2>2
<1> HIDE DEF message
<1>5. /\ w \in Seq(Nat) /\ Len(w) = HeaderLen + n + 1 + Len(rest)
      /\ rest = SubSeq(w, HeaderLen + n + 1 + 1, Len(w))
      /\ \A i \in 1 .. HeaderLen + n + 1 : w[i] = message[i]
  <2>1. w = message \o rest
    OBVIOUS
  <2> HIDE DEF w
  <2>2. /\ w \in Seq(Nat) /\ Len(w) = Len(message) + Len(rest)
        /\ rest = SubSeq(w, Len(message) + 1, Len(w))
        /\ \A i \in 1 .. Len(message) : w[i] = message[i]
    BY <1>4, <2>1, PartsOfWhole
  <2> QED BY <1>4, <2>2
<1> HIDE DEF w
<1>6. Len(rest) \in Nat /\ Len(w) = HeaderLen + n + 1 + Len(rest)
  BY <1>5, LenProperties
<1>7. w[1] = n + 1
  <2>1. 1 \in 1 .. HeaderLen /\ 1 \in 1 .. HeaderLen + n /\ 1 \in 1 .. HeaderLen + n + 1
    BY <1>0
  <2> QED BY <1>1, <1>3, <1>4, <1>5, <2>1
<1>8. ReceiveAll(HeaderLen, w) = {Receiving(header, body, 0)}
  <2>1. HeaderLen \in 1 .. Len(w)
    BY <1>0, <1>6
  <2>2. w = header \o body
    <3> DEFINE nul == <<NUL>>
    <3>1. text \in Seq(Nat) /\ header \in Seq(Nat) /\ nul \in Seq(Nat)
      BY <1>0, <1>1, <1>2
    <3> HIDE DEF nul
    <3>2. Regroups(header, text, nul, rest)
      BY <3>1, FourParts
    <3> QED BY <3>2, Zenon DEF Regroups, w, message, h, body, t, nul
  <2>3. body \in Seq(Nat)
    BY <1>0, <1>2, ConcatProperties DEF body
  <2> HIDE DEF body
  <2>4. header = SubSeq(w, 1, HeaderLen) /\ body = SubSeq(w, HeaderLen + 1, Len(w))
    <3>1. header = SubSeq(w, 1, Len(header)) /\ body = SubSeq(w, Len(header) + 1, Len(w))
      BY <1>1, <2>2, <2>3, PartsOfWhole
    <3> QED BY <1>1, <3>1
  <2> QED BY <1>5, <2>1, <2>4, AllReceived
<1>9. ReceiveAll(n + 1, body) = {Receiving(t, rest, 0)} /\ Before(t) = text
  <2>1. t \in Seq(Nat) /\ body \in Seq(Nat)
    BY <1>0, <1>2, ConcatProperties DEF t, body
  <2>2. /\ Len(t) = n + 1 /\ text = SubSeq(t, 1, n)
        /\ \A i \in 1 .. n : t[i] = text[i]
        /\ \A i \in 1 .. Len(<<NUL>>) : t[n + i] = <<NUL>>[i]
    <3>1. t = text \o <<NUL>>
      BY DEF t
    <3> QED BY <1>0, <1>2, <3>1, PartsOfWhole DEF n
  <2>3. body = t \o rest
    BY DEF body, t
  <2>4. /\ Len(body) = n + 1 + Len(rest) /\ t = SubSeq(body, 1, n + 1)
        /\ rest = SubSeq(body, n + 1 + 1, Len(body))
    <3>1. /\ Len(body) = Len(t) + Len(rest) /\ t = SubSeq(body, 1, Len(t))
          /\ rest = SubSeq(body, Len(t) + 1, Len(body))
      BY <2>1, <2>3, PartsOfWhole
    <3> QED BY <2>2, <3>1
  <2>5. n + 1 \in 1 .. Len(body)
    BY <1>0, <1>6, <2>4
  <2>6. ReceiveAll(n + 1, body) = {Receiving(t, rest, 0)}
    BY <2>1, <2>4, <2>5, AllReceived
  <2>7. Complete(t) /\ FirstNul(t) = n + 1
    <3>1. n + 1 \in 1 .. Len(t) /\ \A i \in 1 .. n : i \in 1 .. n
      BY <1>0, <2>2
    <3>2. t[n + 1] = NUL
      <4>1. 1 \in 1 .. Len(<<NUL>>) /\ <<NUL>>[1] = NUL
        BY <1>2
      <4>2. t[n + 1] = <<NUL>>[1]
        BY <2>2, <4>1
      <4> QED BY <4>1, <4>2
    <3>3. \A i \in 1 .. (n + 1) - 1 : t[i] # NUL
      <4>1. (n + 1) - 1 = n
        BY <1>0
      <4>2. \A i \in 1 .. n : text[i] # NUL
        BY ElementOfSeq DEF n
      <4> QED BY <2>2, <4>1, <4>2
    <3> QED BY <2>1, <3>1, <3>2, <3>3, WithNul
  <2>8. FirstNul(t) - 1 = n
    BY <1>0, <2>7
  <2>9. Before(t) = text
    BY <2>2, <2>8, Zenon DEF Before
  <2> QED BY <2>6, <2>9
<1>10. ReceiveLengthMessage(<<>>, w) = {Returned(text, <<>>, rest)}
  <2> HIDE DEF t, body
  <2> DEFINE first == Receiving(header, body, 0)
             second == Receiving(t, rest, 0)
  <2>1. /\ first.disconnect = FALSE /\ first.text = header /\ first.stream = body
        /\ second.disconnect = FALSE /\ second.text = t /\ second.stream = rest
    BY DEF Receiving
  <2>2. ReceiveAll(HeaderLen, w) = {first} /\ ReceiveAll(n + 1, body) = {second}
    BY <1>8, <1>9
  <2> HIDE DEF first, second
  <2>3. ReceiveAll(first.text[1], first.stream) = {second}
    BY <1>1, <2>1, <2>2
  <2>4. Record(first, <<>>) = {Returned(text, <<>>, rest)}
    BY <1>9, <2>1, <2>3 DEF Record
  <2> QED BY <2>2, <2>4 DEF ReceiveLengthMessage
<1>11. w = SendLengthMessage(text) \o rest
  BY DEF w, message, h, header, SendLengthMessage
<1> QED
  BY <1>10, <1>11

Libraries == {"SK", "SKST", "SKHA"}

(* A message of either kind is received whole.                             *)
LEMMA MessageType ==
  ASSUME NEW library \in Libraries, NEW text \in Seq(Nat \ {NUL})
  PROVE  Send(library, text) \in Seq(Nat)
<1>1. text \in Seq(Nat) /\ Len(text) \in Nat /\ HeaderLen \in Nat
  BY SeqMonotonic, LenProperties, StreamAssumption
<1>2. <<NUL>> \in Seq(Nat)
  BY DEF NUL
<1>3. [i \in 1 .. HeaderLen |-> Len(text) + 1] \in Seq(Nat)
  <2>1. [i \in 1 .. HeaderLen |-> Len(text) + 1] \in [1 .. HeaderLen -> Nat]
    BY <1>1
  <2> QED BY <1>1, <2>1
<1>4. SendLengthMessage(text) \in Seq(Nat)
  BY <1>1, <1>2, <1>3, ConcatProperties DEF SendLengthMessage
<1>5. SendCSMessage(text) \in Seq(Nat)
  BY <1>1, <1>2, ConcatProperties DEF SendCSMessage
<1> QED
  BY <1>4, <1>5 DEF Send

Brings(library, calls, text, rest) ==
  calls # {} /\ \A call \in calls : Got(call, text, rest) /\ (library = "SK" => call.kept = <<>>)

LEMMA ReceiveWhole ==
  ASSUME NEW library \in Libraries, NEW text \in Seq(Nat \ {NUL}), Fits(library, text),
         NEW rest \in Seq(Nat), NEW kept \in Seq(Nat), NEW stream \in Seq(Nat),
         kept \o stream = Send(library, text) \o rest, library = "SK" => kept = <<>>
  PROVE  Brings(library, Receive(library, kept, stream), text, rest)
<1>1. CASE library = "SK"
  <2>1. stream = SendLengthMessage(text) \o rest
    <3>1. <<>> \o stream = stream
      BY ConcatEmptySeq
    <3> QED BY <1>1, <3>1 DEF Send
  <2>2. Receive(library, kept, stream) = {Returned(text, <<>>, rest)}
    BY <1>1, <2>1, LengthMessageWhole DEF Receive
  <2>3. <<>> \in Seq(Nat) /\ <<>> \o rest = rest
    BY ConcatEmptySeq
  <2> QED BY <2>2, <2>3 DEF Got, Returned, Brings
<1>2. CASE library # "SK"
  <2> DEFINE n == Len(text)
             message == text \o <<NUL>>
             w == message \o rest
  <2>1. kept \o stream = w
    BY <1>2 DEF Send, SendCSMessage
  <2>2. text \in Seq(Nat) /\ n \in Nat /\ Len(rest) \in Nat
    BY SeqMonotonic, LenProperties
  <2>3. 2 * n < MAX_RQRS_LEN
    BY <1>2 DEF Fits
  <2>4. <<NUL>> \in Seq(Nat) /\ Len(<<NUL>>) = 1 /\ <<NUL>>[1] = NUL
    BY DEF NUL
  <2>5. /\ message \in Seq(Nat) /\ Len(message) = n + 1
        /\ text = SubSeq(message, 1, n)
        /\ \A i \in 1 .. n : message[i] = text[i]
        /\ \A i \in 1 .. Len(<<NUL>>) : message[n + i] = <<NUL>>[i]
    BY <2>2, <2>4, PartsOfWhole
  <2>6. message[n + 1] = NUL
    <3>1. 1 \in 1 .. Len(<<NUL>>)
      BY <2>4
    <3>2. message[n + 1] = <<NUL>>[1]
      BY <2>5, <3>1
    <3> QED BY <2>4, <3>2
  <2> HIDE DEF message
  <2>7. /\ w \in Seq(Nat) /\ Len(w) = n + 1 + Len(rest) /\ n + 1 \in 0 .. Len(w)
        /\ message = SubSeq(w, 1, n + 1) /\ rest = SubSeq(w, n + 1 + 1, Len(w))
        /\ \A i \in 1 .. n + 1 : w[i] = message[i]
    <3>1. w = message \o rest
      OBVIOUS
    <3> HIDE DEF w
    <3>2. /\ w \in Seq(Nat) /\ Len(w) = Len(message) + Len(rest) /\ Len(message) \in 0 .. Len(w)
          /\ message = SubSeq(w, 1, Len(message)) /\ rest = SubSeq(w, Len(message) + 1, Len(w))
          /\ \A i \in 1 .. Len(message) : w[i] = message[i]
      <4>1. message \in Seq(Nat)
        BY <2>5
      <4> QED BY <3>1, <4>1, PartsOfWhole
    <3> QED BY <2>5, <3>2
  <2> HIDE DEF w
  <2>8. Begins(w, n)
    <3>1. n + 1 \in 1 .. n + 1 /\ \A i \in 1 .. n : i \in 1 .. n + 1
      BY <2>2
    <3>2. \A i \in 1 .. n : text[i] # NUL
      BY ElementOfSeq
    <3> HIDE DEF n
    <3>3. n < Len(w)
      <4> DEFINE a == Len(w)
                 b == Len(rest)
      <4>1. a = n + 1 + b
        BY <2>7
      <4>2. n \in Nat /\ b \in Nat
        BY <2>2
      <4> HIDE DEF a, b
      <4>3. n < a
        BY <4>1, <4>2
      <4> QED BY <4>3 DEF a
    <3> QED BY <2>2, <2>5, <2>6, <2>7, <3>1, <3>2, <3>3 DEF Begins
  <2>9. SubSeq(w, 1, n) = text
    <3>1. w = text \o (<<NUL>> \o rest)
      BY <2>2, <2>4, ConcatAssociative DEF w, message
    <3>2. <<NUL>> \o rest \in Seq(Nat)
      BY <2>4, ConcatProperties
    <3> QED BY <2>2, <3>1, <3>2, PartsOfWhole
  <2>10. SubSeq(w, n + 2, Len(w)) = rest
    <3>1. n + 1 + 1 = n + 2
      BY <2>2
    <3> QED BY <2>7, <3>1
  <2> HIDE DEF n
  <2>11. Receive(library, kept, stream) = ReceiveCSMessage(kept, stream)
    BY <1>2 DEF Receive
  <2>12. /\ ReceiveCSMessage(kept, stream) # {}
         /\ \A call \in ReceiveCSMessage(kept, stream) :
              Got(call, SubSeq(w, 1, n), SubSeq(w, n + 2, Len(w)))
    BY <2>1, <2>3, <2>8, CSMessageWhole
  <2> QED BY <1>2, <2>9, <2>10, <2>11, <2>12 DEF Brings
<1> QED
  BY <1>1, <1>2

(* After the last message a call sees the end of the stream.               *)
LEMMA ReceiveEnd ==
  ASSUME NEW library \in Libraries, NEW kept \in Seq(Nat), NEW stream \in Seq(Nat),
         kept \o stream = <<>>
  PROVE  Receive(library, kept, stream) = {Disconnected(<<>>)}
<1>1. kept = <<>> /\ stream = <<>>
  BY ConcatEqualIffEmpty
<1>2. MAX_RQRS_LEN \in Nat /\ MAX_RQRS_LEN > 0 /\ HeaderLen \in Nat /\ HeaderLen > 0
  BY StreamAssumption
<1>3. Len(<<>>) = 0
  OBVIOUS
<1>4. ReceiveLengthMessage(<<>>, <<>>) = {Disconnected(<<>>)}
  <2> DEFINE start == Receiving(<<>>, <<>>, HeaderLen)
             end == Disconnected(<<>>)
             U == {start, end}
  <2>1. PiecePass(start) = {end} /\ PiecePass(end) = {end}
    BY <1>2 DEF PiecePass, Receiving, Disconnected
  <2>2. end.disconnect = TRUE
    BY DEF Disconnected
  <2> HIDE DEF start, end
  <2>3. \A call \in U : PiecePass(call) \subseteq U
    BY <2>1
  <2>4. Receiving(<<>>, <<>>, HeaderLen) \in U /\ Len(<<>>) \in Nat
    BY DEF start
  <2>5. PICK f : Pieces(f, HeaderLen, <<>>)
    <3> HIDE DEF U
    <3> QED BY <2>3, <2>4, PieceLoopIsPasses
  <2>6. f[0] = {start} /\ f[1] = UNION {PiecePass(call) : call \in f[0]}
        /\ ReceiveAll(HeaderLen, <<>>) = f[1]
    <3>1. Len(<<>>) + 1 = 1 /\ 1 \in 1 .. Len(<<>>) + 1 /\ 1 - 1 = 0
      OBVIOUS
    <3> QED BY <2>5, <3>1 DEF Pieces, start
  <2>7. ReceiveAll(HeaderLen, <<>>) = {end}
    BY <2>1, <2>6
  <2>8. Record(end, <<>>) = {end}
    BY <2>2 DEF Record, end
  <2> QED BY <2>7, <2>8 DEF ReceiveLengthMessage, end
<1>5. ReceiveCSMessage(<<>>, <<>>) = {Disconnected(<<>>)}
  <2> DEFINE start == Receiving(<<>>, <<>>, MAX_RQRS_LEN)
             end == Disconnected(<<>>)
             U == {start, end}
  <2>1. ~Complete(<<>>)
    BY <1>3 DEF Complete, ToSet
  <2>2. ReceiveCSMessage(<<>>, <<>>) = RecvLoop(<<>>, MAX_RQRS_LEN, <<>>)
    <3>1. MAX_RQRS_LEN - Len(<<>>) = MAX_RQRS_LEN
      BY <1>2, <1>3
    <3> QED BY <2>1, <3>1 DEF ReceiveCSMessage
  <2>3. Pass(start) = {end} /\ Pass(end) = {end}
    BY <1>2 DEF Pass, Receiving, Disconnected
  <2> HIDE DEF start, end
  <2>4. \A call \in U : Pass(call) \subseteq U
    BY <2>3
  <2>5. Receiving(<<>>, <<>>, MAX_RQRS_LEN) \in U /\ Len(<<>>) \in Nat
    BY DEF start
  <2>6. PICK f : Passes(f, <<>>, MAX_RQRS_LEN, <<>>)
    <3> HIDE DEF U
    <3> QED BY <2>4, <2>5, LoopIsPasses
  <2>7. f[0] = {start} /\ f[1] = UNION {Pass(call) : call \in f[0]}
        /\ RecvLoop(<<>>, MAX_RQRS_LEN, <<>>) = f[1]
    <3>1. Len(<<>>) + 1 = 1 /\ 1 \in 1 .. Len(<<>>) + 1 /\ 1 - 1 = 0
      OBVIOUS
    <3> QED BY <2>6, <3>1 DEF Passes, start
  <2> QED BY <2>2, <2>3, <2>7 DEF end
<1> QED
  BY <1>1, <1>4, <1>5 DEF Receive

-----------------------------------------------------------------------------
(* The bytes of the last messages, one message after the other.            *)
TextSeqs == Seq(Seq(Nat \ {NUL}))

LEMMA StreamOfLast ==
  ASSUME NEW library \in Libraries, NEW texts \in TextSeqs
  PROVE  LET bytes == Stream(library, texts)
         IN  /\ bytes[0] = <<>>
             /\ \A n \in 1 .. Len(texts) :
                  bytes[n] = Send(library, texts[Len(texts) - n + 1]) \o bytes[n - 1]
             /\ \A n \in 0 .. Len(texts) : bytes[n] \in Seq(Nat)
<1> DEFINE l == Len(texts)
           S == Seq(Nat)
           sent(n) == Send(library, texts[Len(texts) - n + 1])
           step == [p \in (1 .. l) \X S |-> sent(p[1]) \o p[2]]
           Is(g) == g = [n \in 0 .. Len(texts) |-> IF n = 0 THEN <<>> ELSE sent(n) \o g[n - 1]]
           last == CHOOSE g : Is(g)
<1>1. l \in Nat
  BY LenProperties DEF TextSeqs
<1>2. ASSUME NEW n \in 1 .. l PROVE sent(n) \in S
  <2>1. l - n + 1 \in 1 .. l
    BY <1>1
  <2>2. texts[Len(texts) - n + 1] \in Seq(Nat \ {NUL})
    BY <2>1, ElementOfSeq DEF TextSeqs
  <2> QED BY <2>2, MessageType
<1> HIDE DEF sent
<1>3. step \in [(1 .. l) \X S -> S]
  <2>1. \A p \in (1 .. l) \X S : sent(p[1]) \o p[2] \in S
    <3> TAKE p \in (1 .. l) \X S
    <3>1. sent(p[1]) \in S /\ p[2] \in S
      BY <1>2
    <3> QED BY <3>1, ConcatProperties
  <2> HIDE DEF S
  <2> QED BY <2>1
<1>4. \A n \in 1 .. l, b \in S : step[<<n, b>>] = sent(n) \o b
  OBVIOUS
<1>5. <<>> \in S
  OBVIOUS
<1> HIDE DEF step
<1>6. PICK f : StepsOf(f, S, <<>>, l, step)
  <2> HIDE DEF l, S
  <2> QED BY <1>1, <1>3, <1>5, StepByStep
<1>7. f \in [0 .. l -> S] /\ f[0] = <<>>
  BY <1>6 DEF StepsOf
<1>8. ASSUME NEW n \in 1 .. l PROVE f[n] = sent(n) \o f[n - 1]
  <2>1. n - 1 \in 0 .. l
    BY <1>1
  <2>2. f[n - 1] \in S
    BY <1>7, <2>1
  <2>3. f[n] = step[<<n, f[n - 1]>>]
    BY <1>6 DEF StepsOf
  <2> HIDE DEF l, S
  <2> QED BY <1>4, <2>2, <2>3
<1> DEFINE F == [n \in 0 .. l |-> IF n = 0 THEN <<>> ELSE sent(n) \o f[n - 1]]
<1>9. f = F
  <2>1. f = [n \in 0 .. l |-> f[n]] /\ F = [n \in 0 .. l |-> F[n]]
    BY <1>7
  <2>2. ASSUME NEW n \in 0 .. l PROVE f[n] = F[n]
    <3>1. CASE n = 0
      BY <1>7, <3>1
    <3>2. CASE n # 0
      <4>1. n \in 1 .. l
        BY <1>1, <3>2
      <4>2. f[n] = sent(n) \o f[n - 1]
        BY <1>8, <4>1
      <4>3. F[n] = sent(n) \o f[n - 1]
        BY <3>2
      <4> QED BY <4>2, <4>3
    <3> QED BY <3>1, <3>2
  <2> HIDE DEF F
  <2> QED BY <2>1, <2>2
<1>10. Is(last)
  <2>1. Is(f)
    BY <1>9
  <2> HIDE DEF Is
  <2> QED BY <2>1
<1>11. Stream(library, texts) = last
  BY DEF Stream, sent
<1> HIDE DEF last
<1>12. last[0] = <<>>
  <2>1. 0 \in 0 .. l
    BY <1>1
  <2> QED BY <1>10, <2>1
<1>13. ASSUME NEW n \in 1 .. l PROVE last[n] = sent(n) \o last[n - 1]
  <2>1. n \in 0 .. Len(texts) /\ n # 0
    BY <1>1
  <2> QED BY <1>10, <2>1
<1>14. \A n \in 0 .. l : last[n] \in S
  <2> DEFINE G == {n \in Nat : n <= l => last[n] \in S}
  <2>1. 0 \in G
    BY <1>5, <1>12
  <2>2. ASSUME NEW n \in Nat, n \in G PROVE n + 1 \in G
    <3> SUFFICES ASSUME n + 1 <= l PROVE last[n + 1] \in S
      OBVIOUS
    <3>1. n + 1 \in 1 .. l /\ (n + 1) - 1 = n /\ n <= l
      BY <1>1
    <3>2. last[n] \in S /\ sent(n + 1) \in S /\ last[n + 1] = sent(n + 1) \o last[n]
      BY <1>2, <1>13, <2>2, <3>1
    <3> QED BY <3>2, ConcatProperties
  <2>3. Nat \subseteq G
    <3> HIDE DEF G
    <3> QED BY <2>1, <2>2, NatSetInduction
  <2> QED BY <1>1, <2>3
<1> QED
  BY <1>11, <1>12, <1>13, <1>14 DEF sent

(* A thread's reading is its calls, one after the other.                   *)
Reading(f, library, sent) ==
  /\ f[0] = {Beginning(library, sent)}
  /\ \A i \in 1 .. Cardinality(Expected(sent)) : f[i] = UNION {Reads(library, x) : x \in f[i - 1]}
  /\ ReadAll(library, sent) = f[Cardinality(Expected(sent))]

LEMMA ReadingIsCalls ==
  ASSUME NEW U, NEW library, NEW sent, Cardinality(Expected(sent)) \in Nat,
         Beginning(library, sent) \in U,
         \A x \in U : Reads(library, x) \subseteq U
  PROVE  \E f : Reading(f, library, sent)
<1> DEFINE n == Cardinality(Expected(sent))
           base == {Beginning(library, sent)}
           S == SUBSET U
           step == [p \in (1 .. n) \X S |-> UNION {Reads(library, x) : x \in p[2]}]
           Is(g) == g = [i \in 0 .. Cardinality(Expected(sent)) |->
                           IF i = 0 THEN {Beginning(library, sent)}
                           ELSE UNION {Reads(library, x) : x \in g[i - 1]}]
           after == CHOOSE g : Is(g)
<1>1. n \in Nat /\ base \in S /\ n \in 0 .. n
  OBVIOUS
<1>2. step \in [(1 .. n) \X S -> S]
  OBVIOUS
<1>3. \A k \in 1 .. n, X \in S : step[<<k, X>>] = UNION {Reads(library, x) : x \in X}
  OBVIOUS
<1> HIDE DEF step
<1>4. PICK f : StepsOf(f, S, base, n, step)
  <2> HIDE DEF n, base, S
  <2> QED BY <1>1, <1>2, StepByStep
<1>5. f \in [0 .. n -> S] /\ f[0] = base
  BY <1>4 DEF StepsOf
<1>6. ASSUME NEW k \in 1 .. n PROVE f[k] = UNION {Reads(library, x) : x \in f[k - 1]}
  <2>1. k - 1 \in 0 .. n
    BY <1>1
  <2>2. f[k - 1] \in S
    BY <1>5, <2>1
  <2>3. f[k] = step[<<k, f[k - 1]>>]
    BY <1>4 DEF StepsOf
  <2> HIDE DEF n, S
  <2> QED BY <1>3, <2>2, <2>3
<1> DEFINE F == [i \in 0 .. n |-> IF i = 0 THEN {Beginning(library, sent)}
                                  ELSE UNION {Reads(library, x) : x \in f[i - 1]}]
<1>7. f = F
  <2>1. f = [i \in 0 .. n |-> f[i]] /\ F = [i \in 0 .. n |-> F[i]]
    BY <1>5
  <2>2. ASSUME NEW i \in 0 .. n PROVE f[i] = F[i]
    <3>1. CASE i = 0
      BY <1>5, <3>1
    <3>2. CASE i # 0
      <4>1. i \in 1 .. n
        BY <1>1, <3>2
      <4>2. f[i] = UNION {Reads(library, x) : x \in f[i - 1]}
        BY <1>6, <4>1
      <4>3. F[i] = UNION {Reads(library, x) : x \in f[i - 1]}
        BY <3>2
      <4> QED BY <4>2, <4>3
    <3> QED BY <3>1, <3>2
  <2> HIDE DEF F
  <2> QED BY <2>1, <2>2
<1>8. Is(after)
  <2>1. Is(f)
    BY <1>7
  <2> HIDE DEF Is
  <2> QED BY <2>1
<1>9. ReadAll(library, sent) = after[n]
  BY DEF ReadAll
<1> HIDE DEF after
<1>10. after[0] = base
  BY <1>8
<1>11. ASSUME NEW i \in 1 .. n PROVE after[i] = UNION {Reads(library, x) : x \in after[i - 1]}
  <2>1. i \in 0 .. n /\ i # 0
    OBVIOUS
  <2> QED BY <1>8, <2>1
<1>12. Reading(after, library, sent)
  BY <1>9, <1>10, <1>11 DEF Reading
<1> QED
  BY <1>12

-----------------------------------------------------------------------------
(* A thread may read one socket, or several with the handles of SKHA.      *)
Readable(library, sent) ==
  /\ library \in Libraries /\ IsFiniteSet(DOMAIN sent)
  /\ sent \in [DOMAIN sent -> TextSeqs]
  /\ \A s \in DOMAIN sent : \A i \in 1 .. Len(sent[s]) : Fits(library, sent[s][i])
  /\ library = "SKHA" \/ \A s, o \in DOMAIN sent : s = o

ThreadType(sent) ==
  [kept : [DOMAIN sent \cup {THREAD} -> Seq(Nat)], streams : [DOMAIN sent -> Seq(Nat)],
   open : SUBSET DOMAIN sent, got : [DOMAIN sent -> TextSeqs]]

(* What the thread got of each socket is what was sent first, and what it  *)
(* keeps and the stream hold the messages that are left.                   *)
InStep(library, sent, x, s) ==
  /\ Len(x.got[s]) <= Len(sent[s]) /\ x.got[s] = SubSeq(sent[s], 1, Len(x.got[s]))
  /\ s \notin x.open => Len(x.got[s]) = Len(sent[s])
  /\ s \in x.open =>
       /\ x.kept[Owner(library, s)] \o x.streams[s] =
            Stream(library, sent[s])[Len(sent[s]) - Len(x.got[s])]
       /\ library = "SK" => x.kept[Owner(library, s)] = <<>>

(* The messages that have come and the ends that have been seen.           *)
Done(sent, x) ==
  {e \in Expected(sent) : IF e[2] = 0 THEN e[1] \notin x.open ELSE e[2] <= Len(x.got[e[1]])}

OneMoreDone(sent, x, y) == \E e \in Expected(sent) \ Done(sent, x) : Done(sent, y) = Done(sent, x) \cup {e}

Reached(library, sent) == {x \in ThreadType(sent) : \A s \in DOMAIN sent : InStep(library, sent, x, s)}

(* The calls a thread makes: one for each message and one for each end.    *)
LEMMA ExpectedIs ==
  ASSUME NEW sent, NEW e
  PROVE  e \in Expected(sent) <=>
           \E s \in DOMAIN sent : \E i \in 0 .. Len(sent[s]) : e = <<s, i>>
BY DEF Expected

(* What is kept of one open socket is not what is kept of another.         *)
LEMMA OwnersDiffer ==
  ASSUME NEW library, NEW sent, Readable(library, sent), NEW s \in DOMAIN sent
  PROVE  /\ Owner(library, s) \in DOMAIN sent \cup {THREAD}
         /\ \A o \in DOMAIN sent : o # s => Owner(library, o) # Owner(library, s)
<1>1. Owner(library, s) \in DOMAIN sent \cup {THREAD}
  BY DEF Owner, SOCKET_HANDLE, STATIC_BUF
<1>2. ASSUME NEW o \in DOMAIN sent, o # s PROVE Owner(library, o) # Owner(library, s)
  <2>1. library = "SKHA"
    BY <1>2 DEF Readable
  <2> QED BY <1>2, <2>1 DEF Owner, SOCKET_HANDLE
<1> QED
  BY <1>1, <1>2

(* A call that gets the next message.                                      *)
LEMMA TakesMessage ==
  ASSUME NEW library, NEW sent, Readable(library, sent), NEW x \in Reached(library, sent),
         NEW s \in x.open, Len(x.got[s]) < Len(sent[s])
  PROVE  LET calls == Receive(library, x.kept[Owner(library, s)], x.streams[s])
         IN  /\ calls # {}
             /\ \A call \in calls : /\ Took(library, x, s, call) \in Reached(library, sent)
                                    /\ OneMoreDone(sent, x, Took(library, x, s, call))
<1> DEFINE k == Len(x.got[s])
           l == Len(sent[s])
           own == Owner(library, s)
           bytes == Stream(library, sent[s])
           text == sent[s][k + 1]
           calls == Receive(library, x.kept[own], x.streams[s])
<1>1. /\ x \in ThreadType(sent) /\ \A o \in DOMAIN sent : InStep(library, sent, x, o)
      /\ s \in DOMAIN sent /\ library \in Libraries
      /\ \A o \in DOMAIN sent : sent[o] \in TextSeqs
  BY DEF Reached, ThreadType, Readable
<1>2. /\ x.kept \in [DOMAIN sent \cup {THREAD} -> Seq(Nat)]
      /\ x.streams \in [DOMAIN sent -> Seq(Nat)]
      /\ x.open \in SUBSET DOMAIN sent
      /\ x.got \in [DOMAIN sent -> TextSeqs]
  BY <1>1 DEF ThreadType
<1>3. k \in Nat /\ l \in Nat /\ k < l /\ l - k \in 1 .. l /\ k + 1 \in 1 .. l
      /\ l - k - 1 \in 0 .. l /\ l - (k + 1) = l - k - 1 /\ l - (l - k) + 1 = k + 1
  <2>1. k \in Nat
    BY <1>1, <1>2, LenProperties DEF TextSeqs
  <2>2. l \in Nat
    BY <1>1, LenProperties DEF TextSeqs
  <2>3. k < l
    OBVIOUS
  <2> HIDE DEF k, l
  <2> QED BY <2>1, <2>2, <2>3
<1>4. own \in DOMAIN sent \cup {THREAD} /\ \A o \in DOMAIN sent : o # s => Owner(library, o) # own
  BY <1>1, OwnersDiffer
<1>5. x.kept[own] \o x.streams[s] = bytes[l - k] /\ (library = "SK" => x.kept[own] = <<>>)
      /\ x.got[s] = SubSeq(sent[s], 1, k)
  BY <1>1 DEF InStep
<1>6. text \in Seq(Nat \ {NUL}) /\ Fits(library, text)
  <2>1. text \in Seq(Nat \ {NUL})
    BY <1>1, <1>3, ElementOfSeq DEF TextSeqs
  <2>2. Fits(library, text)
    BY <1>1, <1>3 DEF Readable
  <2> QED BY <2>1, <2>2
<1>7. bytes[l - k] = Send(library, text) \o bytes[l - k - 1] /\ bytes[l - k - 1] \in Seq(Nat)
  <2>1. /\ \A n \in 1 .. l : bytes[n] = Send(library, sent[s][l - n + 1]) \o bytes[n - 1]
        /\ \A n \in 0 .. l : bytes[n] \in Seq(Nat)
    BY <1>1, StreamOfLast
  <2> HIDE DEF bytes, k, l
  <2>2. bytes[l - k] = Send(library, sent[s][l - (l - k) + 1]) \o bytes[l - k - 1]
    BY <1>3, <2>1
  <2> QED BY <1>3, <2>1, <2>2
<1>8. x.kept[own] \in Seq(Nat) /\ x.streams[s] \in Seq(Nat)
  BY <1>1, <1>2, <1>4
<1> HIDE DEF bytes, text, own
<1>9. /\ calls # {}
      /\ \A call \in calls : Got(call, text, bytes[l - k - 1]) /\ (library = "SK" => call.kept = <<>>)
  <2> DEFINE rest == bytes[l - k - 1]
             kept == x.kept[own]
             stream == x.streams[s]
  <2>1. /\ library \in Libraries /\ text \in Seq(Nat \ {NUL}) /\ Fits(library, text)
        /\ rest \in Seq(Nat) /\ kept \in Seq(Nat) /\ stream \in Seq(Nat)
        /\ kept \o stream = Send(library, text) \o rest /\ (library = "SK" => kept = <<>>)
    BY <1>1, <1>5, <1>6, <1>7, <1>8
  <2> HIDE DEF rest, kept, stream
  <2>2. Brings(library, Receive(library, kept, stream), text, rest)
    BY <2>1, ReceiveWhole
  <2> QED BY <2>2 DEF rest, kept, stream, Brings
<1>10. ASSUME NEW call \in calls
       PROVE  LET y == Took(library, x, s, call)
              IN  y \in Reached(library, sent) /\ OneMoreDone(sent, x, y)
  <2> DEFINE y == Took(library, x, s, call)
  <2>1. /\ call.disconnect = FALSE /\ call.text = text /\ call.kept \in Seq(Nat)
        /\ call.stream \in Seq(Nat) /\ call.kept \o call.stream = bytes[l - k - 1]
        /\ library = "SK" => call.kept = <<>>
    BY <1>9 DEF Got
  <2>2. /\ y.kept = [x.kept EXCEPT ![own] = call.kept]
        /\ y.streams = [x.streams EXCEPT ![s] = call.stream]
        /\ y.open = x.open
        /\ y.got = [x.got EXCEPT ![s] = Append(@, text)]
        /\ y = [kept |-> y.kept, streams |-> y.streams, open |-> y.open, got |-> y.got]
    BY <2>1 DEF Took, own
  <2> HIDE DEF y, calls
  <2>3. Append(x.got[s], text) = SubSeq(sent[s], 1, k + 1) /\ Append(x.got[s], text) \in TextSeqs
        /\ Len(Append(x.got[s], text)) = k + 1
    <3> DEFINE T == Seq(Nat \ {NUL})
    <3>1. x.got[s] \in Seq(T) /\ text \in T /\ sent[s] \in Seq(T)
      BY <1>1, <1>2, <1>6 DEF TextSeqs
    <3> HIDE DEF T
    <3>2. Append(x.got[s], text) = x.got[s] \o <<text>> /\ Append(x.got[s], text) \in Seq(T)
          /\ Len(Append(x.got[s], text)) = k + 1
      BY <3>1, AppendIsConcat, AppendProperties
    <3>3. SubSeq(sent[s], 1, k + 1) = SubSeq(sent[s], 1, k + 1 - 1) \o <<sent[s][k + 1]>>
      <4> DEFINE w == sent[s]
                 j == k + 1
      <4>1. w \in Seq(T) /\ 1 \in 1 .. Len(w) /\ j \in 1 .. Len(w)
        BY <1>3, <3>1
      <4> HIDE DEF w, j
      <4>2. SubSeq(w, 1, j) = SubSeq(w, 1, j - 1) \o <<w[j]>>
        BY <4>1, SubSeqRecursiveSecond
      <4> QED BY <4>2 DEF w, j
    <3>4. k + 1 - 1 = k
      BY <1>3
    <3> QED BY <1>5, <3>2, <3>3, <3>4 DEF text, T, TextSeqs
  <2> HIDE DEF k, l
  <2>4. y \in ThreadType(sent)
    <3>1. y.kept \in [DOMAIN sent \cup {THREAD} -> Seq(Nat)]
      BY <1>2, <1>4, <2>1, <2>2
    <3>2. y.streams \in [DOMAIN sent -> Seq(Nat)]
      BY <1>1, <1>2, <2>1, <2>2
    <3>3. y.got \in [DOMAIN sent -> TextSeqs]
      BY <1>1, <1>2, <2>2, <2>3
    <3> QED BY <1>2, <2>2, <3>1, <3>2, <3>3 DEF ThreadType
  <2>5. y.got[s] = Append(x.got[s], text) /\ \A o \in DOMAIN sent : o # s => y.got[o] = x.got[o]
    BY <1>1, <1>2, <2>2
  <2>6. Len(y.got[s]) = k + 1
    BY <2>3, <2>5
  <2>7. ASSUME NEW o \in DOMAIN sent PROVE InStep(library, sent, y, o)
    <3>1. CASE o = s
      <4>1. y.kept[own] = call.kept /\ y.streams[s] = call.stream
        BY <1>1, <1>2, <1>4, <2>2
      <4>2. y.kept[own] \o y.streams[s] = Stream(library, sent[s])[Len(sent[s]) - Len(y.got[s])]
        BY <1>3, <2>1, <2>6, <4>1 DEF bytes, l
      <4>3. y.got[s] = SubSeq(sent[s], 1, Len(y.got[s]))
        BY <2>3, <2>5, <2>6
      <4>4. Len(y.got[s]) <= Len(sent[s])
        BY <1>3, <2>6 DEF l
      <4> QED BY <2>1, <2>2, <3>1, <4>1, <4>2, <4>3, <4>4 DEF InStep, own
    <3>2. CASE o # s
      <4>1. y.got[o] = x.got[o] /\ y.streams[o] = x.streams[o]
            /\ y.kept[Owner(library, o)] = x.kept[Owner(library, o)]
        <5>1. Owner(library, o) # own /\ Owner(library, o) \in DOMAIN sent \cup {THREAD}
          BY <1>4, <3>2, OwnersDiffer
        <5> QED BY <1>2, <2>2, <3>2, <5>1
      <4> QED BY <1>1, <2>2, <4>1 DEF InStep
    <3> QED BY <3>1, <3>2
  <2>8. OneMoreDone(sent, x, y)
    <3> DEFINE e == <<s, k + 1>>
    <3>1. e \in Expected(sent)
      <4>1. k + 1 \in 0 .. Len(sent[s])
        BY <1>3 DEF l
      <4> QED BY <1>1, <4>1, ExpectedIs
    <3>2. e \notin Done(sent, x)
      BY <1>3 DEF Done, k
    <3>3. ASSUME NEW d \in Expected(sent)
          PROVE  d \in Done(sent, y) <=> d \in Done(sent, x) \/ d = e
      <4>1. PICK o \in DOMAIN sent : \E i \in 0 .. Len(sent[o]) : d = <<o, i>>
        BY <3>3, ExpectedIs
      <4>2. PICK i \in 0 .. Len(sent[o]) : d = <<o, i>>
        BY <4>1
      <4>3. d \in Done(sent, x) <=> IF i = 0 THEN o \notin x.open ELSE i <= Len(x.got[o])
        BY <4>2 DEF Done
      <4>4. d \in Done(sent, y) <=> IF i = 0 THEN o \notin y.open ELSE i <= Len(y.got[o])
        BY <4>2 DEF Done
      <4>5. d = e <=> o = s /\ i = k + 1
        BY <4>2
      <4>6. CASE o # s
        BY <2>2, <2>5, <4>3, <4>4, <4>5, <4>6
      <4>7. CASE o = s
        <5>1. i \in Nat
          BY <1>3, <4>2, <4>7 DEF l
        <5>2. Len(x.got[s]) = k
          BY DEF k
        <5> QED BY <1>3, <2>2, <2>6, <4>3, <4>4, <4>5, <4>7, <5>1, <5>2
      <4> QED BY <4>6, <4>7
    <3> HIDE DEF e
    <3>4. Done(sent, y) = Done(sent, x) \cup {e}
      BY <3>1, <3>3 DEF Done
    <3> QED BY <3>1, <3>2, <3>4 DEF OneMoreDone
  <2>9. y \in Reached(library, sent)
    BY <2>4, <2>7 DEF Reached
  <2> QED BY <2>8, <2>9 DEF y
<1> QED
  BY <1>9, <1>10 DEF own

(* A call that sees the end of the stream.                                 *)
LEMMA TakesEnd ==
  ASSUME NEW library, NEW sent, Readable(library, sent), NEW x \in Reached(library, sent),
         NEW s \in x.open, Len(x.got[s]) = Len(sent[s])
  PROVE  LET calls == Receive(library, x.kept[Owner(library, s)], x.streams[s])
         IN  /\ calls # {}
             /\ \A call \in calls : /\ Took(library, x, s, call) \in Reached(library, sent)
                                    /\ OneMoreDone(sent, x, Took(library, x, s, call))
<1> DEFINE own == Owner(library, s)
           calls == Receive(library, x.kept[own], x.streams[s])
           call == Disconnected(<<>>)
           y == Took(library, x, s, call)
<1>1. /\ x \in ThreadType(sent) /\ \A o \in DOMAIN sent : InStep(library, sent, x, o)
      /\ s \in DOMAIN sent /\ library \in Libraries
      /\ \A o \in DOMAIN sent : sent[o] \in TextSeqs
  BY DEF Reached, ThreadType, Readable
<1>2. /\ x.kept \in [DOMAIN sent \cup {THREAD} -> Seq(Nat)]
      /\ x.streams \in [DOMAIN sent -> Seq(Nat)]
      /\ x.open \in SUBSET DOMAIN sent
      /\ x.got \in [DOMAIN sent -> TextSeqs]
  BY <1>1 DEF ThreadType
<1>3. Len(sent[s]) \in Nat /\ Len(sent[s]) - Len(x.got[s]) = 0
  <2>1. Len(sent[s]) \in Nat
    BY <1>1, LenProperties DEF TextSeqs
  <2> QED BY <2>1
<1>4. own \in DOMAIN sent \cup {THREAD} /\ \A o \in DOMAIN sent : o # s => Owner(library, o) # own
  BY <1>1, OwnersDiffer
<1>5. x.kept[own] \o x.streams[s] = <<>>
  <2>1. x.kept[own] \o x.streams[s] = Stream(library, sent[s])[Len(sent[s]) - Len(x.got[s])]
    BY <1>1 DEF InStep
  <2>2. Stream(library, sent[s])[0] = <<>>
    BY <1>1, StreamOfLast
  <2> QED BY <1>3, <2>1, <2>2
<1>6. calls = {call}
  <2>1. x.kept[own] \in Seq(Nat) /\ x.streams[s] \in Seq(Nat)
    BY <1>1, <1>2, <1>4
  <2> HIDE DEF own
  <2> QED BY <1>1, <1>5, <2>1, ReceiveEnd
<1> HIDE DEF own
<1>7. /\ y.kept = [x.kept EXCEPT ![own] = <<>>]
      /\ y.streams = [x.streams EXCEPT ![s] = <<>>]
      /\ y.open = x.open \ {s}
      /\ y.got = x.got
      /\ y = [kept |-> y.kept, streams |-> y.streams, open |-> y.open, got |-> y.got]
  BY DEF Took, Disconnected, own
<1> HIDE DEF y, call, calls
<1>8. y \in ThreadType(sent)
  <2>1. <<>> \in Seq(Nat)
    OBVIOUS
  <2>2. y.kept \in [DOMAIN sent \cup {THREAD} -> Seq(Nat)]
    BY <1>2, <1>4, <1>7, <2>1
  <2>3. y.streams \in [DOMAIN sent -> Seq(Nat)]
    BY <1>1, <1>2, <1>7, <2>1
  <2> QED BY <1>2, <1>7, <2>2, <2>3 DEF ThreadType
<1>9. ASSUME NEW o \in DOMAIN sent PROVE InStep(library, sent, y, o)
  <2>1. CASE o = s
    <3>1. s \notin y.open
      BY <1>7
    <3> QED BY <1>1, <1>7, <2>1, <3>1 DEF InStep
  <2>2. CASE o # s
    <3>1. y.streams[o] = x.streams[o] /\ y.kept[Owner(library, o)] = x.kept[Owner(library, o)]
          /\ (o \in y.open <=> o \in x.open)
      <4>1. Owner(library, o) # own /\ Owner(library, o) \in DOMAIN sent \cup {THREAD}
        BY <1>4, <2>2, OwnersDiffer
      <4> QED BY <1>2, <1>7, <2>2, <4>1
    <3> QED BY <1>1, <1>7, <3>1 DEF InStep
  <2> QED BY <2>1, <2>2
<1>10. OneMoreDone(sent, x, y)
  <2> DEFINE e == <<s, 0>>
  <2>1. e \in Expected(sent)
    <3>1. 0 \in 0 .. Len(sent[s])
      BY <1>3
    <3> QED BY <1>1, <3>1, ExpectedIs
  <2>2. e \notin Done(sent, x)
    BY DEF Done
  <2>3. ASSUME NEW d \in Expected(sent)
        PROVE  d \in Done(sent, y) <=> d \in Done(sent, x) \/ d = e
    <3>1. PICK o \in DOMAIN sent : \E i \in 0 .. Len(sent[o]) : d = <<o, i>>
      BY <2>3, ExpectedIs
    <3>2. PICK i \in 0 .. Len(sent[o]) : d = <<o, i>>
      BY <3>1
    <3>3. d \in Done(sent, x) <=> IF i = 0 THEN o \notin x.open ELSE i <= Len(x.got[o])
      BY <3>2 DEF Done
    <3>4. d \in Done(sent, y) <=> IF i = 0 THEN o \notin y.open ELSE i <= Len(y.got[o])
      BY <3>2 DEF Done
    <3>5. d = e <=> o = s /\ i = 0
      BY <3>2
    <3> QED BY <1>7, <3>3, <3>4, <3>5
  <2> HIDE DEF e
  <2>4. Done(sent, y) = Done(sent, x) \cup {e}
    BY <2>1, <2>3 DEF Done
  <2> QED BY <2>1, <2>2, <2>4 DEF OneMoreDone
<1>11. y \in Reached(library, sent)
  BY <1>8, <1>9 DEF Reached
<1> QED
  BY <1>6, <1>10, <1>11 DEF y, calls, own

(* A thread with an open socket goes on, and a call brings it one further. *)
LEMMA ReadsOneMore ==
  ASSUME NEW library, NEW sent, Readable(library, sent), NEW x \in Reached(library, sent)
  PROVE  /\ Reads(library, x) # {} /\ Reads(library, x) \subseteq Reached(library, sent)
         /\ x.open = {} => Reads(library, x) = {x}
         /\ x.open # {} => \A y \in Reads(library, x) : OneMoreDone(sent, x, y)
<1> DEFINE calls(s) == Receive(library, x.kept[Owner(library, s)], x.streams[s])
<1>1. ASSUME NEW s \in x.open
      PROVE  /\ calls(s) # {}
             /\ \A call \in calls(s) : /\ Took(library, x, s, call) \in Reached(library, sent)
                                       /\ OneMoreDone(sent, x, Took(library, x, s, call))
  <2>1. /\ s \in DOMAIN sent /\ Len(x.got[s]) <= Len(sent[s])
        /\ Len(x.got[s]) \in Nat /\ Len(sent[s]) \in Nat
    <3>1. s \in DOMAIN sent /\ x.got[s] \in TextSeqs /\ sent[s] \in TextSeqs
      BY DEF Reached, ThreadType, Readable
    <3>2. Len(x.got[s]) \in Nat /\ Len(sent[s]) \in Nat
      BY <3>1, LenProperties DEF TextSeqs
    <3>3. Len(x.got[s]) <= Len(sent[s])
      BY <3>1 DEF Reached, InStep
    <3> QED BY <3>1, <3>2, <3>3
  <2>2. CASE Len(x.got[s]) < Len(sent[s])
    BY <2>2, TakesMessage
  <2>3. CASE Len(x.got[s]) = Len(sent[s])
    BY <2>3, TakesEnd
  <2> QED BY <2>1, <2>2, <2>3
<1>2. CASE x.open = {}
  BY <1>2 DEF Reads
<1>3. CASE x.open # {}
  <2>1. Reads(library, x) = UNION {{Took(library, x, s, call) : call \in calls(s)} : s \in x.open}
    BY <1>3 DEF Reads
  <2> HIDE DEF calls
  <2>2. PICK s \in x.open : TRUE
    BY <1>3
  <2>3. PICK call \in calls(s) : TRUE
    BY <1>1
  <2>4. Took(library, x, s, call) \in Reads(library, x)
    BY <2>1
  <2>5. ASSUME NEW y \in Reads(library, x)
        PROVE  y \in Reached(library, sent) /\ OneMoreDone(sent, x, y)
    <3>1. PICK o \in x.open : y \in {Took(library, x, o, c) : c \in calls(o)}
      BY <2>1
    <3>2. PICK c \in calls(o) : y = Took(library, x, o, c)
      BY <3>1
    <3> QED BY <1>1, <3>2
  <2> QED BY <1>3, <2>4, <2>5
<1> QED
  BY <1>2, <1>3

(* They are finitely many.                                                 *)
LEMMA ExpectedFinite ==
  ASSUME NEW library, NEW sent, Readable(library, sent)
  PROVE  IsFiniteSet(Expected(sent))
<1> DEFINE Calls(s) == {s} \X (0 .. Len(sent[s]))
           S == {Calls(s) : s \in DOMAIN sent}
<1>1. IsFiniteSet(S)
  <2> DEFINE f == [s \in DOMAIN sent |-> Calls(s)]
  <2>1. IsFiniteSet(DOMAIN sent)
    BY DEF Readable
  <2> HIDE DEF Calls
  <2>2. f \in Surjection(DOMAIN sent, S)
    BY DEF Surjection
  <2> HIDE DEF f, S
  <2> QED BY <2>1, <2>2, FS_Surjection
<1>2. ASSUME NEW C \in S PROVE IsFiniteSet(C)
  <2>1. PICK s \in DOMAIN sent : C = Calls(s)
    OBVIOUS
  <2>2. Len(sent[s]) \in Nat
    BY LenProperties DEF Readable, TextSeqs
  <2>3. IsFiniteSet({s})
    BY FS_Singleton
  <2>4. IsFiniteSet(0 .. Len(sent[s]))
    <3> DEFINE b == Len(sent[s])
    <3>1. 0 \in Int /\ b \in Int
      BY <2>2
    <3> HIDE DEF b
    <3>2. IsFiniteSet(0 .. b)
      BY <3>1, FS_Interval
    <3> QED BY <3>2 DEF b
  <2> QED BY <2>1, <2>3, <2>4, FS_Product
<1>3. Expected(sent) = UNION S
  BY DEF Expected
<1> HIDE DEF S
<1> QED
  BY <1>1, <1>2, <1>3, FS_UNION

(* A thread begins with nothing done.                                      *)
LEMMA BeginsReached ==
  ASSUME NEW library, NEW sent, Readable(library, sent)
  PROVE  /\ Beginning(library, sent) \in Reached(library, sent)
         /\ Done(sent, Beginning(library, sent)) = {}
<1> DEFINE x == Beginning(library, sent)
<1>1. /\ x.kept = [o \in DOMAIN sent \cup {THREAD} |-> <<>>]
      /\ x.streams = [s \in DOMAIN sent |-> Stream(library, sent[s])[Len(sent[s])]]
      /\ x.open = DOMAIN sent /\ x.got = [s \in DOMAIN sent |-> <<>>]
      /\ x = [kept |-> x.kept, streams |-> x.streams, open |-> x.open, got |-> x.got]
  BY DEF Beginning
<1> HIDE DEF x
<1>2. ASSUME NEW s \in DOMAIN sent
      PROVE  /\ Len(sent[s]) \in Nat /\ Stream(library, sent[s])[Len(sent[s])] \in Seq(Nat)
             /\ SubSeq(sent[s], 1, 0) = <<>>
  <2>1. sent[s] \in TextSeqs /\ library \in Libraries
    BY DEF Readable
  <2>2. Len(sent[s]) \in Nat
    BY <2>1, LenProperties DEF TextSeqs
  <2>3. \A n \in 0 .. Len(sent[s]) : Stream(library, sent[s])[n] \in Seq(Nat)
    BY <2>1, StreamOfLast
  <2>4. SubSeq(sent[s], 1, 0) = <<>>
    BY <2>1, SubSeqEmpty DEF TextSeqs
  <2> QED BY <2>2, <2>3, <2>4
<1>3. Len(<<>>) = 0 /\ <<>> \in TextSeqs /\ <<>> \in Seq(Nat)
  BY DEF TextSeqs
<1>4. x \in ThreadType(sent)
  <2>1. x.kept \in [DOMAIN sent \cup {THREAD} -> Seq(Nat)]
    BY <1>1, <1>3
  <2>2. x.streams \in [DOMAIN sent -> Seq(Nat)]
    BY <1>1, <1>2
  <2>3. x.got \in [DOMAIN sent -> TextSeqs]
    BY <1>1, <1>3
  <2> QED BY <1>1, <2>1, <2>2, <2>3 DEF ThreadType
<1>5. ASSUME NEW s \in DOMAIN sent PROVE InStep(library, sent, x, s)
  <2>1. x.got[s] = <<>> /\ Len(x.got[s]) = 0 /\ s \in x.open
    BY <1>1, <1>3
  <2>2. Owner(library, s) \in DOMAIN sent \cup {THREAD}
    BY OwnersDiffer
  <2>3. x.kept[Owner(library, s)] = <<>>
        /\ x.streams[s] = Stream(library, sent[s])[Len(sent[s])]
    BY <1>1, <2>2
  <2>4. x.kept[Owner(library, s)] \o x.streams[s] =
          Stream(library, sent[s])[Len(sent[s]) - Len(x.got[s])]
    <3> DEFINE b == Stream(library, sent[s])[Len(sent[s])]
    <3>1. <<>> \o b = b
      <4>1. b \in Seq(Nat)
        BY <1>2
      <4> HIDE DEF b
      <4> QED BY <4>1, ConcatEmptySeq
    <3>2. Len(sent[s]) - Len(x.got[s]) = Len(sent[s])
      BY <1>2, <2>1
    <3> QED BY <2>3, <3>1, <3>2
  <2> QED BY <1>2, <2>1, <2>3, <2>4 DEF InStep
<1>6. Done(sent, x) = {}
  <2> SUFFICES ASSUME NEW e \in Done(sent, x) PROVE FALSE
    OBVIOUS
  <2>1. e \in Expected(sent) /\ IF e[2] = 0 THEN e[1] \notin x.open ELSE e[2] <= Len(x.got[e[1]])
    BY DEF Done
  <2>2. PICK s \in DOMAIN sent : \E i \in 0 .. Len(sent[s]) : e = <<s, i>>
    BY <2>1, ExpectedIs
  <2>3. PICK i \in 0 .. Len(sent[s]) : e = <<s, i>>
    BY <2>2
  <2>4. i \in Nat /\ i # 0 /\ i <= Len(x.got[s])
    BY <1>1, <1>2, <2>1, <2>3
  <2>5. Len(x.got[s]) = 0
    BY <1>1, <1>3
  <2> QED BY <2>4, <2>5
<1>7. x \in Reached(library, sent)
  BY <1>4, <1>5 DEF Reached
<1> QED
  BY <1>6, <1>7 DEF x

(* When all is done each socket has seen its end and brought its messages. *)
LEMMA AllDone ==
  ASSUME NEW library, NEW sent, Readable(library, sent), NEW x \in Reached(library, sent),
         x.open = {} \/ Done(sent, x) = Expected(sent)
  PROVE  x.open = {} /\ x.got = sent
<1>1. x \in ThreadType(sent) /\ \A o \in DOMAIN sent : InStep(library, sent, x, o)
  BY DEF Reached
<1>2. x.open \in SUBSET DOMAIN sent /\ x.got \in [DOMAIN sent -> TextSeqs]
      /\ sent \in [DOMAIN sent -> TextSeqs]
  BY <1>1 DEF ThreadType, Readable
<1>3. x.open = {}
  <2> SUFFICES ASSUME Done(sent, x) = Expected(sent), NEW s \in x.open PROVE FALSE
    OBVIOUS
  <2>1. Len(sent[s]) \in Nat
    BY <1>2, LenProperties DEF TextSeqs
  <2>2. <<s, 0>> \in Expected(sent)
    <3>1. 0 \in 0 .. Len(sent[s])
      BY <2>1
    <3> QED BY <1>2, <3>1, ExpectedIs
  <2>3. <<s, 0>> \notin Done(sent, x)
    BY DEF Done
  <2> QED BY <2>2, <2>3
<1>4. ASSUME NEW s \in DOMAIN sent PROVE x.got[s] = sent[s]
  <2>1. Len(x.got[s]) = Len(sent[s]) /\ x.got[s] = SubSeq(sent[s], 1, Len(x.got[s]))
    BY <1>1, <1>3 DEF InStep
  <2>2. sent[s] \in Seq(Seq(Nat \ {NUL}))
    BY <1>2 DEF TextSeqs
  <2>3. SubSeq(sent[s], 1, Len(sent[s])) = sent[s]
    BY <2>2, SubSeqFull
  <2> QED BY <2>1, <2>3
<1> QED
  BY <1>2, <1>3, <1>4

(* A call adds one to what is done.                                        *)
LEMMA OneMoreCounts ==
  ASSUME NEW library, NEW sent, Readable(library, sent), NEW x, NEW y, OneMoreDone(sent, x, y)
  PROVE  /\ Cardinality(Done(sent, x)) \in Nat /\ Cardinality(Done(sent, y)) \in Nat
         /\ Cardinality(Done(sent, y)) = Cardinality(Done(sent, x)) + 1
<1> DEFINE D == Done(sent, x)
<1>1. IsFiniteSet(Expected(sent))
  BY ExpectedFinite
<1>2. D \in SUBSET Expected(sent)
  BY DEF Done
<1>3. PICK e \in Expected(sent) \ D : Done(sent, y) = D \cup {e}
  BY DEF OneMoreDone
<1> HIDE DEF D
<1>4. IsFiniteSet(D)
  BY <1>1, <1>2, FS_Subset
<1>5. e \notin D
  OBVIOUS
<1>6. Cardinality(D \cup {e}) = Cardinality(D) + 1
  BY <1>4, <1>5, FS_AddElement
<1>7. Cardinality(D) \in Nat
  BY <1>4, FS_CardinalityType
<1> QED
  BY <1>3, <1>6, <1>7 DEF D

(* However recv() cuts the streams, and in whatever order the thread reads *)
(* its sockets, every message sent comes whole and in order, nothing else  *)
(* comes, and each socket sees its end: for every text without a null, any *)
(* number of messages and every size of the buffer, with the length before *)
(* the text (serverSK.c), or with a null after it when the text takes less *)
(* than half the buffer, on one socket (SendReceiveSKST.c) or on any       *)
(* number of sockets with handles of their own (SendReceiveSKHA.c).        *)
THEOREM ReadsWhole ==
  ASSUME NEW library, NEW sent, Readable(library, sent)
  PROVE  Whole(library, sent)
<1> DEFINE N == Cardinality(Expected(sent))
           count(x) == Cardinality(Done(sent, x))
<1>1. IsFiniteSet(Expected(sent)) /\ N \in Nat
  BY ExpectedFinite, FS_CardinalityType
<1>2. Beginning(library, sent) \in Reached(library, sent)
      /\ Done(sent, Beginning(library, sent)) = {}
  BY BeginsReached
<1>3. PICK f : Reading(f, library, sent)
  <2> DEFINE U == Reached(library, sent)
  <2>1. \A x \in U : Reads(library, x) \subseteq U
    BY ReadsOneMore
  <2>2. Beginning(library, sent) \in U
    BY <1>2
  <2> HIDE DEF U
  <2> QED BY <1>1, <2>1, <2>2, ReadingIsCalls
<1>4. /\ f[0] = {Beginning(library, sent)} /\ ReadAll(library, sent) = f[N]
      /\ \A i \in 1 .. N : f[i] = UNION {Reads(library, x) : x \in f[i - 1]}
  BY <1>3 DEF Reading
<1> HIDE DEF N
<1> DEFINE Far(i) == /\ f[i] # {} /\ f[i] \subseteq Reached(library, sent)
                     /\ \A x \in f[i] : x.open = {} \/ (count(x) \in Nat /\ count(x) >= i)
           G == {i \in Nat : i <= N => Far(i)}
<1>5. Far(0)
  <2>1. count(Beginning(library, sent)) = 0
    BY <1>2, FS_EmptySet
  <2> HIDE DEF count
  <2> QED BY <1>2, <1>4, <2>1
<1>6. ASSUME NEW i \in Nat, i + 1 <= N, Far(i) PROVE Far(i + 1)
  <2>1. f[i + 1] = UNION {Reads(library, x) : x \in f[i]}
    <3>1. i + 1 \in 1 .. N /\ (i + 1) - 1 = i
      BY <1>1, <1>6
    <3> QED BY <1>4, <3>1
  <2>2. f[i + 1] # {} /\ f[i + 1] \subseteq Reached(library, sent)
    <3>1. \A x \in f[i] : Reads(library, x) # {} /\ Reads(library, x) \subseteq Reached(library, sent)
      BY <1>6, ReadsOneMore
    <3> QED BY <1>6, <2>1, <3>1
  <2>3. ASSUME NEW y \in f[i + 1] PROVE y.open = {} \/ (count(y) \in Nat /\ count(y) >= i + 1)
    <3>1. PICK x \in f[i] : y \in Reads(library, x)
      BY <2>1
    <3>2. x \in Reached(library, sent) /\ (x.open = {} \/ (count(x) \in Nat /\ count(x) >= i))
      BY <1>6
    <3>3. CASE x.open = {}
      BY <3>1, <3>2, <3>3, ReadsOneMore
    <3>4. CASE x.open # {}
      <4>1. OneMoreDone(sent, x, y)
        BY <3>1, <3>2, <3>4, ReadsOneMore
      <4>2. count(y) \in Nat /\ count(y) = count(x) + 1
        BY <4>1, OneMoreCounts
      <4> HIDE DEF count
      <4> QED BY <3>2, <3>4, <4>2
    <3> QED BY <3>3, <3>4
  <2> QED BY <2>2, <2>3
<1> HIDE DEF Far
<1>7. Far(N)
  <2>1. 0 \in G
    BY <1>5
  <2>2. \A i \in Nat : i \in G => i + 1 \in G
    <3> SUFFICES ASSUME NEW i \in Nat, i \in G, i + 1 <= N PROVE Far(i + 1)
      OBVIOUS
    <3>1. i <= N
      BY <1>1
    <3> QED BY <1>6, <3>1
  <2>3. Nat \subseteq G
    <3> HIDE DEF G
    <3> QED BY <2>1, <2>2, NatSetInduction
  <2> QED BY <1>1, <2>3
<1>8. ASSUME NEW x \in f[N] PROVE x.open = {} /\ x.got = sent
  <2>1. x \in Reached(library, sent) /\ (x.open = {} \/ (count(x) \in Nat /\ count(x) >= N))
    BY <1>7 DEF Far
  <2>2. CASE x.open = {}
    BY <2>1, <2>2, AllDone
  <2>3. CASE x.open # {}
    <3>1. Done(sent, x) \in SUBSET Expected(sent)
      BY DEF Done
    <3>2. Cardinality(Done(sent, x)) <= Cardinality(Expected(sent))
      BY <1>1, <3>1, FS_Subset
    <3>3. Cardinality(Expected(sent)) = Cardinality(Done(sent, x))
      BY <1>1, <2>1, <2>3, <3>2 DEF N
    <3>4. Expected(sent) = Done(sent, x)
      BY <1>1, <3>1, <3>3, FS_Subset
    <3> QED BY <2>1, <3>4, AllDone
  <2> QED BY <2>2, <2>3
<1>9. f[N] # {}
  BY <1>7 DEF Far
<1>10. {<<x.open, x.got>> : x \in f[N]} = {<<{}, sent>>}
  <2> HIDE DEF G
  <2>1. PICK x \in f[N] : TRUE
    BY <1>9
  <2> QED BY <1>8, <2>1
<1> QED
  BY <1>4, <1>10 DEF Whole

(* A finite interval.                                                      *)
LEMMA UpToFinite ==
  ASSUME NEW b \in Nat
  PROVE  IsFiniteSet(1 .. b)
<1>1. 1 \in Int /\ b \in Int
  OBVIOUS
<1> QED
  BY <1>1, FS_Interval

(* The dialogues of the runs are among those the theorem is about.         *)
LEMMA OneOrTwo ==
  ASSUME NEW library, NEW t, NEW u, NEW v,
         t \in Texts, u \in Texts, v \in Texts,
         Fits(library, t), Fits(library, u), Fits(library, v)
  PROVE  /\ library \in Libraries => Readable(library, << <<t, u>> >>)
         /\ library = "SKHA" => Readable(library, << <<t, u>>, <<v>> >>)
<1> DEFINE T == Seq(Nat \ {NUL})
           tu == <<t, u>>
           vs == <<v>>
           one == <<tu>>
           two == <<tu, vs>>
<1>1. t \in T /\ u \in T /\ v \in T
  BY StreamAssumption
<1>2. /\ tu \in Seq(T) /\ Len(tu) = 2 /\ tu[1] = t /\ tu[2] = u
      /\ vs \in Seq(T) /\ Len(vs) = 1 /\ vs[1] = v
  <2> HIDE DEF T
  <2> QED BY <1>1
<1>3. \A i \in 1 .. Len(tu) : Fits(library, tu[i])
  BY <1>2
<1>4. \A i \in 1 .. Len(vs) : Fits(library, vs[i])
  BY <1>2
<1>5. tu \in TextSeqs /\ vs \in TextSeqs
  BY <1>2 DEF TextSeqs
<1> HIDE DEF tu, vs
<1>6. /\ DOMAIN one = 1 .. 1 /\ one[1] = tu /\ one = [s \in 1 .. 1 |-> one[s]]
      /\ DOMAIN two = 1 .. 2 /\ two[1] = tu /\ two[2] = vs /\ two = [s \in 1 .. 2 |-> two[s]]
  OBVIOUS
<1> HIDE DEF one, two
<1>7. ASSUME library \in Libraries PROVE Readable(library, one)
  <2>1. IsFiniteSet(DOMAIN one)
    <3>1. IsFiniteSet(1 .. 1)
      BY UpToFinite
    <3> QED BY <1>6, <3>1
  <2>2. \A s \in DOMAIN one : s = 1
    BY <1>6
  <2>3. one \in [DOMAIN one -> TextSeqs]
    BY <1>5, <1>6, <2>2
  <2> QED BY <1>3, <1>6, <1>7, <2>1, <2>2, <2>3 DEF Readable
<1>8. ASSUME library = "SKHA" PROVE Readable(library, two)
  <2>1. IsFiniteSet(DOMAIN two)
    <3>1. IsFiniteSet(1 .. 2)
      BY UpToFinite
    <3> QED BY <1>6, <3>1
  <2>2. \A s \in DOMAIN two : s = 1 \/ s = 2
    BY <1>6
  <2>3. two \in [DOMAIN two -> TextSeqs]
    BY <1>5, <1>6, <2>2
  <2>4. \A s \in DOMAIN two : \A i \in 1 .. Len(two[s]) : Fits(library, two[s][i])
    BY <1>3, <1>4, <1>6, <2>2
  <2> QED BY <1>8, <2>1, <2>3, <2>4 DEF Readable, Libraries
<1> QED
  BY <1>7, <1>8 DEF one, two, tu, vs

(* Each of the three libraries brings its messages whole.                  *)
LEMMA LibrarySendsWhole ==
  ASSUME NEW library \in Libraries
  PROVE  SendsWhole(library)
<1> DEFINE Sent == {t \in Texts : Fits(library, t)}
<1>1. \A t, u \in Sent : Whole(library, << <<t, u>> >>)
  BY OneOrTwo, ReadsWhole
<1>2. library = "SKHA" => \A t, u, v \in Sent : Whole(library, << <<t, u>>, <<v>> >>)
  BY OneOrTwo, ReadsWhole
<1> QED
  BY <1>1, <1>2 DEF SendsWhole

(* The library that frames a program's messages brings them whole and in   *)
(* order, in every state of every program: SendReceiveSKST.c:97,           *)
(* SendReceiveSKHA.c:70, serverSK.c and clientSK.c.                        *)
THEOREM Framed == Spec => []MessagesAreWhole
<1>1. TypeOK => MessagesAreWhole
  <2> SUFFICES ASSUME TypeOK, NEW library \in build.Server.libraries
               PROVE  library \in WholeLibraries
    BY DEF MessagesAreWhole
  <2>1. build.Server.libraries \subseteq Libraries
    BY DEF TypeOK, Builds, Libraries, serverSK_Server, serverSKST_Server, serverSKHA_Server,
           serviceSK_Server
  <2>2. SendsWhole(library)
    BY <2>1, LibrarySendsWhole
  <2> QED BY <2>1, <2>2 DEF WholeLibraries, Libraries
<1> QED BY <1>1, TypeCorrect, PTL
=============================================================================
