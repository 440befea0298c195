--------------------------- MODULE SessionProofs ----------------------------
(***************************************************************************)
(* No command without the token, for numbers of any width, any hash, any   *)
(* byte orders and any number of clients: the invariant Exchange says what *)
(* the two streams may hold in every phase of the exchange.  Before it,    *)
(* what the exchange of module Authentication decides.                     *)
(*                                                                         *)
(* After it, what a client may conclude from the answer it gets, for files *)
(* and buffers of any size: a session that ends well had its command       *)
(* executed, and an uncut transfer leaves the same file on both sides.     *)
(* Both follow from Agreement, which every call of either side preserves;  *)
(* there is one lemma per call.                                            *)
(***************************************************************************)
EXTENDS Dialogue, RequestLog, SequenceTheorems, TLAPS

(* Xor with the same number twice gives the first number back.             *)
LEMMA XorCancels ==
  ASSUME NEW a \in Numbers, NEW b \in Numbers
  PROVE  Xor(Xor(a, b), b) = a
  BY DEF Xor, Numbers

(* Two changes of the order of the bytes cancel.                           *)
LEMMA SwapsCancel ==
  ASSUME NEW value \in Numbers
  PROVE  Swapped(value) \in Numbers /\ Swapped(Swapped(value)) = value
<1>1. Swapped(value) = {Swap[b] : b \in value} /\ value \subseteq Bits
  BY DEF Swapped, Numbers
<1>2. \A b \in value : Swap[b] \in Bits /\ Swap[Swap[b]] = b
  BY <1>1, SecurityAssumption
<1>3. Swapped(Swapped(value)) = {Swap[b] : b \in {Swap[c] : c \in value}}
  BY DEF Swapped
<1> QED BY <1>1, <1>2, <1>3 DEF Numbers

(* What recv_long() returns is the number that send_long() was called      *)
(* with, whatever the orders of the bytes in the two machines.             *)
THEOREM NumbersArrive ==
  ASSUME NEW sender, NEW receiver, NEW value \in Numbers
  PROVE  recv_long(receiver, send_long(sender, value)) = value
<1>1. send_long(sender, value) = Swapped(value)
  BY DEF send_long, Memory, htonll
<1>2. recv_long(receiver, Swapped(value)) = Swapped(Swapped(value))
  BY DEF recv_long, Memory, nlltoh
<1> QED BY <1>1, <1>2, SwapsCancel

(* The worker accepts the numbers of a client exactly when its user typed  *)
(* the server's token, whatever the challenge and the client's own token.  *)
THEOREM AcceptsExactly ==
  ASSUME server_token \in Numbers, typed_token \in Numbers,
         challenge \in Numbers, NEW client_token \in Numbers
  PROVE  AcceptsAuth(Enc(Xor(server_token, challenge), client_token))
           <=> typed_token = server_token
<1> DEFINE received == Xor(server_token, challenge)
<1>1. received \in Numbers /\ Xor(received, typed_token) \in Numbers
  BY DEF Xor, Numbers
<1>2. Xor(Xor(received, client_token), received) = client_token
  BY DEF Xor, Numbers
<1>3. Xor(Xor(Xor(received, typed_token), client_token), client_token)
        = Xor(received, typed_token)
  BY <1>1, XorCancels
<1>4. AcceptsAuth(Enc(received, client_token))
        <=> Xor(received, typed_token) = challenge
  BY <1>2, <1>3 DEF AcceptsAuth, Enc
<1>5. Xor(received, typed_token) = challenge <=> typed_token = server_token
  BY DEF Xor, Numbers
<1> QED BY <1>4, <1>5

-----------------------------------------------------------------------------
(* What recv() makes of the streams of the exchange.                       *)

LEMMA NothingReceived == ASSUME NEW n \in Nat PROVE Received(<<>>, n) = {}
BY DEF Received, Least

(* A part of one message is the message or shorter than it.                *)
LEMMA MessageReceived ==
  ASSUME NEW kind, NEW value, NEW n \in Nat, n >= MessageSize,
         NEW got \in Received(Message(kind, value), n), Len(got) = MessageSize
  PROVE  got = Message(kind, value) /\ Rest(Message(kind, value), got) = <<>>
BY DEF Received, Message, MessageSize, Least, Rest

LEMMA NothingLeft ==
  ASSUME NEW kind, NEW value
  PROVE  /\ Rest(Message(kind, value), Message(kind, value)) = <<>>
         /\ SubSeq(Message(kind, value), 1, MessageSize) = Message(kind, value)
<1> DEFINE m == Message(kind, value)
           units == {<<kind, value, 1>>, <<kind, value, 2>>}
<1>1. m \in Seq(units) /\ Len(m) = 2
  BY DEF Message
<1> HIDE DEF m, units
<1>2. Rest(m, m) = <<>>
  BY <1>1, SubSeqEmpty DEF Rest
<1>3. SubSeq(m, 1, MessageSize) = m
  BY <1>1, SubSeqFull DEF MessageSize
<1> QED BY <1>2, <1>3 DEF m

(* Of two messages the first two units are the first message.              *)
LEMMA FirstReceived ==
  ASSUME NEW k1, NEW v1, NEW k2, NEW v2,
         NEW got \in Received(Message(k1, v1) \o Message(k2, v2), MessageSize),
         Len(got) = MessageSize
  PROVE  /\ got = Message(k1, v1)
         /\ Rest(Message(k1, v1) \o Message(k2, v2), got) = Message(k2, v2)
<1> DEFINE m1 == Message(k1, v1)  m2 == Message(k2, v2)
           units == {m1[1], m1[2], m2[1], m2[2]}
<1>1. /\ m1 \in Seq(units) /\ Len(m1) = 2
      /\ m2 \in Seq(units) /\ Len(m2) = 2
  BY DEF Message
<1> HIDE DEF m1, m2, units
<1>2. m1 \o m2 \in Seq(units) /\ Len(m1 \o m2) = 4
  <2>1. m1 \o m2 \in Seq(units) /\ Len(m1 \o m2) = Len(m1) + Len(m2)
    BY <1>1, ConcatProperties, Zenon
  <2> QED BY <1>1, <2>1
<1>3. got = SubSeq(m1 \o m2, 1, 2)
  <2>1. PICK k \in 1 .. 2 : got = SubSeq(m1 \o m2, 1, k)
    BY <1>2 DEF Received, Least, MessageSize, m1, m2
  <2>2. \A i \in 1 .. k : (m1 \o m2)[i] \in units
    BY <1>2, ElementOfSeq
  <2>3. Len(got) = k
    BY <2>1, <2>2, SubSeqProperties
  <2> QED BY <2>1, <2>3 DEF MessageSize
<1>4. got = m1
  BY <1>1, <1>3, SubSeqOfConcat1, SubSeqFull
<1>5. SubSeq(m1 \o m2, 3, 4) = m2
  <2>1. /\ 3 \in Len(m1) + 1 .. Len(m1) + Len(m2)
        /\ 4 \in Len(m1) + 1 .. Len(m1) + Len(m2)
    BY <1>1
  <2>2. SubSeq(m1 \o m2, 3, 4) = SubSeq(m2, 3 - Len(m1), 4 - Len(m1))
    BY <1>1, <2>1, SubSeqOfConcat2
  <2>3. SubSeq(m2, 3 - Len(m1), 4 - Len(m1)) = SubSeq(m2, 1, Len(m2))
    BY <1>1
  <2> QED BY <1>1, <2>2, <2>3, SubSeqFull
<1>6. Rest(m1 \o m2, got) = m2
  <2>1. Len(got) + 1 = 3
    BY DEF MessageSize
  <2> QED BY <1>2, <1>5, <2>1 DEF Rest
<1> QED BY <1>4, <1>6 DEF m1, m2
(* A message sent on an empty stream is the stream.                        *)
LEMMA SentFirst ==
  ASSUME NEW kind, NEW value
  PROVE  <<>> \o Message(kind, value) = Message(kind, value)
<1> DEFINE units == {<<kind, value, 1>>, <<kind, value, 2>>}
<1>1. Message(kind, value) \in Seq(units)
  BY DEF Message
<1> QED BY <1>1, ConcatEmptySeq

-----------------------------------------------------------------------------
LEMMA ExchangeInit == Init => Exchange
<1> SUFFICES ASSUME Init PROVE Exchange
  OBVIOUS
<1> USE DEF Init, NetworkInit, AuthenticationInit, RequestInit
<1>1. TokensAreNumbers
  <2>1. server_token \in Numbers /\ typed_token \in Numbers
    BY SecurityAssumption DEF Tokens, generateToken
  <2>2. challenge \in Numbers
    BY DEF Numbers
  <2> QED BY <2>1, <2>2 DEF TokensAreNumbers
<1>2. cmd \in {"EXEC", "UPLOAD", "DOWNLOAD", "UNSUPPORTED"}
  BY SessionAssumption
<1> QED BY <1>1, <1>2 DEF Exchange, Reachable, WhileRecvHelo, WhileSend300,
      WhileSendChallenge, WhileRecvAuth, Verified, Commanded

(* The steps that run a command come after the exchange and stay there.    *)
LEMMA CommandSteps ==
  ASSUME Exchange, ServerStep
  PROVE  /\ spc \in Commanded \cup {"close"}
         /\ spc' \in Commanded \cup {"close", "closed", "exited", "UNSUPPORTED"}
         /\ spc = "close" => spc' = "closed"
         /\ UNCHANGED <<tokens, challenge, cmd, cpc, clientOpen>>
<1> USE DEF Commanded, Continue, Executed, ExecutedWith, ExecutedSilently,
      ServerGoto, ServerFrame, request, tokens, clientVars, network,
      ServerReceives, ServerHearsNothing, ServerSends, ServerSendFails,
      ServerCloses
<1>1. CASE ServerRecvCommand  BY <1>1 DEF ServerRecvCommand, Exchange
<1>2. CASE ServerExec         BY <1>2 DEF ServerExec
<1>3. CASE ServerOpenFile     BY <1>3 DEF ServerOpenFile
<1>4. CASE ServerSendReady    BY <1>4 DEF ServerSendReady
<1>5. CASE ServerRecvFile     BY <1>5 DEF ServerRecvFile
<1>6. CASE ServerSendFile     BY <1>6 DEF ServerSendFile
<1>7. CASE ServerRecvConfirm  BY <1>7 DEF ServerRecvConfirm
<1>8. CASE ServerSendCode     BY <1>8 DEF ServerSendCode
<1>9. CASE ServerSendResult   BY <1>9 DEF ServerSendResult
<1>10. CASE ServerClose       BY <1>10 DEF ServerClose
<1> QED BY <1>1, <1>2, <1>3, <1>4, <1>5, <1>6, <1>7, <1>8, <1>9, <1>10
        DEF ServerStep
LEMMA ServerStepExchange ==
  ASSUME Exchange, ServerStep
  PROVE  Exchange'
<1> USE CommandSteps DEF Exchange, Commanded
<1>1. TokensAreNumbers' /\ Reachable' /\ Verified'
  BY DEF TokensAreNumbers, Reachable, Verified, tokens
<1>2. spc' \notin {"recv_helo", "send_300", "send_challenge", "recv_auth"}
  OBVIOUS
<1>3. WhileRecvHelo' /\ WhileSend300' /\ WhileSendChallenge' /\ WhileRecvAuth'
  BY <1>2 DEF WhileRecvHelo, WhileSend300, WhileSendChallenge, WhileRecvAuth
<1> QED BY <1>1, <1>3

-----------------------------------------------------------------------------
(* The worker's part of the exchange.                                      *)

LEMMA AuthenticationExchange ==
  ASSUME Exchange, ServerAuthentication, SessionFrame
  PROVE  Exchange'
<1> USE DEF Exchange, Leaves, SessionFrame, ServerGoto, tokens, Commanded,
      ServerReceives, ServerHearsNothing, ServerSends, ServerSendFails, network
<1>1. CASE ServerRecvHelo
  <2>1. CASE ServerHearsNothing /\ ServerGoto("close")
    BY <1>1, <2>1 DEF ServerRecvHelo, TokensAreNumbers, Reachable, Verified,
       WhileRecvHelo, WhileSend300, WhileSendChallenge, WhileRecvAuth
  <2>2. ASSUME NEW got \in Received(toServer, MessageSize),
               ServerReceives(got),
               ServerGoto(IF got = HELO THEN "send_300" ELSE "close")
        PROVE  Exchange'
    <3>1. toServer = HELO
      BY <1>1, NothingReceived DEF ServerRecvHelo, WhileRecvHelo, MessageSize
    <3>2. got = HELO => toServer' = <<>>
      <4>1. Rest(HELO, HELO) = <<>>
        BY NothingLeft DEF HELO
      <4> QED BY <2>2, <3>1, <4>1
    <3>3. (cpc = "recv_300" /\ toClient = <<>>) \/ Leaves
      BY <1>1, <3>1 DEF ServerRecvHelo, WhileRecvHelo, HELO, Message
    <3> QED BY <1>1, <2>2, <3>2, <3>3 DEF ServerRecvHelo, TokensAreNumbers,
          Reachable, Verified, WhileRecvHelo, WhileSend300,
          WhileSendChallenge, WhileRecvAuth
  <2> QED BY <1>1, <2>1, <2>2 DEF ServerRecvHelo, HELO
<1>2. CASE ServerSend300
  <2>1. <<>> \o Code("300") = Code("300")
    BY SentFirst DEF Code
  <2>2. cpc = "recv_300" => clientOpen
    BY <1>2 DEF Reachable
  <2> QED BY <1>2, <2>1, <2>2 DEF ServerSend300, TokensAreNumbers, Reachable,
        Verified, WhileRecvHelo, WhileSend300, WhileSendChallenge, WhileRecvAuth
<1>3. CASE ServerSendChallenge
  <2>1. CASE spc' = "recv_auth"
    <3>1. toClient' = IF clientOpen THEN toClient \o Number' ELSE toClient
      BY <1>3, <2>1 DEF ServerSendChallenge, Number
    <3>2. <<>> \o Number' = Number'
      BY SentFirst DEF Number
    <3>3. cpc \in {"recv_300", "recv_challenge"} => clientOpen
      BY <1>3 DEF Reachable
    <3>4. WhileRecvAuth'
      BY <1>3, <3>1, <3>2, <3>3 DEF ServerSendChallenge, WhileSendChallenge,
         WhileRecvAuth
    <3> QED BY <1>3, <2>1, <3>4 DEF ServerSendChallenge, TokensAreNumbers,
          Reachable, Verified, WhileRecvHelo, WhileSend300, WhileSendChallenge
  <2>2. CASE spc' = "close"
    BY <1>3, <2>2 DEF ServerSendChallenge, TokensAreNumbers, Reachable,
       Verified, WhileRecvHelo, WhileSend300, WhileSendChallenge, WhileRecvAuth
  <2> QED BY <1>3, <2>1, <2>2 DEF ServerSendChallenge
<1>4. CASE ServerRecvAuth
  <2>1. spc' = "send_200" => typed_token = server_token
    <3> SUFFICES ASSUME spc' = "send_200" PROVE typed_token = server_token
      OBVIOUS
    <3>1. PICK got \in Received(toServer, BufferSize) :
            Len(got) = MessageSize /\ AcceptsAuth(got[1][2])
      BY <1>4 DEF ServerRecvAuth
    <3>2. PICK t \in Tokens : toServer = AUTH(t)
      BY <1>4, <3>1, NothingReceived, BufferAssumption
         DEF ServerRecvAuth, WhileRecvAuth
    <3>3. got = AUTH(t)
      BY <3>1, <3>2, MessageReceived, BufferAssumption DEF AUTH, MessageSize
    <3>4. got[1][2] = Enc(Xor(server_token, challenge), t)
      BY <3>3 DEF AUTH, Message
    <3>5. t \in Numbers
      BY SecurityAssumption DEF Tokens, generateToken
    <3> QED BY <3>1, <3>4, <3>5, AcceptsExactly DEF TokensAreNumbers
  <2>2. /\ spc' \in {"send_200", "send_400", "close"} /\ challenge' \in Numbers
        /\ UNCHANGED <<cpc, tokens, clientOpen, cmd>>
    BY <1>4 DEF ServerRecvAuth, Numbers
  <2> QED BY <2>1, <2>2 DEF TokensAreNumbers, Reachable, Verified,
        WhileRecvHelo, WhileSend300, WhileSendChallenge, WhileRecvAuth
<1>5. CASE ServerSendVerdict
  BY <1>5 DEF ServerSendVerdict, TokensAreNumbers, Reachable, Verified,
     WhileRecvHelo, WhileSend300, WhileSendChallenge, WhileRecvAuth
<1> QED BY <1>1, <1>2, <1>3, <1>4, <1>5 DEF ServerAuthentication
-----------------------------------------------------------------------------
(* The client's part.                                                      *)

LEMMA ClientAuthenticationExchange ==
  ASSUME Exchange, ClientAuthentication, SessionFrame
  PROVE  Exchange'
<1> USE DEF Exchange, Leaves, SessionFrame, ClientGoto, ClientReturns, tokens,
      Commanded, ClientReceives, ClientHearsNothing, ClientSends,
      ClientSendFails, network
<1> DEFINE Frame == UNCHANGED <<spc, tokens, challenge, cmd, clientOpen>>
<1>1. ASSUME Frame, cpc \in {"send_helo", "recv_300", "recv_challenge",
                             "send_auth", "recv_verdict"}
      PROVE  TokensAreNumbers' /\ Reachable' /\ Verified'
  BY <1>1 DEF TokensAreNumbers, Reachable, Verified
<1>2. ASSUME Frame, cpc' = "close", UNCHANGED toServer,
             cpc \in {"send_helo", "recv_300", "recv_challenge",
                      "send_auth", "recv_verdict"}
      PROVE  Exchange'
  <2>1. \A t : AUTH(t)' = AUTH(t)
    BY <1>2 DEF AUTH, Enc, Xor
  <2> QED BY <1>1, <1>2, <2>1 DEF WhileRecvHelo, WhileSend300, HELO,
          WhileSendChallenge, WhileRecvAuth
<1>3. CASE ClientSendHelo
  <2>1. CASE cpc' = "close"
    BY <1>2, <1>3, <2>1 DEF ClientSendHelo
  <2>2. CASE cpc' = "recv_300"
    <3>1. toServer' = IF serverOpen THEN toServer \o HELO ELSE toServer
      BY <1>3, <2>2 DEF ClientSendHelo, HELO
    <3>2. <<>> \o HELO = HELO
      BY SentFirst DEF HELO
    <3>3. spc \notin {"send_300", "send_challenge", "recv_auth"}
      BY <1>3 DEF ClientSendHelo, WhileSend300, WhileSendChallenge, WhileRecvAuth
    <3>4. WhileRecvHelo'
      BY <1>3, <2>2, <3>1, <3>2 DEF ClientSendHelo, WhileRecvHelo, HELO
    <3>5. WhileSend300' /\ WhileSendChallenge' /\ WhileRecvAuth'
      BY <1>3, <3>3 DEF ClientSendHelo, WhileSend300, WhileSendChallenge,
         WhileRecvAuth
    <3> QED BY <1>1, <1>3, <3>4, <3>5 DEF ClientSendHelo
  <2> QED BY <1>3, <2>1, <2>2 DEF ClientSendHelo
<1>4. CASE ClientRecv300
  <2>1. CASE cpc' = "close"
    BY <1>2, <1>4, <2>1 DEF ClientRecv300
  <2>2. CASE cpc' = "recv_challenge"
    <3>1. PICK got \in Received(toClient, MessageSize) :
            got = Code("300") /\ toClient' = Rest(toClient, got)
      BY <1>4, <2>2 DEF ClientRecv300
    <3>2. Len(got) = MessageSize
      BY <3>1 DEF Code, Message, MessageSize
    <3>3. toClient # <<>>
      BY NothingReceived DEF MessageSize
    <3>4. spc \notin {"recv_helo", "send_300"}
      BY <1>4, <3>3 DEF ClientRecv300, WhileRecvHelo, WhileSend300
    <3>5. CASE spc = "send_challenge"
      <4>1. toClient = Code("300") /\ toServer = <<>>
        BY <1>4, <3>5 DEF ClientRecv300, WhileSendChallenge
      <4>2. toClient' = <<>>
        BY <3>1, <3>2, <4>1, MessageReceived DEF Code, MessageSize
      <4> QED BY <1>1, <1>4, <2>2, <3>5, <4>1, <4>2 DEF ClientRecv300,
              WhileRecvHelo, WhileSend300, WhileSendChallenge, WhileRecvAuth
    <3>6. CASE spc = "recv_auth"
      <4>1. toClient = Code("300") \o Number /\ toServer = <<>>
        BY <1>4, <3>6 DEF ClientRecv300, WhileRecvAuth
      <4>2. toClient' = Number
        BY <3>1, <3>2, <4>1, FirstReceived DEF Code, Number
      <4>3. Number' = Number
        BY <1>4 DEF ClientRecv300, Number, send_long, Memory, htonll, Swapped, Xor
      <4> QED BY <1>1, <1>4, <2>2, <3>6, <4>1, <4>2, <4>3 DEF ClientRecv300,
              WhileRecvHelo, WhileSend300, WhileSendChallenge, WhileRecvAuth
    <3>7. CASE spc \notin {"send_challenge", "recv_auth"}
      BY <1>1, <1>4, <3>4, <3>7 DEF ClientRecv300, WhileRecvHelo,
         WhileSend300, WhileSendChallenge, WhileRecvAuth
    <3> QED BY <3>5, <3>6, <3>7
  <2> QED BY <1>4, <2>1, <2>2 DEF ClientRecv300
<1>5. CASE ClientRecvChallenge
  <2>1. spc \notin {"recv_helo", "send_300", "send_challenge"}
    BY <1>5 DEF ClientRecvChallenge, WhileRecvHelo, WhileSend300,
       WhileSendChallenge, MessageSize
  <2>2. ASSUME spc = "recv_auth"
        PROVE  toServer' = <<>> /\ toClient' = <<>>
                 /\ xor' = Xor(server_token, challenge)'
    <3>1. toClient = Number /\ toServer = <<>>
      BY <1>5, <2>2 DEF ClientRecvChallenge, WhileRecvAuth
    <3>2. Xor(server_token, challenge) \in Numbers
      BY DEF TokensAreNumbers, Numbers, Xor
    <3>3. xor' = Xor(server_token, challenge)
      BY <1>5, <3>1, <3>2, NumbersArrive
         DEF ClientRecvChallenge, Number, Message
    <3>4. toClient' = Rest(toClient, SubSeq(toClient, 1, MessageSize))
      BY <1>5 DEF ClientRecvChallenge
    <3>5. SubSeq(Number, 1, MessageSize) = Number /\ Rest(Number, Number) = <<>>
      BY NothingLeft DEF Number
    <3>6. toClient' = <<>>
      BY <3>1, <3>4, <3>5
    <3> QED BY <1>5, <3>1, <3>3, <3>6 DEF ClientRecvChallenge, Xor
  <2> QED BY <1>1, <1>5, <2>1, <2>2 DEF ClientRecvChallenge, WhileRecvHelo,
        WhileSend300, WhileSendChallenge, WhileRecvAuth
<1>6. CASE ClientSendAuth
  <2>1. spc \notin {"recv_helo", "send_300", "send_challenge"}
    BY <1>6 DEF ClientSendAuth, WhileRecvHelo, WhileSend300, WhileSendChallenge
  <2>2. CASE cpc' = "close"
    BY <1>2, <1>6, <2>2 DEF ClientSendAuth
  <2>3. CASE cpc' = "recv_verdict"
    <3>1. PICK t \in Tokens :
            toServer' = IF serverOpen
                        THEN toServer \o Message("AUTH", Enc(xor, t))
                        ELSE toServer
      BY <1>6, <2>3 DEF ClientSendAuth
    <3>2. ASSUME spc = "recv_auth"
          PROVE  toClient' = <<>>
                   /\ (toServer' = <<>> \/ toServer' = AUTH(t)')
      <4>1. toServer = <<>> /\ toClient = <<>> /\ xor = Xor(server_token, challenge)
        BY <1>6, <3>2 DEF ClientSendAuth, WhileRecvAuth
      <4>2. toServer' = <<>> \/ toServer' = AUTH(t)
        BY <3>1, <4>1, SentFirst DEF AUTH
      <4>3. AUTH(t)' = AUTH(t)
        BY <1>6 DEF ClientSendAuth, AUTH, Enc, Xor
      <4> QED BY <1>6, <4>1, <4>2, <4>3 DEF ClientSendAuth
    <3>3. WhileRecvAuth'
      BY <1>6, <2>3, <3>2 DEF ClientSendAuth, WhileRecvAuth
    <3> QED BY <1>1, <1>6, <2>1, <3>3 DEF ClientSendAuth, WhileRecvHelo,
          WhileSend300, WhileSendChallenge
  <2> QED BY <1>6, <2>2, <2>3 DEF ClientSendAuth
<1>7. CASE ClientRecvVerdict
  <2>1. CASE cpc' = "close"
    BY <1>2, <1>7, <2>1 DEF ClientRecvVerdict
  <2>2. CASE cpc' # "close"
    <3>1. toClient # <<>>
      BY <1>7, <2>2, NothingReceived DEF ClientRecvVerdict, MessageSize
    <3>2. spc \notin {"recv_helo", "send_300", "send_challenge", "recv_auth"}
      BY <1>7, <3>1 DEF ClientRecvVerdict, WhileRecvHelo, WhileSend300,
         WhileSendChallenge, WhileRecvAuth
    <3> QED BY <1>1, <1>7, <3>2 DEF ClientRecvVerdict, WhileRecvHelo,
          WhileSend300, WhileSendChallenge, WhileRecvAuth
  <2> QED BY <2>1, <2>2
<1> QED BY <1>3, <1>4, <1>5, <1>6, <1>7 DEF ClientAuthentication

(* What the client does afterwards does not touch the exchange, except     *)
(* that it leaves.                                                         *)
LEMMA ClientStepExchange ==
  ASSUME Exchange, ClientStep \/ ClientKilled
  PROVE  Exchange'
<1> USE DEF Exchange, Leaves, ClientFrame, ClientGoto, ClientReturns, tokens,
      request, serverVars, Commanded, ClientReceives, ClientHearsNothing,
      ClientSends, ClientSendFails, ClientCloses, network
<1>1. ASSUME UNCHANGED <<toServer, toClient, spc, tokens, challenge, cmd>>,
             cpc' = "done", Leaves \/ ClientKilled, clientOpen' = FALSE
      PROVE  Exchange'
  <2>1. \A t : AUTH(t)' = AUTH(t)
    BY <1>1 DEF AUTH, Enc, Xor
  <2> QED BY <1>1, <2>1 DEF TokensAreNumbers, Reachable, Verified,
        WhileRecvHelo, WhileSend300, WhileSendChallenge, WhileRecvAuth
<1>2. CASE ClientKilled
  BY <1>1, <1>2 DEF ClientKilled
<1>3. CASE ClientClose
  BY <1>1, <1>3 DEF ClientClose
<1>4. CASE ClientStep /\ ~ClientClose
  <2>1. /\ cpc \in {"send_command", "recv_code", "recv_output", "open_file",
                    "send_file", "recv_file", "send_confirm",
                    "recv_final_code"}
        /\ UNCHANGED <<spc, tokens, challenge, cmd, clientOpen>>
    BY <1>4 DEF ClientStep, ClientSendCommand, ClientRecvCode, HandleCode,
       ClientRecvOutput, ClientOpenFile, ClientSendFile, ClientRecvFile,
       ClientSendConfirm, ClientRecvFinalCode
  <2>2. spc \notin {"recv_helo", "send_300", "send_challenge", "recv_auth"}
    BY <2>1 DEF WhileRecvHelo, WhileSend300, WhileSendChallenge, WhileRecvAuth
  <2> QED BY <2>1, <2>2 DEF TokensAreNumbers, Reachable, Verified,
        WhileRecvHelo, WhileSend300, WhileSendChallenge, WhileRecvAuth
<1> QED BY <1>2, <1>3, <1>4 DEF ClientStep

LEMMA NextClientExchange ==
  ASSUME Exchange, NextClient
  PROVE  Exchange'
<1> USE DEF NextClient
<1>1. TokensAreNumbers'
  <2>1. typed_token' \in Numbers
    BY SecurityAssumption DEF Tokens, generateToken
  <2>2. server_token' \in Numbers
    BY DEF Exchange, TokensAreNumbers
  <2>3. challenge' \in Numbers
    BY DEF Numbers
  <2> QED BY <2>1, <2>2, <2>3 DEF TokensAreNumbers
<1>2. cmd' \in {"EXEC", "UPLOAD", "DOWNLOAD", "UNSUPPORTED"}
  BY SessionAssumption
<1> QED BY <1>1, <1>2 DEF Exchange, Reachable, WhileRecvHelo, WhileSend300,
      WhileSendChallenge, WhileRecvAuth, Verified, Commanded

LEMMA ExchangeStep == Exchange /\ [Next]_vars => Exchange'
<1> SUFFICES ASSUME Exchange, [Next]_vars PROVE Exchange'
  OBVIOUS
<1>1. CASE UNCHANGED vars
  <2>1. \A t : AUTH(t)' = AUTH(t)
    BY <1>1 DEF vars, request, tokens, serverVars, AUTH, Enc, Xor
  <2>2. Number' = Number
    BY <1>1 DEF vars, request, tokens, serverVars, Number, send_long, Memory,
       htonll, Swapped, Xor
  <2>3. UNCHANGED <<spc, cpc, tokens, challenge, xor, cmd, toServer, toClient,
                    clientOpen>>
    BY <1>1 DEF vars, network, request, serverVars, clientVars
  <2>4. TokensAreNumbers' /\ Reachable' /\ WhileRecvHelo' /\ WhileSend300'
    BY <2>3 DEF Exchange, TokensAreNumbers, Reachable, WhileRecvHelo,
       WhileSend300, Leaves, tokens, HELO
  <2>5. WhileSendChallenge' /\ Verified'
    BY <2>3 DEF Exchange, WhileSendChallenge, Verified, Leaves, tokens,
       Commanded, Code, Message
  <2>6. WhileRecvAuth'
    BY <2>1, <2>2, <2>3 DEF Exchange, WhileRecvAuth, Leaves, tokens, Xor
  <2> QED BY <2>3, <2>4, <2>5, <2>6 DEF Exchange
<1> QED
  BY <1>1, ServerStepExchange, AuthenticationExchange, ClientStepExchange,
     ClientAuthenticationExchange, NextClientExchange
     DEF Next, ServerActs, ClientActs

(* A worker that receives or runs a command serves a client whose user     *)
(* typed the server's token.                                               *)
THEOREM Authenticated == Spec => []RunsAuthenticated
<1>1. Exchange => RunsAuthenticated
  BY DEF Exchange, Verified, RunsAuthenticated
<1> QED BY <1>1, ExchangeInit, ExchangeStep, PTL DEF Spec

-----------------------------------------------------------------------------
(* Multiples of the length of a buffer.                                    *)

LEMMA FullFacts ==
  /\ Full(0) /\ Full(BufferSize)
  /\ \A m, n \in Nat : Full(m) /\ Full(n) => Full(m + n)
  /\ \A m, n \in Nat : Full(m) /\ Full(m + n) => Full(n)
  /\ \A n \in 1 .. BufferSize - 1 : ~Full(n)
<1> USE BufferAssumption
<1>1. \A n \in Nat : Full(n) <=> \E k \in Nat : n = k * BufferSize
  <2>1. ASSUME NEW n \in Nat, NEW k \in Nat, n = k * BufferSize
        PROVE  k \in 0 .. n
    <3>1. k * BufferSize >= k
      BY SMT
    <3> QED BY <2>1, <3>1
  <2>2. \A n \in Nat : 0 .. n \subseteq Nat
    OBVIOUS
  <2> QED BY <2>1, <2>2 DEF Full
<1>2. 0 = 0 * BufferSize /\ BufferSize = 1 * BufferSize
  OBVIOUS
<1>3. ASSUME NEW m \in Nat, NEW n \in Nat, Full(m), Full(n) PROVE Full(m + n)
  <2>1. PICK j \in Nat : m = j * BufferSize
    BY <1>1, <1>3
  <2>2. PICK k \in Nat : n = k * BufferSize
    BY <1>1, <1>3
  <2>3. m + n = (j + k) * BufferSize
    BY <2>1, <2>2
  <2>4. j + k \in Nat /\ m + n \in Nat
    OBVIOUS
  <2> QED BY <1>1, <2>3, <2>4
<1>4. ASSUME NEW m \in Nat, NEW n \in Nat, Full(m), Full(m + n) PROVE Full(n)
  <2>1. PICK j \in Nat : m = j * BufferSize
    BY <1>1, <1>4
  <2>2. PICK k \in Nat : m + n = k * BufferSize
    BY <1>1, <1>4
  <2>3. n = (k - j) * BufferSize
    BY <2>1, <2>2
  <2>4. k >= j
    <3> SUFFICES ASSUME k < j PROVE FALSE
      OBVIOUS
    <3>1. k + 1 <= j
      OBVIOUS
    <3>2. (k + 1) * BufferSize <= j * BufferSize
      BY <3>1, SMT
    <3> QED BY <2>1, <2>2, <3>2
  <2> QED BY <1>1, <2>3, <2>4
<1>5. ASSUME NEW n \in 1 .. BufferSize - 1, Full(n) PROVE FALSE
  <2>1. PICK k \in Nat : n = k * BufferSize
    BY <1>1, <1>5
  <2>2. k # 0
    BY <2>1
  <2>3. k * BufferSize >= BufferSize
    BY <2>2, SMT
  <2> QED BY <2>1, <2>3
<1> QED BY <1>1, <1>2, <1>3, <1>4, <1>5

-----------------------------------------------------------------------------
(* Streams.                                                                *)

(* What recv() leaves when it takes the first of two parts.                *)
LEMMA RestOfConcat ==
  ASSUME NEW U, NEW a \in Seq(U), NEW b \in Seq(U)
  PROVE  Rest(a \o b, a) = b /\ SubSeq(a \o b, 1, Len(a)) = a
<1>1. /\ a \o b \in Seq(U) /\ Len(a \o b) = Len(a) + Len(b)
      /\ Len(a) \in Nat /\ Len(b) \in Nat
  BY ConcatProperties, LenProperties
<1>2. CASE b = <<>>
  <2>1. a \o b = a
    BY <1>2, ConcatEmptySeq
  <2> QED BY <1>1, <1>2, <2>1, SubSeqEmpty, SubSeqFull DEF Rest
<1>3. CASE b # <<>> /\ a # <<>>
  <2>1. Len(a) > 0 /\ Len(b) > 0
    BY <1>3, EmptySeq
  <2>2. SubSeq(a \o b, 1, Len(a)) = a
    BY <1>1, <2>1, SubSeqOfConcat1, SubSeqFull
  <2>3. SubSeq(a \o b, Len(a) + 1, Len(a) + Len(b)) = SubSeq(b, 1, Len(b))
    <3>1. /\ Len(a) + 1 \in Len(a) + 1 .. Len(a) + Len(b)
          /\ Len(a) + Len(b) \in Len(a) + 1 .. Len(a) + Len(b)
      BY <1>1, <2>1
    <3>2. Len(a) + 1 - Len(a) = 1 /\ Len(a) + Len(b) - Len(a) = Len(b)
      BY <1>1
    <3> QED BY <3>1, <3>2, SubSeqOfConcat2
  <2> QED BY <1>1, <2>2, <2>3, SubSeqFull DEF Rest
<1>4. CASE b # <<>> /\ a = <<>>
  <2>1. a \o b = b /\ Len(a) = 0
    BY <1>4, ConcatEmptySeq, EmptySeq
  <2>2. SubSeq(b, 1, 0) = <<>>
    BY SubSeqEmpty
  <2> QED BY <1>1, <1>4, <2>1, <2>2, SubSeqFull DEF Rest
<1> QED BY <1>2, <1>3, <1>4

(* An uncut recv() takes as much as there is and fits the buffer.          *)
LEMMA WholeReceived ==
  ASSUME NEW U, NEW s \in Seq(U), NEW n \in Nat \ {0}, whole,
         NEW got \in Received(s, n)
  PROVE  /\ got \in Seq(U) /\ Rest(s, got) \in Seq(U)
         /\ s = got \o Rest(s, got)
         /\ Len(got) \in 1 .. n /\ Len(got) <= Len(s)
         /\ Len(s) = Len(got) + Len(Rest(s, got))
         /\ Len(got) = n \/ (got = s /\ Rest(s, got) = <<>>)
<1> DEFINE m == Least(n, Len(s))
<1>1. Len(s) \in Nat /\ m \in Nat /\ m <= Len(s) /\ m <= n
      /\ (m = n \/ m = Len(s))
  BY LenProperties DEF Least
<1>2. got = SubSeq(s, 1, m) /\ m >= 1
  BY <1>1 DEF Received
<1>3. /\ got \in Seq(U) /\ Len(got) = m
  BY <1>1, <1>2, SubSeqProperties, ElementOfSeq
<1>4. Rest(s, got) = SubSeq(s, m + 1, Len(s))
  BY <1>3 DEF Rest
<1>5. Rest(s, got) \in Seq(U) /\ Len(Rest(s, got)) = Len(s) - m
  <2>1. \A i \in m + 1 .. Len(s) : s[i] \in U
    BY <1>1, ElementOfSeq
  <2>2. /\ SubSeq(s, m + 1, Len(s)) \in Seq(U)
        /\ Len(SubSeq(s, m + 1, Len(s)))
             = IF m + 1 <= Len(s) THEN Len(s) - (m + 1) + 1 ELSE 0
    BY <1>1, <2>1, SubSeqProperties
  <2> QED BY <1>1, <1>4, <2>2
<1>6. s = got \o Rest(s, got)
  <2>1. SubSeq(s, 1, m) \o SubSeq(s, m + 1, Len(s)) = SubSeq(s, 1, Len(s))
    BY <1>1, ConcatAdjacentSubSeq
  <2> QED BY <1>2, <1>4, <2>1, SubSeqFull
<1>7. m = Len(s) => got = s /\ Rest(s, got) = <<>>
  BY <1>1, <1>2, <1>4, SubSeqFull, SubSeqEmpty
<1> QED BY <1>1, <1>2, <1>3, <1>5, <1>6, <1>7

(* A stream shorter than the buffer is received at once.                   *)
LEMMA ShortReceived ==
  ASSUME NEW U, NEW s \in Seq(U), whole, Len(s) < BufferSize,
         NEW got \in Received(s, BufferSize)
  PROVE  got = s /\ Rest(s, got) = <<>> /\ Len(got) \in Nat \ {0}
<1>1. BufferSize \in Nat \ {0}
  BY BufferAssumption
<1>2. /\ Len(got) \in 1 .. BufferSize /\ Len(got) <= Len(s)
      /\ Len(got) = BufferSize \/ (got = s /\ Rest(s, got) = <<>>)
  BY <1>1, WholeReceived
<1>3. Len(s) \in Nat
  BY LenProperties
<1> QED BY <1>1, <1>2, <1>3

(* Nothing is received of an empty stream.                                 *)
LEMMA NoneReceived ==
  ASSUME NEW n \in Nat, NEW got \in Received(<<>>, n)
  PROVE  FALSE
BY NothingReceived

(* What comes after a message that is received whole.                      *)
LEMMA MessageFirst ==
  ASSUME NEW U, NEW a \in Seq(U), NEW b \in Seq(U), whole, Len(a) = MessageSize,
         NEW got \in Received(a \o b, MessageSize)
  PROVE  got = a /\ Rest(a \o b, got) = b
<1>1. a \o b \in Seq(U) /\ Len(a \o b) = Len(a) + Len(b) /\ Len(b) \in Nat
  BY ConcatProperties, LenProperties
<1>2. Least(MessageSize, Len(a \o b)) = MessageSize
  BY <1>1 DEF Least, MessageSize
<1>3. got = SubSeq(a \o b, 1, Len(a))
  BY <1>2 DEF Received, MessageSize
<1> QED BY <1>3, RestOfConcat

(* Two units are a stream of them.                                         *)
LEMMA PairUnits ==
  ASSUME NEW U, NEW u \in U, NEW v \in U
  PROVE  <<u, v>> \in Seq(U) /\ Len(<<u, v>>) = 2 /\ <<u, v>> # <<>>
  OBVIOUS

(* The units of messages.                                                  *)
LEMMA MessageUnits ==
  ASSUME NEW kind \in {"code", "result", "cmd"}, NEW value \in Codes \cup {""}
  PROVE  /\ Message(kind, value) \in Seq(Unit)
         /\ Len(Message(kind, value)) = MessageSize
         /\ Message(kind, value) # <<>>
<1>1. <<kind, value, 1>> \in Unit /\ <<kind, value, 2>> \in Unit
  BY DEF Unit
<1> QED BY <1>1, PairUnits DEF Message, MessageSize

(* The worker's code and result, whatever they are.                        *)
LEMMA AnswerUnits ==
  ASSUME ServerTypes
  PROVE  /\ CodeUnits \in Seq(Unit) /\ ResultUnits \in Seq(Unit)
         /\ code = "none" => CodeUnits = <<>>
         /\ code \notin {"none", "short"} => CodeUnits = Code(code)
         /\ Len(CodeUnits) = (IF code = "none" THEN 0 ELSE IF code = "short" THEN 1 ELSE MessageSize)
         /\ ~reply => ResultUnits = <<>>
         /\ reply => ResultUnits # <<>>
         /\ CodeUnits \o ResultUnits \in Seq(Unit)
         /\ CommandUnits \in Seq(Unit)
         /\ CommandUnits # <<>> => Len(CommandUnits) = MessageSize
<1>1. \A v \in Codes : Code(v) \in Seq(Unit) /\ Len(Code(v)) = MessageSize
  BY MessageUnits DEF Code
<1>2. /\ Message("result", "") \in Seq(Unit) /\ Message("result", "") # <<>>
      /\ Message("cmd", "") \in Seq(Unit) /\ Len(Message("cmd", "")) = MessageSize
  BY MessageUnits
<1>3. <<>> \in Seq(Unit) /\ Len(<<>>) = 0
  BY EmptySeq
<1>6. ResultUnits \in Seq(Unit)
  BY <1>2, <1>3 DEF ResultUnits
<1>4. /\ CodeUnits \in Seq(Unit)
      /\ Len(CodeUnits) = (IF code = "none" THEN 0 ELSE IF code = "short" THEN 1 ELSE MessageSize)
      /\ code = "none" => CodeUnits = <<>>
      /\ code \notin {"none", "short"} => CodeUnits = Code(code)
  <2>1. Code(code) \in Seq(Unit) /\ Len(Code(code)) = MessageSize
    BY <1>1 DEF ServerTypes
  <2>2. CASE code = "none"
    BY <1>3, <2>2 DEF CodeUnits
  <2>3. CASE code = "short"
    <3>1. Head(Code(code)) \in Unit
      BY <2>1, HeadTailProperties DEF MessageSize
    <3> HIDE DEF Unit
    <3>2. CodeUnits = <<Head(Code(code))>>
      BY <2>3 DEF CodeUnits
    <3>3. CodeUnits \in Seq(Unit) /\ Len(CodeUnits) = 1
      BY <3>1, <3>2
    <3> QED BY <2>3, <3>3 DEF MessageSize
  <2>4. CASE code \notin {"none", "short"}
    <3>1. CodeUnits = Code(code)
      BY <2>4 DEF CodeUnits
    <3> QED BY <2>1, <2>4, <3>1
  <2> QED BY <2>2, <2>3, <2>4
<1>5. CodeUnits \o ResultUnits \in Seq(Unit)
  BY <1>4, <1>6, ConcatProperties
<1> QED BY <1>2, <1>3, <1>4, <1>5, <1>6 DEF ResultUnits, CommandUnits, ServerTypes

(* No two codes have the same message.                                     *)
LEMMA CodesDiffer == \A a, b : Code(a) = Code(b) => a = b
BY DEF Code, Message

-----------------------------------------------------------------------------
(* The file and its pieces.                                                *)

LEMMA FileUnits ==
  ASSUME size \in Nat
  PROVE  /\ File(size) \in Seq(Unit) /\ Len(File(size)) = size
         /\ Read(0) = <<>> /\ Read(size) = File(size)
         /\ \A n \in 0 .. size : Read(n) \in Seq(Unit) /\ Len(Read(n)) = n
<1>1. ASSUME NEW i \in 1 .. size PROVE <<"data", "", i>> \in Unit
  <2>1. i \in Nat /\ "data" \in {"code", "result", "data", "cmd"} /\ "" \in Codes \cup {""}
    OBVIOUS
  <2> QED BY <2>1 DEF Unit
<1>2. File(size) \in Seq(Unit) /\ Len(File(size)) = size
  <2>1. File(size) \in [1 .. size -> Unit]
    BY <1>1 DEF File
  <2> QED BY <2>1
<1>3. Read(0) = <<>> /\ Read(size) = File(size)
  BY <1>2, SubSeqEmpty, SubSeqFull DEF Read
<1>4. ASSUME NEW n \in 0 .. size
      PROVE  Read(n) \in Seq(Unit) /\ Len(Read(n)) = n
  <2>1. \A i \in 1 .. n : File(size)[i] \in Unit
    BY <1>2, ElementOfSeq
  <2> QED BY <2>1, SubSeqProperties DEF Read
<1> QED BY <1>2, <1>3, <1>4

(* The next piece of the file goes on where the ones before ended, and a   *)
(* short one ends the file.                                                *)
LEMMA PieceUnits ==
  ASSUME size \in Nat, sent \in Nat, sent <= size
  PROVE  /\ NextPiece \in Seq(Unit)
         /\ Len(NextPiece) = Least(BufferSize, size - sent)
         /\ sent + Len(NextPiece) <= size
         /\ Len(NextPiece) # BufferSize => sent + Len(NextPiece) = size
         /\ Read(sent) \o NextPiece = Read(sent + Len(NextPiece))
         /\ Read(sent) \in Seq(Unit)
<1> DEFINE last == Least(sent + BufferSize, size)
<1> USE BufferAssumption
<1>1. File(size) \in Seq(Unit) /\ Len(File(size)) = size
  BY FileUnits
<1>2. last \in sent .. size /\ last - sent = Least(BufferSize, size - sent)
  BY DEF Least
<1>3. \A i \in sent + 1 .. last : File(size)[i] \in Unit
  BY <1>1, <1>2, ElementOfSeq
<1>4. /\ NextPiece \in Seq(Unit)
      /\ Len(NextPiece) = IF sent + 1 <= last THEN last - (sent + 1) + 1 ELSE 0
  <2> HIDE DEF last
  <2> QED BY <1>2, <1>3, SubSeqProperties DEF NextPiece, last
<1>5. Len(NextPiece) = last - sent
  <2> HIDE DEF last
  <2> QED BY <1>2, <1>4
<1>6. SubSeq(File(size), 1, sent) \o SubSeq(File(size), sent + 1, last)
        = SubSeq(File(size), 1, last)
  <2> HIDE DEF last
  <2> QED BY <1>1, <1>2, ConcatAdjacentSubSeq
<1>7. sent + (last - sent) = last
  BY <1>2
<1>8. Read(sent) \in Seq(Unit)
  BY FileUnits
<1> QED BY <1>2, <1>4, <1>5, <1>6, <1>7, <1>8 DEF NextPiece, Read, Least

(* Where the client can be for each call of the worker.                    *)
LEMMA Positions ==
  ASSUME Agreement
  PROVE  /\ spc \in Exchanging => cpc \in Early \cup Leaving
         /\ spc \in {"send_200", "send_400"} => cpc \in {"recv_verdict"} \cup Leaving
         /\ spc = "recv_command" => cpc \in {"recv_verdict", "send_command", "recv_code"} \cup Leaving
         /\ spc \in {"EXEC", "UPLOAD", "DOWNLOAD", "ready_to_recv", "ready_to_send"} =>
              cpc \in {"recv_code"} \cup Leaving
         /\ spc = "recv_file" =>
              cpc \in {"recv_code", "open_file", "send_file", "recv_final_code"} \cup Leaving
         /\ spc = "send_file" => cpc \in {"recv_code", "open_file", "recv_file"} \cup Leaving
         /\ spc = "recv_confirm" =>
              cpc \in {"recv_code", "open_file", "recv_file", "send_confirm", "recv_final_code"}
                        \cup Leaving
         /\ spc = "send_code" =>
              cpc \in {"recv_code", "open_file", "send_file", "recv_file", "recv_final_code"} \cup Leaving
         /\ spc = "send_result" => cpc \in AfterCommand \cup Leaving
         /\ spc \in Closing => cpc \in {"recv_verdict"} \cup AfterCommand \cup Leaving
<1> USE DEF Agreement, ServerFacts, ClientFacts, Closing, Working, Exchanging, Early,
     Leaves, Leaving,
      AfterCommand, Reports
<1>1. cpc \in Early /\ spc \notin Exchanging =>
        cpc = "recv_verdict" /\ spc \in {"send_200", "send_400", "recv_command"} \cup Closing
  BY DEF WhileExchanging
<1>2. cpc = "send_command" => spc = "recv_command"
  BY DEF WhileSendCommand
<1>3. cpc = "recv_code" => spc \in {"recv_command", "send_code", "send_result"} \cup Working \cup Closing
  BY DEF WhileRecvCode, Answered, Arriving
<1>4. cpc \in {"open_file", "send_file", "recv_final_code"} /\ cmd = "DOWNLOAD" =>
        spc \in {"recv_file", "send_code", "send_result"} \cup Closing
  BY DEF WhileDownload, Answered, Abandoned
<1>5. cpc \in {"open_file", "recv_file"} /\ cmd = "UPLOAD" =>
        spc \in {"send_file", "recv_confirm", "send_code", "send_result"} \cup Closing
  BY DEF WhileUpload, Arriving
<1>6. cpc = "send_confirm" /\ cmd = "UPLOAD" => spc \in {"recv_confirm", "send_result"} \cup Closing
  BY DEF WhileUpload, Abandoned
<1>7. cpc = "recv_final_code" /\ cmd = "UPLOAD" =>
        spc \in {"recv_confirm", "send_code", "send_result"} \cup Closing
  BY DEF WhileUpload, Answered, Abandoned
<1>8. cpc = "recv_output" => spc \in {"send_result"} \cup Closing
  BY DEF WhileRecvOutput
<1>9. /\ cpc \in {"recv_file", "send_confirm"} => cmd = "UPLOAD"
      /\ cpc \in {"open_file", "recv_final_code"} => cmd \in {"DOWNLOAD", "UPLOAD"}
      /\ cpc = "send_file" => cmd = "DOWNLOAD"
  BY DEF Transfer, WhileDownload
<1> QED BY <1>1, <1>2, <1>3, <1>4, <1>5, <1>6, <1>7, <1>8, <1>9

(* The worker receives the command, or the end of the stream.              *)
LEMMA ServerRecvCommandAgrees ==
  ASSUME Exchange, whole, Agreement, ServerRecvCommand
  PROVE  Agreement'
<1> USE DEF Agreement, ServerFacts, ClientFacts, ServerFrame, request, clientVars,
      network, ServerReceives, ServerHearsNothing, Continue, answer, ServerGoto,
      ExecutedSilently, Executed, Closing, Working, Exchanging, Early, Leaves
<1>1. /\ UNCHANGED <<cpc, cret, cmd, complete, size, sent, serverFile, clientFile, toClient,
                     clientOpen, serverOpen, code, reply>>
      /\ spc = "recv_command"
      /\ \/ /\ toServer = CommandUnits /\ CommandUnits # <<>> /\ toServer' = <<>>
            /\ \/ complete /\ spc' = cmd /\ UNCHANGED outcome
               \/ ~complete /\ spc' = "send_code" /\ outcome' = "PROTO_ERR"
         \/ /\ ~clientOpen /\ UNCHANGED <<toServer, outcome>> /\ spc' = "close"
  <2>1. CASE ServerHearsNothing /\ Continue("close")
    BY <2>1 DEF ServerRecvCommand
  <2>2. ASSUME NEW got \in Received(toServer, BufferSize), ServerReceives(got)
        PROVE  /\ toServer = CommandUnits /\ CommandUnits # <<>> /\ toServer' = <<>>
               /\ Len(got) = MessageSize
    <3>1. toServer = CommandUnits /\ CommandUnits # <<>>
      BY NoneReceived, BufferAssumption DEF ServerRecvCommand, FileReceived
    <3>2. CommandUnits \in Seq(Unit) /\ Len(CommandUnits) = MessageSize
      BY <3>1, AnswerUnits
    <3>3. got = CommandUnits /\ Rest(toServer, got) = <<>>
      BY <3>1, <3>2, ShortReceived, BufferAssumption DEF MessageSize
    <3> QED BY <2>2, <3>1, <3>2, <3>3
  <2>3. ASSUME NEW got \in Received(toServer, BufferSize), ServerReceives(got),
               \/ complete /\ Continue(cmd)
               \/ ~complete /\ ExecutedSilently("PROTO_ERR")
        PROVE  /\ UNCHANGED <<toClient, clientOpen, serverOpen, code, reply>>
               /\ toServer = CommandUnits /\ CommandUnits # <<>> /\ toServer' = <<>>
               /\ \/ complete /\ spc' = cmd /\ UNCHANGED outcome
                  \/ ~complete /\ spc' = "send_code" /\ outcome' = "PROTO_ERR"
    BY <2>2, <2>3
  <2>4. ASSUME NEW got \in Received(toServer, BufferSize), ServerReceives(got),
               Len(got) < MessageSize
        PROVE  FALSE
    BY <2>2, <2>4 DEF MessageSize
  <2>5. /\ spc = "recv_command"
        /\ UNCHANGED <<cpc, cret, cmd, complete, size, sent, serverFile, clientFile>>
        /\ \/ \E got \in Received(toServer, BufferSize) :
                /\ ServerReceives(got)
                /\ \/ complete /\ Continue(cmd)
                   \/ ~complete /\ ExecutedSilently("PROTO_ERR")
                   \/ Len(got) < MessageSize
           \/ ServerHearsNothing /\ Continue("close")
    BY DEF ServerRecvCommand
  <2> QED BY <2>1, <2>3, <2>4, <2>5
<1>2. /\ CodeUnits' = CodeUnits /\ ResultUnits' = ResultUnits
      /\ CommandUnits' = CommandUnits /\ Read(sent)' = Read(sent)
  BY <1>1 DEF CodeUnits, ResultUnits, CommandUnits, Read
<1>3. CommandUnits # <<>> => cmd \in {"EXEC", "UPLOAD", "DOWNLOAD"}
  BY DEF CommandUnits, Exchange
<1>4. ServerTypes' /\ RunsCommand' /\ Replied'
  BY <1>1, <1>3 DEF ServerTypes, RunsCommand, Replied, Transfer
<1>5. FileReceived' /\ FileSent'
  BY <1>1, <1>2, <1>3 DEF ServerTypes, RunsCommand, FileReceived, FileSent, Transfer
<1>6. WhileExchanging' /\ WhileSendCommand'
  BY <1>1 DEF WhileExchanging, WhileSendCommand, Reports
<1>7. WhileRecvCode'
  BY <1>1, <1>2, <1>3 DEF WhileRecvCode, RunsCommand, Answered, Arriving, Reports
<1> cpc \in {"recv_verdict", "send_command", "recv_code", "close", "done"}
  BY <1>1, Positions DEF Leaving
<1>8. WhileDownload' /\ WhileUpload' /\ WhileRecvOutput' /\ Reports'
  BY <1>1 DEF WhileDownload, WhileUpload, WhileRecvOutput, Reports
<1>90. Confirmed'
  BY <1>1 DEF Confirmed
<1> QED BY <1>4, <1>5, <1>6, <1>7, <1>8, <1>90

(* The worker executes the command and has its answer.                     *)
LEMMA ServerExecAgrees ==
  ASSUME Exchange, whole, Agreement, ServerExec
  PROVE  Agreement'
<1> USE DEF Agreement, ServerFacts, ClientFacts, Closing, Working, Exchanging, Early,
     Leaves
<1>1. /\ UNCHANGED <<cpc, cret, cmd, complete, size, sent, serverFile, clientFile, toClient,
                     toServer, clientOpen, serverOpen>>
      /\ spc = "EXEC" /\ spc' = "send_code" /\ reply'
      /\ code' \in Codes \ Unwritten /\ outcome' \in {"INT_ERR", "OK", "COMM_ERR"}
      /\ code' = "300" => outcome' = "OK"
  BY DEF ServerExec, ServerFrame, request, clientVars, network, ExecutedWith,
     Executed, ServerGoto, Codes, Unwritten
<1>2. CommandUnits' = CommandUnits /\ Read(sent)' = Read(sent)
  BY <1>1 DEF CommandUnits, Read
<1>3. cmd = "EXEC"
  BY <1>1 DEF RunsCommand
<1>4. ServerTypes' /\ RunsCommand' /\ Replied'
  BY <1>1, <1>3 DEF ServerTypes, RunsCommand, Replied, Transfer
<1>5. FileReceived' /\ FileSent'
  BY <1>1, <1>2, <1>3 DEF RunsCommand, FileReceived, FileSent, Transfer
<1>6. cpc \in {"recv_code", "close", "done"}
  BY <1>1, Positions DEF Leaving
<1>7. WhileRecvCode'
  BY <1>1, <1>2, <1>3 DEF WhileRecvCode, Answered, Arriving
<1>8. WhileExchanging' /\ WhileSendCommand' /\ WhileDownload' /\ WhileUpload' /\ WhileRecvOutput'
  BY <1>1, <1>3, <1>6 DEF WhileExchanging, WhileSendCommand, WhileDownload,
     WhileUpload, WhileRecvOutput
<1>9. Reports'
  BY <1>1, <1>6 DEF Reports, Transfer
<1>90. Confirmed'
  BY <1>1, <1>3, <1>6 DEF Confirmed
<1> QED BY <1>4, <1>5, <1>7, <1>8, <1>9, <1>90

(* The worker opens the file of a transfer.                                *)
LEMMA ServerOpenFileAgrees ==
  ASSUME Exchange, whole, Agreement, ServerOpenFile
  PROVE  Agreement'
<1> USE DEF Agreement, ServerFacts, ClientFacts, Closing, Working, Exchanging, Early,
     Leaves
<1>1. /\ UNCHANGED <<cpc, cret, cmd, complete, size, sent, serverFile, clientFile, toClient,
                     toServer, clientOpen, serverOpen, code, reply>>
      /\ \/ spc = "DOWNLOAD" /\ spc' = "ready_to_recv" /\ UNCHANGED outcome
         \/ spc = "UPLOAD" /\ spc' = "ready_to_send" /\ UNCHANGED outcome
         \/ spc \in {"DOWNLOAD", "UPLOAD"} /\ spc' = "send_code" /\ outcome' = "INT_ERR"
  BY DEF ServerOpenFile, ServerFrame, request, clientVars, network, ExecutedSilently,
     Executed, ServerGoto, Continue, answer
<1>2. /\ CommandUnits' = CommandUnits /\ Read(sent)' = Read(sent)
      /\ CodeUnits' = CodeUnits /\ ResultUnits' = ResultUnits
  BY <1>1 DEF CommandUnits, Read, CodeUnits, ResultUnits
<1>3. Transfer /\ (spc = "UPLOAD" => cmd = "UPLOAD" /\ complete)
      /\ (spc = "DOWNLOAD" => cmd = "DOWNLOAD") /\ outcome = "" /\ ~reply
  BY <1>1 DEF RunsCommand, Transfer
<1>4. ServerTypes' /\ RunsCommand' /\ Replied'
  BY <1>1, <1>3 DEF ServerTypes, RunsCommand, Replied, Transfer
<1>5. FileReceived' /\ FileSent'
  BY <1>1, <1>2, <1>3 DEF RunsCommand, FileReceived, FileSent, Transfer
<1>6. cpc \in {"recv_code", "close", "done"}
  BY <1>1, Positions DEF Leaving
<1>7. WhileRecvCode'
  BY <1>1, <1>2, <1>3 DEF WhileRecvCode, Answered, Arriving, Transfer
<1>8. WhileExchanging' /\ WhileSendCommand' /\ WhileDownload' /\ WhileUpload' /\ WhileRecvOutput'
  BY <1>1, <1>3, <1>6 DEF WhileExchanging, WhileSendCommand, WhileDownload,
     WhileUpload, WhileRecvOutput
<1>9. Reports'
  BY <1>1, <1>6 DEF Reports, Transfer
<1>90. Confirmed'
  BY <1>1, <1>6 DEF Confirmed
<1> QED BY <1>4, <1>5, <1>7, <1>8, <1>9, <1>90

(* The worker says that it is ready for the file.                          *)
LEMMA ServerSendReadyAgrees ==
  ASSUME Exchange, whole, Agreement, ServerSendReady
  PROVE  Agreement'
<1> USE DEF Agreement, ServerFacts, ClientFacts, Closing, Working, Exchanging, Early,
     Leaves
<1>1. /\ UNCHANGED <<cpc, cret, cmd, complete, size, sent, serverFile, clientFile,
                     toServer, clientOpen, serverOpen, code, reply>>
      /\ \/ /\ spc = "ready_to_recv" /\ spc' = "recv_file" /\ UNCHANGED outcome
            /\ toClient' = IF clientOpen THEN toClient \o Code("200") ELSE toClient
         \/ /\ spc = "ready_to_send" /\ spc' = "send_file" /\ UNCHANGED outcome
            /\ toClient' = IF clientOpen THEN toClient \o Code("200") ELSE toClient
         \/ /\ spc \in {"ready_to_recv", "ready_to_send"} /\ ~clientOpen
            /\ spc' = "send_code" /\ outcome' = "CONN_ERR" /\ UNCHANGED toClient
  BY DEF ServerSendReady, ServerFrame, request, clientVars, network, ExecutedSilently,
     Executed, ServerGoto, Continue, answer, ServerSends, ServerSendFails
<1>2. /\ CommandUnits' = CommandUnits /\ Read(sent)' = Read(sent)
      /\ CodeUnits' = CodeUnits /\ ResultUnits' = ResultUnits
  BY <1>1 DEF CommandUnits, Read, CodeUnits, ResultUnits
<1>3. Transfer /\ (spc = "ready_to_send" => cmd = "UPLOAD" /\ complete)
      /\ (spc = "ready_to_recv" => cmd = "DOWNLOAD") /\ outcome = "" /\ ~reply
  BY <1>1 DEF RunsCommand, Transfer
<1>4. ServerTypes' /\ RunsCommand' /\ Replied'
  BY <1>1, <1>3 DEF ServerTypes, RunsCommand, Replied, Transfer
<1>5. FileReceived' /\ FileSent'
  <2>1. FileSent' /\ (spc' # "recv_file" => FileReceived')
    <3>1. Full(0)
      BY FullFacts
    <3>4. 0 <= size /\ (spc = "ready_to_send" => sent = 0)
      <4>1. 0 <= size
        BY DEF ServerTypes
      <4>2. FileSent
        OBVIOUS
      <4>3. spc = "ready_to_send" => sent = 0
        BY <1>3, <4>2 DEF FileSent
      <4> QED BY <4>1, <4>3
    <3>2. FileSent'
      BY <1>1, <1>3, <3>1, <3>4 DEF FileSent, Transfer
    <3>3. spc' # "recv_file" => FileReceived'
      BY <1>1, <1>2, <1>3 DEF FileReceived, Transfer
    <3> QED BY <3>2, <3>3
  <2>2. CASE spc' = "recv_file"
    <3>1. toServer = <<>> /\ serverFile = <<>> /\ sent = 0 /\ Read(0) = <<>> /\ Full(0) /\ cmd = "DOWNLOAD"
      BY <1>1, <1>3, <2>2, FullFacts, FileUnits DEF FileReceived, ServerTypes
    <3>2. <<>> \in Seq(Unit) /\ Len(<<>>) = 0 /\ <<>> \o <<>> = <<>>
      BY EmptySeq, ConcatEmptySeq
    <3>3. serverOpen /\ size \in Nat /\ outcome = ""
      BY <1>1 DEF RunsCommand, ServerTypes
    <3>4. spc' = "recv_file" /\ outcome' = ""
      BY <1>1, <1>3, <2>2
    <3>5. toServer' = <<>> /\ serverFile' = <<>> /\ sent' = 0 /\ size' = size /\ serverOpen'
      BY <1>1, <3>1, <3>3
    <3>6. Read(sent)' = <<>>
      BY <1>2, <3>1
    <3>7. FileSent'
      BY <1>1, <1>3, <3>1, <3>4 DEF FileSent
    <3>8. FileReceived'
      <4>1. Full(Len(serverFile))'
        BY <3>1, <3>2, <3>5
      <4>2. (serverFile \o toServer = Read(sent))' /\ (toServer \in Seq(Unit))'
        BY <3>2, <3>5, <3>6
      <4>3. Full(sent)'
        BY <3>1, <3>5
      <4>4. (sent <= size)'
        <5>1. 0 <= size
          BY DEF ServerTypes
        <5> QED BY <3>5, <5>1
      <4> QED BY <3>3, <3>4, <3>5, <4>1, <4>2, <4>3, <4>4 DEF FileReceived
    <3> QED BY <3>7, <3>8
  <2> QED BY <2>1, <2>2
<1>6. cpc \in {"recv_code", "close", "done"}
  BY <1>1, Positions DEF Leaving
<1>7. WhileRecvCode'
  <2>1. CASE cpc = "recv_code"
    <3>1. /\ toClient = <<>> /\ clientOpen /\ toServer = <<>> /\ clientFile = <<>>
          /\ cmd = "DOWNLOAD" => sent = 0
      BY <1>1, <2>1 DEF WhileRecvCode, Reports, Answered, Arriving
    <3>2. Code("200") \in Seq(Unit) /\ Code("200") = <<>> \o Code("200") /\ Code("200") = Code("200") \o <<>>
      <4>1. Code("200") \in Seq(Unit)
        BY MessageUnits DEF Code, Codes
      <4> QED BY <4>1, ConcatEmptySeq
    <3>3. Rest(Code("200"), Code("200")) = <<>> /\ <<>> \in Seq(Unit)
      BY NothingLeft, EmptySeq DEF Code
    <3>4. toClient' = Code("200")
      BY <1>1, <3>1, <3>2
    <3>5. Received200' = <<>>
      BY <3>3, <3>4 DEF Received200
    <3>6. spc = "ready_to_send" => Arriving(Received200)'
      <4>1. Full(0) /\ Read(0) = <<>> /\ Len(<<>>) = 0 /\ <<>> \o <<>> = <<>>
        BY FullFacts, FileUnits, EmptySeq, ConcatEmptySeq DEF ServerTypes
      <4>2. spc = "ready_to_send" => sent = 0
        BY <1>3 DEF FileSent
      <4> QED BY <1>1, <1>2, <3>1, <3>5, <4>1, <4>2 DEF Arriving
    <3> QED BY <1>1, <1>2, <1>3, <2>1, <3>1, <3>2, <3>3, <3>4, <3>5, <3>6
         DEF WhileRecvCode, Transfer
  <2> QED BY <1>1, <2>1 DEF WhileRecvCode
<1>8. WhileExchanging' /\ WhileSendCommand' /\ WhileDownload' /\ WhileUpload' /\ WhileRecvOutput'
  BY <1>1, <1>3, <1>6 DEF WhileExchanging, WhileSendCommand, WhileDownload,
     WhileUpload, WhileRecvOutput
<1>9. Reports'
  BY <1>1, <1>6 DEF Reports, Transfer
<1>90. Confirmed'
  BY <1>1, <1>6 DEF Confirmed
<1> QED BY <1>4, <1>5, <1>7, <1>8, <1>9, <1>90

(* The sizes and the files that the other lemmas need.                     *)
LEMMA SizesAreNat ==
  ASSUME Agreement
  PROVE  size \in Nat /\ sent \in Nat /\ 0 <= size /\ 0 <= sent
         /\ serverFile \in Seq(Unit) /\ clientFile \in Seq(Unit)
BY DEF Agreement, ServerFacts, ServerTypes, ClientFacts, Confirmed

(* Three parts of a stream, joined from the left or from the right.        *)
LEMMA Joined ==
  ASSUME NEW U, NEW a \in Seq(U), NEW b \in Seq(U), NEW c \in Seq(U)
  PROVE  (a \o b) \o c = a \o (b \o c)
BY ConcatAssociative

(* One more recv() of the file.                                            *)
LEMMA PieceReceived ==
  ASSUME whole, size \in Nat, sent \in Nat, serverFile \in Seq(Unit), toServer \in Seq(Unit),
         Full(Len(serverFile)), serverFile \o toServer = Read(sent),
         (Full(sent) /\ sent <= size) \/ sent = size,
         NEW got \in Received(toServer, BufferSize)
  PROVE  /\ serverFile \o got \in Seq(Unit) /\ Rest(toServer, got) \in Seq(Unit)
         /\ (serverFile \o got) \o Rest(toServer, got) = Read(sent)
         /\ Len(got) = BufferSize => Full(Len(serverFile \o got))
         /\ Len(got) # BufferSize => serverFile \o got = File(size)
<1>1. BufferSize \in Nat \ {0}
  BY BufferAssumption
<1>2. /\ got \in Seq(Unit) /\ Rest(toServer, got) \in Seq(Unit)
      /\ toServer = got \o Rest(toServer, got)
      /\ Len(got) \in 1 .. BufferSize
      /\ Len(got) = BufferSize \/ (got = toServer /\ Rest(toServer, got) = <<>>)
  BY <1>1, WholeReceived
<1>3. serverFile \o got \in Seq(Unit) /\ Len(serverFile \o got) = Len(serverFile) + Len(got)
  BY <1>2, ConcatProperties
<1>4. (serverFile \o got) \o Rest(toServer, got) = Read(sent)
  <2>1. (serverFile \o got) \o Rest(toServer, got) = serverFile \o (got \o Rest(toServer, got))
    <3>1. got \in Seq(Unit) /\ Rest(toServer, got) \in Seq(Unit)
      BY <1>2
    <3> QED BY <3>1, Joined
  <2>2. serverFile \o (got \o Rest(toServer, got)) = serverFile \o toServer
    BY <1>2
  <2> QED BY <2>1, <2>2
<1>5. Len(serverFile) \in Nat /\ Len(got) \in Nat
  BY <1>2, LenProperties
<1>6. Len(got) = BufferSize => Full(Len(serverFile \o got))
  BY <1>1, <1>3, <1>5, FullFacts
<1>7. Len(got) # BufferSize => serverFile \o got = File(size)
  <2> SUFFICES ASSUME Len(got) # BufferSize PROVE serverFile \o got = File(size)
    OBVIOUS
  <2>1. serverFile \o got = Read(sent)
    BY <1>2
  <2>2. CASE sent = size
    BY <2>1, <2>2, FileUnits
  <2>3. CASE Full(sent) /\ sent <= size
    <3>1. Len(serverFile) + Len(got) = sent
      BY <1>3, <2>1, <2>3, FileUnits
    <3>2. Full(Len(got))
      <4>1. Full(Len(serverFile) + Len(got))
        BY <2>3, <3>1
      <4> QED BY <1>5, <4>1, FullFacts
    <3>3. Len(got) \in 1 .. BufferSize - 1
      BY <1>1, <1>2
    <3> QED BY <3>2, <3>3, FullFacts
  <2> QED BY <2>2, <2>3
<1> QED BY <1>2, <1>3, <1>4, <1>6, <1>7

(* The worker receives a piece of the file.                                *)
LEMMA ServerRecvFileAgrees ==
  ASSUME Exchange, whole, Agreement, ServerRecvFile
  PROVE  Agreement'
<1> USE DEF Agreement, ServerFacts, ClientFacts, Closing, Working, Exchanging, Early,
     Leaves
<1>1. /\ UNCHANGED <<cpc, cret, cmd, complete, size, sent, clientFile, toClient,
                     clientOpen, serverOpen>>
      /\ spc = "recv_file"
      /\ \/ \E got \in Received(toServer, BufferSize) :
              /\ toServer' = Rest(toServer, got)
              /\ \/ /\ serverFile' = serverFile \o got
                    /\ \/ /\ Len(got) = BufferSize /\ spc' = "recv_file"
                          /\ UNCHANGED <<code, reply, outcome>>
                       \/ /\ Len(got) # BufferSize /\ spc' = "send_code"
                          /\ code' = "200" /\ reply' = TRUE /\ outcome' = "OK"
                 \/ /\ UNCHANGED <<serverFile, code, reply>>
                    /\ spc' = "send_code" /\ outcome' = "INT_ERR"
         \/ /\ ~clientOpen /\ UNCHANGED <<toServer, serverFile, code, reply>>
            /\ spc' = "send_code" /\ outcome' = "CONN_ERR"
  BY DEF ServerRecvFile, ServerFrame, request, clientVars, network, ExecutedSilently,
     ExecutedWith, Executed, ServerGoto, Continue, answer, ServerReceives,
     ServerHearsNothing
<1>2. /\ cmd = "DOWNLOAD" /\ outcome = "" /\ ~reply
      /\ toServer \in Seq(Unit) /\ Full(Len(serverFile)) /\ serverFile \o toServer = Read(sent)
      /\ (Full(sent) /\ sent <= size) \/ sent = size
      /\ serverOpen
  BY <1>1 DEF RunsCommand, FileReceived
<1>3. /\ serverFile' \in Seq(Unit)
      /\ spc' \in {"recv_file", "send_code"}
      /\ spc' = "recv_file" =>
            /\ toServer' \in Seq(Unit) /\ Full(Len(serverFile')) /\ serverFile' \o toServer' = Read(sent)
            /\ UNCHANGED <<code, reply, outcome>>
      /\ spc' = "send_code" =>
            \/ outcome' = "OK" /\ reply' = TRUE /\ code' = "200" /\ serverFile' = File(size)
            \/ outcome' \in {"INT_ERR", "CONN_ERR"} /\ UNCHANGED <<code, reply>>
  <2>1. ASSUME NEW got \in Received(toServer, BufferSize), toServer' = Rest(toServer, got),
               serverFile' = serverFile \o got, spc' = "recv_file", Len(got) = BufferSize
        PROVE  /\ toServer' \in Seq(Unit) /\ Full(Len(serverFile')) /\ serverFile' \o toServer' = Read(sent)
               /\ serverFile' \in Seq(Unit)
    BY <1>2, <2>1, PieceReceived, SizesAreNat
  <2>2. ASSUME NEW got \in Received(toServer, BufferSize),
               serverFile' = serverFile \o got, Len(got) # BufferSize
        PROVE  serverFile' = File(size) /\ serverFile' \in Seq(Unit)
    BY <1>2, <2>2, PieceReceived, SizesAreNat
  <2>3. serverFile \in Seq(Unit)
    BY SizesAreNat
  <2> HIDE <1>2 DEF Agreement
  <2> QED BY <1>1, <2>1, <2>2, <2>3
<1>4. /\ CommandUnits' = CommandUnits /\ Read(sent)' = Read(sent) /\ File(size)' = File(size)
      /\ Full(sent)' = Full(sent)
  BY <1>1 DEF CommandUnits, Read
<1>5. ServerTypes'
  BY <1>1, <1>3 DEF ServerTypes, Codes
<1>6. RunsCommand' /\ Replied'
  <2>1. RunsCommand'
    <3>1. cmd' = "DOWNLOAD" /\ serverOpen' /\ spc' \in {"recv_file", "send_code"}
      BY <1>1, <1>2, <1>3
    <3>2. outcome' = "OK" => reply'
      BY <1>1, <1>2, <1>3
    <3>3. spc' = "recv_file" => outcome' = "" /\ ~reply'
      BY <1>2, <1>3
    <3> QED BY <3>1, <3>2, <3>3 DEF RunsCommand
  <2>2. Replied'
    BY <1>1, <1>2, <1>3 DEF Replied, Transfer, Unwritten
  <2> QED BY <2>1, <2>2
<1>7. FileReceived'
  <2>1. CASE spc' = "recv_file"
    <3>1. serverOpen' /\ outcome' = "" /\ (sent <= size)' = (sent <= size) /\ (sent = size)' = (sent = size)
      BY <1>1, <1>2, <1>3, <2>1
    <3> QED BY <1>2, <1>3, <1>4, <2>1, <3>1 DEF FileReceived
  <2>2. CASE spc' = "send_code"
    BY <1>1, <1>2, <1>3, <1>4, <2>2 DEF FileReceived
  <2> QED BY <1>3, <2>1, <2>2
<1>8. FileSent'
  <2>1. (sent <= size)' = (sent <= size)
    BY <1>1
  <2> QED BY <1>1, <1>2, <1>3, <1>4, <2>1 DEF FileSent
<1>9. cpc \in {"open_file", "send_file", "recv_final_code", "close", "done"}
  <2>1. cpc = "recv_code" => toServer = <<>> /\ clientOpen
    BY <1>1 DEF WhileRecvCode, Answered, Reports, Arriving
  <2>2. toServer # <<>> \/ ~clientOpen
    BY <1>1, NoneReceived, BufferAssumption
  <2> QED BY <1>1, <2>1, <2>2, Positions DEF Leaving
<1>10. WhileDownload'
  BY <1>1, <1>2, <1>3 DEF WhileDownload, Answered, Abandoned
<1>11. WhileExchanging' /\ WhileSendCommand' /\ WhileRecvCode' /\ WhileUpload' /\ WhileRecvOutput'
  BY <1>1, <1>2, <1>9 DEF WhileExchanging, WhileSendCommand, WhileRecvCode,
     WhileUpload, WhileRecvOutput
<1>12. Reports'
  BY <1>1, <1>9 DEF Reports, Transfer
<1>90. Confirmed'
  BY <1>1, <1>2, <1>3 DEF Confirmed
<1> QED BY <1>5, <1>6, <1>7, <1>8, <1>10, <1>11, <1>12, <1>90

(* Units after the code that says ready.                                   *)
LEMMA AfterReady ==
  ASSUME NEW s \in Seq(Unit), NEW u \in Seq(Unit)
  PROVE  /\ (Code("200") \o s) \o u = Code("200") \o (s \o u)
         /\ Rest(Code("200") \o (s \o u), Code("200")) = s \o u
         /\ Rest(Code("200") \o s, Code("200")) = s
<1> DEFINE c == Code("200")
<1>1. c \in Seq(Unit)
  BY MessageUnits DEF Code, Codes
<1> HIDE DEF c
<1>2. (c \o s) \o u = c \o (s \o u)
  BY <1>1, Joined
<1>3. s \o u \in Seq(Unit)
  BY ConcatProperties
<1>4. Rest(c \o (s \o u), c) = s \o u /\ Rest(c \o s, c) = s
  BY <1>1, <1>3, RestOfConcat
<1> QED BY <1>2, <1>4 DEF c

(* One more send() of the file.                                            *)
LEMMA PieceSent ==
  ASSUME size \in Nat, sent \in Nat, Full(sent), sent <= size, NEW s \in Seq(Unit),
         clientFile \in Seq(Unit), Full(Len(clientFile))
  PROVE  /\ s \o NextPiece \in Seq(Unit)
         /\ clientFile \o s = Read(sent) =>
              /\ Full(Len(s))
              /\ clientFile \o (s \o NextPiece) = Read(sent + Len(NextPiece))
<1>1. /\ NextPiece \in Seq(Unit) /\ Read(sent) \o NextPiece = Read(sent + Len(NextPiece))
      /\ Len(Read(sent)) = sent
  BY PieceUnits, FileUnits
<1>2. Len(clientFile \o s) = Len(clientFile) + Len(s) /\ Len(s) \in Nat /\ Len(clientFile) \in Nat
  BY ConcatProperties, LenProperties
<1>3. clientFile \o s = Read(sent) => Full(Len(s))
  <2> SUFFICES ASSUME clientFile \o s = Read(sent) PROVE Full(Len(s))
    OBVIOUS
  <2>1. Full(Len(clientFile) + Len(s))
    BY <1>1, <1>2
  <2> QED BY <1>2, <2>1, FullFacts
<1>4. s \o NextPiece \in Seq(Unit)
  BY <1>1, ConcatProperties
<1>5. (clientFile \o s) \o NextPiece = clientFile \o (s \o NextPiece)
  <2>1. NextPiece \in Seq(Unit)
    BY <1>1
  <2> QED BY <2>1, Joined
<1> QED BY <1>1, <1>3, <1>4, <1>5

(* The worker sends a piece of the file.                                   *)
LEMMA ServerSendFileAgrees ==
  ASSUME Exchange, whole, Agreement, ServerSendFile
  PROVE  Agreement'
<1> USE DEF Agreement, ServerFacts, ClientFacts, Closing, Working, Exchanging, Early,
     Leaves
<1>1. /\ UNCHANGED <<cpc, cret, cmd, complete, size, serverFile, clientFile, toServer,
                     clientOpen, serverOpen, code, reply>>
      /\ spc = "send_file"
      /\ \/ /\ NextPiece # <<>> /\ toClient' = IF clientOpen THEN toClient \o NextPiece ELSE toClient
            /\ sent' = sent + Len(NextPiece) /\ UNCHANGED outcome
            /\ spc' = IF Len(NextPiece) = BufferSize THEN "send_file" ELSE "recv_confirm"
         \/ /\ spc' = "send_code" /\ outcome' \in {"CONN_ERR", "INT_ERR"} /\ UNCHANGED <<sent, toClient>>
  BY DEF ServerSendFile, ServerFrame, request, clientVars, network, ExecutedSilently,
     Executed, ServerGoto, Continue, answer, ServerSends, ServerSendFails
<1>2. /\ cmd = "UPLOAD" /\ complete /\ outcome = "" /\ ~reply /\ serverOpen
      /\ Full(sent) /\ sent <= size
      /\ size \in Nat /\ sent \in Nat
  BY <1>1, SizesAreNat DEF RunsCommand, FileSent
<1>3. /\ CommandUnits' = CommandUnits /\ File(size)' = File(size)
      /\ CodeUnits' = CodeUnits /\ ResultUnits' = ResultUnits
      /\ \A n : Read(n)' = Read(n)
  BY <1>1 DEF CommandUnits, Read, CodeUnits, ResultUnits
<1>4. /\ sent' \in Nat
      /\ spc' \in {"send_file", "recv_confirm", "send_code"}
      /\ spc' = "send_file" => Full(sent') /\ sent' <= size
      /\ spc' = "recv_confirm" => sent' = size
      /\ spc' = "send_code" => outcome' \in {"CONN_ERR", "INT_ERR"}
      /\ spc' # "send_code" => UNCHANGED outcome
  <2>1. /\ NextPiece \in Seq(Unit) /\ sent + Len(NextPiece) <= size
        /\ Len(NextPiece) # BufferSize => sent + Len(NextPiece) = size
    BY <1>2, PieceUnits
  <2>2. Len(NextPiece) \in Nat /\ BufferSize \in Nat
    BY <2>1, LenProperties, BufferAssumption
  <2>3. Len(NextPiece) = BufferSize => Full(sent + Len(NextPiece))
    BY <1>2, <2>2, FullFacts
  <2>4. sent + Len(NextPiece) \in Nat
    <3>1. sent \in Nat
      BY <1>2
    <3> QED BY <2>2, <3>1
  <2>5. CASE sent' = sent + Len(NextPiece) /\ UNCHANGED outcome
             /\ spc' = IF Len(NextPiece) = BufferSize THEN "send_file" ELSE "recv_confirm"
    BY <2>1, <2>3, <2>4, <2>5
  <2>6. CASE spc' = "send_code" /\ UNCHANGED sent /\ outcome' \in {"CONN_ERR", "INT_ERR"}
    BY <1>2, <2>6
  <2> QED BY <1>1, <2>5, <2>6
<1>5. ServerTypes'
  BY <1>1, <1>4 DEF ServerTypes
<1>6. RunsCommand' /\ Replied'
  <2>1. /\ cmd' = "UPLOAD" /\ complete' /\ serverOpen' /\ ~reply' /\ outcome' # "OK"
        /\ spc' # "send_code" => outcome' = ""
    BY <1>1, <1>2, <1>4
  <2> QED BY <1>4, <2>1 DEF RunsCommand, Replied
<1>7. FileReceived'
  BY <1>1, <1>2, <1>4 DEF FileReceived
<1>8. FileSent'
  <2>1. cpc # "send_file"
    BY <1>2 DEF WhileDownload
  <2>2. size' = size /\ cpc' = cpc
    BY <1>1
  <2> QED BY <1>4, <2>1, <2>2 DEF FileSent
<1>9. cpc \in {"recv_code", "open_file", "recv_file", "close", "done"} /\ (clientOpen \/ cpc = "done")
  BY <1>1, Positions DEF Leaving, Reports
<1>10. ASSUME NEW s \in Seq(Unit), Arriving(s)
       PROVE  /\ sent' = sent => Full(Len(s))
              /\ s \o NextPiece \in Seq(Unit)
              /\ clientFile \o (s \o NextPiece) = Read(sent + Len(NextPiece))
              /\ toServer = <<>> /\ Full(Len(clientFile))
  <2>1. clientFile \o s = Read(sent) /\ Full(Len(clientFile)) /\ toServer = <<>>
    BY <1>1, <1>10 DEF Arriving
  <2> QED BY <1>2, <2>1, PieceSent, SizesAreNat
<1> DEFINE After(t) ==
             /\ Full(Len(clientFile')) /\ toServer' = <<>>
             /\ \/ spc' \in {"send_file", "recv_confirm"} /\ clientFile' \o t = Read(sent)'
                \/ spc' = "send_code" /\ ~reply' /\ Full(Len(t))
<1>11. ASSUME NEW s \in Seq(Unit), Arriving(s)
       PROVE  /\ spc' \in {"send_file", "recv_confirm"} /\ sent' = sent + Len(NextPiece) => After(s \o NextPiece)
              /\ spc' = "send_code" /\ UNCHANGED sent => After(s)
              /\ s \o NextPiece \in Seq(Unit)
  <2>1. toServer' = <<>> /\ Full(Len(clientFile')) /\ clientFile' = clientFile /\ ~reply'
    BY <1>1, <1>2, <1>10, <1>11
  <2>2. sent' = sent + Len(NextPiece) => Read(sent)' = Read(sent + Len(NextPiece))
    BY <1>1 DEF Read
  <2> QED BY <1>10, <1>11, <2>1, <2>2
<1>12. ASSUME spc' \in {"send_file", "recv_confirm"} PROVE WhileRecvCode' /\ WhileUpload'
  <2>1. /\ toClient' = IF clientOpen THEN toClient \o NextPiece ELSE toClient
        /\ sent' = sent + Len(NextPiece)
    BY <1>1, <1>12
  <2>2. WhileRecvCode'
    <3>1. CASE cpc = "recv_code"
      <4>1. /\ toClient = Code("200") \o Received200 /\ Received200 \in Seq(Unit)
            /\ Arriving(Received200) /\ clientFile = <<>>
        BY <1>1, <3>1 DEF WhileRecvCode, Answered
      <4>2. Code("200") \in Seq(Unit) /\ NextPiece \in Seq(Unit)
        <5>1. Code("200") \in Seq(Unit)
          BY MessageUnits DEF Code, Codes
        <5> QED BY <1>2, <5>1, PieceUnits
      <4>3. toClient' = toClient \o NextPiece
        BY <1>9, <2>1, <3>1
      <4>4. /\ toClient' = Code("200") \o (Received200 \o NextPiece)
            /\ Rest(toClient', Code("200")) = Received200 \o NextPiece
        <5>1. Received200 \in Seq(Unit)
          BY <4>1
        <5>2. /\ (Code("200") \o Received200) \o NextPiece = Code("200") \o (Received200 \o NextPiece)
              /\ Rest(Code("200") \o (Received200 \o NextPiece), Code("200")) = Received200 \o NextPiece
          BY <4>2, <5>1, AfterReady
        <5> HIDE DEF Received200
        <5> QED BY <4>1, <4>3, <5>2
      <4>5. Received200' = Received200 \o NextPiece
        BY <4>4 DEF Received200
      <4>6. Arriving(Received200)'
        <5>1. After(Received200 \o NextPiece)
          BY <1>11, <1>12, <2>1, <4>1
        <5> QED BY <4>5, <5>1 DEF Arriving
      <4>7. /\ Received200' \in Seq(Unit) /\ toServer' = <<>> /\ clientFile' = <<>>
            /\ cmd' = "UPLOAD" /\ toClient' = Code("200") \o Received200'
        BY <1>1, <1>2, <1>11, <4>1, <4>4, <4>5 DEF Arriving
      <4> QED BY <1>12, <4>6, <4>7 DEF WhileRecvCode
    <3> QED BY <1>1, <3>1 DEF WhileRecvCode
  <2>3. WhileUpload'
    <3>1. CASE cpc \in {"open_file", "recv_file"}
      <4>1. toClient \in Seq(Unit) /\ Arriving(toClient) /\ (cpc = "open_file" => clientFile = <<>>)
        BY <1>2, <3>1 DEF WhileUpload
      <4>2. toClient' = toClient \o NextPiece
        BY <1>9, <2>1, <3>1
      <4>3. After(toClient') /\ toClient' \in Seq(Unit)
        BY <1>11, <1>12, <2>1, <4>1, <4>2
      <4>4. Arriving(toClient)'
        BY <4>3 DEF Arriving
      <4> QED BY <1>1, <3>1, <4>1, <4>3, <4>4 DEF WhileUpload
    <3> QED BY <1>1, <1>9, <3>1 DEF WhileUpload
  <2> QED BY <2>2, <2>3
<1>13. ASSUME spc' = "send_code" PROVE WhileRecvCode' /\ WhileUpload'
  <2>1. UNCHANGED <<sent, toClient>>
    BY <1>1, <1>13
  <2>2. WhileRecvCode'
    <3>1. CASE cpc = "recv_code"
      <4>1. /\ toClient = Code("200") \o Received200 /\ Received200 \in Seq(Unit)
            /\ Arriving(Received200) /\ clientFile = <<>>
        BY <1>1, <3>1 DEF WhileRecvCode, Answered
      <4>2. Received200' = Received200
        BY <2>1 DEF Received200
      <4>3. Arriving(Received200)'
        <5>1. After(Received200)
          BY <1>11, <1>13, <2>1, <4>1
        <5> QED BY <4>2, <5>1 DEF Arriving
      <4> QED BY <1>1, <1>2, <1>10, <1>13, <2>1, <4>1, <4>2, <4>3 DEF WhileRecvCode
    <3> QED BY <1>1, <3>1 DEF WhileRecvCode
  <2>3. WhileUpload'
    <3>1. CASE cpc \in {"open_file", "recv_file"}
      <4>1. toClient \in Seq(Unit) /\ Arriving(toClient) /\ (cpc = "open_file" => clientFile = <<>>)
        BY <1>2, <3>1 DEF WhileUpload
      <4>2. Arriving(toClient)'
        <5>1. After(toClient)
          BY <1>11, <1>13, <2>1, <4>1
        <5> QED BY <1>13, <2>1, <5>1 DEF Arriving
      <4> QED BY <1>1, <2>1, <3>1, <4>1, <4>2 DEF WhileUpload
    <3> QED BY <1>1, <1>9, <3>1 DEF WhileUpload
  <2> QED BY <2>2, <2>3
<1>14. WhileExchanging' /\ WhileSendCommand' /\ WhileDownload' /\ WhileRecvOutput'
  BY <1>1, <1>2, <1>9 DEF WhileExchanging, WhileSendCommand, WhileDownload,
     WhileRecvOutput
<1>15. Reports'
  BY <1>1, <1>9 DEF Reports, Transfer
<1>90. Confirmed'
  <2>1. toServer = <<>>
    BY <1>1 DEF FileReceived
  <2>2. toServer' = <<>> /\ outcome' # "OK"
    BY <1>1, <1>2, <2>1
  <2> QED BY <1>1, <2>2 DEF Confirmed
<1> QED BY <1>4, <1>5, <1>6, <1>7, <1>8, <1>12, <1>13, <1>14, <1>15, <1>90

(* The worker receives the client's confirmation.                          *)
LEMMA ServerRecvConfirmAgrees ==
  ASSUME Exchange, whole, Agreement, ServerRecvConfirm
  PROVE  Agreement'
<1> USE DEF Agreement, ServerFacts, ClientFacts, Closing, Working, Exchanging, Early,
     Leaves
<1>1. /\ UNCHANGED <<cpc, cret, cmd, complete, size, sent, serverFile, clientFile, toClient,
                     clientOpen, serverOpen>>
      /\ spc = "recv_confirm" /\ spc' = "send_code"
      /\ toServer # <<>> \/ ~clientOpen
      /\ \/ outcome' = "OK" /\ code' = "200" /\ reply' = TRUE
         \/ outcome' \in {"PROTO_ERR", "CONN_ERR"} /\ UNCHANGED <<code, reply>>
  BY NoneReceived DEF ServerRecvConfirm, ServerFrame, request, clientVars, network,
     ExecutedSilently,
     ExecutedWith, Executed, ServerGoto, ServerReceives, ServerHearsNothing, MessageSize
<1>2. cmd = "UPLOAD" /\ complete /\ outcome = "" /\ ~reply /\ serverOpen
  BY <1>1 DEF RunsCommand
<1>3. CommandUnits' = CommandUnits /\ File(size)' = File(size)
  BY <1>1 DEF CommandUnits
<1>4. ServerTypes'
  BY <1>1 DEF ServerTypes, Codes
<1>5. RunsCommand' /\ Replied'
  <2>1. cmd' = "UPLOAD" /\ serverOpen' /\ spc' = "send_code" /\ (outcome' = "OK" => reply')
    BY <1>1, <1>2
  <2>2. reply' => code' \notin Unwritten /\ outcome' = "OK"
    BY <1>1, <1>2 DEF Unwritten
  <2> QED BY <2>1, <2>2 DEF RunsCommand, Replied
<1>6. FileReceived' /\ FileSent'
  <2>1. cpc # "send_file"
    BY <1>2 DEF WhileDownload
  <2> QED BY <1>1, <1>2, <2>1 DEF FileReceived, FileSent
<1>7. cpc \in {"recv_final_code", "close", "done"}
  <2>1. cpc = "recv_code" => toServer = <<>> /\ clientOpen
    BY <1>1 DEF WhileRecvCode, Answered, Reports, Arriving
  <2>2. cpc \in {"open_file", "recv_file"} => toServer = <<>> /\ clientOpen
    BY <1>2 DEF WhileUpload, Reports, Arriving
  <2>3. cpc = "send_confirm" => toServer = <<>> /\ clientOpen
    BY <1>1, <1>2 DEF WhileUpload, Reports, Abandoned
  <2> QED BY <1>1, <2>1, <2>2, <2>3, Positions DEF Leaving
<1>8. WhileUpload'
  <2>1. cpc = "recv_final_code" => clientFile = File(size) /\ toClient = <<>>
    BY <1>1, <1>2 DEF WhileUpload, Answered, Abandoned
  <2> QED BY <1>1, <1>2, <1>3, <1>7, <2>1 DEF WhileUpload, Answered
<1>9. WhileExchanging' /\ WhileSendCommand' /\ WhileRecvCode' /\ WhileDownload' /\ WhileRecvOutput'
  BY <1>1, <1>2, <1>7 DEF WhileExchanging, WhileSendCommand, WhileRecvCode,
     WhileDownload, WhileRecvOutput
<1>10. Reports'
  BY <1>1, <1>7 DEF Reports, Transfer
<1>90. Confirmed'
  <2>1. cret # "OK"
    BY <1>1 DEF Reports
  <2>2. toServer = <<>> \/ clientFile = File(size)
    BY <1>1 DEF Confirmed
  <2> QED BY <1>1, <1>3, <2>1, <2>2 DEF Confirmed
<1> QED BY <1>4, <1>5, <1>6, <1>8, <1>9, <1>10, <1>90

(* The worker sends the code of its answer.                                *)
LEMMA ServerSendCodeAgrees ==
  ASSUME Exchange, whole, Agreement, ServerSendCode, code # "overrun"
  PROVE  Agreement'
<1> USE DEF Agreement, ServerFacts, ClientFacts, Closing, Working, Exchanging, Early,
     Leaves
<1>1. /\ UNCHANGED <<cpc, cret, cmd, complete, size, sent, serverFile, clientFile, toServer,
                     clientOpen, serverOpen, code, reply, outcome>>
      /\ spc = "send_code"
      /\ \/ /\ spc' = "send_result"
            /\ toClient' = IF clientOpen THEN toClient \o CodeUnits ELSE toClient
         \/ spc' = "exited" /\ ~clientOpen /\ UNCHANGED toClient
  <2>1. CodesSent = {CodeUnits}
    BY DEF CodesSent
  <2> QED BY <2>1 DEF ServerSendCode, ServerFrame, request, clientVars, network, answer,
     ServerGoto, Continue, ServerSends, ServerSendFails
<1>2. serverOpen /\ cmd # "UNSUPPORTED"
  BY <1>1 DEF RunsCommand
<1>3. /\ CommandUnits' = CommandUnits /\ File(size)' = File(size)
      /\ CodeUnits' = CodeUnits /\ ResultUnits' = ResultUnits
  BY <1>1 DEF CommandUnits, CodeUnits, ResultUnits
<1>4. ServerTypes' /\ RunsCommand' /\ Replied'
  BY <1>1, <1>2 DEF ServerTypes, RunsCommand, Replied, Transfer
<1>5. FileReceived'
  BY <1>1, <1>3 DEF FileReceived
<1>6. FileSent'
  <2>1. Full(sent)' = Full(sent) /\ (sent <= size)' = (sent <= size)
    BY <1>1
  <2> QED BY <1>1, <2>1 DEF FileSent
<1>7. /\ cpc \in {"recv_code", "open_file", "send_file", "recv_file", "recv_final_code", "close", "done"}
      /\ cpc \in {"open_file", "send_file", "recv_file", "recv_code", "recv_final_code"} =>
           clientOpen /\ toClient' = toClient \o CodeUnits /\ spc' = "send_result"
  BY <1>1, Positions DEF Leaving, Reports
<1>8. CodeUnits \in Seq(Unit) /\ <<>> \o CodeUnits = CodeUnits
  BY AnswerUnits, ConcatEmptySeq
<1>9. ASSUME Answered(toClient), cpc # "close", cpc # "done"
      PROVE  Answered(toClient)'
  <2>1. toClient = <<>>
    BY <1>1, <1>9 DEF Answered
  <2> QED BY <1>1, <1>3, <1>7, <1>8, <1>9, <2>1 DEF Answered
<1>10. ASSUME NEW s \in Seq(Unit), Arriving(s)
       PROVE  /\ Full(Len(clientFile)) /\ toServer = <<>> /\ ~reply
              /\ s \o CodeUnits \in Seq(Unit)
              /\ \/ Full(Len(s \o CodeUnits))
                 \/ /\ Len(s \o CodeUnits) >= Len(CodeUnits)
                    /\ Full(Len(s \o CodeUnits) - Len(CodeUnits))
  <2>1. Full(Len(clientFile)) /\ toServer = <<>> /\ ~reply /\ Full(Len(s))
    BY <1>1, <1>10 DEF Arriving
  <2>2. s \o CodeUnits \in Seq(Unit) /\ Len(s \o CodeUnits) = Len(s) + Len(CodeUnits)
        /\ Len(s) \in Nat
    BY <1>8, <1>10, ConcatProperties, LenProperties
  <2>3. /\ Len(s \o CodeUnits) >= Len(CodeUnits)
        /\ Len(s \o CodeUnits) - Len(CodeUnits) = Len(s)
    <3>1. Len(CodeUnits) \in Nat
      BY <1>8, LenProperties
    <3> QED BY <2>2, <3>1
  <2>4. Full(Len(s \o CodeUnits) - Len(CodeUnits))
    BY <2>1, <2>3
  <2> QED BY <2>1, <2>2, <2>3, <2>4
<1>11. WhileRecvCode'
  <2>1. CASE cpc = "recv_code"
    <3>1. CASE Answered(toClient) /\ toServer = <<>> /\ (reply => cmd = "EXEC")
      <4>1. Answered(toClient)'
        BY <1>9, <2>1, <3>1
      <4> QED BY <1>1, <1>2, <2>1, <3>1, <4>1 DEF WhileRecvCode
    <3>2. CASE /\ cmd = "UPLOAD" /\ toServer = <<>>
               /\ toClient = Code("200") \o Received200 /\ Received200 \in Seq(Unit)
               /\ Arriving(Received200)
      <4>1. /\ (Code("200") \o Received200) \o CodeUnits = Code("200") \o (Received200 \o CodeUnits)
            /\ Rest(Code("200") \o (Received200 \o CodeUnits), Code("200")) = Received200 \o CodeUnits
        <5>1. Received200 \in Seq(Unit)
          BY <3>2
        <5> QED BY <1>8, <5>1, AfterReady
      <4>2. toClient' = Code("200") \o (Received200 \o CodeUnits)
        BY <1>7, <2>1, <3>2, <4>1
      <4>3. Received200' = Received200 \o CodeUnits
        BY <4>1, <4>2 DEF Received200
      <4>4. Arriving(Received200)' /\ Received200' \in Seq(Unit)
        <5>1. Full(Len(clientFile'))
          BY <1>1, <1>10, <3>2
        <5> QED BY <1>1, <1>3, <1>7, <1>10, <2>1, <3>2, <4>3, <5>1 DEF Arriving
      <4>5. toClient' = Code("200") \o Received200'
        BY <4>2, <4>3
      <4> QED BY <1>1, <1>2, <1>7, <2>1, <3>2, <4>4, <4>5 DEF WhileRecvCode
    <3> QED BY <1>1, <2>1, <3>1, <3>2 DEF WhileRecvCode
  <2> QED BY <1>1, <2>1 DEF WhileRecvCode
<1>12. WhileDownload'
  <2>1. cpc \in {"open_file", "send_file", "recv_final_code"} /\ cmd = "DOWNLOAD" => Answered(toClient)'
    BY <1>1, <1>9 DEF WhileDownload, Abandoned
  <2> QED BY <1>1, <2>1 DEF WhileDownload
<1>13. WhileUpload'
  <2>1. CASE cmd = "UPLOAD" /\ cpc \in {"open_file", "recv_file"}
    <3>1. toClient \in Seq(Unit) /\ Arriving(toClient) /\ (cpc = "open_file" => clientFile = <<>>)
      BY <2>1 DEF WhileUpload
    <3>2. Full(Len(clientFile'))
      BY <1>1, <1>10, <3>1
    <3>3. Arriving(toClient)' /\ toClient' \in Seq(Unit)
      BY <1>1, <1>3, <1>7, <1>10, <2>1, <3>1, <3>2 DEF Arriving
    <3> QED BY <1>1, <2>1, <3>1, <3>3 DEF WhileUpload
  <2>2. CASE cmd = "UPLOAD" /\ cpc = "recv_final_code"
    <3>1. clientFile = File(size) /\ Answered(toClient)
      BY <1>1, <2>2 DEF WhileUpload, Abandoned
    <3> QED BY <1>1, <1>3, <1>9, <2>2, <3>1 DEF WhileUpload
  <2> QED BY <1>1, <1>7, <2>1, <2>2 DEF WhileUpload
<1>14. WhileExchanging' /\ WhileSendCommand' /\ WhileRecvOutput'
  BY <1>1, <1>7 DEF WhileExchanging, WhileSendCommand, WhileRecvOutput
<1>15. Reports'
  BY <1>1, <1>7 DEF Reports, Transfer
<1>90. Confirmed'
  BY <1>1, <1>7 DEF Confirmed
<1> QED BY <1>4, <1>5, <1>6, <1>11, <1>12, <1>13, <1>14, <1>15, <1>90

(* The worker sends the result of its answer.                              *)
LEMMA ServerSendResultAgrees ==
  ASSUME Exchange, whole, Agreement, ServerSendResult
  PROVE  Agreement'
<1> USE DEF Agreement, ServerFacts, ClientFacts, Closing, Working, Exchanging, Early,
     Leaves
<1>1. /\ UNCHANGED <<cpc, cret, cmd, complete, size, sent, serverFile, clientFile, toServer,
                     clientOpen, serverOpen, code, reply, outcome>>
      /\ spc = "send_result"
      /\ \/ /\ spc' = "close"
            /\ toClient' = IF clientOpen THEN toClient \o ResultUnits ELSE toClient
         \/ spc' = "exited" /\ ~clientOpen /\ UNCHANGED toClient
  BY DEF ServerSendResult, ServerFrame, request, clientVars, network, answer,
     ResultUnits,
     ServerGoto, Continue, ServerSends, ServerSendFails
<1>2. serverOpen /\ cmd # "UNSUPPORTED"
  BY <1>1 DEF RunsCommand
<1>3. /\ CommandUnits' = CommandUnits /\ File(size)' = File(size)
      /\ CodeUnits' = CodeUnits /\ ResultUnits' = ResultUnits
  BY <1>1 DEF CommandUnits, CodeUnits, ResultUnits
<1>4. ServerTypes' /\ RunsCommand' /\ Replied'
  BY <1>1, <1>2 DEF ServerTypes, RunsCommand, Replied, Transfer
<1>5. FileReceived'
  BY <1>1, <1>3 DEF FileReceived
<1>6. FileSent'
  <2>1. Full(sent)' = Full(sent) /\ (sent <= size)' = (sent <= size)
    BY <1>1
  <2> QED BY <1>1, <2>1 DEF FileSent
<1>7. /\ cpc \in AfterCommand \cup Leaving
      /\ cpc \in AfterCommand =>
           clientOpen /\ toClient' = toClient \o ResultUnits /\ spc' = "close"
  BY <1>1, Positions DEF Leaving, Reports, AfterCommand
<1>8. /\ ResultUnits \in Seq(Unit) /\ <<>> \o ResultUnits = ResultUnits
      /\ ~reply => ResultUnits = <<>>
  BY AnswerUnits, ConcatEmptySeq
<1>9. ASSUME Answered(toClient), cpc \in AfterCommand
      PROVE  Answered(toClient)'
  <2>1. toClient = CodeUnits
    BY <1>1, <1>9 DEF Answered
  <2> QED BY <1>1, <1>3, <1>7, <1>9, <2>1 DEF Answered
<1>10. ASSUME Abandoned, cpc \in AfterCommand
       PROVE  Abandoned'
  BY <1>1, <1>7, <1>8, <1>10 DEF Abandoned
<1>11. ASSUME NEW s \in Seq(Unit), Arriving(s)
       PROVE  /\ Full(Len(clientFile)) /\ toServer = <<>> /\ ~reply /\ ResultUnits = <<>>
              /\ s \o ResultUnits = s
              /\ Full(Len(s)) \/ (Len(s) >= Len(CodeUnits) /\ Full(Len(s) - Len(CodeUnits)))
  BY <1>1, <1>8, <1>11, ConcatEmptySeq DEF Arriving
<1>12. WhileRecvCode'
  <2>1. CASE cpc = "recv_code"
    <3>1. CASE Answered(toClient) /\ toServer = <<>> /\ (reply => cmd = "EXEC")
      <4>1. Answered(toClient)'
        BY <1>9, <2>1, <3>1 DEF AfterCommand
      <4> QED BY <1>1, <1>2, <2>1, <3>1, <4>1 DEF WhileRecvCode
    <3>2. CASE /\ cmd = "UPLOAD" /\ toServer = <<>>
               /\ toClient = Code("200") \o Received200 /\ Received200 \in Seq(Unit)
               /\ Arriving(Received200)
      <4>1. (Code("200") \o Received200) \o <<>> = Code("200") \o Received200
        <5>1. Code("200") \o Received200 \in Seq(Unit)
          <6>1. Code("200") \in Seq(Unit)
            BY MessageUnits DEF Code, Codes
          <6>2. Received200 \in Seq(Unit)
            BY <3>2
          <6> QED BY <6>1, <6>2, ConcatProperties
        <5> QED BY <5>1, ConcatEmptySeq
      <4>2. toClient' = toClient
        BY <1>7, <1>11, <2>1, <3>2, <4>1 DEF AfterCommand
      <4>3. Received200' = Received200
        BY <4>2 DEF Received200
      <4>4. Arriving(Received200)' /\ Received200' \in Seq(Unit)
        <5>1. Full(Len(clientFile'))
          BY <1>1, <1>11, <3>2
        <5> QED BY <1>1, <1>3, <1>7, <1>11, <2>1, <3>2, <4>3, <5>1 DEF Arriving, AfterCommand
      <4>5. toClient' = Code("200") \o Received200'
        BY <3>2, <4>2, <4>3
      <4> QED BY <1>1, <1>2, <1>7, <2>1, <3>2, <4>4, <4>5 DEF WhileRecvCode,
           AfterCommand
    <3> QED BY <1>1, <2>1, <3>1, <3>2 DEF WhileRecvCode
  <2> QED BY <1>1, <2>1 DEF WhileRecvCode
<1>13. WhileDownload'
  <2>1. CASE cpc \in {"open_file", "send_file", "recv_final_code"} /\ cmd = "DOWNLOAD"
    <3>1. Answered(toClient) \/ Abandoned
      BY <1>1, <2>1 DEF WhileDownload
    <3>2. Answered(toClient)' \/ Abandoned'
      BY <1>9, <1>10, <2>1, <3>1 DEF AfterCommand
    <3> QED BY <1>1, <2>1, <3>2 DEF WhileDownload
  <2> QED BY <1>1, <2>1 DEF WhileDownload
<1>14. WhileUpload'
  <2>1. CASE cmd = "UPLOAD" /\ cpc \in {"open_file", "recv_file"}
    <3>1. toClient \in Seq(Unit) /\ Arriving(toClient) /\ (cpc = "open_file" => clientFile = <<>>)
      BY <2>1 DEF WhileUpload
    <3>2. Full(Len(clientFile'))
      BY <1>1, <1>11, <3>1
    <3>3. Arriving(toClient)' /\ toClient' \in Seq(Unit)
      BY <1>1, <1>3, <1>7, <1>11, <2>1, <3>1, <3>2 DEF Arriving, AfterCommand
    <3> QED BY <1>1, <2>1, <3>1, <3>3 DEF WhileUpload
  <2>2. CASE cmd = "UPLOAD" /\ cpc = "recv_final_code"
    <3>1. (clientFile = File(size) /\ Answered(toClient)) \/ Abandoned
      BY <1>1, <2>2 DEF WhileUpload, Abandoned
    <3>2. (clientFile = File(size) /\ Answered(toClient)') \/ Abandoned'
      BY <1>9, <1>10, <2>2, <3>1 DEF AfterCommand
    <3> QED BY <1>1, <1>3, <2>2, <3>2 DEF WhileUpload
  <2>3. CASE cmd = "UPLOAD" /\ cpc = "send_confirm"
    <3>1. Abandoned
      BY <1>1, <2>3 DEF WhileUpload
    <3>2. Abandoned'
      BY <1>10, <2>3, <3>1 DEF AfterCommand
    <3> QED BY <1>1, <2>3, <3>2 DEF WhileUpload
  <2> QED BY <1>1, <2>1, <2>2, <2>3 DEF WhileUpload
<1>15. WhileRecvOutput'
  <2>1. cpc = "recv_output" => toClient' = ResultUnits /\ spc' = "close"
    BY <1>1, <1>7, <1>8 DEF WhileRecvOutput, AfterCommand
  <2> QED BY <1>1, <1>3, <2>1 DEF WhileRecvOutput
<1>16. WhileExchanging' /\ WhileSendCommand'
  BY <1>1, <1>7 DEF WhileExchanging, WhileSendCommand, AfterCommand, Leaving
<1>17. Reports'
  BY <1>1, <1>7 DEF Reports, Transfer, AfterCommand, Leaving
<1>90. Confirmed'
  BY <1>1, <1>7 DEF Confirmed
<1> QED BY <1>4, <1>5, <1>6, <1>12, <1>13, <1>14, <1>15, <1>16, <1>17, <1>90

(* The worker closes the connection.                                       *)
LEMMA ServerCloseAgrees ==
  ASSUME Exchange, whole, Agreement, ServerClose
  PROVE  Agreement'
<1> USE DEF Agreement, ServerFacts, ClientFacts, Closing, Working, Exchanging, Early,
     Leaves
<1>1. /\ UNCHANGED <<cpc, cret, cmd, complete, size, sent, serverFile, clientFile, toServer,
                     toClient, clientOpen, code, reply, outcome>>
      /\ spc = "close" /\ spc' = "closed"
  BY DEF ServerClose, ServerFrame, request, clientVars, network, answer, ServerGoto,
     Continue,
     ServerCloses
<1>2. /\ CommandUnits' = CommandUnits /\ File(size)' = File(size) /\ Received200' = Received200
      /\ CodeUnits' = CodeUnits /\ ResultUnits' = ResultUnits
  BY <1>1 DEF CommandUnits, CodeUnits, ResultUnits, Received200
<1>3. ServerTypes' /\ RunsCommand' /\ Replied'
  BY <1>1 DEF ServerTypes, RunsCommand, Replied, Transfer
<1>4. FileReceived'
  BY <1>1, <1>2 DEF FileReceived
<1>5. FileSent'
  <2>1. Full(sent)' = Full(sent) /\ (sent <= size)' = (sent <= size)
    BY <1>1
  <2> QED BY <1>1, <2>1 DEF FileSent
<1>6. ASSUME NEW s, Arriving(s)
      PROVE  /\ Full(Len(clientFile')) /\ toServer = <<>> /\ ~reply
             /\ Full(Len(s)) \/ (Len(s) >= Len(CodeUnits) /\ Full(Len(s) - Len(CodeUnits)))
  BY <1>1, <1>6 DEF Arriving
<1>7. /\ Answered(toClient) => Answered(toClient)'
      /\ Abandoned => Abandoned'
      /\ Arriving(toClient) => Arriving(toClient)'
      /\ Arriving(Received200) => Arriving(Received200)'
  <2>1. Answered(toClient) => Answered(toClient)'
    BY <1>1, <1>2 DEF Answered
  <2>2. Abandoned => Abandoned'
    BY <1>1 DEF Abandoned
  <2>3. Arriving(toClient) => Arriving(toClient)'
    BY <1>1, <1>2, <1>6 DEF Arriving
  <2>4. Arriving(Received200) => Arriving(Received200)'
    BY <1>1, <1>2, <1>6 DEF Arriving
  <2> QED BY <2>1, <2>2, <2>3, <2>4
<1>8. WhileRecvCode'
  BY <1>1, <1>2, <1>7 DEF WhileRecvCode
<1>9. WhileDownload' /\ WhileUpload'
  <2>1. WhileDownload'
    BY <1>1, <1>7 DEF WhileDownload
  <2>2. WhileUpload'
    BY <1>1, <1>2, <1>7 DEF WhileUpload
  <2> QED BY <2>1, <2>2
<1>10. WhileRecvOutput' /\ WhileExchanging' /\ WhileSendCommand'
  BY <1>1, <1>2 DEF WhileRecvOutput, WhileExchanging, WhileSendCommand
<1>11. Reports'
  BY <1>1, <1>2 DEF Reports, Transfer
<1>90. Confirmed'
  BY <1>1, <1>2 DEF Confirmed
<1> QED BY <1>3, <1>4, <1>5, <1>8, <1>9, <1>10, <1>11, <1>90

(* What the worker knows stays true while the client calls recv().         *)
LEMMA ServerFactsKept ==
  ASSUME ServerFacts,
         UNCHANGED <<spc, cmd, complete, size, sent, code, reply, outcome, serverFile,
                     serverOpen, toServer>>
  PROVE  ServerFacts'
<1> USE DEF ServerFacts
<1>1. CommandUnits' = CommandUnits /\ File(size)' = File(size) /\ Read(sent)' = Read(sent)
  BY DEF CommandUnits, Read
<1>2. ServerTypes'
  BY DEF ServerTypes
<1>3. RunsCommand'
  BY DEF RunsCommand, Exchanging, Working, Closing
<1>4. Replied'
  BY DEF Replied, Transfer
<1>5. FileSent'
  BY DEF FileSent, Exchanging
<1>6. (sent <= size)' = (sent <= size) /\ Full(sent)' = Full(sent)
      /\ Full(Len(serverFile))' = Full(Len(serverFile))
  OBVIOUS
<1>7. FileReceived'
  BY <1>1, <1>6 DEF FileReceived, Exchanging
<1> QED BY <1>2, <1>3, <1>4, <1>5, <1>7

(* The client closes, after an error or a session without one.             *)
LEMMA ClientLeaves ==
  ASSUME Agreement,
         UNCHANGED <<spc, cmd, complete, size, sent, code, reply, outcome, serverFile,
                     serverOpen, toServer, clientFile>>,
         cpc' \in Leaving, clientOpen' \/ cpc' = "done", clientOpen' => clientOpen,
         cret' = "OK" => outcome = "OK" /\ spc \in Closing /\ (cmd = "UPLOAD" => clientFile = File(size))
  PROVE  Agreement'
<1> USE DEF Agreement, ClientFacts, Leaving
<1>1. ServerFacts'
  BY ServerFactsKept, SizesAreNat
<1>2. WhileExchanging' /\ WhileSendCommand' /\ WhileRecvCode' /\ WhileDownload' /\ WhileUpload'
      /\ WhileRecvOutput'
  BY DEF WhileExchanging, WhileSendCommand, WhileRecvCode, WhileDownload, WhileUpload,
     WhileRecvOutput, Early
<1>3. File(size)' = File(size)
  OBVIOUS
<1>4. Reports'
  BY <1>3 DEF Reports, Leaves, Closing, Transfer
<1>90. Confirmed'
  BY <1>3 DEF Confirmed
<1> QED BY <1>1, <1>2, <1>4, <1>90

(* A stream of one message is received as that message.                    *)
LEMMA WholeStream ==
  ASSUME NEW U, NEW s \in Seq(U), Len(s) = MessageSize, NEW n \in Nat \ {0}, n >= MessageSize,
         whole, NEW got \in Received(s, n)
  PROVE  Len(got) = MessageSize /\ got = s /\ Rest(s, got) = <<>>
<1>1. /\ got \in Seq(U) /\ Rest(s, got) \in Seq(U) /\ s = got \o Rest(s, got)
      /\ Len(got) \in 1 .. n /\ Len(got) <= Len(s)
      /\ Len(s) = Len(got) + Len(Rest(s, got))
      /\ Len(got) = n \/ (got = s /\ Rest(s, got) = <<>>)
  BY WholeReceived
<1>2. CASE got = s /\ Rest(s, got) = <<>>
  BY <1>2
<1>3. CASE Len(got) = n
  <2>1. Len(got) = MessageSize /\ Len(Rest(s, got)) = 0
    <3>1. Len(Rest(s, got)) \in Nat
      BY <1>1, LenProperties
    <3> QED BY <1>1, <1>3, <3>1 DEF MessageSize
  <2>2. Rest(s, got) = <<>>
    BY <1>1, <2>1, EmptySeq
  <2>3. got \o <<>> = got
    BY <1>1, ConcatEmptySeq
  <2> QED BY <1>1, <2>1, <2>2, <2>3
<1> QED BY <1>1, <1>2, <1>3

(* The same for any message and any buffer that fits it.                   *)
LEMMA WholeMessage ==
  ASSUME NEW kind, NEW value, whole
  PROVE  \A n \in Nat \ {0} : n >= MessageSize => \A got \in Received(Message(kind, value), n) :
           Len(got) = MessageSize /\ got = Message(kind, value) /\ Rest(Message(kind, value), got) = <<>>
<1> DEFINE m == Message(kind, value)
           units == {<<kind, value, 1>>, <<kind, value, 2>>}
<1>1. m \in Seq(units) /\ Len(m) = MessageSize
  BY PairUnits DEF Message, MessageSize
<1> HIDE DEF m, units
<1> SUFFICES ASSUME NEW n \in Nat \ {0}, n >= MessageSize, NEW got \in Received(m, n)
             PROVE  Len(got) = MessageSize /\ got = m /\ Rest(m, got) = <<>>
  BY DEF m
<1> QED BY <1>1, WholeStream

-----------------------------------------------------------------------------
(* The exchange keeps both sides at its own calls.                         *)

LEMMA ServerAuthenticationAgrees ==
  ASSUME Exchange, whole, Agreement, ServerAuthentication, SessionFrame
  PROVE  Agreement'
<1> USE DEF Agreement, ServerFacts, ClientFacts, Closing, Working, Exchanging, Early,
     Leaves
<1>1. /\ UNCHANGED <<cpc, cret, cmd, complete, size, sent, serverFile, clientFile,
                     clientOpen, serverOpen, code, reply, outcome>>
      /\ spc \in Exchanging \cup {"send_200", "send_400"}
      /\ spc' \in Exchanging \cup {"close", "send_200", "send_400", "recv_command"}
  BY DEF SessionFrame, ServerAuthentication, ServerRecvHelo, ServerSend300,
     ServerSendChallenge,
     ServerRecvAuth, ServerSendVerdict, answer, ServerGoto, ServerReceives,
     ServerHearsNothing,
     ServerSends, ServerSendFails, network
<1>2. spc \in Exchanging =>
        \/ spc' \in Exchanging
        \/ spc' \in {"send_200", "send_400"} /\ toServer' = <<>> /\ UNCHANGED toClient
             /\ (cpc = "recv_verdict" => toClient = <<>>) /\ cpc \in {"recv_verdict"} \cup Leaving
        \/ spc' = "close" /\ cpc \in Leaving
  <2>1. ~clientOpen => cpc \in Leaving
    BY DEF Reports, Leaving
  <2>2. CASE ServerRecvHelo
    <3>1. CASE ServerHearsNothing
      BY <2>1, <2>2, <3>1 DEF ServerRecvHelo, ServerHearsNothing, ServerGoto
    <3>2. ASSUME NEW got \in Received(toServer, MessageSize),
                 ServerGoto(IF got = HELO THEN "send_300" ELSE "close")
          PROVE  spc' = "send_300"
      <4>1. toServer = HELO
        BY <2>2, NoneReceived DEF ServerRecvHelo, Exchange, WhileRecvHelo, MessageSize
      <4>2. got \in Received(HELO, MessageSize)
        BY <4>1
      <4>3. got = HELO
        <5>1. \A g \in Received(HELO, MessageSize) : g = HELO
          <6>1. MessageSize \in Nat \ {0} /\ MessageSize >= MessageSize
            BY DEF MessageSize
          <6>2. \A g \in Received(Message("HELO", ""), MessageSize) : g = Message("HELO", "")
            BY <6>1, WholeMessage
          <6> QED BY <6>2 DEF HELO
        <5> QED BY <4>2, <5>1
      <4> QED BY <3>2, <4>3 DEF ServerGoto
    <3> QED BY <2>2, <3>1, <3>2 DEF ServerRecvHelo, HELO, ServerGoto
  <2>3. CASE ServerSend300 \/ ServerSendChallenge
    BY <2>1, <2>3 DEF ServerSend300, ServerSendChallenge, ServerSendFails, ServerGoto
  <2>4. CASE ServerRecvAuth
    <3>1. CASE ServerHearsNothing /\ ServerGoto("close")
      BY <2>1, <2>4, <3>1 DEF ServerHearsNothing, ServerGoto
    <3>2. ASSUME NEW got \in Received(toServer, BufferSize), ServerReceives(got),
                 Len(got) # MessageSize \/ spc' \in {"send_200", "send_400"}
          PROVE  /\ spc' \in {"send_200", "send_400"} /\ toServer' = <<>> /\ UNCHANGED toClient
                 /\ (cpc = "recv_verdict" => toClient = <<>>) /\ cpc \in {"recv_verdict"} \cup Leaving
      <4>1. toServer # <<>>
        BY NoneReceived, BufferAssumption
      <4>2. PICK t \in Tokens : toServer = AUTH(t)
        BY <2>4, <4>1 DEF ServerRecvAuth, Exchange, WhileRecvAuth
      <4>3. Len(got) = MessageSize /\ Rest(toServer, got) = <<>>
        BY <4>2, WholeMessage, BufferAssumption DEF AUTH, MessageSize
      <4>4. (cpc = "recv_verdict" => toClient = <<>>) /\ cpc \in {"recv_verdict"} \cup Leaving
        BY <2>4, <4>1 DEF ServerRecvAuth, Exchange, WhileRecvAuth, Leaving
      <4> QED BY <3>2, <4>3, <4>4 DEF ServerReceives
    <3> QED BY <2>4, <3>1, <3>2 DEF ServerRecvAuth, ServerGoto
  <2>5. CASE ServerSendVerdict
    BY <2>5 DEF ServerSendVerdict
  <2> QED BY <2>2, <2>3, <2>4, <2>5 DEF ServerAuthentication
<1>3. spc \in {"send_200", "send_400"} =>
        /\ UNCHANGED toServer
        /\ \/ spc = "send_200" /\ spc' = "recv_command" /\ (cpc = "recv_verdict" => toClient' = Code("200"))
           \/ spc = "send_400" /\ spc' = "close" /\ (cpc = "recv_verdict" => toClient' = Code("400"))
           \/ spc' = "close" /\ cpc \in Leaving
  <2>1. CASE ServerSendVerdict
    <3>1. cpc = "recv_verdict" => toClient = <<>> /\ toServer = <<>> /\ clientOpen
      BY <2>1 DEF ServerSendVerdict, WhileExchanging, Reports
    <3>2. <<>> \o Code("200") = Code("200") /\ <<>> \o Code("400") = Code("400")
      BY SentFirst DEF Code
    <3>3. ~clientOpen => cpc \in Leaving
      BY DEF Reports, Leaving
    <3> QED BY <2>1, <3>1, <3>2, <3>3 DEF ServerSendVerdict, ServerSends,
         ServerSendFails, ServerGoto, network
  <2> QED BY <2>1 DEF ServerAuthentication, ServerRecvHelo, ServerSend300,
       ServerSendChallenge, ServerRecvAuth
<1>4. /\ CommandUnits' = CommandUnits /\ File(size)' = File(size)
  BY <1>1 DEF CommandUnits
<1>5. ServerTypes' /\ RunsCommand' /\ Replied'
  <2>1. RunsCommand'
    BY <1>1 DEF RunsCommand
  <2>2. ServerTypes' /\ Replied'
    BY <1>1 DEF ServerTypes, Replied, Transfer
  <2> QED BY <2>1, <2>2
<1>6. (serverFile = <<>> /\ (cmd = "DOWNLOAD" => sent = 0)) \/ spc = "send_400"
  BY <1>1 DEF FileReceived
<1>7. FileReceived'
  <2>1. spc' \in {"send_200", "recv_command"} => toServer' = <<>>
    BY <1>1, <1>2, <1>3 DEF FileReceived
  <2>2. spc' # "close" => spc # "send_400"
    BY <1>1, <1>3
  <2> QED BY <1>1, <1>2, <1>4, <1>6, <2>1, <2>2 DEF FileReceived
<1>8. FileSent'
  <2>1. Full(sent)' = Full(sent) /\ (sent <= size)' = (sent <= size)
    BY <1>1
  <2> QED BY <1>1, <1>3, <2>1 DEF FileSent
<1>9. cpc \in Early \cup Leaving
  BY <1>1, Positions
<1>10. WhileExchanging'
  BY <1>1, <1>2, <1>3, <1>9 DEF WhileExchanging, Leaving
<1>11. WhileSendCommand' /\ WhileRecvCode' /\ WhileDownload' /\ WhileUpload' /\ WhileRecvOutput'
  BY <1>1, <1>9 DEF WhileSendCommand, WhileRecvCode, WhileDownload, WhileUpload,
     WhileRecvOutput, Leaving
<1>12. Reports'
  BY <1>1, <1>9 DEF Reports, Transfer, Leaving
<1>90. Confirmed'
  BY <1>1, <1>9 DEF Confirmed
<1> QED BY <1>5, <1>7, <1>8, <1>10, <1>11, <1>12, <1>90

(* The client's part of it.                                                *)
LEMMA ClientAuthenticationAgrees ==
  ASSUME Exchange, whole, Agreement, ClientAuthentication, SessionFrame
  PROVE  Agreement'
<1> USE DEF Agreement, ClientFacts, Closing, Exchanging, Early, Leaving
<1>1. /\ UNCHANGED <<spc, cmd, complete, size, sent, serverFile, clientFile,
                     clientOpen, serverOpen, code, reply, outcome>>
      /\ cpc \in Early /\ cpc' \in Early \cup {"send_command", "close"}
      /\ cret' = "OK" => cret = "OK" /\ cpc' # "close"
      /\ cpc \in {"send_helo", "send_auth"} \/ UNCHANGED toServer
  BY DEF SessionFrame, ClientAuthentication, ClientSendHelo, ClientRecv300,
     ClientRecvChallenge,
     ClientSendAuth, ClientRecvVerdict, answer, ClientGoto, ClientReturns,
     ClientReceives,
     ClientHearsNothing, ClientSends, ClientSendFails, network
<1>2. cret # "OK" /\ clientOpen
  BY <1>1 DEF Reports, Leaves
<1>3. clientFile = <<>> /\ sent = 0
      /\ (cpc # "recv_verdict" => spc \in Exchanging /\ serverOpen)
  BY <1>1 DEF WhileExchanging, ServerFacts, RunsCommand
<1>4. CASE cpc' = "close"
  <2>1. UNCHANGED toServer
    BY <1>1, <1>3, <1>4 DEF ClientAuthentication, ClientSendHelo, ClientRecv300,
       ClientRecvChallenge,
       ClientSendAuth, ClientRecvVerdict, ClientGoto, ClientReturns, ClientSendFails,
       network
  <2> QED BY <1>1, <1>2, <1>4, <2>1, ClientLeaves
<1>5. CASE cpc' \in Early
  <2>1. cpc # "recv_verdict"
    BY <1>5 DEF ClientAuthentication, ClientSendHelo, ClientRecv300,
       ClientRecvChallenge,
       ClientSendAuth, ClientRecvVerdict, ClientGoto, ClientReturns
  <2>2. ServerFacts'
    <3> USE <1>1, <1>3, <2>1 DEF ServerFacts, Working
    <3>1. ServerTypes' /\ Replied'
      BY DEF ServerTypes, Replied, Transfer
    <3>2. RunsCommand'
      BY DEF RunsCommand
    <3>3. FileReceived'
      BY DEF FileReceived
    <3>4. FileSent'
      BY <1>5 DEF FileSent
    <3> QED BY <3>1, <3>2, <3>3, <3>4
  <2>3. WhileExchanging'
    BY <1>1, <1>3, <2>1 DEF WhileExchanging
  <2>4. WhileSendCommand' /\ WhileRecvCode' /\ WhileDownload' /\ WhileUpload' /\ WhileRecvOutput'
    BY <1>5 DEF WhileSendCommand, WhileRecvCode, WhileDownload, WhileUpload,
       WhileRecvOutput
  <2>5. Reports'
    BY <1>1, <1>2, <1>5 DEF Reports, Transfer
  <2>90. Confirmed'
    BY <1>1, <1>2, <1>3, <1>5, <2>1 DEF Confirmed
  <2> QED BY <2>2, <2>3, <2>4, <2>5, <2>90
<1>6. CASE cpc' = "send_command"
  <2>1. PICK got \in Received(toClient, MessageSize) :
          got = Code("200") /\ toClient' = Rest(toClient, got) /\ cpc = "recv_verdict" /\ UNCHANGED toServer
    BY <1>6 DEF ClientAuthentication, ClientSendHelo, ClientRecv300,
       ClientRecvChallenge,
       ClientSendAuth, ClientRecvVerdict, ClientGoto, ClientReturns, ClientReceives
  <2>2. toClient # <<>>
    BY NoneReceived DEF MessageSize
  <2>3. spc \notin Exchanging
    BY <2>1, <2>2 DEF Exchange, WhileRecvHelo, WhileSend300, WhileSendChallenge,
       WhileRecvAuth, Leaves
  <2>4. \/ spc = "recv_command" /\ toClient = Code("200") /\ toServer = <<>>
        \/ toClient = Code("400")
    BY <2>1, <2>2, <2>3 DEF WhileExchanging
  <2>5. got = toClient /\ Rest(toClient, got) = <<>>
    BY <2>4, WholeMessage DEF Code, MessageSize
  <2>6. spc = "recv_command" /\ toClient' = <<>> /\ toServer = <<>>
    BY <2>1, <2>4, <2>5, CodesDiffer
  <2>7. ServerFacts'
    BY <1>1, <1>6, <2>1, ServerFactsKept, SizesAreNat
  <2>8. WhileSendCommand'
    BY <1>1, <1>3, <2>1, <2>6 DEF WhileSendCommand
  <2>9. WhileExchanging' /\ WhileRecvCode' /\ WhileDownload' /\ WhileUpload' /\ WhileRecvOutput'
    BY <1>6 DEF WhileExchanging, WhileRecvCode, WhileDownload, WhileUpload,
       WhileRecvOutput
  <2>10. Reports'
    BY <1>1, <1>2, <1>6 DEF Reports, Transfer
  <2>90. Confirmed'
    BY <1>1, <1>2, <1>6, <2>1 DEF Confirmed
  <2> QED BY <2>7, <2>8, <2>9, <2>10, <2>90
<1> QED BY <1>1, <1>4, <1>5, <1>6

(* The client receives a code of the worker's answer.                      *)
LEMMA AnswerReceived ==
  ASSUME Agreement, whole, Answered(toClient), NEW got \in Received(toClient, MessageSize)
  PROVE  /\ \A c : got = Code(c) => code = c
         /\ \/ spc = "send_result" /\ Rest(toClient, got) = <<>>
            \/ spc \in Closing /\ Rest(toClient, got) = ResultUnits
<1>1. ServerTypes /\ Replied
  BY DEF Agreement, ServerFacts
<1>2. toClient # <<>>
  BY NoneReceived DEF MessageSize
<1>3. /\ CodeUnits \in Seq(Unit) /\ ResultUnits \in Seq(Unit)
      /\ code \notin {"none", "short"} => Len(CodeUnits) = MessageSize /\ CodeUnits = Code(code)
      /\ code = "none" => CodeUnits = <<>>
      /\ code = "short" => Len(CodeUnits) = 1
      /\ ~reply => ResultUnits = <<>>
  BY <1>1, AnswerUnits
<1>4. CodeUnits \o <<>> = CodeUnits /\ <<>> \o <<>> = <<>> /\ <<>> \in Seq(Unit)
  BY <1>3, ConcatEmptySeq
<1>5. code \in {"none", "short"} => ResultUnits = <<>>
  BY <1>1, <1>3 DEF Replied, Unwritten
<1>6. code # "none"
  <2> SUFFICES ASSUME code = "none" PROVE FALSE
    OBVIOUS
  <2> QED BY <1>2, <1>3, <1>4, <1>5 DEF Answered
<1>7. CASE code = "short"
  <2>1. toClient = CodeUnits
    BY <1>2, <1>4, <1>5, <1>7 DEF Answered
  <2>2. MessageSize \in Nat \ {0} /\ MessageSize = 2
    BY DEF MessageSize
  <2>3. /\ Len(got) \in 1 .. MessageSize /\ Len(got) <= Len(CodeUnits)
        /\ Len(got) = MessageSize \/ (got = CodeUnits /\ Rest(CodeUnits, got) = <<>>)
    BY <1>3, <2>1, <2>2, WholeReceived
  <2>4. Len(got) = 1 /\ Rest(toClient, got) = <<>>
    <3>3. Len(CodeUnits) = 1 /\ MessageSize = 2
      BY <1>3, <1>7, <2>2
    <3>1. Len(got) # MessageSize
      BY <2>3, <3>3
    <3>2. got = CodeUnits /\ Rest(CodeUnits, got) = <<>>
      BY <2>3, <3>1
    <3> QED BY <1>3, <1>7, <2>1, <3>2
  <2>5. \A c : Len(Code(c)) = 2
    BY DEF Code, Message
  <2>6. \A c : got # Code(c)
    BY <2>4, <2>5
  <2> QED BY <1>2, <1>5, <1>7, <2>4, <2>6 DEF Answered
<1>8. CASE code # "short"
  <2>1. \A r \in Seq(Unit) : \A g \in Received(CodeUnits \o r, MessageSize) :
          g = CodeUnits /\ Rest(CodeUnits \o r, g) = r
    BY <1>3, <1>6, <1>8, MessageFirst
  <2>2. CASE spc = "send_result"
    <3>1. toClient = CodeUnits \o <<>>
      BY <1>4, <2>2 DEF Answered, Closing
    <3>2. got = CodeUnits /\ Rest(toClient, got) = <<>>
      BY <1>4, <2>1, <3>1
    <3> QED BY <1>3, <1>6, <1>8, <2>2, <3>2, CodesDiffer
  <2>3. CASE spc \in Closing
    <3>1. toClient = CodeUnits \o ResultUnits
      BY <2>3 DEF Answered, Closing
    <3>2. got = CodeUnits /\ Rest(toClient, got) = ResultUnits
      BY <1>3, <2>1, <3>1
    <3> QED BY <1>3, <1>6, <1>8, <2>3, <3>2, CodesDiffer
  <2> QED BY <1>2, <2>2, <2>3 DEF Answered
<1> QED BY <1>7, <1>8

(* The client sends its command.                                           *)
LEMMA ClientSendCommandAgrees ==
  ASSUME Exchange, whole, Agreement, ClientSendCommand
  PROVE  Agreement'
<1> USE DEF Agreement, ClientFacts, Closing, Exchanging, Early, Leaving
<1>1. /\ UNCHANGED <<spc, cmd, complete, size, sent, serverFile, clientFile, toClient,
                     clientOpen, serverOpen, code, reply, outcome>>
      /\ cpc = "send_command"
      /\ \/ /\ cpc' = "recv_code" /\ UNCHANGED cret
            /\ toServer' = IF serverOpen THEN toServer \o CommandUnits ELSE toServer
         \/ cpc' = "close" /\ cret' = "CONN_ERR" /\ ~serverOpen
  BY DEF ClientSendCommand, ClientFrame, serverVars, request, ClientGoto, ClientReturns,
     ClientSends, ClientSendFails, network, CommandUnits
<1>2. /\ clientFile = <<>> /\ sent = 0 /\ spc = "recv_command" /\ toServer = <<>> /\ toClient = <<>>
      /\ serverOpen /\ clientOpen /\ cret # "OK"
  BY <1>1 DEF WhileSendCommand, ServerFacts, RunsCommand, Reports, Leaves
<1>3. CommandUnits' = CommandUnits /\ File(size)' = File(size)
  BY <1>1 DEF CommandUnits
<1>4. <<>> \o CommandUnits = CommandUnits
  BY AnswerUnits, ConcatEmptySeq DEF ServerFacts
<1>5. cpc' = "recv_code" /\ toServer' = CommandUnits /\ UNCHANGED cret
  BY <1>1, <1>2, <1>4
<1>6. ServerFacts'
  <2> USE <1>1, <1>2 DEF ServerFacts, Working
  <2>1. ServerTypes' /\ Replied'
    BY DEF ServerTypes, Replied, Transfer
  <2>2. RunsCommand'
    BY DEF RunsCommand
  <2>3. FileReceived'
    BY <1>3, <1>5 DEF FileReceived
  <2>4. FileSent'
    BY <1>5 DEF FileSent
  <2> QED BY <2>1, <2>2, <2>3, <2>4
<1>7. WhileRecvCode'
  BY <1>1, <1>2, <1>3, <1>5 DEF WhileRecvCode
<1>8. WhileExchanging' /\ WhileSendCommand' /\ WhileDownload' /\ WhileUpload' /\ WhileRecvOutput'
  BY <1>5 DEF WhileExchanging, WhileSendCommand, WhileDownload, WhileUpload,
     WhileRecvOutput
<1>9. Reports'
  BY <1>1, <1>2, <1>5 DEF Reports, Transfer
<1>90. Confirmed'
  BY <1>1, <1>2, <1>5 DEF Confirmed
<1> QED BY <1>6, <1>7, <1>8, <1>9, <1>90

(* The client receives a code and acts on it.                              *)
LEMMA ClientRecvCodeAgrees ==
  ASSUME Exchange, whole, Agreement, ClientRecvCode
  PROVE  Agreement'
<1> USE DEF Agreement, ClientFacts, Closing, Exchanging, Early, Leaving
<1>1. /\ UNCHANGED <<spc, cmd, complete, size, sent, serverFile, clientFile, toServer,
                     clientOpen, serverOpen, code, reply, outcome>>
      /\ cpc = "recv_code" /\ clientOpen
  BY DEF ClientRecvCode, ClientFrame, serverVars, request, ClientReceives,
     ClientHearsNothing,
     network, Reports
<1>2. CASE cpc' = "close" /\ cret' # "OK"
  BY <1>1, <1>2, ClientLeaves
<1>3. cret # "OK"
  BY <1>1 DEF Reports, Leaves
<1>4. ASSUME NEW got \in Received(toClient, MessageSize), ClientReceives(got),
             cmd = "EXEC", got = Code("300"), ClientGoto("recv_output")
      PROVE  Agreement'
  <2>1. toClient # <<>>
    BY NoneReceived DEF MessageSize
  <2>2. Answered(toClient)
    BY <1>1, <1>4, <2>1 DEF WhileRecvCode, ServerFacts, RunsCommand
  <2>3. /\ code = "300"
        /\ \/ spc = "send_result" /\ toClient' = <<>>
           \/ spc \in Closing /\ toClient' = ResultUnits
    BY <1>4, <2>2, AnswerReceived DEF ClientReceives
  <2>4. ResultUnits' = ResultUnits
    BY <1>1 DEF ResultUnits
  <2>5. cpc' = "recv_output" /\ UNCHANGED cret
    BY <1>4 DEF ClientGoto
  <2>6. ServerFacts'
    BY <1>1, <2>5, ServerFactsKept, SizesAreNat
  <2>7. WhileRecvOutput'
    BY <1>1, <1>4, <2>3, <2>4, <2>5 DEF WhileRecvOutput, ServerFacts, Replied
  <2>8. WhileExchanging' /\ WhileSendCommand' /\ WhileRecvCode' /\ WhileDownload' /\ WhileUpload'
    BY <2>5 DEF WhileExchanging, WhileSendCommand, WhileRecvCode, WhileDownload,
       WhileUpload
  <2>9. Reports'
    BY <1>1, <1>3, <2>5 DEF Reports
  <2>90. Confirmed'
    BY <1>1, <1>3, <2>5 DEF Confirmed
  <2> QED BY <2>6, <2>7, <2>8, <2>9, <2>90
<1>5. ASSUME NEW got \in Received(toClient, MessageSize), ClientReceives(got),
             cmd \in {"DOWNLOAD", "UPLOAD"}, got = Code("200"), ClientGoto("open_file")
      PROVE  Agreement'
  <2>1. toClient # <<>>
    BY NoneReceived DEF MessageSize
  <2>2. cpc' = "open_file" /\ UNCHANGED cret
    BY <1>5 DEF ClientGoto
  <2>3. ServerFacts'
    BY <1>1, <2>2, ServerFactsKept, SizesAreNat
  <2>4. WhileExchanging' /\ WhileSendCommand' /\ WhileRecvCode' /\ WhileRecvOutput'
    BY <2>2 DEF WhileExchanging, WhileSendCommand, WhileRecvCode, WhileRecvOutput
  <2>5. Reports'
    BY <1>1, <1>3, <1>5, <2>2 DEF Reports, Transfer
  <2>90. Confirmed'
    BY <1>1, <1>3, <1>5, <2>2 DEF Confirmed
  <2>6. Answered(toClient) /\ (reply => cmd = "EXEC") => toClient' = <<>> /\ Abandoned'
    <3> SUFFICES ASSUME Answered(toClient), ~reply PROVE toClient' = <<>> /\ Abandoned'
      BY <1>5
    <3>1. /\ spc \in {"send_result"} \cup Closing
          /\ toClient' \in {<<>>, ResultUnits}
      BY <1>5, AnswerReceived DEF ClientReceives
    <3>2. ResultUnits = <<>>
      BY DEF ResultUnits
    <3> QED BY <1>1, <3>1, <3>2 DEF Abandoned
  <2>7. CASE cmd = "DOWNLOAD"
    <3>1. toClient = Code("200") => toClient' = <<>>
      <4>1. \A g \in Received(Code("200"), MessageSize) : Rest(Code("200"), g) = <<>>
        <5>1. MessageSize \in Nat \ {0} /\ MessageSize >= MessageSize
          BY DEF MessageSize
        <5> QED BY <5>1, WholeMessage DEF Code
      <4> QED BY <1>5, <4>1 DEF ClientReceives
    <3>2. \/ spc = "recv_file" /\ toClient = Code("200")
          \/ Answered(toClient) /\ (reply => cmd = "EXEC")
      BY <1>1, <2>1, <2>7 DEF WhileRecvCode
    <3>3. (spc' = "recv_file" /\ toClient' = <<>>) \/ Abandoned'
      BY <1>1, <2>6, <3>1, <3>2
    <3>4. sent' = 0
      BY <1>1, <2>7 DEF WhileRecvCode
    <3>5. WhileDownload'
      BY <1>1, <2>2, <3>3, <3>4 DEF WhileDownload
    <3>6. WhileUpload'
      BY <1>1, <2>7 DEF WhileUpload
    <3> QED BY <2>3, <2>4, <2>5, <2>90, <3>5, <3>6
  <2>8. CASE cmd = "UPLOAD"
    <3>1. \/ Answered(toClient) /\ toServer = <<>> /\ (reply => cmd = "EXEC")
          \/ /\ toClient = Code("200") \o Received200 /\ Received200 \in Seq(Unit)
             /\ Arriving(Received200)
      BY <1>1, <2>1, <2>8 DEF WhileRecvCode, ServerFacts, RunsCommand
    <3>2. clientFile = <<>> /\ Full(0) /\ Len(<<>>) = 0 /\ <<>> \in Seq(Unit)
      BY <1>1, FullFacts, EmptySeq DEF WhileRecvCode
    <3>3. ASSUME Answered(toClient) /\ toServer = <<>> /\ (reply => cmd = "EXEC")
          PROVE  Arriving(toClient)' /\ toClient' \in Seq(Unit)
      <4>1. toClient' = <<>> /\ Abandoned'
        BY <2>6, <3>3
      <4>2. Full(Len(toClient')) /\ Full(Len(clientFile'))
        BY <1>1, <3>2, <4>1
      <4>3. Arriving(toClient)'
        BY <1>1, <3>3, <4>1, <4>2 DEF Arriving, Abandoned
      <4> QED BY <1>1, <3>2, <4>1, <4>3
    <3>4. ASSUME /\ toClient = Code("200") \o Received200 /\ Received200 \in Seq(Unit)
                 /\ Arriving(Received200)
          PROVE  Arriving(toClient)' /\ toClient' \in Seq(Unit)
      <4>1. \A r \in Seq(Unit) : \A g \in Received(Code("200") \o r, MessageSize) :
               Rest(Code("200") \o r, g) = r
        <5>1. Code("200") \in Seq(Unit) /\ Len(Code("200")) = MessageSize
          BY MessageUnits DEF Code, Codes
        <5> QED BY <5>1, MessageFirst
      <4>2. toClient' = Received200
        <5> HIDE DEF Received200
        <5>1. Received200 \in Seq(Unit)
          BY <3>4
        <5>2. \A g \in Received(Code("200") \o Received200, MessageSize) :
                Rest(Code("200") \o Received200, g) = Received200
          BY <4>1, <5>1
        <5> QED BY <1>5, <3>4, <5>2 DEF ClientReceives
      <4>3. Full(Len(clientFile')) /\ (Read(sent) = Read(sent)') /\ CodeUnits' = CodeUnits
        BY <1>1, <3>4 DEF Arriving, Read, CodeUnits
      <4>4. Arriving(toClient)'
        BY <1>1, <3>4, <4>2, <4>3 DEF Arriving
      <4> QED BY <3>4, <4>2, <4>4
    <3>5. Arriving(toClient)' /\ toClient' \in Seq(Unit)
      BY <3>1, <3>3, <3>4
    <3>6. WhileUpload'
      BY <1>1, <2>2, <3>2, <3>5 DEF WhileUpload
    <3>7. WhileDownload'
      BY <1>1, <2>2, <2>8 DEF WhileDownload
    <3> QED BY <2>3, <2>4, <2>5, <2>90, <3>6, <3>7
  <2> QED BY <1>5, <2>7, <2>8
<1> QED BY <1>1, <1>2, <1>4, <1>5 DEF ClientRecvCode, HandleCode, ClientReturns

(* The client receives the result and ends the session well.               *)
LEMMA ClientRecvOutputAgrees ==
  ASSUME Exchange, whole, Agreement, ClientRecvOutput
  PROVE  Agreement'
<1> USE DEF Agreement, ClientFacts, Closing, Leaving
<1>1. /\ UNCHANGED <<spc, cmd, complete, size, sent, serverFile, clientFile, toServer,
                     clientOpen, serverOpen, code, reply, outcome>>
      /\ cpc = "recv_output" /\ cpc' = "close"
      /\ cret' = "OK" => toClient # <<>>
  BY NoneReceived, BufferAssumption DEF ClientRecvOutput, ClientFrame, serverVars,
     request,
     ClientReceives, ClientHearsNothing, ClientReturns, network
<1>2. clientOpen
  BY <1>1 DEF Reports
<1>3. toClient # <<>> => /\ spc \in Closing /\ reply
  BY <1>1 DEF WhileRecvOutput, ResultUnits
<1>4. cret' = "OK" => outcome = "OK" /\ spc \in Closing /\ (cmd = "UPLOAD" => clientFile = File(size))
  BY <1>1, <1>3 DEF WhileRecvOutput
<1> QED BY <1>1, <1>2, <1>4, ClientLeaves

(* The client opens the file of a transfer.                                *)
LEMMA ClientOpenFileAgrees ==
  ASSUME Exchange, whole, Agreement, ClientOpenFile
  PROVE  Agreement'
<1> USE DEF Agreement, ClientFacts, Closing, Exchanging, Early, Leaving
<1>1. /\ UNCHANGED <<spc, cmd, complete, size, sent, serverFile, clientFile, toServer,
                     toClient, clientOpen, serverOpen, code, reply, outcome>>
      /\ cpc = "open_file"
      /\ \/ /\ cpc' = IF cmd = "DOWNLOAD" THEN "send_file" ELSE "recv_file"
            /\ UNCHANGED cret
         \/ cpc' = "close" /\ cret' = "INT_ERR"
  BY DEF ClientOpenFile, ClientFrame, serverVars, request, ClientGoto, ClientReturns,
     network
<1>2. cret # "OK" /\ clientOpen /\ cmd \in {"DOWNLOAD", "UPLOAD"}
  BY <1>1 DEF Reports, Leaves, Transfer
<1>3. CASE cpc' = "close" /\ cret' = "INT_ERR"
  BY <1>1, <1>2, <1>3, ClientLeaves
<1>4. CASE /\ cpc' = IF cmd = "DOWNLOAD" THEN "send_file" ELSE "recv_file"
           /\ UNCHANGED cret
  <2>1. /\ CommandUnits' = CommandUnits /\ File(size)' = File(size) /\ Read(sent)' = Read(sent)
        /\ CodeUnits' = CodeUnits /\ ResultUnits' = ResultUnits
    BY <1>1 DEF CommandUnits, CodeUnits, ResultUnits, Read
  <2>2. cmd = "DOWNLOAD" => sent = 0
    BY <1>1 DEF WhileDownload
  <2>3. cpc' = "send_file" => cmd = "DOWNLOAD" /\ Full(sent) /\ sent <= size
    <3>1. Full(0)
      BY FullFacts
    <3>2. 0 <= size
      BY SizesAreNat
    <3> QED BY <1>2, <1>4, <2>2, <3>1, <3>2
  <2>4. ServerFacts'
    BY <1>1, <2>3, ServerFactsKept, SizesAreNat
  <2>5. WhileExchanging' /\ WhileSendCommand' /\ WhileRecvCode' /\ WhileRecvOutput'
    BY <1>2, <1>4 DEF WhileExchanging, WhileSendCommand, WhileRecvCode, WhileRecvOutput
  <2>6. WhileDownload'
    BY <1>1, <1>2, <1>4, <2>1, <2>2, <2>3 DEF WhileDownload, Answered, Abandoned
  <2>7. WhileUpload'
    <3>1. CASE cmd = "UPLOAD"
      <4>1. toClient \in Seq(Unit) /\ Arriving(toClient)
        BY <1>1, <3>1 DEF WhileUpload
      <4>2. Full(Len(clientFile'))
        BY <1>1, <4>1 DEF Arriving
      <4>3. Arriving(toClient)'
        BY <1>1, <2>1, <3>1, <4>1, <4>2 DEF Arriving
      <4> QED BY <1>1, <1>2, <1>4, <3>1, <4>1, <4>3 DEF WhileUpload
    <3> QED BY <1>1, <3>1 DEF WhileUpload
  <2>8. Reports'
    BY <1>1, <1>2, <1>4 DEF Reports
  <2>90. Confirmed'
    BY <1>1, <1>2, <1>4 DEF Confirmed
  <2> QED BY <2>4, <2>5, <2>6, <2>7, <2>8, <2>90
<1> QED BY <1>1, <1>3, <1>4

(* The client sends a piece of the file.                                   *)
LEMMA ClientSendFileAgrees ==
  ASSUME Exchange, whole, Agreement, ClientSendFile
  PROVE  Agreement'
<1> USE DEF Agreement, ClientFacts, Closing, Exchanging, Early, Leaving
<1>1. /\ UNCHANGED <<spc, cmd, complete, size, serverFile, clientFile, toClient,
                     clientOpen, serverOpen, code, reply, outcome>>
      /\ cpc = "send_file"
      /\ \/ /\ toServer' = IF serverOpen THEN toServer \o NextPiece ELSE toServer
            /\ sent' = sent + Len(NextPiece) /\ UNCHANGED cret
            /\ cpc' = IF Len(NextPiece) = BufferSize THEN "send_file" ELSE "recv_final_code"
         \/ cpc' = "close" /\ cret' # "OK" /\ UNCHANGED <<toServer, sent>>
  BY DEF ClientSendFile, ClientFrame, serverVars, request, ClientGoto, ClientReturns,
     network,
     ClientSends, ClientSendFails
<1>2. /\ cret # "OK" /\ clientOpen /\ cmd = "DOWNLOAD" /\ Full(sent) /\ sent <= size
      /\ size \in Nat /\ sent \in Nat
  BY <1>1, SizesAreNat DEF Reports, Leaves, WhileDownload
<1>3. CASE cpc' = "close" /\ cret' # "OK" /\ UNCHANGED <<toServer, sent>>
  BY <1>1, <1>2, <1>3, ClientLeaves
<1>4. CASE /\ toServer' = IF serverOpen THEN toServer \o NextPiece ELSE toServer
           /\ sent' = sent + Len(NextPiece) /\ UNCHANGED cret
           /\ cpc' = IF Len(NextPiece) = BufferSize THEN "send_file" ELSE "recv_final_code"
  <2>1. /\ CommandUnits' = CommandUnits /\ File(size)' = File(size)
        /\ CodeUnits' = CodeUnits /\ ResultUnits' = ResultUnits
        /\ Read(sent)' = Read(sent + Len(NextPiece))
    BY <1>1, <1>4 DEF CommandUnits, CodeUnits, ResultUnits, Read
  <2>2. spc \in {"recv_file", "send_code", "send_result", "close", "closed"}
    BY <1>1, <1>2 DEF WhileDownload, Answered, Abandoned
  <2>3. /\ NextPiece \in Seq(Unit)
        /\ sent + Len(NextPiece) <= size
        /\ Len(NextPiece) # BufferSize => sent + Len(NextPiece) = size
        /\ Read(sent) \o NextPiece = Read(sent + Len(NextPiece))
    BY <1>2, PieceUnits
  <2>4. sent + Len(NextPiece) \in Nat
    <3>1. Len(NextPiece) \in Nat /\ sent \in Nat
      BY <1>2, <2>3, LenProperties
    <3> QED BY <3>1
  <2>5. Len(NextPiece) = BufferSize => Full(sent + Len(NextPiece))
    BY <1>2, BufferAssumption, FullFacts
  <2>6. /\ sent' \in Nat
        /\ cpc' = "send_file" => Full(sent') /\ sent' <= size
        /\ cpc' # "send_file" => sent' = size
        /\ cpc' \in {"send_file", "recv_final_code"}
    BY <1>4, <2>3, <2>4, <2>5
  <2>7. ServerTypes' /\ RunsCommand' /\ Replied'
    BY <1>1, <2>6 DEF ServerFacts, ServerTypes, RunsCommand, Replied, Transfer, Working
  <2>8. FileSent'
    <3>1. size' = size
      BY <1>1
    <3> QED BY <1>1, <1>2, <2>2, <2>6, <3>1 DEF FileSent
  <2>9. FileReceived'
    <3>1. CASE spc = "recv_file"
      <4>1. /\ serverOpen /\ toServer \in Seq(Unit) /\ Full(Len(serverFile))
            /\ serverFile \in Seq(Unit)
        BY <3>1, SizesAreNat DEF ServerFacts, FileReceived
      <4>2. serverFile \o toServer = Read(sent) /\ outcome # "OK"
        BY <3>1 DEF ServerFacts, FileReceived, RunsCommand, Working
      <4>3. toServer' = toServer \o NextPiece /\ toServer' \in Seq(Unit)
        <5>1. toServer' = toServer \o NextPiece
          BY <1>4, <4>1
        <5>2. toServer \o NextPiece \in Seq(Unit)
          BY <2>3, <4>1, ConcatProperties
        <5> QED BY <5>1, <5>2
      <4>4. serverFile \o (toServer \o NextPiece) = (serverFile \o toServer) \o NextPiece
        <5>1. NextPiece \in Seq(Unit) /\ toServer \in Seq(Unit) /\ serverFile \in Seq(Unit)
          BY <2>3, <4>1
        <5> QED BY <5>1, Joined
      <4>5. (serverFile \o toServer)' = Read(sent)'
        BY <1>1, <2>1, <2>3, <4>2, <4>3, <4>4
      <4>6. Full(Len(serverFile))' /\ serverOpen' /\ spc' = "recv_file" /\ outcome' # "OK"
        BY <1>1, <3>1, <4>1, <4>2
      <4>7. (Full(sent) /\ sent <= size)' \/ (sent = size)'
        <5>1. size' = size
          BY <1>1
        <5> QED BY <2>6, <5>1
      <4> QED BY <4>3, <4>5, <4>6, <4>7 DEF FileReceived
    <3>2. CASE spc # "recv_file"
      BY <1>1, <2>1, <2>2, <3>2 DEF ServerFacts, FileReceived
    <3> QED BY <3>1, <3>2
  <2>10. WhileDownload'
    BY <1>1, <1>2, <2>1, <2>6 DEF WhileDownload, Answered, Abandoned
  <2>11. WhileExchanging' /\ WhileSendCommand' /\ WhileRecvCode' /\ WhileUpload' /\ WhileRecvOutput'
    BY <1>1, <1>2, <2>6 DEF WhileExchanging, WhileSendCommand, WhileRecvCode,
       WhileUpload, WhileRecvOutput
  <2>12. Reports'
    BY <1>1, <1>2, <1>4, <2>6 DEF Reports, Transfer
  <2>90. Confirmed'
    <3>1. spc # "recv_confirm"
      BY <1>2 DEF ServerFacts, RunsCommand
    <3> QED BY <1>1, <1>2, <3>1 DEF Confirmed
  <2> QED BY <2>7, <2>8, <2>9, <2>10, <2>11, <2>12, <2>90 DEF ServerFacts
<1> QED BY <1>1, <1>3, <1>4

(* The client confirms the file.                                           *)
LEMMA ClientSendConfirmAgrees ==
  ASSUME Exchange, whole, Agreement, ClientSendConfirm
  PROVE  Agreement'
<1> USE DEF Agreement, ClientFacts, Closing, Exchanging, Early, Leaving
<1>1. /\ UNCHANGED <<spc, cmd, complete, size, sent, serverFile, clientFile, toClient,
                     clientOpen, serverOpen, code, reply, outcome>>
      /\ cpc = "send_confirm"
      /\ \/ cpc' = "recv_final_code" /\ UNCHANGED cret
         \/ cpc' = "close" /\ cret' # "OK" /\ UNCHANGED toServer
  BY DEF ClientSendConfirm, ClientFrame, serverVars, request, ClientGoto,
     ClientReturns, network,
     ClientSends, ClientSendFails
<1>2. cret # "OK" /\ clientOpen /\ cmd = "UPLOAD"
  BY <1>1 DEF Reports, Leaves
<1>3. CASE cpc' = "close" /\ cret' # "OK" /\ UNCHANGED toServer
  BY <1>1, <1>2, <1>3, ClientLeaves
<1>4. CASE cpc' = "recv_final_code" /\ UNCHANGED cret
  <2>1. /\ CommandUnits' = CommandUnits /\ File(size)' = File(size)
        /\ CodeUnits' = CodeUnits /\ ResultUnits' = ResultUnits
    BY <1>1 DEF CommandUnits, CodeUnits, ResultUnits
  <2>2. (spc = "recv_confirm" /\ toClient = <<>> /\ clientFile = File(size)) \/ Abandoned
    BY <1>1, <1>2 DEF WhileUpload
  <2>3. spc \in {"recv_confirm", "send_result", "close", "closed"}
    BY <2>2 DEF Abandoned
  <2>4. ServerTypes' /\ RunsCommand' /\ Replied' /\ FileReceived'
    BY <1>1, <2>1, <2>3 DEF ServerFacts, ServerTypes, RunsCommand, Replied, Transfer,
       Working,
       FileReceived
  <2>5. FileSent'
    BY <1>1, <1>4, <2>3 DEF ServerFacts, FileSent
  <2>6. WhileUpload'
    BY <1>1, <1>4, <2>1, <2>2 DEF WhileUpload, Abandoned
  <2>7. WhileExchanging' /\ WhileSendCommand' /\ WhileRecvCode' /\ WhileDownload' /\ WhileRecvOutput'
    BY <1>1, <1>2, <1>4 DEF WhileExchanging, WhileSendCommand, WhileRecvCode,
       WhileDownload, WhileRecvOutput
  <2>8. Reports'
    BY <1>1, <1>2, <1>4 DEF Reports, Transfer
  <2>90. Confirmed'
    BY <1>1, <1>2, <1>4, <2>1, <2>2, <2>3 DEF Confirmed, Abandoned
  <2> QED BY <2>4, <2>5, <2>6, <2>7, <2>8, <2>90 DEF ServerFacts
<1> QED BY <1>1, <1>3, <1>4

(* The client receives the code after a transfer.                          *)
LEMMA ClientRecvFinalCodeAgrees ==
  ASSUME Exchange, whole, Agreement, ClientRecvFinalCode
  PROVE  Agreement'
<1> USE DEF Agreement, ClientFacts, Closing, Exchanging, Early, Leaving
<1>1. /\ UNCHANGED <<spc, cmd, complete, size, sent, serverFile, clientFile, toServer,
                     clientOpen, serverOpen, code, reply, outcome>>
      /\ cpc = "recv_final_code"
      /\ \/ /\ cpc' = "recv_output" /\ UNCHANGED cret
            /\ \E got \in Received(toClient, MessageSize) : toClient' = Rest(toClient, got)
         \/ cpc' = "close" /\ cret' # "OK"
  BY DEF ClientRecvFinalCode, ClientFrame, serverVars, request, ClientGoto,
     ClientReturns, network,
     ClientReceives, ClientHearsNothing
<1>2. cret # "OK" /\ clientOpen /\ cmd \in {"DOWNLOAD", "UPLOAD"}
  BY <1>1 DEF Reports, Leaves, Transfer
<1>3. CASE cpc' = "close" /\ cret' # "OK"
  BY <1>1, <1>2, <1>3, ClientLeaves
<1>4. CASE /\ cpc' = "recv_output" /\ UNCHANGED cret
           /\ \E got \in Received(toClient, MessageSize) : toClient' = Rest(toClient, got)
  <2>1. PICK got \in Received(toClient, MessageSize) : toClient' = Rest(toClient, got)
    BY <1>4
  <2>2. toClient # <<>>
    BY NoneReceived DEF MessageSize
  <2>3. Answered(toClient) /\ (cmd = "UPLOAD" => clientFile = File(size))
    BY <1>1, <1>2, <2>2 DEF WhileDownload, WhileUpload, Abandoned
  <2>4. \/ spc = "send_result" /\ toClient' = <<>>
        \/ spc \in Closing /\ toClient' = ResultUnits
    BY <2>1, <2>3, AnswerReceived
  <2>5. ResultUnits' = ResultUnits /\ File(size)' = File(size)
    BY <1>1 DEF ResultUnits
  <2>6. reply => outcome = "OK"
    BY <1>2 DEF ServerFacts, Replied, Transfer
  <2>7. ServerFacts'
    BY <1>1, <1>4, ServerFactsKept, SizesAreNat
  <2>8. WhileRecvOutput'
    BY <1>1, <1>2, <1>4, <2>3, <2>4, <2>5, <2>6 DEF WhileRecvOutput
  <2>9. WhileExchanging' /\ WhileSendCommand' /\ WhileRecvCode' /\ WhileDownload' /\ WhileUpload'
    BY <1>4 DEF WhileExchanging, WhileSendCommand, WhileRecvCode, WhileDownload,
       WhileUpload
  <2>10. Reports'
    BY <1>1, <1>2, <1>4 DEF Reports, Transfer
  <2>90. Confirmed'
    BY <1>1, <1>2, <1>4 DEF Confirmed
  <2> QED BY <2>7, <2>8, <2>9, <2>10, <2>90
<1> QED BY <1>1, <1>3, <1>4

(* One more recv() of the file by the client, which may get the code       *)
(* behind the file with it.                                                *)
LEMMA FilePieceReceived ==
  ASSUME whole, clientFile \in Seq(Unit), toClient \in Seq(Unit), Full(Len(clientFile)),
         NEW got \in Received(toClient, BufferSize), NEW tail \in 0 .. 2
  PROVE  /\ clientFile \o got \in Seq(Unit) /\ Rest(toClient, got) \in Seq(Unit)
         /\ (clientFile \o got) \o Rest(toClient, got) = clientFile \o toClient
         /\ Len(got) # BufferSize => got = toClient /\ Rest(toClient, got) = <<>> /\ ~Full(Len(toClient))
         /\ Len(got) = BufferSize =>
              /\ Full(Len(clientFile \o got))
              /\ Full(Len(toClient)) => Full(Len(Rest(toClient, got)))
              /\ Len(toClient) >= tail /\ Full(Len(toClient) - tail) =>
                   /\ Len(Rest(toClient, got)) >= tail
                   /\ Full(Len(Rest(toClient, got)) - tail)
<1>1. BufferSize \in Nat \ {0} /\ BufferSize > 2
  BY BufferAssumption
<1> DEFINE rest == Rest(toClient, got)
<1>2. /\ got \in Seq(Unit) /\ rest \in Seq(Unit)
      /\ toClient = got \o rest
      /\ Len(got) \in 1 .. BufferSize
      /\ Len(toClient) = Len(got) + Len(rest)
      /\ Len(got) = BufferSize \/ (got = toClient /\ rest = <<>>)
  BY <1>1, WholeReceived
<1> HIDE DEF rest
<1>3. got \in Seq(Unit) /\ rest \in Seq(Unit)
  BY <1>2
<1>4. clientFile \o got \in Seq(Unit) /\ Len(clientFile \o got) = Len(clientFile) + Len(got)
  BY <1>3, ConcatProperties
<1>5. (clientFile \o got) \o rest = clientFile \o (got \o rest)
  BY <1>3, Joined
<1>6. (clientFile \o got) \o rest = clientFile \o toClient
  BY <1>2, <1>5
<1>7. Len(clientFile) \in Nat /\ Len(got) \in Nat /\ Len(rest) \in Nat
  BY <1>3, LenProperties
<1>8. Len(got) # BufferSize => got = toClient /\ rest = <<>> /\ ~Full(Len(toClient))
  <2> SUFFICES ASSUME Len(got) # BufferSize
               PROVE  got = toClient /\ rest = <<>> /\ ~Full(Len(toClient))
    OBVIOUS
  <2>1. Len(got) \in 1 .. BufferSize - 1
    BY <1>1, <1>2
  <2>2. ~Full(Len(got))
    BY <2>1, FullFacts
  <2> QED BY <1>2, <2>2
<1>9. Len(got) = BufferSize => Full(Len(clientFile \o got))
  BY <1>1, <1>4, <1>7, FullFacts
<1>10. ASSUME Len(got) = BufferSize, Full(Len(toClient)) PROVE Full(Len(rest))
  <2>1. Full(BufferSize + Len(rest))
    BY <1>2, <1>10
  <2> QED BY <1>1, <1>7, <2>1, FullFacts
<1>11. ASSUME Len(got) = BufferSize, Len(toClient) >= tail, Full(Len(toClient) - tail)
       PROVE  Len(rest) >= tail /\ Full(Len(rest) - tail)
  <2> DEFINE n == Len(toClient) - tail
  <2>1. n \in Nat /\ Full(n) /\ n = BufferSize + Len(rest) - tail
    BY <1>1, <1>2, <1>7, <1>11
  <2>2. n \notin 1 .. BufferSize - 1
    <3> HIDE DEF n
    <3> QED BY <2>1, FullFacts
  <2>3. n >= BufferSize
    <3> HIDE DEF n
    <3> QED BY <1>1, <1>7, <2>1, <2>2
  <2>4. Len(rest) - tail \in Nat /\ Full(BufferSize + (Len(rest) - tail))
    <3>1. BufferSize + (Len(rest) - tail) = n
      BY <1>1, <1>2, <1>7, <1>11
    <3> HIDE DEF n
    <3>2. Len(rest) >= tail
      BY <1>1, <1>7, <2>1, <2>3
    <3> QED BY <1>7, <2>1, <3>1, <3>2
  <2>5. Full(Len(rest) - tail)
    BY <1>1, <2>4, FullFacts
  <2> QED BY <1>7, <2>4, <2>5
<1> QED BY <1>3, <1>4, <1>6, <1>8, <1>9, <1>10, <1>11 DEF rest

(* The client receives a piece of the file.                                *)
LEMMA ClientRecvFileAgrees ==
  ASSUME Exchange, whole, Agreement, ClientRecvFile
  PROVE  Agreement'
<1> USE DEF Agreement, ClientFacts, Closing, Exchanging, Early, Leaving
<1>1. /\ UNCHANGED <<spc, cmd, complete, size, sent, serverFile, toServer,
                     clientOpen, serverOpen, code, reply, outcome>>
      /\ cpc = "recv_file"
      /\ \/ /\ UNCHANGED cret
            /\ \E got \in Received(toClient, BufferSize) :
                 /\ toClient' = Rest(toClient, got) /\ clientFile' = clientFile \o got
                 /\ cpc' = IF Len(got) = BufferSize THEN "recv_file" ELSE "send_confirm"
         \/ cpc' = "close" /\ cret' # "OK" /\ UNCHANGED clientFile
  BY DEF ClientRecvFile, ClientFrame, serverVars, request, ClientGoto, ClientReturns,
     network,
     ClientReceives, ClientHearsNothing
<1>2. /\ cret # "OK" /\ clientOpen /\ cmd = "UPLOAD"
      /\ toClient \in Seq(Unit) /\ Arriving(toClient)
      /\ Full(Len(clientFile)) /\ clientFile \in Seq(Unit)
  BY <1>1, SizesAreNat DEF Reports, Leaves, WhileUpload, Arriving
<1>3. CASE cpc' = "close" /\ cret' # "OK" /\ UNCHANGED clientFile
  BY <1>1, <1>2, <1>3, ClientLeaves
<1>4. ASSUME NEW got \in Received(toClient, BufferSize), UNCHANGED cret,
             toClient' = Rest(toClient, got), clientFile' = clientFile \o got,
             cpc' = IF Len(got) = BufferSize THEN "recv_file" ELSE "send_confirm"
      PROVE  Agreement'
  <2>1. /\ File(size)' = File(size) /\ Read(sent)' = Read(sent)
        /\ CodeUnits' = CodeUnits
    BY <1>1 DEF Read, CodeUnits
  <2>2. /\ clientFile' \in Seq(Unit) /\ toClient' \in Seq(Unit)
        /\ clientFile' \o toClient' = clientFile \o toClient
        /\ cpc' \in {"recv_file", "send_confirm"}
        /\ cpc' = "send_confirm" => toClient' = <<>> /\ ~Full(Len(toClient)) /\ clientFile' = clientFile \o toClient
        /\ cpc' = "recv_file" =>
              /\ Full(Len(clientFile'))
              /\ Full(Len(toClient)) => Full(Len(toClient'))
              /\ Len(toClient) >= Len(CodeUnits) /\ Full(Len(toClient) - Len(CodeUnits)) =>
                   Len(toClient') >= Len(CodeUnits) /\ Full(Len(toClient') - Len(CodeUnits))
    <3>1. Len(CodeUnits) \in 0 .. 2
      BY AnswerUnits DEF ServerFacts, MessageSize
    <3> QED BY <1>2, <1>4, <3>1, FilePieceReceived
  <2>3. ServerFacts'
    BY <1>1, <2>2, ServerFactsKept
  <2>4. WhileExchanging' /\ WhileSendCommand' /\ WhileRecvCode' /\ WhileDownload' /\ WhileRecvOutput'
    BY <2>2 DEF WhileExchanging, WhileSendCommand, WhileRecvCode, WhileDownload,
       WhileRecvOutput
  <2>5. Reports'
    BY <1>1, <1>2, <1>4, <2>2 DEF Reports, Transfer
  <2>6. WhileUpload'
    <3>1. CASE cpc' = "recv_file"
      <4>1. Arriving(toClient)'
        BY <1>1, <1>2, <2>1, <2>2, <3>1 DEF Arriving
      <4> QED BY <1>1, <2>2, <3>1, <4>1 DEF WhileUpload
    <3>2. CASE cpc' = "send_confirm"
      <4>1. spc # "send_file"
        <5> SUFFICES ASSUME spc = "send_file" PROVE FALSE
          OBVIOUS
        <5>1. clientFile \o toClient = Read(sent) /\ Full(sent) /\ sent <= size
          BY <1>2 DEF Arriving, ServerFacts, FileSent
        <5> QED BY <1>2, <2>2, <3>2, <5>1, SizesAreNat, PieceSent
      <4>2. spc = "recv_confirm" =>
              clientFile' = File(size) /\ toClient' = <<>> /\ toServer = <<>>
        <5> SUFFICES ASSUME spc = "recv_confirm"
                     PROVE  clientFile' = File(size) /\ toClient' = <<>> /\ toServer = <<>>
          OBVIOUS
        <5>1. clientFile \o toClient = Read(sent) /\ sent = size /\ toServer = <<>>
          BY <1>2 DEF Arriving, ServerFacts, FileSent
        <5>2. Read(size) = File(size)
          BY SizesAreNat, FileUnits
        <5> QED BY <2>2, <3>2, <5>1, <5>2
      <4>3. spc = "recv_confirm" \/ Abandoned'
        BY <1>1, <1>2, <2>2, <3>2, <4>1 DEF Arriving, Abandoned
      <4> QED BY <1>1, <2>1, <3>2, <4>2, <4>3 DEF WhileUpload
    <3> QED BY <2>2, <3>1, <3>2
  <2>90. Confirmed'
    <3>1. outcome # "OK" /\ toServer = <<>>
      BY <1>2 DEF Arriving, ServerFacts, RunsCommand, Working
    <3> QED BY <1>1, <2>2, <3>1 DEF Confirmed
  <2> QED BY <2>3, <2>4, <2>5, <2>6, <2>90
<1> QED BY <1>1, <1>3, <1>4

(* The client closes the connection, or is killed.                         *)
LEMMA ClientEndsAgrees ==
  ASSUME Exchange, whole, Agreement, ClientClose \/ ClientKilled
  PROVE  Agreement'
<1> USE DEF Agreement, ClientFacts, Closing, Leaving
<1>1. /\ UNCHANGED <<spc, cmd, complete, size, sent, serverFile, clientFile, toServer,
                     serverOpen, code, reply, outcome>>
      /\ cpc' = "done" /\ (cret' = "OK" => cret = "OK") /\ clientOpen' = FALSE
  BY DEF ClientClose, ClientKilled, ClientFrame, serverVars, request, ClientGoto,
     ClientCloses, network
<1>2. cret = "OK" => outcome = "OK" /\ spc \in Closing /\ (cmd = "UPLOAD" => clientFile = File(size))
  BY DEF Reports
<1> QED BY <1>1, <1>2, ClientLeaves

(* Both sides agree when a dialogue begins.                                *)
LEMMA DialogueBegins == Begins => Agreement
<1>1. <<>> \in Seq(Unit)
  OBVIOUS
<1> SUFFICES ASSUME Begins PROVE Agreement
  OBVIOUS
<1> USE DEF Begins, Agreement, ServerFacts, ClientFacts, Closing, Exchanging, Early,
     Working, Leaves
<1>2. ServerTypes /\ RunsCommand /\ Replied
  BY <1>1 DEF ServerTypes, RunsCommand, Replied
<1>3. FileReceived /\ FileSent
  BY DEF FileReceived, FileSent
<1>4. WhileExchanging /\ WhileSendCommand /\ WhileRecvCode /\ WhileDownload /\ WhileUpload /\ WhileRecvOutput
  BY DEF WhileExchanging, WhileSendCommand, WhileRecvCode, WhileDownload, WhileUpload,
     WhileRecvOutput
<1>5. Reports
  BY DEF Reports
<1>90. Confirmed
  BY <1>1 DEF Confirmed
<1> QED BY <1>2, <1>3, <1>4, <1>5, <1>90

(* The first dialogue.                                                     *)
LEMMA DialogueInit == Init => DialogueInv
<1> SUFFICES ASSUME Init PROVE DialogueInv
  OBVIOUS
<1>1. Exchange
  BY ExchangeInit
<1>2. code \in Codes /\ size \in Nat
  BY SessionAssumption DEF Init, RequestInit, Codes, Stale
<1>3. Agreement
  BY <1>2, DialogueBegins DEF Begins, Init, NetworkInit, AuthenticationInit, RequestInit
<1> QED BY <1>1, <1>2, <1>3 DEF DialogueInv, Agreement

(* The next client of the worker.                                          *)
LEMMA NextClientAgrees ==
  ASSUME NextClient
  PROVE  code \in Codes => code' \in Codes /\ Agreement'
<1> SUFFICES ASSUME code \in Codes PROVE code' \in Codes /\ Agreement'
  OBVIOUS
<1>1. /\ spc' = "recv_helo" /\ cpc' = "send_helo" /\ cret' = "" /\ clientOpen' /\ serverOpen'
      /\ toServer' = <<>> /\ toClient' = <<>>
      /\ sent' = 0 /\ reply' = FALSE /\ outcome' = "" /\ serverFile' = <<>> /\ clientFile' = <<>>
  BY DEF NextClient
<1>2. code' \in Codes /\ size' \in Nat
  BY SessionAssumption DEF NextClient, Codes, Stale
<1>3. Begins'
  BY <1>1, <1>2 DEF Begins
<1>4. (Begins => Agreement)'
  BY DialogueBegins, PTL
<1> QED BY <1>2, <1>3, <1>4

(* A stuttering step.                                                      *)
LEMMA NothingChanges ==
  ASSUME Agreement, UNCHANGED vars
  PROVE  Agreement'
<1> USE DEF Agreement, ServerFacts, ClientFacts
<1>1. /\ UNCHANGED <<spc, cpc, cret, cmd, complete, size, sent, serverFile, clientFile, toServer,
                     toClient, clientOpen, serverOpen, code, reply, outcome>>
  BY DEF vars, network, request, serverVars, clientVars
<1>2. /\ CommandUnits' = CommandUnits /\ File(size)' = File(size) /\ Read(sent)' = Read(sent)
      /\ CodeUnits' = CodeUnits /\ ResultUnits' = ResultUnits /\ Received200' = Received200
      /\ Full(Len(clientFile))' = Full(Len(clientFile)) /\ Full(Len(serverFile))' = Full(Len(serverFile))
      /\ Full(sent)' = Full(sent) /\ (sent <= size)' = (sent <= size)
      /\ Full(Len(toClient))' = Full(Len(toClient)) /\ Full(Len(Received200))' = Full(Len(Received200))
      /\ (Full(Len(toClient) - Len(CodeUnits)))' = Full(Len(toClient) - Len(CodeUnits))
      /\ (Full(Len(Received200) - Len(CodeUnits)))' = Full(Len(Received200) - Len(CodeUnits))
  BY <1>1 DEF CommandUnits, CodeUnits, ResultUnits, Read, Received200
<1>3. ServerTypes' /\ RunsCommand' /\ Replied'
  BY <1>1 DEF ServerTypes, RunsCommand, Replied, Transfer
<1>4. FileReceived' /\ FileSent'
  <2>1. FileReceived'
    BY <1>1, <1>2 DEF FileReceived
  <2>2. FileSent'
    BY <1>1, <1>2 DEF FileSent
  <2> QED BY <2>1, <2>2
<1>5. Answered(toClient)' = Answered(toClient) /\ Abandoned' = Abandoned
  BY <1>1, <1>2 DEF Answered, Abandoned
<1>6. Arriving(toClient)' = Arriving(toClient)
  BY <1>1, <1>2 DEF Arriving
<1>7. Arriving(Received200)' = Arriving(Received200)
  BY <1>1, <1>2 DEF Arriving
<1>8. WhileExchanging' /\ WhileSendCommand'
  BY <1>1 DEF WhileExchanging, WhileSendCommand
<1>9. WhileRecvCode'
  BY <1>1, <1>2, <1>5, <1>7 DEF WhileRecvCode
<1>10. WhileDownload' /\ WhileUpload'
  BY <1>1, <1>2, <1>5, <1>6 DEF WhileDownload, WhileUpload
<1>11. WhileRecvOutput' /\ Reports'
  BY <1>1, <1>2 DEF WhileRecvOutput, Reports, Leaves, Transfer
<1>90. Confirmed'
  BY <1>1, <1>2 DEF Confirmed
<1> QED BY <1>3, <1>4, <1>8, <1>9, <1>10, <1>11, <1>90

(* What no call of either side changes: the code stays a code, and a       *)
(* dialogue stays cut or uncut.                                            *)
LEMMA AuthenticationKeeps ==
  ASSUME ServerAuthentication \/ ClientAuthentication, SessionFrame
  PROVE  UNCHANGED <<code, whole>>
BY DEF SessionFrame, answer, ServerAuthentication, ServerRecvHelo, ServerSend300,
   ServerSendChallenge,
   ServerRecvAuth, ServerSendVerdict, ClientAuthentication, ClientSendHelo,
   ClientRecv300,
   ClientRecvChallenge, ClientSendAuth, ClientRecvVerdict, ServerReceives,
   ServerHearsNothing,
   ServerSends, ServerSendFails, ClientReceives, ClientHearsNothing, ClientSends,
   ClientSendFails, network

LEMMA ServerStepKeeps ==
  ASSUME code \in Codes, ServerStep
  PROVE  code' \in Codes /\ UNCHANGED whole
<1> USE DEF Continue, Executed, ExecutedWith, ExecutedSilently, answer, network, Codes,
      ServerReceives, ServerHearsNothing, ServerSends, ServerSendFails, ServerCloses
<1>1. CASE ServerRecvCommand  BY <1>1 DEF ServerRecvCommand
<1>2. CASE ServerExec         BY <1>2 DEF ServerExec
<1>3. CASE ServerOpenFile     BY <1>3 DEF ServerOpenFile
<1>4. CASE ServerSendReady    BY <1>4 DEF ServerSendReady
<1>5. CASE ServerRecvFile     BY <1>5 DEF ServerRecvFile
<1>6. CASE ServerSendFile     BY <1>6 DEF ServerSendFile
<1>7. CASE ServerRecvConfirm  BY <1>7 DEF ServerRecvConfirm
<1>8. CASE ServerSendCode     BY <1>8 DEF ServerSendCode
<1>9. CASE ServerSendResult   BY <1>9 DEF ServerSendResult
<1>10. CASE ServerClose       BY <1>10 DEF ServerClose
<1> QED BY <1>1, <1>2, <1>3, <1>4, <1>5, <1>6, <1>7, <1>8, <1>9, <1>10 DEF ServerStep

LEMMA ClientStepKeeps ==
  ASSUME ClientStep \/ ClientKilled
  PROVE  UNCHANGED <<code, whole>>
BY DEF ClientStep, ClientKilled, ClientSendCommand, ClientRecvCode, ClientRecvOutput,
   ClientOpenFile,
   ClientSendFile, ClientRecvFile, ClientSendConfirm, ClientRecvFinalCode,
   ClientClose, ClientFrame,
   serverVars, network, ClientReceives, ClientHearsNothing, ClientSends,
   ClientSendFails, ClientCloses

(* After a code of more than CODE_SIZE nothing the client does reaches what *)
(* the worker has.                                                         *)
LEMMA OverrunKept ==
  ASSUME ServerFacts, Overrun, ServerActs \/ ClientActs \/ ClientKilled \/ UNCHANGED vars
  PROVE  ServerFacts' /\ Overrun'
<1> USE DEF Overrun, Closing
<1>1. /\ UNCHANGED <<cmd, complete, size, code, reply, outcome, serverFile>>
      /\ spc' \in {"send_result", "exited"} \cup Closing
      /\ spc' = "send_result" => spc = "send_result"
      /\ spc' = "closed" \/ ((serverOpen => serverOpen') /\ spc # "closed")
      /\ sent' \in Nat
  <2>1. CASE ServerStep
    <3>1. ServerSendResult \/ ServerClose
      BY <2>1 DEF ServerStep, ServerRecvCommand, ServerExec, ServerOpenFile,
         ServerSendReady, ServerRecvFile, ServerSendFile, ServerRecvConfirm, ServerSendCode
    <3>2. sent \in Nat
      BY DEF ServerFacts, ServerTypes
    <3>3. CASE ServerClose
      BY <3>2, <3>3 DEF ServerClose, ServerFrame, request, answer, Continue, ServerGoto
    <3>4. CASE ServerSendResult
      <4>1. UNCHANGED serverOpen
        BY <3>4 DEF ServerSendResult, ServerSends, ServerSendFails, network
      <4> QED BY <3>2, <3>4, <4>1 DEF ServerSendResult, ServerFrame, request, answer,
           Continue, ServerGoto
    <3> QED BY <3>1, <3>3, <3>4
  <2>2. CASE ClientStep \/ ClientKilled
    <3>1. UNCHANGED <<cmd, complete, size, code, reply, outcome, serverFile, spc, serverOpen>>
      BY <2>2 DEF ClientStep, ClientKilled, ClientSendCommand, ClientRecvCode,
         ClientRecvOutput, ClientOpenFile, ClientSendFile, ClientRecvFile,
         ClientSendConfirm, ClientRecvFinalCode, ClientClose, ClientFrame, request,
         serverVars, network, ClientReceives, ClientHearsNothing, ClientSends,
         ClientSendFails, ClientCloses
    <3>2. sent' = sent \/ sent' = sent + Len(NextPiece)
      BY <2>2 DEF ClientStep, ClientKilled, ClientSendCommand, ClientRecvCode,
         ClientRecvOutput, ClientOpenFile, ClientSendFile, ClientRecvFile,
         ClientSendConfirm, ClientRecvFinalCode, ClientClose
    <3>3. NextPiece \in Seq(Unit)
      <4> DEFINE last == Least(sent + BufferSize, size)
      <4>1. last \in Int /\ last <= size /\ sent + 1 \in Int /\ sent + 1 >= 1
        BY BufferAssumption DEF ServerFacts, ServerTypes, Least
      <4>2. File(size) \in Seq(Unit) /\ Len(File(size)) = size
        BY FileUnits DEF ServerFacts, ServerTypes
      <4> HIDE DEF last
      <4>3. \A i \in sent + 1 .. last : File(size)[i] \in Unit
        BY <4>1, <4>2, ElementOfSeq
      <4>4. SubSeq(File(size), sent + 1, last) \in Seq(Unit)
        BY <4>1, <4>3, SubSeqProperties
      <4> QED BY <4>4 DEF NextPiece, last
    <3>4. Len(NextPiece) \in Nat /\ sent \in Nat
      BY <3>3, LenProperties DEF ServerFacts, ServerTypes
    <3> QED BY <3>1, <3>2, <3>4
  <2>3. CASE ServerAuthentication /\ SessionFrame
    BY <2>3 DEF ServerAuthentication, ServerRecvHelo, ServerSend300, ServerSendChallenge,
       ServerRecvAuth, ServerSendVerdict
  <2>4. CASE ClientAuthentication /\ SessionFrame
    <3>1. UNCHANGED <<spc, serverOpen>>
      BY <2>4 DEF ClientAuthentication, ClientSendHelo, ClientRecv300,
         ClientRecvChallenge, ClientSendAuth, ClientRecvVerdict, ClientReceives,
         ClientHearsNothing, ClientSends, ClientSendFails, network
    <3> QED BY <2>4, <3>1 DEF SessionFrame, answer, ServerFacts, ServerTypes
  <2>5. CASE UNCHANGED vars
    BY <2>5 DEF vars, network, request, serverVars, ServerFacts, ServerTypes
  <2> QED BY <2>1, <2>2, <2>3, <2>4, <2>5 DEF ServerActs, ClientActs
<1>2. Overrun' /\ File(size)' = File(size)
  BY <1>1
<1>3. ServerTypes'
  BY <1>1 DEF ServerFacts, ServerTypes
<1>4. RunsCommand' /\ Replied'
  <2>1. spc' = "closed" \/ serverOpen'
    BY <1>1 DEF ServerFacts, RunsCommand
  <2>3. /\ outcome' = "OK" => reply'
        /\ spc' \in {"send_code", "send_result"} => cmd' # "UNSUPPORTED"
    BY <1>1 DEF ServerFacts, RunsCommand
  <2>4. RunsCommand'
    BY <1>1, <2>1, <2>3 DEF RunsCommand, Exchanging, Working
  <2>2. Replied'
    BY <1>1 DEF ServerFacts, Replied, Transfer
  <2> QED BY <2>2, <2>4
<1>5. FileReceived' /\ FileSent'
  BY <1>1, <1>2 DEF ServerFacts, FileReceived, FileSent, Exchanging
<1> QED BY <1>2, <1>3, <1>4, <1>5 DEF ServerFacts

(* The worker sends a code that nobody wrote.                              *)
LEMMA OverrunBegins ==
  ASSUME ServerFacts, ServerSendCode, code = "overrun"
  PROVE  ServerFacts' /\ Overrun'
<1>1. /\ UNCHANGED <<cmd, complete, size, sent, code, reply, outcome, serverFile, serverOpen>>
      /\ spc = "send_code" /\ spc' \in {"send_result", "exited"}
  BY DEF ServerSendCode, ServerFrame, request, clientVars, network, answer, ServerGoto,
     Continue, ServerSends, ServerSendFails
<1>2. Overrun' /\ File(size)' = File(size)
  BY <1>1 DEF Overrun
<1>3. ServerTypes'
  BY <1>1 DEF ServerFacts, ServerTypes
<1>4. RunsCommand' /\ Replied'
  BY <1>1 DEF ServerFacts, RunsCommand, Replied, Transfer, Exchanging, Working, Closing
<1>5. FileReceived' /\ FileSent'
  BY <1>1, <1>2 DEF ServerFacts, FileReceived, FileSent, Exchanging
<1> QED BY <1>2, <1>3, <1>4, <1>5 DEF ServerFacts

(* Every step preserves the agreement.                                     *)
LEMMA DialogueStep == DialogueInv /\ [Next]_vars => DialogueInv'
<1> SUFFICES ASSUME DialogueInv, [Next]_vars PROVE DialogueInv'
  OBVIOUS
<1> USE DEF DialogueInv, Agreement
<1> DEFINE Holds == ServerFacts /\ (Overrun \/ ClientFacts)
<1>1. Exchange'
  BY ExchangeStep
<1>2. CASE NextClient
  BY <1>1, <1>2, NextClientAgrees
<1>3. CASE UNCHANGED vars
  <2>1. UNCHANGED <<code, whole>>
    BY <1>3 DEF vars, network, serverVars
  <2>2. whole => Holds'
    BY <1>3, NothingChanges, OverrunKept
  <2> QED BY <1>1, <2>1, <2>2
<1>4. CASE ServerStep
  <2>1. code' \in Codes /\ UNCHANGED whole
    BY <1>4, ServerStepKeeps
  <2>2. CASE Overrun
    <3>1. whole => Holds'
      BY <1>4, <2>2, OverrunKept DEF ServerActs
    <3> QED BY <1>1, <2>1, <3>1
  <2>3. CASE ServerSendCode /\ code = "overrun"
    <3>1. whole => Holds'
      BY <2>3, OverrunBegins
    <3> QED BY <1>1, <2>1, <3>1
  <2>4. CASE ~Overrun /\ ~(ServerSendCode /\ code = "overrun")
    <3>1. whole => Agreement
      BY <2>4
    <3>2. whole => Agreement'
      <4> HIDE DEF DialogueInv, Agreement
      <4>1. Exchange
        BY DEF DialogueInv
      <4> QED BY <1>4, <2>4, <3>1, <4>1, ServerRecvCommandAgrees, ServerExecAgrees,
            ServerOpenFileAgrees, ServerSendReadyAgrees,
            ServerRecvFileAgrees, ServerSendFileAgrees, ServerRecvConfirmAgrees,
            ServerSendCodeAgrees, ServerSendResultAgrees, ServerCloseAgrees DEF ServerStep
    <3> QED BY <1>1, <2>1, <3>2
  <2> QED BY <2>2, <2>3, <2>4
<1>5. CASE ClientStep \/ ClientKilled
  <2>1. UNCHANGED <<code, whole>>
    BY <1>5, ClientStepKeeps
  <2>2. CASE Overrun
    <3>1. whole => Holds'
      BY <1>5, <2>2, OverrunKept DEF ClientActs
    <3> QED BY <1>1, <2>1, <3>1
  <2>3. CASE ~Overrun
    <3>1. whole => Agreement
      BY <2>3
    <3>2. whole => Agreement'
      <4> HIDE DEF DialogueInv, Agreement
      <4>1. Exchange
        BY DEF DialogueInv
      <4> QED BY <1>5, <3>1, <4>1, ClientSendCommandAgrees, ClientRecvCodeAgrees,
            ClientRecvOutputAgrees, ClientOpenFileAgrees, ClientSendFileAgrees,
            ClientRecvFileAgrees, ClientSendConfirmAgrees, ClientRecvFinalCodeAgrees,
            ClientEndsAgrees DEF ClientStep
    <3> QED BY <1>1, <2>1, <3>2
  <2> QED BY <2>2, <2>3
<1>6. CASE (ServerAuthentication \/ ClientAuthentication) /\ SessionFrame
  <2>1. UNCHANGED <<code, whole>>
    BY <1>6, AuthenticationKeeps
  <2>2. CASE Overrun
    <3>1. whole => Holds'
      BY <1>6, <2>2, OverrunKept DEF ServerActs, ClientActs
    <3> QED BY <1>1, <2>1, <3>1
  <2>3. CASE ~Overrun
    <3>1. whole => Agreement
      BY <2>3
    <3>2. whole => Agreement'
      BY <1>6, <3>1, ServerAuthenticationAgrees, ClientAuthenticationAgrees
    <3> QED BY <1>1, <2>1, <3>2
  <2> QED BY <2>2, <2>3
<1> QED BY <1>2, <1>3, <1>4, <1>5, <1>6 DEF Next, ServerActs, ClientActs

(* A client whose session returns OK left after the worker had executed    *)
(* its command and answered OK to it, when nothing cuts the streams and    *)
(* the code was not one that nobody wrote and that ran past its buffer.    *)
THEOREM OkIsExecuted == Spec => []OkMeansExecuted
<1>1. DialogueInv => OkMeansExecuted
  BY DEF DialogueInv, Overrun, ClientFacts, Reports, OkMeansExecuted
<1> QED BY <1>1, DialogueInit, DialogueStep, PTL DEF Spec

(* After an uncut transfer that the client or the worker reports as done   *)
(* the file of the receiver is the file of the sender, whatever its size   *)
(* and the size of the buffers; what the two reports are worth when one    *)
(* side has left or the code was never written is in the property.         *)
THEOREM TransferExact == Spec => []UncutTransferIsExact
<1>1. DialogueInv => UncutTransferIsExact
  <2> SUFFICES ASSUME DialogueInv, whole PROVE UncutTransferIsExact
    BY DEF UncutTransferIsExact
  <2>1. /\ ServerFacts
        /\ outcome = "OK" => code # "overrun"
    BY DEF DialogueInv, ServerFacts, RunsCommand, Replied, Unwritten
  <2>2. code # "overrun" => ClientFacts
    BY DEF DialogueInv, Overrun
  <2> QED BY <2>1, <2>2 DEF ServerFacts, ClientFacts, Confirmed, Reports, FileReceived,
       UncutTransferIsExact, Exact
<1> QED BY <1>1, DialogueInit, DialogueStep, PTL DEF Spec

-----------------------------------------------------------------------------
(***************************************************************************)
(* The log: log_request(), which ends a session in the server, for every   *)
(* number of threads and requests and every set of failing calls unless a  *)
(* theorem says otherwise.                                                 *)
(***************************************************************************)
Waiting == {"get_time", "enter_cs", "fopen", "fwrite"}

(* TypeOK, and that a thread inside log_request() has a request number.    *)
TypeInv ==
  /\ TypeOK
  /\ \A t \in Threads : pc[t] # "away" => req[t] \in 1 .. MaxRequests

(* No thread has a line in the file beyond the request it is logging.      *)
NoLineAhead ==
  \A i \in 1 .. Len(file) :
    LET t == file[i][1]
    IN  /\ file[i][2] <= req[t]
        /\ pc[t] \in Waiting => file[i][2] < req[t]

LinesInv == TypeInv /\ NoLineAhead /\ LinesInOrder

-----------------------------------------------------------------------------
(* The threads start with the types of TypeInv.                            *)
LEMMA InitTypeInv == LogInit => TypeInv
BY LogAssumption DEF LogInit, TypeInv, TypeOK, Calls, Lines

(* What a line appended by t makes of the file.                            *)
LEMMA AppendLine ==
  ASSUME TypeInv, NEW t \in Threads, pc[t] # "away",
         file' = Append(file, Line(t))
  PROVE  /\ Line(t) \in Lines
         /\ file' \in Seq(Lines)
         /\ Len(file') = Len(file) + 1
         /\ \A i \in 1 .. Len(file) : file'[i] = file[i]
         /\ file'[Len(file) + 1] = Line(t)
         /\ Written' = Written \cup {Line(t)}
<1>1. Line(t) \in Lines /\ file \in Seq(Lines) /\ Len(file) \in Nat
  BY DEF TypeInv, TypeOK, Line, Lines
<1> DEFINE n == Len(file)
           x == Line(t)
<1>2. n \in Nat /\ x \in Lines
  BY <1>1
<1>3. file' = Append(file, x)
  OBVIOUS
<1> HIDE DEF n, x
<1>4. /\ file' \in Seq(Lines) /\ Len(file') = n + 1
      /\ \A i \in 1 .. n : file'[i] = file[i]
      /\ file'[n + 1] = x
  BY <1>1, <1>2, <1>3, AppendProperties DEF n
<1>5. \A i \in 1 .. n + 1 : i \in 1 .. n \/ i = n + 1
  BY <1>2
<1>6. n + 1 \in 1 .. n + 1 /\ \A i \in 1 .. n : i \in 1 .. n + 1
  BY <1>2
<1>7. Written = {file[i] : i \in 1 .. n}
  BY DEF Written, n
<1>8. Written' = {file'[i] : i \in 1 .. n + 1}
  BY <1>4 DEF Written
<1>9. Written' = Written \cup {x}
  BY <1>4, <1>5, <1>6, <1>7, <1>8
<1> QED
  BY <1>1, <1>4, <1>9 DEF n, x

(* No step of log_request() leaves TypeInv.                                *)
LEMMA NextTypeInv == TypeInv /\ [LogNext]_logVars => TypeInv'
<1> SUFFICES ASSUME TypeInv, [LogNext]_logVars PROVE TypeInv'
  OBVIOUS
<1> USE DEF TypeInv, TypeOK, Calls, Goto, Return
<1>1. ASSUME NEW t \in Threads, LogRequest(t) PROVE TypeInv'
  <2>1. req[t] + 1 \in 1 .. MaxRequests /\ req[t] + 1 \in 0 .. MaxRequests
    BY <1>1, LogAssumption DEF LogRequest
  <2> QED
    BY <1>1, <2>1 DEF LogRequest
<1>2. ASSUME NEW t \in Threads, GetTime(t) PROVE TypeInv'
  BY <1>2 DEF GetTime
<1>3. ASSUME NEW t \in Threads, EnterCs(t) PROVE TypeInv'
  BY <1>3 DEF EnterCs
<1>4. ASSUME NEW t \in Threads, OpenFile(t) PROVE TypeInv'
  BY <1>4 DEF OpenFile
<1>5. ASSUME NEW t \in Threads, WriteLine(t) PROVE TypeInv'
  <2>1. pc[t] # "away"
    BY <1>5 DEF WriteLine
  <2>2. file' \in Seq(Lines)
    BY <1>5, <2>1, AppendLine DEF WriteLine
  <2> QED
    BY <1>5, <2>2 DEF WriteLine
<1>6. ASSUME NEW t \in Threads, LeaveCs(t) PROVE TypeInv'
  <2>1. Line(t) \in Lines
    BY <1>6 DEF LeaveCs, Line, Lines
  <2> QED
    BY <1>6, <2>1 DEF LeaveCs
<1>7. CASE UNCHANGED logVars
  BY <1>7 DEF logVars
<1> QED
  BY <1>1, <1>2, <1>3, <1>4, <1>5, <1>6, <1>7 DEF LogNext, CallStep

(* TypeInv holds in every state of the log.                                *)
LEMMA TypeInvariant == LogSpec => []TypeInv
BY InitTypeInv, NextTypeInv, PTL DEF LogSpec

(* TypeOK in every reachable state.                                        *)
THEOREM TypeCorrect == LogSpec => []TypeOK
<1>1. TypeInv => TypeOK
  BY DEF TypeInv
<1> QED
  BY <1>1, TypeInvariant, PTL

-----------------------------------------------------------------------------
(* log_cs admits one thread at a time, whichever calls fail.               *)
THEOREM Exclusion == LogSpec => []OneWriter
<1>1. LogInit => OneWriter
  BY DEF LogInit, OneWriter, Inside
<1>2. TypeInv /\ OneWriter /\ [LogNext]_logVars => OneWriter'
  <2> SUFFICES ASSUME TypeInv, OneWriter, [LogNext]_logVars PROVE OneWriter'
    OBVIOUS
  <2> USE LogAssumption DEF TypeInv, TypeOK, OneWriter, Inside, Goto, Return
  <2>1. ASSUME NEW t \in Threads, LogRequest(t) PROVE OneWriter'
    BY <2>1 DEF LogRequest
  <2>2. ASSUME NEW t \in Threads, GetTime(t) PROVE OneWriter'
    BY <2>2 DEF GetTime
  <2>3. ASSUME NEW t \in Threads, EnterCs(t) PROVE OneWriter'
    BY <2>3 DEF EnterCs
  <2>4. ASSUME NEW t \in Threads, OpenFile(t) PROVE OneWriter'
    BY <2>4 DEF OpenFile
  <2>5. ASSUME NEW t \in Threads, WriteLine(t) PROVE OneWriter'
    BY <2>5 DEF WriteLine
  <2>6. ASSUME NEW t \in Threads, LeaveCs(t) PROVE OneWriter'
    BY <2>6 DEF LeaveCs
  <2>7. CASE UNCHANGED logVars
    BY <2>7 DEF logVars
  <2> QED
    BY <2>1, <2>2, <2>3, <2>4, <2>5, <2>6, <2>7 DEF LogNext, CallStep
<1> QED
  BY <1>1, <1>2, TypeInvariant, PTL DEF LogSpec

(* The critical section comes back from every call, unless fopen() or      *)
(* leave_cs() fails.                                                       *)
THEOREM LockReturned ==
  ASSUME "fopen" \notin Faults, "leave_cs" \notin Faults
  PROVE  LogSpec => []LockComesBack
<1>1. LogInit => LockComesBack
  BY LogAssumption DEF LogInit, LockComesBack
<1>2. TypeInv /\ LockComesBack /\ [LogNext]_logVars => LockComesBack'
  <2> SUFFICES ASSUME TypeInv, LockComesBack, [LogNext]_logVars PROVE LockComesBack'
    OBVIOUS
  <2> USE LogAssumption
      DEF TypeInv, TypeOK, LockComesBack, Inside, Goto, Return, MayFail
  <2>1. ASSUME NEW t \in Threads, LogRequest(t) PROVE LockComesBack'
    BY <2>1 DEF LogRequest
  <2>2. ASSUME NEW t \in Threads, GetTime(t) PROVE LockComesBack'
    BY <2>2 DEF GetTime
  <2>3. ASSUME NEW t \in Threads, EnterCs(t) PROVE LockComesBack'
    BY <2>3 DEF EnterCs
  <2>4. ASSUME NEW t \in Threads, OpenFile(t) PROVE LockComesBack'
    BY <2>4 DEF OpenFile
  <2>5. ASSUME NEW t \in Threads, WriteLine(t) PROVE LockComesBack'
    BY <2>5 DEF WriteLine
  <2>6. ASSUME NEW t \in Threads, LeaveCs(t) PROVE LockComesBack'
    BY <2>6 DEF LeaveCs
  <2>7. CASE UNCHANGED logVars
    BY <2>7 DEF logVars
  <2> QED
    BY <2>1, <2>2, <2>3, <2>4, <2>5, <2>6, <2>7 DEF LogNext, CallStep
<1> QED
  BY <1>1, <1>2, TypeInvariant, PTL DEF LogSpec

-----------------------------------------------------------------------------
(* The line of a thread that has written it and not yet returned is in the *)
(* file too.                                                               *)
LoggedInv == OkIsLogged /\ \A t \in Ending : Line(t) \in Written

(* A request reported as logged is in the file, unless a write fails.      *)
THEOREM NothingLost ==
  ASSUME "fwrite" \notin Faults
  PROVE  LogSpec => []OkIsLogged
<1>1. LogInit => LoggedInv
  BY DEF LogInit, LoggedInv, OkIsLogged, Ending
<1>2. TypeInv /\ LoggedInv /\ [LogNext]_logVars => LoggedInv'
  <2> SUFFICES ASSUME TypeInv, LoggedInv, [LogNext]_logVars PROVE LoggedInv'
    OBVIOUS
  <2>0. file' = file => Written' = Written
    BY DEF Written
  <2> USE DEF LoggedInv, OkIsLogged, Ending, TypeInv, TypeOK, Goto, Return,
          Line
  <2>1. ASSUME NEW t \in Threads, LogRequest(t) PROVE LoggedInv'
    BY <2>0, <2>1 DEF LogRequest
  <2>2. ASSUME NEW t \in Threads, GetTime(t) PROVE LoggedInv'
    BY <2>0, <2>2 DEF GetTime
  <2>3. ASSUME NEW t \in Threads, EnterCs(t) PROVE LoggedInv'
    BY <2>0, <2>3 DEF EnterCs
  <2>4. ASSUME NEW t \in Threads, OpenFile(t) PROVE LoggedInv'
    BY <2>0, <2>4 DEF OpenFile
  <2>5. ASSUME NEW t \in Threads, WriteLine(t) PROVE LoggedInv'
    <3>1. pc[t] # "away" /\ file' = Append(file, Line(t))
      BY <2>5 DEF WriteLine, MayFail
    <3>2. Written' = Written \cup {Line(t)}
      BY <3>1, AppendLine
    <3> QED
      BY <2>5, <3>2 DEF WriteLine
  <2>6. ASSUME NEW t \in Threads, LeaveCs(t) PROVE LoggedInv'
    BY <2>0, <2>6 DEF LeaveCs
  <2>7. CASE UNCHANGED logVars
    BY <2>0, <2>7 DEF logVars
  <2> QED
    BY <2>1, <2>2, <2>3, <2>4, <2>5, <2>6, <2>7 DEF LogNext, CallStep
<1>3. LoggedInv => OkIsLogged
  BY DEF LoggedInv
<1> QED
  BY <1>1, <1>2, <1>3, TypeInvariant, PTL DEF LogSpec

-----------------------------------------------------------------------------
(* The two conjuncts of LinesInOrder, by name.                             *)
NoStrayLine == Written \subseteq acked \cup {Line(t) : t \in Ending}

Ordered ==
  \A i, j \in 1 .. Len(file) :
    i < j /\ file[i][1] = file[j][1] => file[i][2] < file[j][2]

(* A step that leaves the file alone keeps it in order; a line is appended *)
(* after the earlier lines of its thread.                                  *)
LEMMA AppendKeepsOrder ==
  ASSUME TypeInv, NoLineAhead, Ordered, NEW t \in Threads, pc[t] = "fwrite",
         file' = Append(file, Line(t)), UNCHANGED req,
         pc' = [pc EXCEPT ![t] = "leave_cs"]
  PROVE  Ordered' /\ NoLineAhead'
<1> DEFINE n == Len(file)
<1>1. n \in Nat /\ \A i \in 1 .. n : file[i] \in Lines
  BY DEF TypeInv, TypeOK
<1>2. /\ Len(file') = n + 1
      /\ \A i \in 1 .. n : file'[i] = file[i]
      /\ file'[n + 1] = Line(t)
  BY AppendLine
<1>3. \A i \in 1 .. n : /\ file[i][2] <= req[file[i][1]]
                        /\ pc[file[i][1]] \in Waiting
                             => file[i][2] < req[file[i][1]]
  BY DEF NoLineAhead
<1>4. \A i, j \in 1 .. n :
        i < j /\ file[i][1] = file[j][1] => file[i][2] < file[j][2]
  BY DEF Ordered
<1> HIDE DEF n
<1>5. Line(t)[1] = t /\ Line(t)[2] = req[t] /\ pc[t] \in Waiting
  BY DEF Line, Waiting
<1>6. Ordered'
  <2> SUFFICES ASSUME NEW i \in 1 .. n + 1, NEW j \in 1 .. n + 1, i < j,
                      file'[i][1] = file'[j][1]
               PROVE  file'[i][2] < file'[j][2]
    BY <1>2 DEF Ordered
  <2>1. i \in 1 .. n
    BY <1>1
  <2>2. CASE j \in 1 .. n
    BY <1>2, <1>4, <2>1, <2>2
  <2>3. CASE j = n + 1
    <3>1. file'[j][1] = t /\ file'[j][2] = req[t]
      BY <1>2, <1>5, <2>3
    <3>2. file'[i] = file[i] /\ file[i][1] = t
      BY <1>2, <2>1, <3>1
    <3>3. file[i][2] < req[t]
      BY <1>3, <1>5, <2>1, <3>2
    <3> QED
      BY <3>1, <3>2, <3>3
  <2>4. j \in 1 .. n \/ j = n + 1
    BY <1>1
  <2> QED
    BY <2>2, <2>3, <2>4
<1>7. NoLineAhead'
  <2> SUFFICES ASSUME NEW i \in 1 .. n + 1
               PROVE  /\ file'[i][2] <= req[file'[i][1]]
                      /\ pc'[file'[i][1]] \in Waiting
                           => file'[i][2] < req[file'[i][1]]
    BY <1>2 DEF NoLineAhead
  <2>1. pc \in [Threads -> Calls] /\ req[t] \in Nat
    BY LogAssumption DEF TypeInv, TypeOK
  <2>2. pc'[t] \notin Waiting
    BY <2>1 DEF Waiting
  <2>3. CASE i \in 1 .. n
    <3>1. file'[i] = file[i] /\ file[i] \in Lines
      BY <1>1, <1>2, <2>3
    <3>2. file[i][1] \in Threads
      BY <3>1 DEF Lines
    <3>3. CASE file[i][1] = t
      BY <1>3, <2>2, <2>3, <3>1, <3>3
    <3>4. CASE file[i][1] # t
      <4>1. pc'[file[i][1]] = pc[file[i][1]]
        BY <2>1, <3>2, <3>4
      <4> QED
        BY <1>3, <2>3, <3>1, <4>1
    <3> QED
      BY <3>3, <3>4
  <2>4. CASE i = n + 1
    <3>1. file'[i][1] = t /\ file'[i][2] = req[t]
      BY <1>2, <1>5, <2>4
    <3>2. req[t] <= req[t]
      BY <2>1
    <3> QED
      BY <2>2, <3>1, <3>2
  <2>5. i \in 1 .. n \/ i = n + 1
    BY <1>1
  <2> QED
    BY <2>3, <2>4, <2>5
<1> QED
  BY <1>6, <1>7

(* A thread that moves without writing, with or without a new request.     *)
LEMMA MoveKeepsOrder ==
  ASSUME TypeInv, NoLineAhead, Ordered, UNCHANGED file, NEW t \in Threads,
         NEW call, pc' = [pc EXCEPT ![t] = call],
         \/ UNCHANGED req /\ (call \in Waiting => pc[t] \in Waiting)
         \/ req' = [req EXCEPT ![t] = @ + 1]
  PROVE  Ordered' /\ NoLineAhead'
<1>1. Ordered'
  BY DEF Ordered
<1>2. ASSUME NEW i \in 1 .. Len(file)
      PROVE  /\ file[i][2] <= req'[file[i][1]]
             /\ pc'[file[i][1]] \in Waiting => file[i][2] < req'[file[i][1]]
  <2>1. file[i][1] \in Threads /\ file[i][2] \in Nat
    BY LogAssumption DEF TypeInv, TypeOK, Lines
  <2>2. PICK u \in Threads : u = file[i][1]
    BY <2>1
  <2>3. file[i][2] <= req[u] /\ (pc[u] \in Waiting => file[i][2] < req[u])
    BY <2>2 DEF NoLineAhead
  <2>4. /\ req[u] \in Nat /\ pc \in [Threads -> Calls]
        /\ req \in [Threads -> 0 .. MaxRequests]
    BY LogAssumption DEF TypeInv, TypeOK
  <2>5. CASE u = t
    BY <2>1, <2>2, <2>3, <2>4, <2>5
  <2>6. CASE u # t
    <3>1. pc'[u] = pc[u] /\ req'[u] = req[u]
      BY <2>4, <2>6
    <3> QED
      BY <2>2, <2>3, <3>1
  <2> QED
    BY <2>5, <2>6
<1>3. NoLineAhead'
  BY <1>2 DEF NoLineAhead
<1> QED
  BY <1>1, <1>3

(* No step writes a line out of order or ahead of its request.             *)
LEMMA NextLinesInv == LinesInv /\ [LogNext]_logVars => NoLineAhead' /\ LinesInOrder'
<1> SUFFICES ASSUME LinesInv, [LogNext]_logVars
             PROVE  (NoLineAhead /\ Ordered /\ NoStrayLine)'
  BY DEF LinesInOrder, Ordered, NoStrayLine
<1>a. TypeInv /\ NoLineAhead /\ Ordered /\ NoStrayLine
  BY DEF LinesInv, LinesInOrder, Ordered, NoStrayLine
<1>b. pc \in [Threads -> Calls] /\ req \in [Threads -> 0 .. MaxRequests]
  BY <1>a DEF TypeInv, TypeOK
<1>c. file' = file => Written' = Written
  BY DEF Written
<1> USE DEF Goto, Return
<1>1. ASSUME NEW t \in Threads, LogRequest(t)
      PROVE  (NoLineAhead /\ Ordered /\ NoStrayLine)'
  <2>1. (NoLineAhead /\ Ordered)'
    BY <1>1, <1>a, MoveKeepsOrder DEF LogRequest
  <2>2. NoStrayLine'
    BY <1>1, <1>a, <1>b, <1>c DEF LogRequest, NoStrayLine, Ending, Line
  <2> QED
    BY <2>1, <2>2
<1>2. ASSUME NEW t \in Threads, GetTime(t)
      PROVE  (NoLineAhead /\ Ordered /\ NoStrayLine)'
  <2>1. (NoLineAhead /\ Ordered)'
    BY <1>2, <1>a, MoveKeepsOrder DEF GetTime, Waiting
  <2>2. NoStrayLine'
    BY <1>2, <1>a, <1>b, <1>c DEF GetTime, NoStrayLine, Ending, Line
  <2> QED
    BY <2>1, <2>2
<1>3. ASSUME NEW t \in Threads, EnterCs(t)
      PROVE  (NoLineAhead /\ Ordered /\ NoStrayLine)'
  <2>1. (NoLineAhead /\ Ordered)'
    BY <1>3, <1>a, MoveKeepsOrder DEF EnterCs, Waiting
  <2>2. NoStrayLine'
    BY <1>3, <1>a, <1>b, <1>c DEF EnterCs, NoStrayLine, Ending, Line
  <2> QED
    BY <2>1, <2>2
<1>4. ASSUME NEW t \in Threads, OpenFile(t)
      PROVE  (NoLineAhead /\ Ordered /\ NoStrayLine)'
  <2>1. (NoLineAhead /\ Ordered)'
    BY <1>4, <1>a, MoveKeepsOrder DEF OpenFile, Waiting
  <2>2. NoStrayLine'
    BY <1>4, <1>a, <1>b, <1>c DEF OpenFile, NoStrayLine, Ending, Line
  <2> QED
    BY <2>1, <2>2
<1>5. ASSUME NEW t \in Threads, WriteLine(t)
      PROVE  (NoLineAhead /\ Ordered /\ NoStrayLine)'
  <2>1. CASE file' = Append(file, Line(t))
    <3>1. (NoLineAhead /\ Ordered)'
      BY <1>5, <1>a, <2>1, AppendKeepsOrder DEF WriteLine
    <3>2. Written' = Written \cup {Line(t)}
      BY <1>5, <1>a, <2>1, AppendLine DEF WriteLine
    <3>3. NoStrayLine'
      BY <1>5, <1>a, <1>b, <3>2 DEF WriteLine, NoStrayLine, Ending, Line
    <3> QED
      BY <3>1, <3>3
  <2>2. CASE file' = file
    <3>1. (NoLineAhead /\ Ordered)'
      BY <1>5, <1>a, <2>2, MoveKeepsOrder DEF WriteLine, Waiting
    <3>2. NoStrayLine'
      BY <1>5, <1>a, <1>b, <1>c, <2>2
      DEF WriteLine, NoStrayLine, Ending, Line
    <3> QED
      BY <3>1, <3>2
  <2> QED
    BY <1>5, <2>1, <2>2 DEF WriteLine
<1>6. ASSUME NEW t \in Threads, LeaveCs(t)
      PROVE  (NoLineAhead /\ Ordered /\ NoStrayLine)'
  <2>1. (NoLineAhead /\ Ordered)'
    BY <1>6, <1>a, MoveKeepsOrder DEF LeaveCs, Waiting
  <2>2. NoStrayLine'
    BY <1>6, <1>a, <1>b, <1>c DEF LeaveCs, NoStrayLine, Ending, Line
  <2> QED
    BY <2>1, <2>2
<1>7. CASE UNCHANGED logVars
  BY <1>7, <1>a, <1>c DEF logVars, NoLineAhead, Ordered, NoStrayLine, Ending, Line
<1> QED
  BY <1>1, <1>2, <1>3, <1>4, <1>5, <1>6, <1>7 DEF LogNext, CallStep

(* A failed call leaves no line, and each thread's lines are in the order  *)
(* of its requests without repetition, whichever calls fail.               *)
THEOREM LinesAreInOrder == LogSpec => []LinesInOrder
<1>1. LogInit => LinesInv
  <2>1. LogInit => NoLineAhead /\ LinesInOrder
    BY DEF LogInit, NoLineAhead, LinesInOrder, Written
  <2> QED
    BY <2>1, InitTypeInv DEF LinesInv
<1>2. LinesInv /\ [LogNext]_logVars => LinesInv'
  BY NextTypeInv, NextLinesInv DEF LinesInv
<1>3. LinesInv => LinesInOrder
  BY DEF LinesInv
<1> QED
  BY <1>1, <1>2, <1>3, PTL DEF LogSpec
=============================================================================
