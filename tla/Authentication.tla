--------------------------- MODULE Authentication ---------------------------
(***************************************************************************)
(* The exchange of sources/authentication.h: authenticate_client() in the  *)
(* worker and authenticate_server() in the client.                         *)
(*                                                                         *)
(*     client  HELO                        -> worker                       *)
(*     worker  300, server token ^ challenge                               *)
(*     client  AUTH enc1 enc2              -> worker                       *)
(*     worker  200 or 400                                                  *)
(*                                                                         *)
(* The challenge travels as the bytes of a number, the two numbers of AUTH *)
(* as text.  The actions are the first steps of the two processes of       *)
(* module Session.  A number cut short by recv() is taken to differ from   *)
(* the one that was sent.                                                  *)
(***************************************************************************)
EXTENDS Network, Security

VARIABLES
  cpc, spc,        \* the next call of the client and of the worker
  cret,            \* the client's return value, "" while it has none
  server_token,    \* the server's token
  typed_token,     \* the token that the client's user typed for the server
  challenge,       \* the worker's challenge
  xor              \* what the client received for it

tokens == <<server_token, typed_token>>

AuthenticationInit ==
  /\ cpc = "send_helo" /\ spc = "recv_helo" /\ cret = ""
  /\ server_token \in Tokens /\ typed_token \in Tokens
  /\ challenge = {} /\ xor = {}

-----------------------------------------------------------------------------
(* authenticate_client(), called by thread_exec().  Every error ends the   *)
(* session with close().                                                   *)

ServerGoto(call) == spc' = call

ServerRecvHelo ==
  /\ spc = "recv_helo"
  /\ \/ \E got \in Received(toServer, MessageSize) :
          /\ ServerReceives(got)
          /\ ServerGoto(IF got = Message("HELO", "") THEN "send_300"
                                                     ELSE "close")
     \/ ServerHearsNothing /\ ServerGoto("close")
  /\ UNCHANGED <<cpc, cret, tokens, challenge, xor>>

ServerSend300 ==
  /\ spc = "send_300"
  /\ \/ ServerSends(Code("300")) /\ ServerGoto("send_challenge")
     \/ ServerSendFails /\ ServerGoto("close")
  /\ UNCHANGED <<cpc, cret, tokens, challenge, xor>>

ServerSendChallenge ==
  /\ spc = "send_challenge"
  /\ challenge' \in Numbers
  /\ \/ /\ ServerSends(Message("number", send_long("server", Xor(server_token, challenge'))))
        /\ ServerGoto("recv_auth")
     \/ ServerSendFails /\ ServerGoto("close")
  /\ UNCHANGED <<cpc, cret, tokens, xor>>

(* The client's token is enc1 ^ xor, its challenge enc2 ^ that token.      *)
AcceptsAuth(enc) ==
  Xor(enc[2], Xor(enc[1], Xor(server_token, challenge))) = challenge

ServerRecvAuthAnyway ==             \* mutant: the challenge is not checked
  /\ spc = "recv_auth"
  /\ \/ \E got \in Received(toServer, BufferSize) :
          ServerReceives(got) /\ ServerGoto("send_200")
     \/ ServerHearsNothing /\ ServerGoto("close")
  /\ challenge' = {}
  /\ UNCHANGED <<cpc, cret, tokens, xor>>

(* A part of the message has no second number (PROTO_ERR) or a cut one.    *)
ServerRecvAuth ==
  /\ spc = "recv_auth"
  /\ \/ \E got \in Received(toServer, BufferSize) :
          /\ ServerReceives(got)
          /\ IF Len(got) = MessageSize
             THEN ServerGoto(IF AcceptsAuth(got[1][2]) THEN "send_200"
                                                       ELSE "send_400")
             ELSE ServerGoto("close") \/ ServerGoto("send_400")
     \/ ServerHearsNothing /\ ServerGoto("close")
  /\ challenge' = {}
  /\ UNCHANGED <<cpc, cret, tokens, xor>>

ServerSendVerdict ==
  /\ \/ /\ spc = "send_200"
        /\ \/ ServerSends(Code("200")) /\ ServerGoto("recv_command")
           \/ ServerSendFails /\ ServerGoto("close")
     \/ /\ spc = "send_400" /\ ServerGoto("close")
        /\ ServerSends(Code("400")) \/ ServerSendFails
  /\ UNCHANGED <<cpc, cret, tokens, challenge, xor>>

ServerAuthentication ==
  \/ ServerRecvHelo \/ ServerSend300 \/ ServerSendChallenge
  \/ ServerRecvAuth \/ ServerSendVerdict

-----------------------------------------------------------------------------
(* authenticate_server(), called by main() of client.c, and the errors on  *)
(* which main() closes the connection.                                     *)

ClientGoto(call) == cpc' = call /\ UNCHANGED cret

ClientReturns(value) == cpc' = "close" /\ cret' = value

ClientSendHelo ==
  /\ cpc = "send_helo"
  /\ \/ ClientSends(Message("HELO", "")) /\ ClientGoto("recv_300")
     \/ ClientSendFails /\ ClientReturns("CONN_ERR")
  /\ UNCHANGED <<spc, tokens, challenge, xor>>

ClientRecv300 ==
  /\ cpc = "recv_300"
  /\ \/ \E got \in Received(toClient, MessageSize) :
          /\ ClientReceives(got)
          /\ IF got = Code("300") THEN ClientGoto("recv_challenge")
                                  ELSE ClientReturns("PROTO_ERR")
     \/ ClientHearsNothing /\ ClientReturns("CONN_ERR")
  /\ UNCHANGED <<spc, tokens, challenge, xor>>

(* recv_long() leaves its loop when it has all of the number, and never    *)
(* when the connection ends before.                                        *)
ClientRecvChallenge ==
  /\ cpc = "recv_challenge"
  /\ Len(toClient) >= MessageSize
  /\ ClientReceives(SubSeq(toClient, 1, MessageSize))
  /\ xor' = recv_long("client", toClient[1][2])
  /\ ClientGoto("send_auth")
  /\ UNCHANGED <<spc, tokens, challenge>>

(* enc1 hides the client's own token, enc2 the challenge as the client     *)
(* recovers it.                                                            *)
Enc(received, client_token) ==
  <<Xor(received, client_token),
    Xor(Xor(received, typed_token), client_token)>>

ClientSendAuth ==
  /\ cpc = "send_auth"
  /\ \/ \E client_token \in Tokens :
          /\ ClientSends(Message("AUTH", Enc(xor, client_token)))
          /\ ClientGoto("recv_verdict")
     \/ ClientSendFails /\ ClientReturns("CONN_ERR")
  /\ xor' = {}
  /\ UNCHANGED <<spc, tokens, challenge>>

ClientRecvVerdict ==
  /\ cpc = "recv_verdict"
  /\ \/ \E got \in Received(toClient, MessageSize) :
          /\ ClientReceives(got)
          /\ IF got = Code("200") THEN ClientGoto("send_command")
                                  ELSE ClientReturns("AUTH_FAIL")
     \/ ClientHearsNothing /\ ClientReturns("CONN_ERR")
  /\ UNCHANGED <<spc, tokens, challenge, xor>>

ClientAuthentication ==
  \/ ClientSendHelo \/ ClientRecv300 \/ ClientRecvChallenge
  \/ ClientSendAuth \/ ClientRecvVerdict
=============================================================================
