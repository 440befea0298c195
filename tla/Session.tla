------------------------------ MODULE Session -------------------------------
(***************************************************************************)
(* One worker and the clients it serves one after the other: the dialogue  *)
(* that module Dispatch takes as the step Serve.  The worker runs          *)
(* authenticate_client() and execute_command() and answers with a code and *)
(* a result; the client runs authenticate_server(), sends its command and  *)
(* runs handle_response().                                                 *)
(*                                                                         *)
(* The words UPLOAD and DOWNLOAD are the program's: a DOWNLOAD takes the   *)
(* client's file to the server, an UPLOAD the server's file to the client. *)
(* LIST, SIZE and EXEC differ in the command line that exec() runs, and    *)
(* are one command here.  code and result are buffers of thread_exec():    *)
(* result is cleared for every command, code is not.                       *)
(*                                                                         *)
(* The next client comes when the previous one has ended; what a client    *)
(* does after the worker closed depends only on what was sent to it.       *)
(***************************************************************************)
EXTENDS Authentication, ClientParameters

CONSTANTS CommandLines, \* what users type
          Sizes,        \* sizes of the files, in units
          Overruns      \* units strlen() counts when it runs past a code

(* The buffer for the code before the worker writes it holds what its      *)
(* stack held: the code of a thread that ended, or bytes that strlen()     *)
(* counts as nothing, as less than a code, as a code's length, or as more, *)
(* because no zero stops it at the end of the buffer.                      *)
Unwritten == {"none", "short", "noise", "overrun"}

Codes == Unwritten \cup {"200", "300", "400", "500"}

(* Of the codes of a thread that ended, those that the client looks for.   *)
Stale == Unwritten \cup {"200", "300"}

UserRequests == Requests(CommandLines)

ASSUME SessionAssumption ==
  /\ Sizes \subseteq Nat
  /\ Overruns \subseteq {n \in Nat : n > MessageSize}
  /\ \A r \in UserRequests : r.cmd \in {"EXEC", "UPLOAD", "DOWNLOAD", "UNSUPPORTED"}

VARIABLES
  cmd,             \* the client's command ...
  complete,        \* ... and whether it has all its arguments
  size,            \* the size of the file to transfer
  sent,            \* how much of it was read and sent
  code,            \* the worker's buffer for the code of its answer
  reply,           \* whether its buffer for the result holds anything
  outcome,         \* what execute_command() returned, "" before
  serverFile,      \* what the worker wrote to a file
  clientFile       \* what the client wrote to a file

request == <<tokens, cmd, complete, size>>
serverVars == <<spc, challenge, code, reply, outcome, serverFile>>
clientVars == <<cpc, cret, xor, clientFile>>
vars == <<network, request, serverVars, clientVars, sent>>

answer == <<code, reply, outcome>>

RequestInit ==
  /\ \E r \in UserRequests : cmd = r.cmd /\ complete = r.complete
  /\ size \in Sizes
  /\ sent = 0 /\ reply = FALSE /\ outcome = ""
  /\ serverFile = <<>> /\ clientFile = <<>>

Init ==
  /\ NetworkInit /\ AuthenticationInit /\ RequestInit
  /\ code \in Stale

(* The next fread() of the file that is sent.                              *)
NextPiece == SubSeq(File(size), sent + 1, Least(sent + BufferSize, size))

-----------------------------------------------------------------------------
(* The worker: execute_command() and the answer.                           *)

ServerFrame == UNCHANGED <<request, clientVars, challenge>>

(* execute_command() returns; only some of its returns set code.           *)
Executed(value) == outcome' = value /\ ServerGoto("send_code")

ExecutedWith(value, c) == Executed(value) /\ code' = c /\ reply' = TRUE

ExecutedSilently(value) == Executed(value) /\ UNCHANGED <<code, reply>>

Continue(call) == ServerGoto(call) /\ UNCHANGED answer

(* A part of the command may lack its arguments, its name or the end of    *)
(* its last argument.  A command without all its arguments is not run.     *)
ServerRecvCommand ==
  /\ spc = "recv_command"
  /\ \/ \E got \in Received(toServer, BufferSize) :
          /\ ServerReceives(got)
          /\ \/ complete /\ Continue(cmd)
             \/ ~complete /\ ExecutedSilently("PROTO_ERR")
             \/ Len(got) < MessageSize /\ ExecutedSilently("PROTO_ERR")
             \/ Len(got) < MessageSize /\ ExecutedWith("PROTO_ERR", "400")
     \/ ServerHearsNothing /\ Continue("close")
  /\ ServerFrame /\ UNCHANGED <<serverFile, sent>>

(* exec(): popen() fails, the command succeeds or it does not.             *)
ServerExec ==
  /\ spc = "EXEC"
  /\ \/ ExecutedWith("INT_ERR", "500")
     \/ ExecutedWith("OK", "300")
     \/ ExecutedWith("COMM_ERR", "400")
  /\ ServerFrame /\ UNCHANGED <<network, serverFile, sent>>

(* fopen() of either transfer.                                             *)
ServerOpenFile ==
  /\ \/ spc = "DOWNLOAD" /\ Continue("ready_to_recv")
     \/ spc = "UPLOAD" /\ Continue("ready_to_send")
     \/ spc \in {"DOWNLOAD", "UPLOAD"} /\ ExecutedSilently("INT_ERR")
  /\ ServerFrame /\ UNCHANGED <<network, serverFile, sent>>

ServerSendReady ==
  /\ \/ /\ spc = "ready_to_recv"
        /\ ServerSends(Code("200")) /\ Continue("recv_file")
     \/ /\ spc = "ready_to_send"
        /\ ServerSends(Code("200")) /\ Continue("send_file")
     \/ /\ spc \in {"ready_to_recv", "ready_to_send"}
        /\ ServerSendFails /\ ExecutedSilently("CONN_ERR")
  /\ ServerFrame /\ UNCHANGED <<serverFile, sent>>

ServerRecvFileOnce ==               \* mutant: the first recv() ends the file
  /\ spc = "recv_file"
  /\ \/ \E got \in Received(toServer, BufferSize) :
          /\ ServerReceives(got)
          /\ serverFile' = serverFile \o got /\ ExecutedWith("OK", "200")
     \/ /\ ServerHearsNothing /\ ExecutedSilently("CONN_ERR")
        /\ UNCHANGED serverFile
  /\ ServerFrame /\ UNCHANGED sent

(* The file ends with the first recv() that does not fill the buffer.      *)
ServerRecvFile ==
  /\ spc = "recv_file"
  /\ \/ \E got \in Received(toServer, BufferSize) :
          /\ ServerReceives(got)
          /\ \/ /\ serverFile' = serverFile \o got
                /\ IF Len(got) = BufferSize THEN Continue("recv_file")
                   ELSE ExecutedWith("OK", "200")
             \/ UNCHANGED serverFile /\ ExecutedSilently("INT_ERR")
     \/ /\ ServerHearsNothing /\ ExecutedSilently("CONN_ERR")
        /\ UNCHANGED serverFile
  /\ ServerFrame /\ UNCHANGED sent

(* An empty fread(), at the end of a file that fills its last buffer or    *)
(* after an error, ends the transfer with INT_ERR.                         *)
ServerSendFile ==
  /\ spc = "send_file"
  /\ \/ /\ NextPiece # <<>> /\ ServerSends(NextPiece)
        /\ sent' = sent + Len(NextPiece)
        /\ Continue(IF Len(NextPiece) = BufferSize THEN "send_file"
                                                   ELSE "recv_confirm")
     \/ /\ NextPiece # <<>> /\ ServerSendFails
        /\ ExecutedSilently("CONN_ERR") /\ UNCHANGED sent
     \/ ExecutedSilently("INT_ERR") /\ UNCHANGED <<network, sent>>
  /\ ServerFrame /\ UNCHANGED serverFile

(* received[] has no room for a terminator and is not initialised: what    *)
(* strcmp() reads past the bytes that came may be anything.                *)
ServerRecvConfirm ==
  /\ spc = "recv_confirm"
  /\ \/ \E got \in Received(toServer, MessageSize) :
          /\ ServerReceives(got)
          /\ \/ /\ got = SubSeq(Code("200"), 1, Len(got))
                /\ ExecutedWith("OK", "200")
             \/ ExecutedSilently("PROTO_ERR")
     \/ /\ ServerHearsNothing
        /\ \/ ExecutedSilently("CONN_ERR") \/ ExecutedSilently("PROTO_ERR")
           \/ ExecutedWith("OK", "200")
  /\ ServerFrame /\ UNCHANGED <<serverFile, sent>>

(* The strlen(code) bytes of a code that ends in its buffer.               *)
CodeUnits ==
  CASE code = "none" -> <<>>
    [] code = "short" -> <<Head(Code(code))>>
    [] OTHER -> Code(code)

(* What send() takes for the code.  Bytes that nobody wrote may begin like *)
(* a code.                                                                 *)
CodesSent ==
  IF code = "overrun"
  THEN {[i \in 1 .. n |-> <<"code", IF i <= MessageSize THEN c ELSE code, i>>] :
          n \in Overruns, c \in {code, "200", "300"}}
  ELSE {CodeUnits}

ServerSendCode ==
  /\ spc = "send_code"
  /\ \/ /\ \E units \in CodesSent : ServerSends(units)
        /\ Continue("send_result")
     \/ ServerSendFails /\ Continue("exited")
  /\ ServerFrame /\ UNCHANGED <<serverFile, sent>>

ServerSendResult ==
  /\ spc = "send_result"
  /\ \/ /\ ServerSends(IF reply THEN Message("result", "") ELSE <<>>)
        /\ Continue("close")
     \/ ServerSendFails /\ Continue("exited")
  /\ ServerFrame /\ UNCHANGED <<serverFile, sent>>

ServerClose ==
  /\ spc = "close"
  /\ ServerCloses /\ Continue("closed")
  /\ ServerFrame /\ UNCHANGED <<serverFile, sent>>

ServerStep ==
  \/ ServerRecvCommand \/ ServerExec \/ ServerOpenFile \/ ServerSendReady
  \/ ServerRecvFile \/ ServerSendFile \/ ServerRecvConfirm
  \/ ServerSendCode \/ ServerSendResult \/ ServerClose

-----------------------------------------------------------------------------
(* The client: its command and handle_response().                          *)

ClientFrame == UNCHANGED <<request, serverVars, xor>>

(* parse_command() leaves an unsupported command empty, and main() goes on *)
(* with it: a send() of no bytes.                                          *)
ClientSendCommand ==
  /\ cpc = "send_command"
  /\ \/ /\ ClientSends(IF cmd = "UNSUPPORTED" THEN <<>> ELSE Message("cmd", ""))
        /\ ClientGoto("recv_code")
     \/ ClientSendFails /\ ClientReturns("CONN_ERR")
  /\ ClientFrame /\ UNCHANGED <<clientFile, sent>>

(* What handle_response() does after a code.  Without all its arguments a  *)
(* transfer may still find the one that it uses.                           *)
HandleCode(got) ==
  \/ /\ cmd = "UNSUPPORTED" /\ ClientReturns("INT_ERR")
  \/ /\ cmd = "EXEC"
     /\ IF got = Code("300") THEN ClientGoto("recv_output")
                             ELSE ClientReturns("PROTO_ERR")
  \/ /\ cmd \in {"DOWNLOAD", "UPLOAD"} /\ got = Code("200")
     /\ complete \/ cmd = "DOWNLOAD"
     /\ ClientGoto("open_file")
  \/ /\ cmd \in {"DOWNLOAD", "UPLOAD"} /\ (got # Code("200") \/ ~complete)
     /\ ClientReturns("PROTO_ERR")

ClientRecvCode ==
  /\ cpc = "recv_code"
  /\ \/ \E got \in Received(toClient, MessageSize) :
          ClientReceives(got) /\ HandleCode(got)
     \/ ClientHearsNothing /\ ClientReturns("CONN_ERR")
  /\ ClientFrame /\ UNCHANGED <<clientFile, sent>>

ClientRecvOutputAnyway ==           \* mutant: recv() = 0 is no error
  /\ cpc = "recv_output"
  /\ \/ \E got \in Received(toClient, BufferSize) :
          ClientReceives(got) /\ ClientReturns("OK")
     \/ ClientHearsNothing /\ ClientReturns("OK")
  /\ ClientFrame /\ UNCHANGED <<clientFile, sent>>

ClientRecvOutput ==
  /\ cpc = "recv_output"
  /\ \/ \E got \in Received(toClient, BufferSize) :
          ClientReceives(got) /\ ClientReturns("OK")
     \/ ClientHearsNothing /\ ClientReturns("CONN_ERR")
  /\ ClientFrame /\ UNCHANGED <<clientFile, sent>>

ClientOpenFile ==
  /\ cpc = "open_file"
  /\ \/ ClientGoto(IF cmd = "DOWNLOAD" THEN "send_file" ELSE "recv_file")
     \/ ClientReturns("INT_ERR")
  /\ ClientFrame /\ UNCHANGED <<network, clientFile, sent>>

ClientSendFileToEof ==              \* mutant: an empty fread() is the end
  /\ cpc = "send_file"
  /\ \/ /\ ClientSends(NextPiece) /\ sent' = sent + Len(NextPiece)
        /\ ClientGoto(IF Len(NextPiece) = BufferSize THEN "send_file"
                                                     ELSE "recv_final_code")
     \/ ClientSendFails /\ ClientReturns("CONN_ERR") /\ UNCHANGED sent
  /\ ClientFrame /\ UNCHANGED clientFile

(* As in the worker, an empty fread() is an error.                         *)
ClientSendFile ==
  /\ cpc = "send_file"
  /\ \/ /\ NextPiece # <<>> /\ ClientSends(NextPiece)
        /\ sent' = sent + Len(NextPiece)
        /\ ClientGoto(IF Len(NextPiece) = BufferSize THEN "send_file"
                                                     ELSE "recv_final_code")
     \/ /\ NextPiece # <<>> /\ ClientSendFails
        /\ ClientReturns("CONN_ERR") /\ UNCHANGED sent
     \/ ClientReturns("INT_ERR") /\ UNCHANGED <<network, sent>>
  /\ ClientFrame /\ UNCHANGED clientFile

ClientRecvFile ==
  /\ cpc = "recv_file"
  /\ \/ \E got \in Received(toClient, BufferSize) :
          /\ ClientReceives(got)
          /\ \/ /\ clientFile' = clientFile \o got
                /\ ClientGoto(IF Len(got) = BufferSize THEN "recv_file"
                                                       ELSE "send_confirm")
             \/ UNCHANGED clientFile /\ ClientReturns("INT_ERR")
     \/ /\ ClientHearsNothing /\ ClientReturns("CONN_ERR")
        /\ UNCHANGED clientFile
  /\ ClientFrame /\ UNCHANGED sent

ClientSendConfirm ==
  /\ cpc = "send_confirm"
  /\ \/ ClientSends(Code("200")) /\ ClientGoto("recv_final_code")
     \/ ClientSendFails /\ ClientReturns("CONN_ERR")
  /\ ClientFrame /\ UNCHANGED <<clientFile, sent>>

(* The code that ends a transfer is received and not looked at.            *)
ClientRecvFinalCode ==
  /\ cpc = "recv_final_code"
  /\ \/ \E got \in Received(toClient, MessageSize) :
          ClientReceives(got) /\ ClientGoto("recv_output")
     \/ ClientHearsNothing /\ ClientReturns("CONN_ERR")
  /\ ClientFrame /\ UNCHANGED <<clientFile, sent>>

ClientClose ==
  /\ cpc = "close"
  /\ ClientCloses /\ ClientGoto("done")
  /\ ClientFrame /\ UNCHANGED <<clientFile, sent>>

ClientStep ==
  \/ ClientSendCommand \/ ClientRecvCode \/ ClientRecvOutput
  \/ ClientOpenFile \/ ClientSendFile \/ ClientRecvFile
  \/ ClientSendConfirm \/ ClientRecvFinalCode \/ ClientClose

(* The user stops the client.                                              *)
ClientKilled ==
  /\ cpc # "done"
  /\ ClientCloses
  /\ cpc' = "done" /\ cret' = IF cret = "" THEN "killed" ELSE cret
  /\ ClientFrame /\ UNCHANGED <<clientFile, sent>>

-----------------------------------------------------------------------------
SessionFrame ==
  UNCHANGED <<cmd, complete, size, sent, answer, serverFile, clientFile>>

ServerActs == ServerStep \/ (ServerAuthentication /\ SessionFrame)

ClientActs == ClientStep \/ (ClientAuthentication /\ SessionFrame)

(* The worker's next client.  The worker that left its loop is replaced by *)
(* another one, which may get the same stack or any other.                 *)
NextClient ==
  /\ cpc = "done" /\ spc \in {"closed", "exited"}
  /\ toServer' = <<>> /\ toClient' = <<>>
  /\ clientOpen' = TRUE /\ serverOpen' = TRUE /\ whole' \in BOOLEAN
  /\ cpc' = "send_helo" /\ spc' = "recv_helo" /\ cret' = ""
  /\ typed_token' \in Tokens /\ UNCHANGED server_token
  /\ challenge' = {} /\ xor' = {}
  /\ \E r \in UserRequests : cmd' = r.cmd /\ complete' = r.complete
  /\ size' \in Sizes
  /\ sent' = 0 /\ reply' = FALSE /\ outcome' = ""
  /\ serverFile' = <<>> /\ clientFile' = <<>>
  /\ IF spc = "closed" THEN UNCHANGED code ELSE code' \in Stale

Next == ServerActs \/ ClientActs \/ ClientKilled \/ NextClient

Spec == Init /\ [][Next]_vars

(* Both processes go on when they can; nobody has to kill a client.        *)
LiveSpec == Spec /\ WF_vars(ServerActs) /\ WF_vars(ClientActs)

-----------------------------------------------------------------------------
Commanded ==
  {"recv_command", "EXEC", "DOWNLOAD", "UPLOAD", "ready_to_recv",
   "ready_to_send", "recv_file", "send_file", "recv_confirm", "send_code",
   "send_result"}

Transfer == cmd \in {"DOWNLOAD", "UPLOAD"}

(* No command is received, and nothing is run, read or written for it,     *)
(* unless the client's user typed the server's token.                      *)
RunsAuthenticated == spc \in Commanded => typed_token = server_token

Exact(value, file) == value = "OK" => file = File(size)

(* commands.h:75 and 282, "OK on success": a transfer that the client      *)
(* reports as done left the whole file and nothing else, as long as recv() *)
(* does not cut what was sent, and so did one that the worker reports as   *)
(* done.  Two reports are worth nothing: that of a worker whose client had *)
(* left without OK (recv() returns 0, and the code then compares bytes     *)
(* nobody wrote with "200"), and that of a client which was sent an        *)
(* unwritten code of more than CODE_SIZE bytes.                            *)
UncutTransferIsExact ==
  whole =>
    /\ cmd = "DOWNLOAD" =>
         Exact(outcome, serverFile) /\ (Exact(cret, serverFile) \/ code = "overrun")
    /\ cmd = "UPLOAD" =>
         /\ Exact(cret, clientFile) \/ code = "overrun"
         /\ Exact(outcome, clientFile) \/ (~clientOpen /\ cret # "OK")

(* The client does not return OK for a request that execute_command()      *)
(* refused or gave up, whatever stale code it was sent, unless the buffer  *)
(* for the code was never written and strlen() ran past its end: it then   *)
(* takes the bytes after the third for the result of its request.          *)
OkMeansExecuted == whole /\ cret = "OK" => outcome = "OK" \/ code = "overrun"

Ended == cpc = "done" /\ spc \in {"closed", "exited"}

(* client.c:69, "Check errors.": both sides come to the end of their       *)
(* dialogue, as long as recv() does not cut what was sent and the client   *)
(* supports the option: of one that it does not it sends nothing, and both *)
(* wait.                                                                   *)
DialogueEnds == [](whole /\ cmd # "UNSUPPORTED" => <>Ended)
=============================================================================
