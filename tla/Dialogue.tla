------------------------------ MODULE Dialogue ------------------------------
(***************************************************************************)
(* Where the two ends of a session stand towards each other: for each call *)
(* of one side, what the other side can be at and what the two streams     *)
(* between them hold.  It is what the code of server.c and client.c relies *)
(* on and never writes down.  Exchange describes the authentication, and   *)
(* holds however recv() cuts the streams; Agreement describes the command  *)
(* after it, and holds in a dialogue where nothing is cut.  Their          *)
(* conjunction DialogueInv is inductive.  After a code that nobody wrote   *)
(* and that is longer than CODE_SIZE only the worker's part of it holds.   *)
(***************************************************************************)
EXTENDS Session

(* The messages of the exchange.                                           *)
HELO == Message("HELO", "")

Number == Message("number", send_long("server", Xor(server_token, challenge)))

AUTH(client_token) ==
  Message("AUTH", Enc(Xor(server_token, challenge), client_token))

(* The client has nothing more to send.                                    *)
Leaves == cpc \in {"close", "done"}

TokensAreNumbers ==
  server_token \in Numbers /\ typed_token \in Numbers /\ challenge \in Numbers

(* A client that has not left can be reached.                              *)
Reachable == clientOpen \in BOOLEAN /\ (clientOpen \/ cpc = "done")

WhileRecvHelo ==
  spc = "recv_helo" =>
    /\ toServer \in {<<>>, HELO}
    /\ \/ cpc = "send_helo" /\ toServer = <<>> /\ toClient = <<>>
       \/ cpc = "recv_300" /\ toClient = <<>>
       \/ Leaves

WhileSend300 ==
  spc = "send_300" =>
    /\ toServer = <<>>
    /\ (cpc = "recv_300" /\ toClient = <<>>) \/ Leaves

WhileSendChallenge ==
  spc = "send_challenge" =>
    /\ toServer = <<>>
    /\ \/ cpc = "recv_300" /\ toClient = Code("300")
       \/ cpc = "recv_challenge" /\ toClient = <<>>
       \/ Leaves

WhileRecvAuth ==
  spc = "recv_auth" =>
    /\ toServer = <<>> \/ \E t \in Tokens : toServer = AUTH(t)
    /\ \/ cpc = "recv_300" /\ toServer = <<>> /\ toClient = Code("300") \o Number
       \/ cpc = "recv_challenge" /\ toServer = <<>> /\ toClient = Number
       \/ cpc = "send_auth" /\ toServer = <<>> /\ toClient = <<>>
            /\ xor = Xor(server_token, challenge)
       \/ cpc = "recv_verdict" /\ toClient = <<>>
       \/ Leaves

Verified == spc \in {"send_200"} \cup Commanded => typed_token = server_token

Exchange ==
  /\ TokensAreNumbers /\ Reachable
  /\ cmd \in {"EXEC", "UPLOAD", "DOWNLOAD", "UNSUPPORTED"}
  /\ WhileRecvHelo /\ WhileSend300 /\ WhileSendChallenge /\ WhileRecvAuth
  /\ Verified

-----------------------------------------------------------------------------
(* The units of the streams and of the files.                              *)
Unit == {"code", "result", "data", "cmd"} \X (Codes \cup {""}) \X Nat

Full(n) == \E k \in 0 .. n : n = k * BufferSize

(* What the client sends and is sent for its command.                      *)
CommandUnits == IF cmd = "UNSUPPORTED" THEN <<>> ELSE Message("cmd", "")

ResultUnits == IF reply THEN Message("result", "") ELSE <<>>

Read(n) == SubSeq(File(size), 1, n)

(* The worker has not decided yet, or has.                                 *)
Working == {"EXEC", "UPLOAD", "DOWNLOAD", "ready_to_recv", "ready_to_send",
            "recv_file", "send_file", "recv_confirm"}

Early == {"send_helo", "recv_300", "recv_challenge", "send_auth", "recv_verdict"}

Exchanging == {"recv_helo", "send_300", "send_challenge", "recv_auth"}

Closing == {"close", "closed"}

(* `stream` is what the worker has sent of its answer.                     *)
Answered(stream) ==
  \/ spc = "send_code" /\ stream = <<>>
  \/ spc = "send_result" /\ stream = CodeUnits
  \/ spc \in Closing /\ stream = CodeUnits \o ResultUnits

(* The worker gave up, and the client has taken the code for its answer or *)
(* for the end of the file: nothing else comes.                            *)
Abandoned ==
  spc \in {"send_result"} \cup Closing /\ ~reply /\ toClient = <<>>

(* The units of the file the client has got or still will, and, when the   *)
(* worker gave up, a code after them.                                      *)
Arriving(stream) ==
  /\ Full(Len(clientFile)) /\ toServer = <<>>
  /\ \/ spc \in {"send_file", "recv_confirm"} /\ clientFile \o stream = Read(sent)
     \/ spc = "send_code" /\ ~reply /\ Full(Len(stream))
     \/ /\ spc \in {"send_result"} \cup Closing /\ ~reply
        /\ Full(Len(stream)) \/ (Len(stream) >= Len(CodeUnits) /\ Full(Len(stream) - Len(CodeUnits)))

Received200 == Rest(toClient, Code("200"))

-----------------------------------------------------------------------------
ServerTypes ==
  /\ code \in Codes /\ reply \in BOOLEAN
  /\ size \in Nat /\ sent \in Nat
  /\ serverFile \in Seq(Unit)

(* The worker runs the client's command.                                   *)
RunsCommand ==
  /\ spc = "EXEC" => cmd = "EXEC"
  /\ spc \in {"DOWNLOAD", "ready_to_recv", "recv_file"} => cmd = "DOWNLOAD"
  /\ spc \in {"UPLOAD", "ready_to_send", "send_file", "recv_confirm"} =>
       cmd = "UPLOAD" /\ complete
  /\ spc \in {"send_code", "send_result"} => cmd # "UNSUPPORTED"
  /\ spc \in Exchanging \cup {"send_200", "send_400", "recv_command"} \cup Working =>
       outcome = "" /\ ~reply
  /\ outcome = "OK" => reply
  /\ spc = "closed" \/ serverOpen
  /\ spc \in Exchanging \cup Working \cup Closing \cup
              {"send_200", "send_400", "recv_command", "send_code", "send_result", "exited"}

Replied ==
  reply => /\ code \notin Unwritten /\ outcome # ""
           /\ cmd = "EXEC" /\ code = "300" => outcome = "OK"
           /\ Transfer => outcome = "OK"

FileReceived ==
  /\ spc = "send_200" => toServer = <<>>
  /\ spc = "recv_command" => toServer \in {<<>>, CommandUnits}
  /\ spc \in {"DOWNLOAD", "ready_to_recv", "UPLOAD", "ready_to_send", "send_file"} =>
       toServer = <<>>
  /\ spc \in Exchanging \cup {"send_200", "recv_command", "DOWNLOAD", "ready_to_recv"} =>
       serverFile = <<>> /\ (cmd = "DOWNLOAD" => sent = 0)
  /\ spc = "recv_file" => /\ serverOpen /\ toServer \in Seq(Unit) /\ Full(Len(serverFile))
                          /\ serverFile \o toServer = Read(sent)
                          /\ (Full(sent) /\ sent <= size) \/ sent = size
  /\ cmd = "DOWNLOAD" /\ outcome = "OK" => serverFile = File(size)

FileSent ==
  /\ spc = "send_file" => Full(sent) /\ sent <= size
  /\ spc = "recv_confirm" => sent = size
  /\ spc \in Exchanging \cup {"send_200", "recv_command", "UPLOAD", "ready_to_send"} /\ cmd = "UPLOAD" => sent = 0

-----------------------------------------------------------------------------
WhileExchanging ==
  cpc \in Early =>
    /\ clientFile = <<>> /\ sent = 0
    /\ \/ spc \in Exchanging
       \/ /\ cpc = "recv_verdict" /\ toServer = <<>>
          /\ \/ spc \in {"send_200", "send_400"} /\ toClient = <<>>
             \/ spc = "recv_command" /\ toClient = Code("200")
             \/ spc \in Closing /\ toClient = Code("400")

WhileSendCommand ==
  cpc = "send_command" =>
    /\ clientFile = <<>> /\ sent = 0
    /\ spc = "recv_command" /\ toServer = <<>> /\ toClient = <<>>

WhileRecvCode ==
  cpc = "recv_code" =>
    /\ clientFile = <<>> /\ (cmd = "DOWNLOAD" => sent = 0)
    /\ \/ spc = "recv_command" /\ toServer = CommandUnits /\ toClient = <<>>
       \/ /\ toServer = <<>> /\ cmd # "UNSUPPORTED"
          /\ \/ spc \in {"EXEC", "UPLOAD", "DOWNLOAD", "ready_to_recv", "ready_to_send"} /\ toClient = <<>>
             \/ spc = "recv_file" /\ toClient = Code("200")
             \/ Answered(toClient) /\ (reply => cmd = "EXEC")
             \/ /\ cmd = "UPLOAD" /\ spc \notin {"recv_command"}
                /\ toClient = Code("200") \o Received200 /\ Received200 \in Seq(Unit)
                /\ Arriving(Received200)

WhileDownload ==
  /\ cpc \in {"open_file"} /\ cmd = "DOWNLOAD" => sent = 0
  /\ cpc = "send_file" => cmd = "DOWNLOAD" /\ Full(sent) /\ sent <= size
  /\ cpc \in {"open_file", "send_file", "recv_final_code"} /\ cmd = "DOWNLOAD" =>
       (spc = "recv_file" /\ toClient = <<>>) \/ Answered(toClient) \/ Abandoned

WhileUpload ==
  cmd = "UPLOAD" =>
    /\ cpc \in {"open_file", "recv_file"} =>
         toClient \in Seq(Unit) /\ (cpc = "open_file" => clientFile = <<>>) /\ Arriving(toClient)
    /\ cpc = "send_confirm" =>
         \/ /\ spc = "recv_confirm" /\ toClient = <<>> /\ toServer = <<>>
            /\ clientFile = File(size)
         \/ Abandoned
    /\ cpc = "recv_final_code" =>
         \/ /\ clientFile = File(size)
            /\ (spc = "recv_confirm" /\ toClient = <<>>) \/ Answered(toClient)
         \/ Abandoned

WhileRecvOutput ==
  cpc = "recv_output" =>
    /\ cmd # "UNSUPPORTED"
    /\ \/ spc = "send_result" /\ toClient = <<>>
       \/ spc \in Closing /\ toClient \in {<<>>, ResultUnits}
    /\ reply => outcome = "OK" /\ (cmd = "UPLOAD" => clientFile = File(size))

(* The confirmation that the worker receives, and what it concludes.       *)
Confirmed ==
  /\ clientFile \in Seq(Unit)
  /\ spc = "recv_confirm" => toServer = <<>> \/ clientFile = File(size)
  /\ cmd = "UPLOAD" /\ outcome = "OK" =>
       clientFile = File(size) \/ (~clientOpen /\ cret # "OK")

Reports ==
  /\ cret = "OK" => /\ Leaves /\ outcome = "OK" /\ spc \in Closing
                    /\ cmd = "UPLOAD" => clientFile = File(size)
  /\ cpc \in {"recv_file", "send_confirm"} => cmd = "UPLOAD"
  /\ cpc = "open_file" \/ cpc = "recv_final_code" => Transfer
  /\ clientOpen \/ cpc = "done"
  /\ cpc \in Early \cup {"send_command", "recv_code", "recv_output", "open_file", "send_file",
                        "recv_file", "send_confirm", "recv_final_code", "close", "done"}

-----------------------------------------------------------------------------
ServerFacts == ServerTypes /\ RunsCommand /\ Replied /\ FileReceived /\ FileSent

ClientFacts ==
  /\ WhileExchanging /\ WhileSendCommand /\ WhileRecvCode
  /\ WhileDownload /\ WhileUpload /\ WhileRecvOutput /\ Confirmed /\ Reports

Agreement == ServerFacts /\ ClientFacts

(* A code longer than CODE_SIZE may have been sent: the client takes parts *)
(* of it for anything, and nothing is known of the client.                 *)
Overrun == code = "overrun" /\ spc \in {"send_result", "exited"} \cup Closing

(* The calls of the client before it leaves and after it leaves.           *)
AfterCommand == {"recv_code", "recv_output", "open_file", "send_file",
                 "recv_file", "send_confirm", "recv_final_code"}

Leaving == {"close", "done"}

(* A new dialogue, the first of the worker or a later one.                 *)
Begins ==
  /\ spc = "recv_helo" /\ cpc = "send_helo" /\ cret = "" /\ clientOpen /\ serverOpen
  /\ toServer = <<>> /\ toClient = <<>> /\ code \in Codes /\ size \in Nat
  /\ sent = 0 /\ reply = FALSE /\ outcome = ""
  /\ serverFile = <<>> /\ clientFile = <<>>

DialogueInv ==
  /\ Exchange /\ code \in Codes
  /\ whole => ServerFacts /\ (Overrun \/ ClientFacts)
=============================================================================
