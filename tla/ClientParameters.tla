-------------------------- MODULE ClientParameters --------------------------
(***************************************************************************)
(* The command line of sources/client.c: get_parameters(), parse_command() *)
(* of sources/commands.h, and what main() does with what they return.      *)
(*                                                                         *)
(* A line is the sequence of words after the program's name.  A word is an *)
(* option, or "0" or another text without a dash.  LIST, SIZE and EXEC are *)
(* one command, EXEC, as in module Session.                                *)
(***************************************************************************)
EXTENDS Integers, Sequences

Options == {"-h", "-p", "-l", "-s", "-e", "-u", "-d", "-x"}

(* parse_command(): the option, and all the words behind it.               *)
Tag(option) ==
  CASE option \in {"-l", "-s", "-e"} -> "EXEC"
    [] option = "-u" -> "UPLOAD"
    [] option = "-d" -> "DOWNLOAD"
    [] OTHER -> "UNSUPPORTED"

(* The words that the worker does not do without.                          *)
Needed(option) == CASE option \in {"-s", "-e"} -> 1
                    [] option \in {"-u", "-d"} -> 2
                    [] OTHER -> 0

parse_command(option, args) ==
  [ret |-> IF Tag(option) = "UNSUPPORTED" THEN "COMM_ERR" ELSE "OK",
   ip |-> "unset", port |-> "unset",
   tag |-> option, cmd |-> Tag(option), complete |-> Len(args) >= Needed(option)]

Fails(ret) ==
  [ret |-> ret, ip |-> "unset", port |-> "unset", tag |-> "", cmd |-> "", complete |-> FALSE]

(* The words from the i-th on.  What is not given stays uninitialised; a   *)
(* missing port is read through argv's last pointer, which is NULL.        *)
get_parameters(argv) ==
  LET from[i \in 1 .. Len(argv) + 2] ==
        IF i > Len(argv) \/ argv[i] \notin Options THEN Fails("PROTO_ERR")
        ELSE CASE argv[i] = "-h" -> [from[i + 2] EXCEPT !.ip = "given"]
               [] argv[i] = "-p" ->
                    IF i = Len(argv) THEN Fails("crash")
                    ELSE IF argv[i + 1] \in Options \cup {"0"} THEN Fails("PARAM_ERR")
                    ELSE [from[i + 2] EXCEPT !.port = "given"]
               [] OTHER -> parse_command(argv[i], SubSeq(argv, i + 1, Len(argv)))
  IN  from[1]

(* main() goes on to the worker, and does not look at COMM_ERR: an option  *)
(* nobody supports leaves the command empty.  Without an address or a port *)
(* it connects to whatever the uninitialised variables hold.               *)
Connects(argv) == get_parameters(argv).ret \in {"OK", "COMM_ERR"}

(* SIZE without a name ends the server's process: strcat() of NULL.        *)
EndsTheServer(argv) ==
  get_parameters(argv).tag = "-s" /\ ~get_parameters(argv).complete

(* The requests of the lines that come to a dialogue.                      *)
Requests(lines) ==
  {[cmd |-> get_parameters(l).cmd, complete |-> get_parameters(l).complete] :
     l \in {k \in lines : Connects(k) /\ ~EndsTheServer(k)}}
=============================================================================
