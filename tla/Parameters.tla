----------------------------- MODULE Parameters -----------------------------
(***************************************************************************)
(* How the server reads its settings (sources/server.c:57-189).            *)
(*                                                                         *)
(* A command line is the sequence of the words argv[1 ..]; argv is closed  *)
(* by a NULL, and the code that reads the value of a last option meets it. *)
(* A line of the configuration file is the words strtok() cuts it into and *)
(* whether it has a newline at its end, which strtok() leaves in the last  *)
(* word: atoi() passes over it, a path keeps it.  Only the letter after    *)
(* the "-" counts in an option.                                            *)
(***************************************************************************)
EXTENDS Integers, Sequences, SequencesExt

CONSTANTS Atoi,       \* the numbers: what atoi() returns for the words it can read
          ArgvSize,   \* ARGV_SIZE
          Null        \* the NULL pointer

ASSUME ParametersAssumption ==
  /\ \A w \in DOMAIN Atoi : Atoi[w] \in Int
  /\ ArgvSize \in Nat \ {0}

Number(word) == IF word \in DOMAIN Atoi THEN Atoi[word] ELSE 0

NumberField == [w \in {"-p", "-n"} |-> IF w = "-p" THEN "port" ELSE "n_threads"]

PathField == [w \in {"-c", "-l"} |-> IF w = "-c" THEN "conf_file" ELSE "log_file"]

NoPath == [name |-> Null, newline |-> FALSE]

Path(word) == [name |-> word, newline |-> FALSE]

Defaults ==
  [port |-> 8888, n_threads |-> 10, s |-> 0, conf_file |-> NoPath,
   log_file |-> Path("/tmp/server.log")]

-----------------------------------------------------------------------------
(* get_parameters(): one pass over the words, into temporary settings.     *)

ValueOf(words, i) == IF i < Len(words) THEN words[i + 1] ELSE Null

(* newline says whether the last word ends with the end of a line.         *)
PathOf(words, i, newline) ==
  [name |-> ValueOf(words, i), newline |-> newline /\ i + 1 = Len(words)]

(* value says that the word is the value of the option before it.  atoi()  *)
(* of the closing NULL ends the process.                                   *)
VisitOption(words, newline, acc, i) ==
  LET w == words[i]
      v == ValueOf(words, i)
  IN  CASE w = "-s" -> [acc EXCEPT !.t.s = 1]
        [] w \in DOMAIN NumberField /\ v = Null -> [acc EXCEPT !.result = "CRASH"]
        [] w \in DOMAIN NumberField /\ v # Null /\ Number(v) = 0 ->
             [acc EXCEPT !.result = "PARAM_ERR"]
        [] w \in DOMAIN NumberField /\ v # Null /\ Number(v) # 0 ->
             [acc EXCEPT !.t[NumberField[w]] = Number(v), !.value = TRUE]
        [] w \in DOMAIN PathField ->
             [acc EXCEPT !.t[PathField[w]] = PathOf(words, i, newline), !.value = TRUE]
        [] OTHER -> [acc EXCEPT !.result = "PARAM_ERR"]

Visit(words, newline, acc, i) ==
  CASE acc.result # "OK" -> acc
    [] acc.result = "OK" /\ acc.value -> [acc EXCEPT !.value = FALSE]
    [] acc.result = "OK" /\ ~acc.value -> VisitOption(words, newline, acc, i)

(* argv and argc: the words up to number argc - 1 are visited.  visited[i] *)
(* is what the pass knows when it comes to word i.                         *)
GetParameters(words, argc, newline, settings) ==
  LET visited[i \in 0 .. argc] ==
        IF i <= 1 THEN [t |-> settings, value |-> FALSE, result |-> "OK"]
        ELSE Visit(words, newline, visited[i - 1], i - 1)
  IN  [result |-> visited[argc].result,
       settings |-> IF visited[argc].result = "OK" THEN visited[argc].t ELSE settings]

FromCommandLine(words, settings) ==
  GetParameters(words, Len(words) + 1, FALSE, settings)

-----------------------------------------------------------------------------
(* parse_conf_file() and update_parameters().                              *)

ConfArgcTwoShort(words) ==          \* mutant: decremented twice
  IF Len(words) < ArgvSize THEN Len(words) - 1 ELSE ArgvSize - 2

(* argc is the number of words, one less than for a command line; the      *)
(* words after ArgvSize are not read.                                      *)
ConfArgc(words) == IF Len(words) < ArgvSize THEN Len(words) ELSE ArgvSize - 1

(* The closing NULL, or the word ArgvSize, is stored behind argv[].        *)
Overruns(words) == Len(words) + 1 >= ArgvSize

(* A file that cannot be opened or read, a path that carries the end of a  *)
(* line among them, leaves the settings alone.                             *)
UpdateParameters(readable, line, settings) ==
  CASE settings.conf_file = NoPath -> [result |-> "OK", settings |-> settings]
    [] settings.conf_file # NoPath /\ (~readable \/ settings.conf_file.newline) ->
         [result |-> "INT_ERR", settings |-> settings]
    [] OTHER ->
         [result |-> "OK",
          settings |-> GetParameters(line.words, ConfArgc(line.words), line.newline,
                                     settings).settings]
=============================================================================
