---------------------------- MODULE MCLifecycle -----------------------------
(***************************************************************************)
(* Lifecycle for TLC: the command lines and the lines of the file name     *)
(* every option, a refused one, a negative and an oversized number, a      *)
(* missing value and as many words as argv[] has places.                   *)
(***************************************************************************)
EXTENDS Lifecycle, TLC

Numbers == "1" :> 1 @@ "2" :> 2 @@ "80" :> 80 @@ "65616" :> 65616 @@ "-2" :> -2

TypedLines ==
  {<<>>, <<"-n", "1", "-c", "f">>, <<"-c", "f", "-n", "2", "-p", "80">>,
   <<"-p", "0">>, <<"-n">>, <<"-x">>}

FileLines ==
  [words : {<<"-n", "2", "-p", "65616">>, <<"-n", "-2">>, <<"-s", "-n", "1", "-c", "g">>,
            <<"-p", "80", "-s">>, <<"-n", "2", "-l">>, <<"-n", "0">>, <<"-x", "1">>,
            <<"-p", "80", "-n", "2", "-s", "-c", "f", "-l", "g">>,
            <<"-p", "80", "-n", "2", "-s", "-s", "-s", "-l", "g", "-p", "1">>},
   newline : BOOLEAN]

AllFaults == FallibleCalls
=============================================================================
