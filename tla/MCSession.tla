----------------------------- MODULE MCSession ------------------------------
(***************************************************************************)
(* Session for TLC.  A number is two bytes of one bit, and the two        *)
(* machines keep them in opposite orders.  A file is empty, shorter than a *)
(* buffer, as long as one, or longer.  The lines are all those of up to    *)
(* two words, and longer ones with an address, a port and a command.       *)
(***************************************************************************)
EXTENDS Session

OtherBit == [b \in {0, 1} |-> 1 - b]

TwoTokens == [p \in {"right", "wrong"} |-> IF p = "right" THEN {0} ELSE {0, 1}]

FileSizes == {0, 2, 3, 4}

Words == Options \cup {"0", "word"}

Lines ==
  {<<>>} \cup {<<v>> : v \in Words} \cup {<<v, w>> : v \in Words, w \in Words}
  \cup {<<"-h", "word", "-p", p, c>> \o a :
          p \in {"0", "word"}, c \in Options, a \in {<<>>, <<"word">>, <<"word", "word">>}}
=============================================================================
