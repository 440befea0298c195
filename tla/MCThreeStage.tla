--------------------------- MODULE MCThreeStage -----------------------------
(***************************************************************************)
(* ThreeStage for TLC: one pair with two blocks of messages or two         *)
(* pairs with one message each, blocks of two, arrays of three slots.      *)
(***************************************************************************)
EXTENDS ThreeStage

PairThreads == Pairs \X {"producer", "consumer"} \cup {Transmitter, Receiver}

PipelineQueues == {"p2tq", "t2rq"} \cup Pairs

ThreeSlots == [k \in PipelineQueues |-> 3]

OnePairOrTwo ==
  LET first == CHOOSE p \in Pairs : TRUE
  IN  {[p \in Pairs |-> 1], [p \in Pairs |-> IF p = first THEN 4 ELSE 0]}
=============================================================================
