--------------------------- MODULE MCTestMultiSem ---------------------------
(***************************************************************************)
(* TestMultiSem for TLC: one process with two consumers and a producer;    *)
(* two processes with a consumer each that share a name, or one of them    *)
(* without threads, which leaves its count to the other; one or two units; *)
(* bad parameters.                                                         *)
(***************************************************************************)
EXTENDS TestMultiSem, TLC

CONSTANTS TheName, p1, p2, c1, c2, r1

AllRoles == Consumers \cup Producers \cup {Ctrl}

Input(initial, fcfs, name, consumers, producers) ==
  [SemMax |-> 2, SemInitial |-> initial, FirstCFS |-> fcfs, Name |-> name,
   Consumers |-> consumers, Producers |-> producers]

Refused == Input(3, FALSE, NoName, {}, {})

Alone == {Input(1, fcfs, NoName, {c1, c2}, {r1}) : fcfs \in BOOLEAN}

Sharing(initial, fcfs) == Input(initial, fcfs, TheName, {c1}, {})

SomeInputs ==
  {(p1 :> one @@ p2 :> Refused) : one \in Alone}
    \cup {(p1 :> Sharing(1, one) @@ p2 :> Sharing(2, other)) : one \in BOOLEAN, other \in {TRUE}}
    \cup {p1 :> Input(1, FALSE, TheName, {}, {}) @@ p2 :> Sharing(2, FALSE)}
=============================================================================
