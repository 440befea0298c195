------------------------------ MODULE Handoff -------------------------------
(***************************************************************************)
(* What the server's main thread and its pool promise about an accepted    *)
(* connection, without the semaphore, the critical section or the array:   *)
(* it waits in line, the oldest connection is taken first, exactly one     *)
(* worker takes it, and that worker serves it to the end.                  *)
(***************************************************************************)
EXTENDS Integers, Sequences

CONSTANTS Workers,    \* the threads of the pool
          Conns,      \* the connection descriptors
          Capacity,   \* the longest line
          Nobody      \* not a connection

VARIABLES line,       \* the connections nobody has taken, the oldest first
          serving     \* the connection of each worker, or Nobody

vars == <<line, serving>>

InLine == {line[i] : i \in 1 .. Len(line)}

Taken == {serving[w] : w \in Workers} \ {Nobody}

Init ==
  /\ line = <<>>
  /\ serving = [w \in Workers |-> Nobody]

Submit(c) ==
  /\ c \notin InLine \cup Taken
  /\ Len(line) < Capacity
  /\ line' = Append(line, c)
  /\ UNCHANGED serving

Take(w) ==
  /\ serving[w] = Nobody
  /\ line # <<>>
  /\ serving' = [serving EXCEPT ![w] = Head(line)]
  /\ line' = Tail(line)

Finish(w) ==
  /\ serving[w] # Nobody
  /\ serving' = [serving EXCEPT ![w] = Nobody]
  /\ UNCHANGED line

Next ==
  \/ \E c \in Conns : Submit(c)
  \/ \E w \in Workers : Take(w) \/ Finish(w)

Spec == Init /\ [][Next]_vars
=============================================================================
