---------------------------- MODULE MCDispatch ------------------------------
(***************************************************************************)
(* Dispatch for TLC.  Descriptors and workers are interchangeable: no      *)
(* action and no safety property singles one out.                          *)
(***************************************************************************)
EXTENDS Dispatch, TLC

Symmetry == Permutations(Conns) \cup Permutations(Workers)

NoFaults == {}

AllFaults == FallibleCalls
=============================================================================
