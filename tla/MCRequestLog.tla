--------------------------- MODULE MCRequestLog -----------------------------
(***************************************************************************)
(* RequestLog for TLC: every call may fail.                                *)
(***************************************************************************)
EXTENDS RequestLog

AllFaults == FallibleCalls
=============================================================================
