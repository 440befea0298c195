---------------------------- MODULE MCPipeServer ----------------------------
(***************************************************************************)
(* PipeServer for TLC.                                                     *)
(***************************************************************************)
EXTENDS PipeServer

AllPrograms == {"serverNP", "serverSM", "serverNPCP"}
AllFaults == FallibleCalls
=============================================================================
