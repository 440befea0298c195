--------------------------- MODULE MCSocketServer ---------------------------
(***************************************************************************)
(* SocketServer and its messages for TLC.                                  *)
(***************************************************************************)
EXTENDS SocketMessages

AllFaults == FallibleCalls

(* Texts of up to three characters, the first of each its own.             *)
FewTexts == {<<>>, <<1>>, <<2, 9>>, <<3, 9, 9>>, <<4, 9, 9, 9>>}
=============================================================================
