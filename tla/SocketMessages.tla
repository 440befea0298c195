--------------------------- MODULE SocketMessages ---------------------------
(***************************************************************************)
(* The framing of the messages of SocketServer's programs.                 *)
(***************************************************************************)
EXTENDS SocketServer, StreamMessages

(* The libraries that bring what they are given.                           *)
WholeLibraries == {l \in {"SK", "SKST", "SKHA"} : SendsWhole(l)}

(* SendReceiveSKST.c:97, SendReceiveSKHA.c:70 ("leaving residual data in   *)
(* the static buffer"): the library that frames the program's messages     *)
(* brings them whole and in order.                                         *)
MessagesAreWhole == build.Server.libraries \subseteq WholeLibraries
=============================================================================
