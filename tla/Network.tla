------------------------------ MODULE Network -------------------------------
(***************************************************************************)
(* The connection between one client and the worker that serves it, as the *)
(* programs use send(), recv() and close() (external code).                *)
(*                                                                         *)
(* A message of the protocol is two units, so that recv() can return a     *)
(* part of it; a file is one unit per piece.  TCP keeps the order of the   *)
(* units and not the borders of the sends: recv() returns any non-empty    *)
(* part of what has arrived, up to the length asked for.  In a session     *)
(* with whole = TRUE it returns as much as it can, so that a send that     *)
(* fits the buffer is received as it was sent.                             *)
(***************************************************************************)
EXTENDS Integers, Sequences

CONSTANT BufferSize     \* units of a buffer of MSG_BUFFER_SIZE bytes

ASSUME BufferAssumption == BufferSize \in Nat /\ BufferSize > 2

VARIABLES
  toServer, toClient,        \* units sent and not received
  clientOpen, serverOpen,    \* the side has not closed the connection
  whole                      \* recv() does not split what was sent

network == <<toServer, toClient, clientOpen, serverOpen, whole>>

(* The units of a message: "HELO", a code, the challenge, "AUTH", ...      *)
MessageSize == 2

Message(kind, value) == <<<<kind, value, 1>>, <<kind, value, 2>>>>

Code(value) == Message("code", value)

File(size) == [i \in 1 .. size |-> <<"data", "", i>>]

Least(a, b) == IF a < b THEN a ELSE b

(* What recv() with a buffer of n units can return.                        *)
Received(stream, n) ==
  LET most == Least(n, Len(stream))
  IN  {SubSeq(stream, 1, k) : k \in {j \in 1 .. most : whole => j = most}}

Rest(stream, got) == SubSeq(stream, Len(got) + 1, Len(stream))

NetworkInit ==
  /\ toServer = <<>> /\ toClient = <<>>
  /\ clientOpen = TRUE /\ serverOpen = TRUE
  /\ whole \in BOOLEAN

-----------------------------------------------------------------------------
(* The calls of the worker.                                                *)

ServerReceives(got) ==
  /\ toServer' = Rest(toServer, got)
  /\ UNCHANGED <<toClient, clientOpen, serverOpen, whole>>

(* recv() returns 0, or -1 after a client that closed without reading all. *)
ServerHearsNothing ==
  /\ ~clientOpen /\ (toServer = <<>> \/ toClient # <<>>)
  /\ UNCHANGED network

ServerSends(units) ==
  /\ toClient' = IF clientOpen THEN toClient \o units ELSE toClient
  /\ UNCHANGED <<toServer, clientOpen, serverOpen, whole>>

(* send() can fail once the client has gone.                               *)
ServerSendFails == ~clientOpen /\ UNCHANGED network

ServerCloses ==
  /\ serverOpen' = FALSE
  /\ UNCHANGED <<toServer, toClient, clientOpen, whole>>

-----------------------------------------------------------------------------
(* The calls of the client.                                                *)

ClientReceives(got) ==
  /\ toClient' = Rest(toClient, got)
  /\ UNCHANGED <<toServer, clientOpen, serverOpen, whole>>

ClientHearsNothing ==
  /\ ~serverOpen /\ (toClient = <<>> \/ toServer # <<>>)
  /\ UNCHANGED network

ClientSends(units) ==
  /\ toServer' = IF serverOpen THEN toServer \o units ELSE toServer
  /\ UNCHANGED <<toClient, clientOpen, serverOpen, whole>>

ClientSendFails == ~serverOpen /\ UNCHANGED network

ClientCloses ==
  /\ clientOpen' = FALSE
  /\ UNCHANGED <<toServer, toClient, serverOpen, whole>>
=============================================================================
