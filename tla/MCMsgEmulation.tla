--------------------------- MODULE MCMsgEmulation ---------------------------
(***************************************************************************)
(* MsgEmulation for TLC: three threads with up to four calls each, queues  *)
(* with room for three short messages and a system with room for four.     *)
(***************************************************************************)
EXTENDS TestMsgEmulation

CONSTANTS t1, t2, t3, k1, k2

Snd(type, size) == Transfer("msgsnd", type, size)
Rcv(type, size) == Transfer("msgrcv", type, size)
NoWait(c) == [c EXCEPT !.nowait = TRUE]
User(u) == [op |-> "em_set_all_ids", ids |-> [uid |-> u, euid |-> u, gid |-> u]]

OpenRW == Get(k1, UserRW)

(* Producers and consumers of one queue.                                   *)
PairedPrograms ==
  {(t1 :> <<OpenRW, Snd(1, 2), Snd(1, 1), Snd(1, 2)>>) @@
   (t2 :> <<OpenRW, Rcv(1, 3), Rcv(1, 3), Rcv(1, 3)>>) @@ (t3 :> <<>>),
   (t1 :> <<OpenRW, Snd(1, 2), Snd(2, 2), Snd(1, 1)>>) @@
   (t2 :> <<OpenRW, Rcv(1, 3), Rcv(1, 3)>>) @@ (t3 :> <<OpenRW, Rcv(2, 3)>>),
   (t1 :> <<OpenRW, Snd(1, 2), Snd(1, 2)>>) @@ (t2 :> <<OpenRW, Snd(1, 2), Snd(1, 1)>>) @@
   (t3 :> <<OpenRW, Rcv(1, 3), Rcv(1, 3), Rcv(1, 3), Rcv(1, 3)>>)}

(* Calls that fail, that miss, that cut, and a queue that is removed.      *)
Senders ==
  {CreateOrOpen \o <<Snd(1, 2), Snd(2, 1), Snd(1, 2)>>,
   <<Get(k1, UserRW \cup {<<"IPC", "CREAT">>, <<"IPC", "EXCL">>}), NoWait(Snd(1, 2)), Snd(2, 0), Snd(1, 3)>>}

Receivers ==
  {<<OpenRW, Rcv(0, 3), Rcv(2, 3)>>,
   <<OpenRW, NoWait(Rcv(1, 3)), NoWait(Rcv(2, 1)), Rcv(1, 1)>>,
   <<User(1), OpenRW, Rcv(1, 3), Ctl("IPC_RMID")>>}

Others ==
  {<<OpenRW, Ctl("IPC_RMID"), Ctl("IPC_STAT")>>,
   <<Get(k2, UserRW), Snd(1, 3), Get(k1, UserRW), Ctl("IPC_RMID")>>,
   <<Get(IPC_PRIVATE, UserRW), CtlSet(5, 1, UserRW), Snd(1, 1), User(2)>>}

OtherPrograms ==
  {(t1 :> s) @@ (t2 :> r) @@ (t3 :> o) : s \in Senders, r \in Receivers, o \in Others}

AllPrograms == PairedPrograms \cup OtherPrograms \cup TestPrograms
=============================================================================
