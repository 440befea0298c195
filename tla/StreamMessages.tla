--------------------------- MODULE StreamMessages ---------------------------
(***************************************************************************)
(* How the socket programs of Win32SmpEd2/CHAPTR12 cut a stream of bytes   *)
(* into messages.  recv() returns any positive number of the bytes that    *)
(* have come, up to the number it is asked for, and 0 once the sender has  *)
(* closed and all has been read.                                           *)
(*                                                                         *)
(* serverSK.c, clientSK.c and the service send the length before the text. *)
(* SendReceiveSKST.c and SendReceiveSKHA.c end the text with a null        *)
(* character, and keep what they have read beyond it: one keeps it with    *)
(* the thread, the other with a handle of the socket.                      *)
(***************************************************************************)
EXTENDS Integers, Sequences, SequencesExt, FiniteSets

CONSTANTS
  MAX_RQRS_LEN,  \* the size of a buffer
  HeaderLen,     \* the bytes of a header
  Texts          \* the texts sent: sequences of characters other than NUL

NUL == 0

ASSUME StreamAssumption ==
  /\ MAX_RQRS_LEN \in Nat \ {0} /\ HeaderLen \in Nat \ {0}
  /\ Texts \subseteq Seq(Nat \ {NUL})

THREAD == 0      \* the owner of what a thread of SKST keeps

-----------------------------------------------------------------------------
(* The senders.  Their loops send all the bytes, in pieces.                *)

SendLengthMessage(text) == [i \in 1 .. HeaderLen |-> Len(text) + 1] \o text \o <<NUL>>

SendCSMessage(text) == text \o <<NUL>>

-----------------------------------------------------------------------------
(* A call to receive: the text so far, what it keeps, the bytes left in    *)
(* the stream, how many bytes it may still ask recv() for, and whether it  *)
(* saw the end of the stream.                                              *)

Receiving(text, stream, nRemainRecv) ==
  [text |-> text, kept |-> <<>>, stream |-> stream, nRemainRecv |-> nRemainRecv,
   disconnect |-> FALSE]

Returned(text, kept, stream) ==
  [text |-> text, kept |-> kept, stream |-> stream, nRemainRecv |-> 0, disconnect |-> FALSE]

Disconnected(kept) ==
  [text |-> <<>>, kept |-> kept, stream |-> <<>>, nRemainRecv |-> 0, disconnect |-> TRUE]

(* The characters of s before its first null, and what follows the null.   *)
Complete(s) == NUL \in ToSet(s)
FirstNul(s) == SelectInSeq(s, LAMBDA b : b = NUL)
Before(s) == SubSeq(s, 1, FirstNul(s) - 1)
After(s) == SubSeq(s, FirstNul(s) + 1, Len(s))

(* A recv() that brings n bytes of a number that is known.                 *)
Piece(call, n) ==
  Receiving(call.text \o SubSeq(call.stream, 1, n), SubSeq(call.stream, n + 1, Len(call.stream)),
            call.nRemainRecv - n)

PiecePass(call) ==
  IF call.nRemainRecv <= 0 \/ call.disconnect THEN {call}
  ELSE IF call.stream = <<>> THEN {Disconnected(<<>>)}
  ELSE {Piece(call, n) : n \in {k \in 1 .. Len(call.stream) : k <= call.nRemainRecv}}

(* A loop that receives n bytes, in as many calls as it takes.             *)
ReceiveAll(n, stream) ==
  LET passes[i \in 0 .. Len(stream) + 1] ==
        IF i = 0 THEN {Receiving(<<>>, stream, n)}
        ELSE UNION {PiecePass(call) : call \in passes[i - 1]}
  IN  passes[Len(stream) + 1]

(* The header, then as many bytes as it says; the record ends at its null. *)
Record(header, kept) ==
  IF header.disconnect THEN {Disconnected(kept)}
  ELSE {IF call.disconnect THEN Disconnected(kept) ELSE Returned(Before(call.text), kept, call.stream)
        : call \in ReceiveAll(header.text[1], header.stream)}

ReceiveLengthMessage(kept, stream) ==
  UNION {Record(header, kept) : header \in ReceiveAll(HeaderLen, stream)}

(* A recv() that brings n bytes; a piece without a null counts twice.      *)
Transfer(call, n) ==
  LET piece == SubSeq(call.stream, 1, n)
      rest == SubSeq(call.stream, n + 1, Len(call.stream))
  IN  IF Complete(piece)
      THEN Returned(call.text \o Before(piece), After(piece), rest)
      ELSE Receiving(call.text \o piece, rest, call.nRemainRecv - 2 * n)

(* One pass of the loop.  When the buffer is used up the call ends as if a *)
(* null had come.                                                          *)
Pass(call) ==
  IF call.nRemainRecv <= 0 \/ call.disconnect THEN {call}
  ELSE IF call.stream = <<>> THEN {Disconnected(<<>>)}
  ELSE {Transfer(call, n) : n \in {k \in 1 .. Len(call.stream) : k <= call.nRemainRecv}}

(* Each pass but the last takes a byte of the stream at least.             *)
RecvLoop(text, nRemainRecv, stream) ==
  LET passes[i \in 0 .. Len(stream) + 1] ==
        IF i = 0 THEN {Receiving(text, stream, nRemainRecv)}
        ELSE UNION {Pass(call) : call \in passes[i - 1]}
  IN  passes[Len(stream) + 1]

ReceiveFresh(kept, stream) ==       \* mutant: what was kept is not looked at
  RecvLoop(<<>>, MAX_RQRS_LEN, stream)

(* A message that is complete in what was kept needs no recv().            *)
ReceiveCSMessage(kept, stream) ==
  IF Complete(kept) THEN {Returned(Before(kept), After(kept), stream)}
  ELSE RecvLoop(kept, MAX_RQRS_LEN - Len(kept), stream)

-----------------------------------------------------------------------------
(* A library: who owns what was read beyond a message, and how it sends    *)
(* and receives.                                                           *)

STATIC_BUF(socket) == THREAD        \* the memory of the thread

SOCKET_HANDLE(socket) == socket     \* the handle of the socket

Owner(library, socket) ==
  IF library = "SKHA" THEN SOCKET_HANDLE(socket) ELSE STATIC_BUF(socket)

Send(library, text) ==
  IF library = "SK" THEN SendLengthMessage(text) ELSE SendCSMessage(text)

Receive(library, kept, stream) ==
  IF library = "SK" THEN ReceiveLengthMessage(kept, stream) ELSE ReceiveCSMessage(kept, stream)

(* The bytes of the last n messages, for every n.                          *)
Stream(library, texts) ==
  LET last[n \in 0 .. Len(texts)] ==
        IF n = 0 THEN <<>> ELSE Send(library, texts[Len(texts) - n + 1]) \o last[n - 1]
  IN  last

-----------------------------------------------------------------------------
(* A thread that reads from its sockets, in any order, until each has seen *)
(* the end of its stream.                                                  *)

Beginning(library, sent) ==
  [kept |-> [o \in DOMAIN sent \cup {THREAD} |-> <<>>],
   streams |-> [s \in DOMAIN sent |-> Stream(library, sent[s])[Len(sent[s])]],
   open |-> DOMAIN sent, got |-> [s \in DOMAIN sent |-> <<>>]]

Took(library, x, s, call) ==
  [kept |-> [x.kept EXCEPT ![Owner(library, s)] = call.kept],
   streams |-> [x.streams EXCEPT ![s] = call.stream],
   open |-> IF call.disconnect THEN x.open \ {s} ELSE x.open,
   got |-> IF call.disconnect THEN x.got ELSE [x.got EXCEPT ![s] = Append(@, call.text)]]

Reads(library, x) ==
  IF x.open = {} THEN {x}
  ELSE UNION {{Took(library, x, s, call) :
                 call \in Receive(library, x.kept[Owner(library, s)], x.streams[s])}
              : s \in x.open}

(* The calls it takes: one for each message, and one for each end.         *)
Expected(sent) == UNION {{s} \X (0 .. Len(sent[s])) : s \in DOMAIN sent}

ReadAll(library, sent) ==
  LET last == Cardinality(Expected(sent))
      after[i \in 0 .. last] ==
        IF i = 0 THEN {Beginning(library, sent)}
        ELSE UNION {Reads(library, x) : x \in after[i - 1]}
  IN  after[last]

-----------------------------------------------------------------------------
(* However the bytes are cut, the messages come whole and in order, and    *)
(* nothing else comes; with a handle a thread may read two sockets in turn.*)
(* A message that ends in a null must take less than half the buffer.      *)
Fits(library, text) == library = "SK" \/ 2 * Len(text) < MAX_RQRS_LEN

Whole(library, sent) ==
  {<<x.open, x.got>> : x \in ReadAll(library, sent)} = {<<{}, sent>>}

SendsWhole(library) ==
  LET Sent == {t \in Texts : Fits(library, t)}
      Dialogues ==
        IF library = "SKHA"
        THEN {<< <<t, u>>, <<v>> >> : t \in Sent, u \in Sent, v \in Sent}
        ELSE {<< <<t, u>> >> : t \in Sent, u \in Sent}
  IN  \A d \in Dialogues : Whole(library, d)
=============================================================================
