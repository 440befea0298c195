------------------------------ MODULE Security ------------------------------
(***************************************************************************)
(* The 64-bit numbers of the exchange: sources/security.h, which makes     *)
(* tokens and challenges, and the conversions of sources/networking.h.     *)
(*                                                                         *)
(* A number is the set of its bits that are 1, and Xor the operator ^ of   *)
(* C.  In a machine's memory its bytes stand in the order of the machine.  *)
(***************************************************************************)
CONSTANTS
  Bits,           \* the positions of the bits of a number
  Swap,           \* where a bit goes when the bytes change their order
  Passphrases,
  Hash,           \* the value of hash() for each passphrase
  LittleEndian    \* the programs that run on little endian machines

Numbers == SUBSET Bits       \* what long_rand() may return

ASSUME SecurityAssumption ==
  /\ Swap \in [Bits -> Bits] /\ \A b \in Bits : Swap[Swap[b]] = b
  /\ Hash \in [Passphrases -> Numbers]

Xor(a, b) == (a \ b) \cup (b \ a)

generateToken(passphrase) == Hash[passphrase]

Tokens == {generateToken(p) : p \in Passphrases}

Swapped(value) == {Swap[b] : b \in value}

little_endian(program) == program \in LittleEndian

htonll(program, value) == IF little_endian(program) THEN Swapped(value) ELSE value

nlltoh(program, value) == IF little_endian(program) THEN Swapped(value) ELSE value

(* The bytes of a number in memory, and the number that bytes stand for.   *)
Memory(program, value) == IF little_endian(program) THEN value ELSE Swapped(value)

(* The bytes that send_long() gives to send(), and the value that          *)
(* recv_long() makes of the bytes it has read.                             *)
send_long(program, value) == Memory(program, htonll(program, value))

recv_long(program, bytes) == nlltoh(program, Memory(program, bytes))
=============================================================================
