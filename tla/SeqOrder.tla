------------------------------ MODULE SeqOrder ------------------------------
(***************************************************************************)
(* The order the duplicate checker of Rcv_Univsl puts on sequence numbers: *)
(* two unsigned numbers of BITS bits are compared by the sign of their     *)
(* difference, computed in a signed 16 bit integer after a left shift that *)
(* drops the bits above BITS.                                              *)
(***************************************************************************)
EXTENDS Integers

CONSTANT BITS   \* width of a sequence number: the low digit of MODE, 16 for 0

ASSUME BitsAssumption == BITS \in 1 .. 16

\* What a cast to int16_t does to an int.
AsInt16(x) == LET m == x % 65536 IN IF m < 32768 THEN m ELSE m - 65536

\* int16_t diff = (u16val - p->_u16_value) << (16 - BITS)
Diff(new, old) == AsInt16((new - old) * 2^(16 - BITS))

\* Mutants: the same number again counts as newer; any other number does.
NewerOrSame(new, old) == Diff(new, old) >= 0
NewerIfOther(new, old) == Diff(new, old) # 0

Newer(new, old) == Diff(new, old) > 0
=============================================================================
