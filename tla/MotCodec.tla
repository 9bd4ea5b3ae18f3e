------------------------------ MODULE MotCodec ------------------------------
(***************************************************************************)
(* One acceleration sample on its way from PAL_MOT-fifo to                 *)
(* Parent-MONOSTICK: three 13 bit numbers in a 32 bit word and a byte.     *)
(* Shifts and masks are products, quotients and remainders of powers of    *)
(* two; the parts that the code joins by OR share no bit. The word stands  *)
(* for its 32 bits as a signed number: x, shifted to the top, has its sign *)
(* in the word's, and the mask on x cuts only what the shift drops.        *)
(***************************************************************************)
EXTENDS Integers

\* What 13 bits in two's complement can hold; the sensor gives -4000 .. 4000.
Axis == -4096 .. 4095

Sample == [x: Axis, y: Axis, z: Axis]

\* uint32_t(v) & 0x1FFF
Low13(v) == v % 8192

\* The word and the byte packed for sample v.
Encode(v) ==
  [v1 |-> v.x * 524288 + Low13(v.y) * 64 + (Low13(v.z) \div 128),
   v2 |-> v.z % 128]

\* Mutant: the 13 bits are taken for a number without a sign.
Unsigned(w) == w

\* int16_t(w << 3) >> 3: bit 12 becomes the sign.
Signed(w) ==
  LET shifted == (w * 8) % 65536
  IN  (IF shifted < 32768 THEN shifted ELSE shifted - 65536) \div 8

\* What the receiver makes of them.
Decode(e) ==
  [x |-> Signed((e.v1 \div 524288) % 8192),
   y |-> Signed((e.v1 \div 64) % 8192),
   z |-> Signed((e.v1 % 64) * 128 + (e.v2 % 128))]
=============================================================================
