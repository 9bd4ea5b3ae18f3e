---------------------------- MODULE MotCodecProof ---------------------------
EXTENDS MotCodec, TLAPS

\* The sign is recovered from the low 13 bits of every 13 bit number
\* (PAL_MOT-fifo.cpp:238 against Parent-MONOSTICK.cpp:267-269).
LEMMA SignedLow ==
  ASSUME NEW w \in Axis
  PROVE  Signed(Low13(w)) = w
<1>1. CASE w >= 0
  <2>1. w % 8192 = w /\ w \in Int /\ w < 4096
    BY <1>1, SMT DEF Axis
  <2>2. (w * 8) % 65536 = w * 8 /\ w * 8 < 32768 /\ (w * 8) \div 8 = w
    BY <1>1, <2>1, SMT
  <2> QED BY <2>1, <2>2, SMT DEF Signed, Low13
<1>2. CASE w < 0
  <2>1. w % 8192 = w + 8192 /\ w \in Int /\ w >= -4096
    BY <1>2, SMT DEF Axis
  <2>2. ((w + 8192) * 8) % 65536 = w * 8 + 65536 /\ w * 8 + 65536 >= 32768
    BY <1>2, <2>1, SMT
  <2>3. (w * 8 + 65536 - 65536) \div 8 = w
    BY <2>1, SMT
  <2> QED BY <2>1, <2>2, <2>3, SMT DEF Signed, Low13
<1> QED BY <1>1, <1>2, SMT DEF Axis

\* The ranges of y's 13 bits and of the upper six of z.
Lower == 0 .. 8191
Upper == 0 .. 63

\* The word of the parts x, y and h; and what a receiver takes out of a word.
Joined(x, y, h) == x * 524288 + y * 64 + h
Split(v1, x, y, h) ==
  /\ v1 \div 524288 = x
  /\ (v1 \div 64) % 8192 = y
  /\ v1 % 64 = h

\* The receiver's shifts and masks take x, y and the upper part h of z out of
\* the 32 bit word again (PAL_MOT-fifo.cpp:238-240, Parent-MONOSTICK.cpp:262-266).
LEMMA Word ==
  ASSUME NEW x \in Axis, NEW y \in Lower, NEW h \in Upper,
         NEW v1, v1 = Joined(x, y, h)
  PROVE  Split(v1, x, y, h)
<1>0. v1 = x * 524288 + y * 64 + h
  BY SMT DEF Joined
<1>1. v1 \div 524288 = x
  BY <1>0, SMT DEF Axis, Lower, Upper
<1>2. v1 \div 64 = x * 8192 + y
  BY <1>0, SMT DEF Axis, Lower, Upper
<1>3. (x * 8192 + y) % 8192 = y
  <2>1. ((x * 8192 + y) \div 8192) = x
    BY SMT DEF Axis, Lower, Upper
  <2>2. (x * 8192 + y) % 8192 = (x * 8192 + y) - 8192 * ((x * 8192 + y) \div 8192)
    BY SMT DEF Axis, Lower, Upper
  <2> QED BY <2>1, <2>2, SMT DEF Axis, Lower, Upper
<1>4. v1 % 64 = h
  BY <1>0, SMT DEF Axis, Lower, Upper
<1>5. (v1 \div 64) % 8192 = y
  BY <1>2, <1>3, SMT
<1> QED BY <1>1, <1>4, <1>5, SMT DEF Split

\* The upper six bits of z, sent in the word, and the lower seven, sent in the
\* byte, are together its 13 bits (PAL_MOT-fifo.cpp:240-241).
LEMMA Halves ==
  ASSUME NEW z \in Axis
  PROVE  /\ Low13(z) \in Lower
         /\ Low13(z) \div 128 \in Upper
         /\ (Low13(z) \div 128) * 128 + ((z % 128) % 128) = Low13(z)
<1>1. z % 8192 \in 0 .. 8191
  BY SMT DEF Axis
<1>2. z \in Int /\ Low13(z) = z % 8192
  BY SMT DEF Axis, Low13
<1> DEFINE Parts(q) == /\ q \div 128 \in Upper
                       /\ (q \div 128) * 128 + ((z % 128) % 128) = q
<1>3. ASSUME z >= 0 PROVE Parts(z % 8192)
  <2>1. z % 8192 = z
    BY <1>3, SMT DEF Axis
  <2>2. (z \div 128) * 128 + (z % 128) = z /\ (z % 128) % 128 = z % 128
    BY SMT DEF Axis
  <2>3. (z \div 128) * 128 + ((z % 128) % 128) = z
    BY <2>2, SMT DEF Axis
  <2>4. z \div 128 \in 0 .. 63
    BY <1>3, SMT DEF Axis
  <2> QED BY <2>1, <2>3, <2>4, SMT DEF Upper
<1>4. ASSUME z < 0 PROVE Parts(z % 8192)
  <2>1. z % 8192 = z + 8192
    BY <1>4, SMT DEF Axis
  <2>2. (z + 8192) \div 128 = (z \div 128) + 64
    BY SMT DEF Axis
  <2>3. (z \div 128) * 128 + (z % 128) = z /\ (z % 128) % 128 = z % 128
    BY SMT DEF Axis
  <2>4. ((z + 8192) \div 128) * 128 + ((z % 128) % 128) = z + 8192
    BY <2>2, <2>3, SMT DEF Axis
  <2>5. (z + 8192) \div 128 \in 0 .. 63
    BY <1>4, SMT DEF Axis
  <2> QED BY <2>1, <2>4, <2>5, SMT DEF Upper
<1>5. Parts(Low13(z))
  <2> HIDE DEF Parts
  <2> QED BY <1>2, <1>3, <1>4, SMT
<1>6. Low13(z) \in Lower
  BY <1>1, SMT DEF Low13, Lower
<1> QED BY <1>5, <1>6, Zenon

(***************************************************************************)
(* What Parent-MONOSTICK prints is what PAL_MOT-fifo packed, for every     *)
(* sample of three 13 bit numbers.                                         *)
(***************************************************************************)
THEOREM RoundTrip == \A v \in Sample : Decode(Encode(v)) = v
<1> SUFFICES ASSUME NEW v \in Sample PROVE Decode(Encode(v)) = v
  BY SMT
<1>1. /\ v.x \in Axis /\ v.y \in Axis /\ v.z \in Axis
      /\ v = [x |-> v.x, y |-> v.y, z |-> v.z]
  BY SMT DEF Sample
<1> DEFINE e == Encode(v)
<1>2. /\ Low13(v.y) \in Lower
      /\ Low13(v.z) \div 128 \in Upper
      /\ (Low13(v.z) \div 128) * 128 + (e.v2 % 128) = Low13(v.z)
  <2>1. e.v2 = v.z % 128
    BY SMT DEF Encode
  <2>2. Low13(v.y) \in Lower
    BY <1>1, Halves, Zenon
  <2>3. /\ Low13(v.z) \div 128 \in Upper
        /\ (Low13(v.z) \div 128) * 128 + ((v.z % 128) % 128) = Low13(v.z)
    BY <1>1, Halves, Zenon
  <2> HIDE DEF e
  <2> QED BY <2>1, <2>2, <2>3, Zenon
<1>3. /\ e.v1 \div 524288 = v.x
      /\ (e.v1 \div 64) % 8192 = Low13(v.y)
      /\ e.v1 % 64 = Low13(v.z) \div 128
  <2>1. e.v1 = v.x * 524288 + Low13(v.y) * 64 + (Low13(v.z) \div 128)
    BY SMT DEF Encode
  <2> DEFINE y == Low13(v.y)
             h == Low13(v.z) \div 128
  <2>2. v.x \in Axis /\ y \in Lower /\ h \in Upper
    BY <1>1, <1>2, Zenon
  <2>3. e.v1 = Joined(v.x, y, h)
    BY <2>1, SMT DEF Joined
  <2> HIDE DEF e, y, h
  <2>4. Split(e.v1, v.x, y, h)
    BY <2>2, <2>3, Word, Zenon
  <2> QED BY <2>4, SMT DEF Split, y, h
<1>4. /\ Signed(Low13(v.x)) = v.x
      /\ Signed(Low13(v.y)) = v.y
      /\ Signed(Low13(v.z)) = v.z
  BY <1>1, SignedLow, Zenon
<1> QED BY <1>1, <1>2, <1>3, <1>4, SMT DEF Decode, Low13
=============================================================================
