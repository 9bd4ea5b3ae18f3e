---------------------------- MODULE DupNetProof -----------------------------
(***************************************************************************)
(* Proofs about DupNet: the duplicate checker behind senders and relays,   *)
(* for every number of senders, width of their clocks, and delay.          *)
(***************************************************************************)
EXTENDS DupNet, DupCheckProof

----------------------------------------------------------------------------
(* The order of wrapping numbers.                                          *)

\* The powers behind the shift, for each width there is.
LEMMA Powers ==
  /\ 2^BITS \in Nat /\ 2^(BITS - 1) \in Nat /\ 2^(16 - BITS) \in Nat
  /\ 2^BITS >= 2 /\ 2^BITS = 2 * 2^(BITS - 1)
  /\ 2^BITS * 2^(16 - BITS) = 65536
  /\ 2^(BITS - 1) * 2^(16 - BITS) = 32768
<1>1. CASE BITS = 1
  BY <1>1
<1>2. CASE BITS = 2
  BY <1>2
<1>3. CASE BITS = 3
  BY <1>3
<1>4. CASE BITS = 4
  BY <1>4
<1>5. CASE BITS = 5
  BY <1>5
<1>6. CASE BITS = 6
  BY <1>6
<1>7. CASE BITS = 7
  BY <1>7
<1>8. CASE BITS = 8
  BY <1>8
<1>9. CASE BITS = 9
  BY <1>9
<1>10. CASE BITS = 10
  BY <1>10
<1>11. CASE BITS = 11
  BY <1>11
<1>12. CASE BITS = 12
  BY <1>12
<1>13. CASE BITS = 13
  BY <1>13
<1>14. CASE BITS = 14
  BY <1>14
<1>15. CASE BITS = 15
  BY <1>15
<1>16. CASE BITS = 16
  BY <1>16
<1> QED
  BY BitsAssumption, <1>1, <1>2, <1>3, <1>4, <1>5, <1>6, <1>7, <1>8, <1>9, <1>10, <1>11, <1>12, <1>13, <1>14, <1>15, <1>16

\* A product of factors in bounds.
LEMMA Products ==
  ASSUME NEW h \in Nat, NEW k \in Nat, NEW d \in Nat, d <= h
  PROVE  d * k <= h * k /\ d * k \in Nat
OBVIOUS

\* A remainder differs by a multiple of the modulus.
LEMMA ModForm ==
  ASSUME NEW m \in Nat \ {0}, NEW x \in Int
  PROVE  \E q \in Int : x % m = x - q * m
<1>1. x \div m \in Int /\ x % m = x - (x \div m) * m
  OBVIOUS
<1> QED
  BY <1>1

\* The cast of a multiple of 2^16.
LEMMA ZeroInt16 ==
  ASSUME NEW x \in Int, x % 65536 = 0
  PROVE  AsInt16(x) = 0
BY DEF AsInt16

\* A number is not newer than one given at most half of the range after it: the
\* shift makes the difference wrap at BITS bits.
LEMMA NotNewer ==
  ASSUME NEW c \in Int, NEW s \in Nat, NEW e \in Nat, e <= s, s - e <= 2^(BITS - 1)
  PROVE  ~ Newer((c - s) % 2^BITS, (c - e) % 2^BITS)
<1> DEFINE m == 2^BITS
           k == 2^(16 - BITS)
           h == 2^(BITS - 1)
           v == (c - s) % m
           w == (c - e) % m
           d == s - e
<1>1. /\ m \in Nat \ {0} /\ k \in Nat /\ h \in Nat /\ m * k = 65536 /\ h * k = 32768
      /\ d \in Nat /\ d <= h
  BY Powers, SMT
<1> HIDE DEF m, k, h
<1>2. PICK p \in Int : v = (c - s) - p * m
  <2>0. m \in Nat \ {0}
    BY <1>1
  <2> DEFINE x == c - s
  <2>1. x \in Int
    OBVIOUS
  <2> HIDE DEF x
  <2>2. \E p \in Int : x % m = x - p * m
    BY <2>0, <2>1, ModForm
  <2> QED
    BY <2>2 DEF x
<1>3. PICK q \in Int : w = (c - e) - q * m
  <2>0. m \in Nat \ {0}
    BY <1>1
  <2> DEFINE x == c - e
  <2>1. x \in Int
    OBVIOUS
  <2> HIDE DEF x
  <2>2. \E q \in Int : x % m = x - q * m
    BY <2>0, <2>1, ModForm
  <2> QED
    BY <2>2 DEF x
<1> HIDE DEF v, w
<1>4. (v - w) * k = (q - p) * 65536 - d * k
  <2>1. v - w = (q - p) * m - d
    BY <1>1, <1>2, <1>3, SMT
  <2>2. ((q - p) * m - d) * k = (q - p) * (m * k) - d * k
    BY <1>1, SMT
  <2> QED
    BY <1>1, <2>1, <2>2, SMT
<1> HIDE DEF d
<1>5. d * k \in 0 .. 32768
  <2>1. d * k <= h * k /\ d * k \in Nat
    BY <1>1, Products
  <2> QED
    BY <1>1, <2>1
<1> DEFINE y == d * k
           r == q - p
           x == (v - w) * k
<1>6. /\ r \in Int /\ y \in Int /\ 0 <= y /\ y <= 32768
      /\ x \in Int /\ x = r * 65536 - y
  BY <1>1, <1>2, <1>3, <1>4, <1>5
<1> HIDE DEF r, y, x
<1>7. AsInt16(x) = 0 - y
  <2>1. CASE y = 0
    <3>1. x % 65536 = 0
      BY <1>6, <2>1
    <3>2. AsInt16(x) = 0
      BY <1>6, <3>1, ZeroInt16
    <3>3. 0 = 0 - y
      BY <1>6, <2>1
    <3> QED
      BY <3>2, <3>3
  <2>2. CASE y # 0
    <3>1. x % 65536 = 65536 - y
      BY <1>6, <2>2
    <3> QED
      BY <1>6, <2>2, <3>1 DEF AsInt16
  <2> QED
    BY <2>1, <2>2
<1>8. Diff(v, w) = 0 - y
  BY <1>7 DEF Diff, x, k
<1> QED
  BY <1>6, <1>8 DEF Newer, m, v, w

\* A turn back does not change a remainder.
LEMMA ModTurnBack ==
  ASSUME NEW m \in Nat \ {0}, NEW x \in Int
  PROVE  (x - m) % m = x % m
<1> DEFINE q == x \div m
           p == (x - m) \div m
           r == x % m
           t == (x - m) % m
           d == q - 1 - p
<1>1. x = m * q + r /\ q \in Int /\ r \in 0 .. m - 1
  BY SMT
<1>2. x - m = m * p + t /\ p \in Int /\ t \in 0 .. m - 1
  BY SMT
<1> HIDE DEF q, p, r, t
<1>3. t - r = m * d /\ d \in Int
  BY <1>1, <1>2, SMT
<1> HIDE DEF d
<1>4. d < 1
  <2> SUFFICES ASSUME d >= 1 PROVE FALSE
    BY <1>3, SMT
  <2>1. m * d >= m
    BY <1>3, SMT
  <2> QED
    BY <1>1, <1>2, <1>3, <2>1, SMT
<1>5. d > -1
  <2> SUFFICES ASSUME d <= -1 PROVE FALSE
    BY <1>3, SMT
  <2>1. m * d <= -m
    BY <1>3, SMT
  <2> QED
    BY <1>1, <1>2, <1>3, <2>1, SMT
<1>6. t = r
  BY <1>1, <1>2, <1>3, <1>4, <1>5, SMT
<1> QED
  BY <1>6 DEF t, r

\* Neighbours have different remainders.
LEMMA ModDistinct ==
  ASSUME NEW m \in Nat, m >= 2, NEW x \in Int
  PROVE  (x - 1) % m # x % m
<1> SUFFICES ASSUME (x - 1) % m = x % m PROVE FALSE
  OBVIOUS
<1> DEFINE r == x % m
           q == x \div m
           p == (x - 1) \div m
           d == q - p
<1>1. x = m * q + r /\ q \in Int /\ r \in 0 .. m - 1
  BY SMT
<1>2. x - 1 = m * p + r /\ p \in Int
  BY SMT
<1> HIDE DEF q, p, r
<1>3. 1 = m * d /\ d \in Int
  BY <1>1, <1>2, SMT
<1> HIDE DEF d
<1>4. ASSUME d >= 1 PROVE FALSE
  <2>1. m * d >= m
    BY <1>3, <1>4, SMT
  <2> QED
    BY <1>3, <2>1, SMT
<1>5. ASSUME d <= 0 PROVE FALSE
  <2>1. m * d <= 0
    BY <1>3, <1>5, SMT
  <2> QED
    BY <1>3, <2>1, SMT
<1> QED
  BY <1>3, <1>4, <1>5

\* The clock of a sender and the time since a packet's sending go on together.
LEMMA ModShift ==
  ASSUME NEW m \in Nat \ {0}, NEW c \in 0 .. m - 1, NEW s \in Nat
  PROVE  (((c + 1) % m) - (s + 1)) % m = (c - s) % m
<1>1. CASE c + 1 < m
  <2>1. (c + 1) % m = c + 1
    BY <1>1
  <2>2. (c + 1) - (s + 1) = c - s
    OBVIOUS
  <2> QED
    BY <2>1, <2>2
<1>2. CASE c + 1 = m
  <2>1. (c + 1) % m = 0
    BY <1>2
  <2> DEFINE x == c - s
  <2>2. x \in Int /\ 0 - (s + 1) = x - m
    BY <1>2
  <2> HIDE DEF x
  <2>3. (x - m) % m = x % m
    BY <2>2, ModTurnBack
  <2> QED
    BY <2>1, <2>2, <2>3 DEF x
<1> QED
  BY <1>1, <1>2

----------------------------------------------------------------------------
(* The network is an environment of DupCheck.                              *)

\* Values are the numbers of BITS bits.
LEMMA Numbers ==
  /\ 2^BITS \in Nat \ {0} /\ Values = 0 .. 2^BITS - 1 /\ MAX_DELAY \in Nat
  /\ MAX_DELAY <= TIMEOUT
BY NetAssumption, Powers, Params, SMT

\* Every step of the network is one of the receiver, or none of its business.
LEMMA NetStepIsStep == NetTypeOK /\ NetNext => [Next]_vars
<1> SUFFICES ASSUME NetTypeOK, NetNext PROVE [Next]_vars
  OBVIOUS
<1>1. CASE \E k \in Keys : Send(k) \/ Restart(k)
  BY <1>1 DEF Send, Restart, dupVars, vars
<1>2. CASE \E k \in Keys : Deliver(k)
  <2>1. PICK p \in air, lag \in 0 .. RX_LAG : CheckDup(p.key, p.value, lag)
    BY <1>2 DEF Deliver
  <2>2. p.key \in Keys /\ p.value \in Values /\ UNCHANGED <<tick, since>>
    BY <1>2 DEF NetTypeOK, Deliver
  <2> QED
    BY <2>1, <2>2 DEF Next, Receive
<1>3. CASE NetTimeStep
  BY <1>3 DEF NetTimeStep, Next
<1>4. CASE NetRefresh
  BY <1>4 DEF NetRefresh, Next
<1> QED
  BY <1>1, <1>2, <1>3, <1>4 DEF NetNext

\* What is sent, aged or accepted stays a packet.
LEMMA NetTypeKeeps == IInv /\ NetTypeOK /\ [NetNext]_allVars => IInv' /\ NetTypeOK'
<1> SUFFICES ASSUME IInv, NetTypeOK, [NetNext]_allVars PROVE IInv' /\ NetTypeOK'
  OBVIOUS
<1>1. [Next]_vars
  <2>1. CASE UNCHANGED allVars
    BY <2>1 DEF allVars, vars
  <2> QED
    BY <2>1, NetStepIsStep
<1>2. IInv' /\ TypeOK'
  BY <1>1, NextIInv DEF IInv
<1> DEFINE Packet == [key: Keys, value: Values, sent: 0 .. MAX_DELAY, got: Nat]
<1>3. clock \in [Keys -> Values] /\ air \subseteq Packet
  BY DEF NetTypeOK
<1>4. clock' \in [Keys -> Values] /\ air' \subseteq Packet
  <2>1. ASSUME NEW k \in Keys, Send(k) PROVE clock' \in [Keys -> Values] /\ air' \subseteq Packet
    BY <1>3, <2>1, Numbers DEF Send
  <2>2. ASSUME NEW k \in Keys, Restart(k) PROVE clock' \in [Keys -> Values] /\ air' \subseteq Packet
    <3>1. 0 \in Values
      BY Numbers
    <3> QED
      BY <1>3, <2>2, <3>1 DEF Restart
  <2>3. ASSUME NEW k \in Keys, Deliver(k) PROVE clock' \in [Keys -> Values] /\ air' \subseteq Packet
    <3>1. PICK p \in air :
            air' = IF Accepted(p) THEN (air \ {p}) \cup {[p EXCEPT !.got = @ + 1]} ELSE air
      BY <2>3 DEF Deliver
    <3>2. [p EXCEPT !.got = @ + 1] \in Packet
      BY <1>3
    <3>3. air' \subseteq Packet
      BY <1>3, <3>1, <3>2
    <3> QED
      BY <1>3, <2>3, <3>3 DEF Deliver
  <2>4. CASE NetTimeStep
    <3>1. ASSUME NEW k \in Keys PROVE (clock[k] + 1) % 2^BITS \in Values
      <4>1. clock[k] + 1 \in Nat
        BY <1>3, Numbers
      <4> QED
        BY <4>1, Numbers
    <3>2. clock' \in [Keys -> Values]
      BY <2>4, <3>1 DEF NetTimeStep
    <3>3. ASSUME NEW p \in air, p.sent < MAX_DELAY PROVE [p EXCEPT !.sent = @ + 1] \in Packet
      BY <1>3, <3>3, Numbers
    <3>4. air' \subseteq Packet
      BY <2>4, <3>3 DEF NetTimeStep
    <3> QED
      BY <3>2, <3>4
  <2>5. CASE NetRefresh
    BY <1>3, <2>5 DEF NetRefresh, netVars
  <2>6. CASE UNCHANGED allVars
    BY <1>3, <2>6 DEF allVars
  <2> QED
    BY <2>1, <2>2, <2>3, <2>4, <2>5, <2>6 DEF NetNext
<1> QED
  BY <1>2, <1>4 DEF NetTypeOK

LEMMA NetTypeInit == NetInit => IInv /\ NetTypeOK
<1> SUFFICES ASSUME NetInit PROVE IInv /\ NetTypeOK
  OBVIOUS
<1>1. IInv /\ TypeOK
  BY InitIInv DEF NetInit, IInv
<1>2. clock \in [Keys -> Values]
  <2>1. 0 \in Values
    BY Numbers
  <2> QED
    BY <2>1 DEF NetInit
<1> QED
  BY <1>1, <1>2 DEF NetInit, NetTypeOK

\* The network and the receiver keep their types, restarts or not.
THEOREM NetTypeCorrect == NetSafety => []NetTypeOK
<1>1. NetSafety => [](IInv /\ NetTypeOK)
  BY NetTypeInit, NetTypeKeeps, PTL DEF NetSafety
<1> QED
  BY <1>1, PTL

----------------------------------------------------------------------------
(* Once, and in order.                                                     *)

\* What the types say of packets and entries.
LEMMA OrderFacts ==
  ASSUME OrderInv
  PROVE  /\ \A p \in air : /\ p.key \in Keys /\ p.value \in Values /\ p.got \in Nat
                           /\ p.sent \in Nat /\ p.sent <= MAX_DELAY
         /\ \A k \in Keys : clock[k] \in 0 .. 2^BITS - 1 /\ clock[k] \in Nat
         /\ \A i \in DOMAIN mmap : mmap[i].key \in Keys /\ age[i] \in Nat
         /\ DOMAIN age = DOMAIN mmap
<1>1. NetTypeOK /\ TypeOK
  BY DEF OrderInv, NetTypeOK
<1>2. \A p \in air : /\ p.key \in Keys /\ p.value \in Values /\ p.got \in Nat
                     /\ p.sent \in Nat /\ p.sent <= MAX_DELAY
  BY <1>1, Numbers DEF NetTypeOK
<1>3. \A k \in Keys : clock[k] \in 0 .. 2^BITS - 1 /\ clock[k] \in Nat
  BY <1>1, Numbers DEF NetTypeOK
<1>4. \A i \in DOMAIN mmap : mmap[i] \in Node /\ age[i] \in Nat
  BY <1>1 DEF TypeOK
<1>5. DOMAIN age = DOMAIN mmap
  BY <1>1 DEF TypeOK
<1> QED
  BY <1>2, <1>3, <1>4, <1>5 DEF Node

\* A packet that is newer than an entry was sent after everything accepted of its
\* sender.
LEMMA NewerIsLater ==
  ASSUME Ordered, OrderInv, NEW p \in air, NEW i \in DOMAIN mmap,
         mmap[i].key = p.key, Newer(p.value, mmap[i].value),
         NEW q \in air, q.key = p.key, q.got > 0
  PROVE  p.sent < q.sent
<1>1. PICK d \in 0 .. MAX_DELAY :
        /\ mmap[i].value = (clock[p.key] - (age[i] + d)) % 2^BITS
        /\ age[i] + d <= q.sent
  BY DEF OrderInv, RecordsLast
<1>2. /\ p.sent \in Nat /\ q.sent \in Nat /\ age[i] + d \in Nat /\ clock[p.key] \in Int
      /\ p.sent <= 2^(BITS - 1) /\ 2^(BITS - 1) \in Nat
  <2>1. p.sent \in Nat /\ q.sent \in Nat /\ clock[p.key] \in Nat /\ age[i] \in Nat
    BY OrderFacts
  <2>2. p.sent <= MAX_DELAY /\ MAX_DELAY \in Nat /\ MAX_DELAY <= 2^(BITS - 1)
    BY OrderFacts, Numbers DEF Ordered
  <2>3. 2^(BITS - 1) \in Nat
    BY Powers
  <2> QED
    BY <2>1, <2>2, <2>3
<1>3. p.value = (clock[p.key] - p.sent) % 2^BITS
  BY DEF OrderInv, Numbered
<1> DEFINE e == age[i] + d
<1>4. e \in Nat /\ e <= q.sent /\ mmap[i].value = (clock[p.key] - e) % 2^BITS
  BY <1>1, <1>2
<1> HIDE DEF e
<1>5. ASSUME e <= p.sent PROVE FALSE
  <2>1. p.sent - e <= 2^(BITS - 1)
    BY <1>2, <1>4, <1>5
  <2>2. ~ Newer((clock[p.key] - p.sent) % 2^BITS, (clock[p.key] - e) % 2^BITS)
    BY <1>2, <1>4, <1>5, <2>1, NotNewer
  <2> QED
    BY <1>3, <1>4, <2>2
<1> QED
  BY <1>2, <1>4, <1>5

\* A new packet is the only one of its tick.
LEMMA SendKeepsOrder ==
  ASSUME Ordered, OrderInv, NEW k \in Keys, Send(k)
  PROVE  /\ AtMostOnce' /\ Numbered' /\ OnePerTick' /\ Remembered'
         /\ \A i \in DOMAIN mmap' : RecordsLast(i)'
<1> DEFINE n == [key |-> k, value |-> clock[k], sent |-> 0, got |-> 0]
<1>1. /\ air' = air \cup {n} /\ mmap' = mmap /\ age' = age /\ clock' = clock
      /\ \A p \in air : ~ (p.key = k /\ p.value = clock[k])
  BY DEF Send, dupVars
<1>2. (clock[k] - 0) % 2^BITS = clock[k]
  BY OrderFacts, Numbers, WrapNone
<1>3. AtMostOnce'
  BY <1>1 DEF OrderInv, AtMostOnce
<1>4. Numbered'
  <2>1. n.value = (clock[n.key] - n.sent) % 2^BITS
    BY <1>2
  <2> QED
    BY <1>1, <2>1 DEF OrderInv, Numbered
<1>5. OnePerTick'
  <2>1. ASSUME NEW p \in air, p.key = k, p.sent = 0 PROVE FALSE
    <3>1. p.value = (clock[k] - 0) % 2^BITS
      BY <2>1 DEF OrderInv, Numbered
    <3> QED
      BY <1>1, <1>2, <2>1, <3>1
  <2>2. ASSUME NEW p \in air', NEW q \in air', p.key = q.key, p.sent = q.sent PROVE p = q
    <3>1. CASE p \in air /\ q \in air
      BY <2>2, <3>1 DEF OrderInv, OnePerTick
    <3>2. CASE p = n \/ q = n
      BY <1>1, <2>1, <2>2, <3>2
    <3> QED
      BY <1>1, <3>1, <3>2
  <2> QED
    BY <2>2 DEF OnePerTick
<1>6. Remembered'
  BY <1>1 DEF OrderInv, Remembered
<1>7. ASSUME NEW i \in DOMAIN mmap' PROVE RecordsLast(i)'
  <2>1. PICK d \in 0 .. MAX_DELAY :
          /\ mmap[i].value = (clock[mmap[i].key] - (age[i] + d)) % 2^BITS
          /\ \A p \in air : p.key = mmap[i].key /\ p.got > 0 => age[i] + d <= p.sent
    BY <1>1 DEF OrderInv, RecordsLast
  <2>2. \A p \in air' : p.key = mmap[i].key /\ p.got > 0 => age[i] + d <= p.sent
    BY <1>1, <2>1
  <2> QED
    BY <1>1, <2>1, <2>2 DEF RecordsLast
<1> QED
  BY <1>3, <1>4, <1>5, <1>6, <1>7

\* All clocks go on together.
LEMMA TimeKeepsOrder ==
  ASSUME Ordered, OrderInv, NetTimeStep
  PROVE  /\ AtMostOnce' /\ Numbered' /\ OnePerTick' /\ Remembered'
         /\ \A i \in DOMAIN mmap' : RecordsLast(i)'
<1> DEFINE m == 2^BITS
<1>1. /\ mmap' = mmap /\ age' = [i \in DOMAIN age |-> age[i] + 1]
      /\ clock' = [k \in Keys |-> (clock[k] + 1) % m]
      /\ air' = {[p EXCEPT !.sent = @ + 1] : p \in {q \in air : q.sent < MAX_DELAY}}
  BY DEF NetTimeStep, TimeStep
<1>2. \A r \in air' : \E p \in air :
        /\ r.key = p.key /\ r.value = p.value /\ r.got = p.got /\ r.sent = p.sent + 1
        /\ r = [p EXCEPT !.sent = @ + 1]
  BY <1>1, OrderFacts DEF OrderInv, NetTypeOK
<1>3. ASSUME NEW k \in Keys, NEW s \in Nat
      PROVE  (clock'[k] - (s + 1)) % m = (clock[k] - s) % m
  <2>1. m \in Nat \ {0} /\ clock[k] \in 0 .. m - 1 /\ clock'[k] = (clock[k] + 1) % m
    BY <1>1, Numbers, OrderFacts
  <2> HIDE DEF m
  <2> QED
    BY <2>1, ModShift
<1>4. AtMostOnce'
  BY <1>2 DEF OrderInv, AtMostOnce
<1>5. Numbered'
  <2>1. ASSUME NEW r \in air' PROVE r.value = (clock'[r.key] - r.sent) % m
    <3>1. PICK p \in air : r.key = p.key /\ r.value = p.value /\ r.sent = p.sent + 1
      BY <1>2
    <3>2. p.key \in Keys /\ p.sent \in Nat /\ p.value = (clock[p.key] - p.sent) % m
      BY OrderFacts DEF OrderInv, Numbered
    <3> QED
      BY <1>3, <3>1, <3>2
  <2> QED
    BY <2>1 DEF Numbered
<1>6. OnePerTick'
  <2>1. ASSUME NEW r \in air', NEW t \in air', r.key = t.key, r.sent = t.sent PROVE r = t
    <3>1. PICK p \in air : r.key = p.key /\ r.sent = p.sent + 1 /\ r = [p EXCEPT !.sent = @ + 1]
      BY <1>2
    <3>2. PICK q \in air : t.key = q.key /\ t.sent = q.sent + 1 /\ t = [q EXCEPT !.sent = @ + 1]
      BY <1>2
    <3>3. p.sent = q.sent
      <4>1. p.sent \in Nat /\ q.sent \in Nat /\ p.sent + 1 = q.sent + 1
        BY <2>1, <3>1, <3>2, OrderFacts
      <4> QED
        BY <4>1
    <3>4. p = q
      BY <2>1, <3>1, <3>2, <3>3 DEF OrderInv, OnePerTick
    <3> QED
      BY <3>1, <3>2, <3>4
  <2> QED
    BY <2>1 DEF OnePerTick
<1>7. Remembered'
  BY <1>1, <1>2 DEF OrderInv, Remembered
<1>8. ASSUME NEW i \in DOMAIN mmap' PROVE RecordsLast(i)'
  <2>1. PICK d \in 0 .. MAX_DELAY :
          /\ mmap[i].value = (clock[mmap[i].key] - (age[i] + d)) % m
          /\ \A p \in air : p.key = mmap[i].key /\ p.got > 0 => age[i] + d <= p.sent
    BY <1>1 DEF OrderInv, RecordsLast
  <2>2. /\ mmap[i].key \in Keys /\ age[i] \in Nat /\ age'[i] = age[i] + 1 /\ d \in Nat
        /\ age[i] + d \in Nat /\ age'[i] + d = (age[i] + d) + 1
    <3>1. mmap[i].key \in Keys /\ age[i] \in Nat /\ i \in DOMAIN age
      BY <1>1, OrderFacts
    <3>2. age'[i] = age[i] + 1
      BY <1>1, <3>1
    <3>3. d \in Nat
      BY Numbers
    <3> QED
      BY <3>1, <3>2, <3>3
  <2>3. mmap[i].value = (clock'[mmap[i].key] - (age'[i] + d)) % m
    BY <1>3, <2>1, <2>2
  <2>4. \A r \in air' : r.key = mmap[i].key /\ r.got > 0 => age'[i] + d <= r.sent
    BY <1>2, <2>1, <2>2, OrderFacts
  <2> QED
    BY <1>1, <2>1, <2>3, <2>4 DEF RecordsLast
<1> QED
  BY <1>4, <1>5, <1>6, <1>7, <1>8

\* The clean-up drops no entry that a copy on its way may need.
LEMMA RefreshKeepsOrder ==
  ASSUME Ordered, OrderInv, NetRefresh
  PROVE  /\ AtMostOnce' /\ Numbered' /\ OnePerTick' /\ Remembered'
         /\ \A i \in DOMAIN mmap' : RecordsLast(i)'
<1>1. /\ mmap' = Without(mmap, Expired) /\ age' = Without(age, Expired)
      /\ clock' = clock /\ air' = air
  BY DEF NetRefresh, Refresh, CleanByTimeout, DeleteEntries, netVars
<1>2. /\ DOMAIN mmap' = DOMAIN mmap \ Expired
      /\ \A i \in DOMAIN mmap' : mmap'[i] = mmap[i] /\ age'[i] = age[i]
  BY <1>1, OrderFacts DEF Without
<1>3. AtMostOnce' /\ Numbered' /\ OnePerTick'
  BY <1>1 DEF OrderInv, AtMostOnce, Numbered, OnePerTick
<1>4. Remembered'
  <2>1. ASSUME NEW p \in air, p.got > 0 PROVE \E i \in DOMAIN mmap' : mmap'[i].key = p.key
    <3>1. PICK i \in DOMAIN mmap : mmap[i].key = p.key
      BY <2>1 DEF OrderInv, Remembered
    <3>2. PICK d \in 0 .. MAX_DELAY : age[i] + d <= p.sent
      BY <2>1, <3>1 DEF OrderInv, RecordsLast
    <3>3. age[i] <= TIMEOUT
      BY <3>2, OrderFacts, Numbers, Params
    <3>4. TSDiff(mmap[i].ts) = age[i]
      BY DEF OrderInv, IInv, StampsExact
    <3>5. i \notin Expired
      BY <3>3, <3>4, OrderFacts, Params DEF Expired
    <3> QED
      BY <1>2, <3>1, <3>5
  <2> QED
    BY <1>1, <2>1 DEF Remembered
<1>5. ASSUME NEW i \in DOMAIN mmap' PROVE RecordsLast(i)'
  <2>1. i \in DOMAIN mmap /\ RecordsLast(i)
    BY <1>2 DEF OrderInv
  <2> QED
    BY <1>1, <1>2, <2>1 DEF RecordsLast
<1> QED
  BY <1>3, <1>4, <1>5

\* An accepted packet p is recorded in i: it is later than all that was accepted
\* of its sender.
LEMMA AcceptKeepsOrder ==
  ASSUME Ordered, OrderInv, NEW p \in air, NEW lag \in 0 .. RX_LAG, lag <= p.sent, NEW i,
         i \in DOMAIN mmap', mmap'[i].key = p.key, mmap'[i].value = p.value, age'[i] = lag,
         DOMAIN mmap \subseteq DOMAIN mmap',
         \A j \in DOMAIN mmap' \ {i} :
           /\ j \in DOMAIN mmap /\ mmap[j].key # p.key
           /\ mmap'[j] = mmap[j] /\ age'[j] = age[j],
         i \in DOMAIN mmap => mmap[i].key = p.key,
         \A q \in air : q.key = p.key /\ q.got > 0 => p.sent < q.sent,
         air' = (air \ {p}) \cup {[p EXCEPT !.got = @ + 1]}, clock' = clock
  PROVE  /\ AtMostOnce' /\ Numbered' /\ OnePerTick' /\ Remembered'
         /\ \A j \in DOMAIN mmap' : RecordsLast(j)'
<1> DEFINE n == [p EXCEPT !.got = @ + 1]
<1>1. p.sent \in Nat /\ p.sent <= MAX_DELAY /\ p.got \in Nat /\ lag \in Nat
  BY OrderFacts, Params
<1>2. ~ (p.got > 0)
  BY <1>1
<1>3. n.key = p.key /\ n.value = p.value /\ n.sent = p.sent /\ n.got = 1
  BY <1>1, <1>2 DEF OrderInv, NetTypeOK
<1> HIDE DEF n
<1>4. air' = (air \ {p}) \cup {n}
  BY DEF n
<1>5. AtMostOnce'
  BY <1>3, <1>4 DEF OrderInv, AtMostOnce
<1>6. Numbered'
  BY <1>3, <1>4 DEF OrderInv, Numbered
<1>7. OnePerTick'
  <2>1. ASSUME NEW q \in air', NEW r \in air', q.key = r.key, q.sent = r.sent PROVE q = r
    BY <1>3, <1>4, <2>1 DEF OrderInv, OnePerTick
  <2> QED
    BY <2>1 DEF OnePerTick
<1>8. Remembered'
  <2>1. ASSUME NEW q \in air', q.got > 0 PROVE \E j \in DOMAIN mmap' : mmap'[j].key = q.key
    <3>1. CASE q = n
      BY <1>3, <3>1
    <3>2. CASE q \in air
      <4>1. PICK j \in DOMAIN mmap : mmap[j].key = q.key
        BY <2>1, <3>2 DEF OrderInv, Remembered
      <4>2. CASE j = i
        BY <4>1, <4>2
      <4>3. CASE j # i
        BY <4>1, <4>3
      <4> QED
        BY <4>2, <4>3
    <3> QED
      BY <1>4, <3>1, <3>2
  <2> QED
    BY <2>1 DEF Remembered
<1>9. RecordsLast(i)'
  <2> DEFINE d == p.sent - lag
  <2>1. d \in 0 .. MAX_DELAY /\ lag + d = p.sent
    BY <1>1, Numbers
  <2> HIDE DEF d
  <2>2. mmap'[i].value = (clock'[mmap'[i].key] - (age'[i] + d)) % 2^BITS
    BY <2>1 DEF OrderInv, Numbered
  <2>3. \A q \in air' : q.key = mmap'[i].key /\ q.got > 0 => age'[i] + d <= q.sent
    <3>1. ASSUME NEW q \in air', q.key = p.key, q.got > 0 PROVE p.sent <= q.sent
      <4>1. CASE q = n
        BY <1>1, <1>3, <4>1
      <4>2. CASE q \in air
        <5>1. q.sent \in Nat /\ p.sent < q.sent
          BY <3>1, <4>2, OrderFacts
        <5> QED
          BY <1>1, <5>1
      <4> QED
        BY <1>4, <4>1, <4>2
    <3> QED
      BY <2>1, <3>1
  <2> QED
    BY <2>1, <2>2, <2>3 DEF RecordsLast
<1>10. ASSUME NEW j \in DOMAIN mmap', j # i PROVE RecordsLast(j)'
  <2>1. /\ j \in DOMAIN mmap /\ mmap[j].key # p.key /\ mmap'[j] = mmap[j] /\ age'[j] = age[j]
    BY <1>10
  <2>2. PICK d \in 0 .. MAX_DELAY :
          /\ mmap[j].value = (clock[mmap[j].key] - (age[j] + d)) % 2^BITS
          /\ \A q \in air : q.key = mmap[j].key /\ q.got > 0 => age[j] + d <= q.sent
    BY <2>1 DEF OrderInv, RecordsLast
  <2>3. \A q \in air' : q.key = mmap[j].key /\ q.got > 0 => age[j] + d <= q.sent
    BY <1>3, <1>4, <2>1, <2>2
  <2> QED
    BY <2>1, <2>2, <2>3 DEF RecordsLast
<1> QED
  BY <1>5, <1>6, <1>7, <1>8, <1>9, <1>10

\* A refused packet leaves everything as it was.
LEMMA StutterKeepsOrder ==
  ASSUME OrderInv, UNCHANGED <<clock, air>>, DOMAIN mmap' = DOMAIN mmap,
         \A i \in DOMAIN mmap : mmap'[i] = mmap[i] /\ age'[i] = age[i]
  PROVE  /\ AtMostOnce' /\ Numbered' /\ OnePerTick' /\ Remembered'
         /\ \A i \in DOMAIN mmap' : RecordsLast(i)'
<1>1. AtMostOnce' /\ Numbered' /\ OnePerTick' /\ Remembered'
  BY DEF OrderInv, AtMostOnce, Numbered, OnePerTick, Remembered
<1>2. ASSUME NEW i \in DOMAIN mmap' PROVE RecordsLast(i)'
  BY DEF OrderInv, RecordsLast
<1> QED
  BY <1>1, <1>2

\* What Deliver does: nothing, or the acceptance of a packet that is later than all
\* that was accepted of its sender.
LEMMA DeliverCases ==
  ASSUME Ordered, OrderInv, NEW k \in Keys, Deliver(k)
  PROVE  \/ /\ UNCHANGED <<clock, air>> /\ DOMAIN mmap' = DOMAIN mmap
            /\ \A i \in DOMAIN mmap : mmap'[i] = mmap[i] /\ age'[i] = age[i]
         \/ \E p \in air, lag \in 0 .. RX_LAG, i \in DOMAIN mmap' :
              /\ lag <= p.sent
              /\ mmap'[i].key = p.key /\ mmap'[i].value = p.value /\ age'[i] = lag
              /\ DOMAIN mmap \subseteq DOMAIN mmap'
              /\ \A j \in DOMAIN mmap' \ {i} :
                   /\ j \in DOMAIN mmap /\ mmap[j].key # p.key
                   /\ mmap'[j] = mmap[j] /\ age'[j] = age[j]
              /\ i \in DOMAIN mmap => mmap[i].key = p.key
              /\ \A q \in air : q.key = p.key /\ q.got > 0 => p.sent < q.sent
              /\ air' = (air \ {p}) \cup {[p EXCEPT !.got = @ + 1]}
              /\ clock' = clock
<1> DEFINE Same == /\ UNCHANGED <<clock, air>> /\ DOMAIN mmap' = DOMAIN mmap
                   /\ \A i \in DOMAIN mmap : mmap'[i] = mmap[i] /\ age'[i] = age[i]
<1> DEFINE Recorded(p, lag, i) ==
             /\ lag <= p.sent
             /\ mmap'[i].key = p.key /\ mmap'[i].value = p.value /\ age'[i] = lag
             /\ DOMAIN mmap \subseteq DOMAIN mmap'
             /\ \A j \in DOMAIN mmap' \ {i} :
                  /\ j \in DOMAIN mmap /\ mmap[j].key # p.key
                  /\ mmap'[j] = mmap[j] /\ age'[j] = age[j]
             /\ i \in DOMAIN mmap => mmap[i].key = p.key
             /\ \A q \in air : q.key = p.key /\ q.got > 0 => p.sent < q.sent
             /\ air' = (air \ {p}) \cup {[p EXCEPT !.got = @ + 1]}
             /\ clock' = clock
<1>1. PICK p \in air, lag \in 0 .. RX_LAG :
        /\ lag <= p.sent /\ CheckDup(p.key, p.value, lag)
        /\ air' = IF Accepted(p) THEN (air \ {p}) \cup {[p EXCEPT !.got = @ + 1]} ELSE air
  BY DEF Deliver
<1>2. clock' = clock /\ MODE = "OLDER" /\ DOMAIN age = DOMAIN mmap
  BY OrderFacts DEF Deliver, Ordered
<1>3. ASSUME Refuse(p.key, p.value) PROVE air' = air
  BY <1>1, <1>3 DEF Refuse, Accepted
<1>4. ASSUME Accept(p.key, p.value) PROVE air' = (air \ {p}) \cup {[p EXCEPT !.got = @ + 1]}
  BY <1>1, <1>4 DEF Accept, Accepted
<1>5. CASE KnownSender(p.key, p.value, lag)
  <2> DEFINE node == [key |-> p.key, value |-> p.value, ts |-> Stamp(lag)]
  <2>1. PICK i \in EqualRange(p.key) :
          LET rest == EqualRange(p.key) \ {i}
          IN  \/ /\ Newer(p.value, mmap[i].value)
                 /\ mmap' = Without(With(mmap, i, node), rest)
                 /\ age' = Without(With(age, i, lag), rest)
                 /\ Accept(p.key, p.value)
              \/ /\ mmap' = Without(mmap, rest)
                 /\ age' = Without(age, rest)
                 /\ Refuse(p.key, p.value)
    BY <1>5 DEF KnownSender
  <2>2. i \in DOMAIN mmap /\ mmap[i].key = p.key
    BY DEF EqualRange
  <2>3. \A j \in DOMAIN mmap : j # i => mmap[j].key # p.key
    BY <1>2, <2>2 DEF OrderInv, IInv, NoTwins
  <2>4. EqualRange(p.key) \ {i} = {}
    BY <2>3 DEF EqualRange
  <2>5. CASE /\ Newer(p.value, mmap[i].value)
             /\ mmap' = Without(With(mmap, i, node), {})
             /\ age' = Without(With(age, i, lag), {})
             /\ Accept(p.key, p.value)
    <3>1. /\ mmap' = [j \in DOMAIN mmap |-> IF j = i THEN node ELSE mmap[j]]
          /\ age' = [j \in DOMAIN mmap |-> IF j = i THEN lag ELSE age[j]]
      BY <1>2, <2>2, <2>5 DEF With, Without
    <3>2. i \in DOMAIN mmap' /\ mmap'[i].key = p.key /\ mmap'[i].value = p.value /\ age'[i] = lag
      BY <2>2, <3>1
    <3>3. /\ DOMAIN mmap' = DOMAIN mmap
          /\ \A j \in DOMAIN mmap' \ {i} :
               /\ j \in DOMAIN mmap /\ mmap[j].key # p.key
               /\ mmap'[j] = mmap[j] /\ age'[j] = age[j]
      BY <2>3, <3>1
    <3>4. \A q \in air : q.key = p.key /\ q.got > 0 => p.sent < q.sent
      BY <2>2, <2>5, NewerIsLater
    <3>5. Recorded(p, lag, i)
      BY <1>1, <1>2, <1>4, <2>2, <2>5, <3>2, <3>3, <3>4
    <3> QED
      BY <3>2, <3>5
  <2>6. CASE mmap' = Without(mmap, {}) /\ age' = Without(age, {}) /\ Refuse(p.key, p.value)
    <3>1. Same
      BY <1>2, <1>3, <2>6 DEF Without
    <3> QED
      BY <3>1
  <2> QED
    BY <2>1, <2>4, <2>5, <2>6
<1>6. CASE NewEntry(p.key, p.value, lag)
  <2> DEFINE i == Head(vacant)
             node == [key |-> p.key, value |-> p.value, ts |-> Stamp(lag)]
  <2>1. /\ vacant # <<>> /\ NotFound(p.key, p.value) /\ Accept(p.key, p.value)
        /\ mmap' = With(mmap, i, node) /\ age' = With(age, i, lag)
    BY <1>6 DEF NewEntry, InsertEntry
  <2>2. EqualRange(p.key) = {}
    BY <1>2, <2>1 DEF NotFound
  <2>3. i \notin DOMAIN mmap
    <3>1. vacant \in Seq(Idx) /\ Partition(vacant, DOMAIN mmap)
      BY DEF OrderInv, IInv, TypeOK, PoolPartition
    <3> QED
      BY <2>1, <3>1, TakeIndex
  <2> HIDE DEF i
  <2>4. /\ DOMAIN mmap' = DOMAIN mmap \cup {i} /\ mmap'[i] = node /\ age'[i] = lag
        /\ \A j \in DOMAIN mmap' \ {i} :
             j \in DOMAIN mmap /\ mmap'[j] = mmap[j] /\ age'[j] = age[j]
    BY <1>2, <2>1 DEF With
  <2>5. \A j \in DOMAIN mmap : mmap[j].key # p.key
    BY <2>2 DEF EqualRange
  <2>6. \A q \in air : q.key = p.key /\ q.got > 0 => p.sent < q.sent
    BY <2>5 DEF OrderInv, Remembered
  <2>7. Recorded(p, lag, i)
    BY <1>1, <1>2, <1>4, <2>1, <2>3, <2>4, <2>5, <2>6
  <2> QED
    BY <2>4, <2>7
<1>7. CASE PoolExhausted(p.key, p.value)
  <2>1. Same
    BY <1>2, <1>3, <1>7 DEF PoolExhausted
  <2> QED
    BY <2>1
<1>8. ~ SameValue(p.key, p.value)
  BY <1>2 DEF SameValue
<1> QED
  BY <1>1, <1>5, <1>6, <1>7, <1>8 DEF CheckDup

LEMMA OrderInit == NetInit => OrderInv
<1> SUFFICES ASSUME NetInit PROVE OrderInv
  OBVIOUS
<1>1. IInv /\ NetTypeOK
  BY NetTypeInit
<1>2. air = {} /\ mmap = <<>>
  BY DEF NetInit, Init
<1>3. AtMostOnce /\ Numbered /\ OnePerTick /\ Remembered
  BY <1>2 DEF AtMostOnce, Numbered, OnePerTick, Remembered
<1>4. \A i \in DOMAIN mmap : RecordsLast(i)
  BY <1>2
<1> QED
  BY <1>1, <1>3, <1>4 DEF OrderInv

LEMMA OrderKeeps ==
  ASSUME Ordered
  PROVE  OrderInv /\ [NetNext]_allVars => OrderInv'
<1> SUFFICES ASSUME OrderInv, [NetNext]_allVars PROVE OrderInv'
  OBVIOUS
<1> DEFINE Kept == /\ AtMostOnce' /\ Numbered' /\ OnePerTick' /\ Remembered'
                   /\ \A i \in DOMAIN mmap' : RecordsLast(i)'
<1>1. IInv' /\ NetTypeOK'
  BY NetTypeKeeps DEF OrderInv
<1>2. Kept
  <2>1. ASSUME NEW k \in Keys, Send(k) PROVE Kept
    BY <2>1, SendKeepsOrder
  <2>2. ASSUME NEW k \in Keys, Restart(k) PROVE FALSE
    BY <2>2 DEF Restart, Ordered
  <2>3. ASSUME NEW k \in Keys, Deliver(k) PROVE Kept
    <3>1. CASE /\ UNCHANGED <<clock, air>> /\ DOMAIN mmap' = DOMAIN mmap
               /\ \A i \in DOMAIN mmap : mmap'[i] = mmap[i] /\ age'[i] = age[i]
      BY <3>1, StutterKeepsOrder
    <3>2. CASE ~ (/\ UNCHANGED <<clock, air>> /\ DOMAIN mmap' = DOMAIN mmap
                  /\ \A i \in DOMAIN mmap : mmap'[i] = mmap[i] /\ age'[i] = age[i])
      BY <2>3, <3>2, DeliverCases, AcceptKeepsOrder
    <3> QED
      BY <3>1, <3>2
  <2>4. CASE NetTimeStep
    BY <2>4, TimeKeepsOrder
  <2>5. CASE NetRefresh
    BY <2>5, RefreshKeepsOrder
  <2>6. CASE UNCHANGED allVars
    BY <2>6, StutterKeepsOrder DEF allVars
  <2> QED
    BY <2>1, <2>2, <2>3, <2>4, <2>5, <2>6 DEF NetNext
<1> QED
  BY <1>1, <1>2 DEF OrderInv

\* A packet is accepted after earlier ones only.
LEMMA AcceptedInOrder ==
  ASSUME Ordered, OrderInv, [NetNext]_allVars, NEW p \in air, NEW q \in air,
         p.key = q.key, p.got = 0, [p EXCEPT !.got = 1] \in air', q.got > 0
  PROVE  q.sent > p.sent
<1> DEFINE n == [p EXCEPT !.got = 1]
<1>1. /\ n.key = p.key /\ n.value = p.value /\ n.sent = p.sent /\ n.got = 1
      /\ n \in air' /\ p.sent \in Nat /\ q.sent \in Nat /\ p.key \in Keys
  BY OrderFacts DEF OrderInv, NetTypeOK
<1> HIDE DEF n
<1>2. n \notin air
  BY <1>1 DEF OrderInv, OnePerTick
<1>3. ASSUME NEW k \in Keys, Send(k) PROVE FALSE
  BY <1>1, <1>2, <1>3 DEF Send
<1>4. ASSUME NEW k \in Keys, Restart(k) PROVE FALSE
  BY <1>4 DEF Restart, Ordered
<1>5. ASSUME NEW k \in Keys, Deliver(k) PROVE q.sent > p.sent
  <2>1. PICK r \in air :
          /\ \A t \in air : t.key = r.key /\ t.got > 0 => r.sent < t.sent
          /\ air' = (air \ {r}) \cup {[r EXCEPT !.got = @ + 1]}
    BY <1>1, <1>2, <1>5, DeliverCases
  <2>2. n = [r EXCEPT !.got = @ + 1]
    BY <1>1, <1>2, <2>1
  <2>3. r.key = p.key /\ r.sent = p.sent
    BY <1>1, <2>2, OrderFacts DEF OrderInv, NetTypeOK
  <2> QED
    BY <1>1, <2>1, <2>3
<1>6. CASE NetTimeStep
  <2>1. PICK r \in air : n = [r EXCEPT !.sent = @ + 1]
    BY <1>1, <1>6 DEF NetTimeStep
  <2>2. r.key = p.key /\ r.value = p.value /\ r.sent + 1 = p.sent /\ r.sent \in Nat
    BY <1>1, <2>1, OrderFacts DEF OrderInv, NetTypeOK
  <2> DEFINE x == clock[p.key] - r.sent
             m == 2^BITS
  <2>3. x \in Int /\ clock[p.key] - p.sent = x - 1
    BY <1>1, <2>2, OrderFacts
  <2>4. p.value = (clock[p.key] - p.sent) % m /\ r.value = x % m
    BY <2>2 DEF OrderInv, Numbered
  <2>5. m \in Nat /\ m >= 2
    BY Powers
  <2> HIDE DEF x, m
  <2> QED
    BY <2>2, <2>3, <2>4, <2>5, ModDistinct
<1>7. CASE NetRefresh
  BY <1>1, <1>2, <1>7 DEF NetRefresh, netVars
<1>8. CASE UNCHANGED allVars
  BY <1>1, <1>2, <1>8 DEF allVars
<1> QED
  BY <1>3, <1>4, <1>5, <1>6, <1>7, <1>8 DEF NetNext

\* check_dup of MODE_REJECT_OLDER_SEQ hands a packet on at most once, for every number of
\* senders and entries and every delay up to half of the range of the numbers.
THEOREM HandedOnOnce ==
  ASSUME Ordered
  PROVE  NetSafety => []AtMostOnce
<1>1. OrderInv /\ [NetNext]_allVars => OrderInv'
  BY OrderKeeps
<1>2. OrderInv => AtMostOnce
  BY DEF OrderInv
<1> QED
  BY <1>1, <1>2, OrderInit, PTL DEF NetSafety

\* Nor does it hand on a packet after a later one of the same sender, however relays
\* reorder and repeat them.
THEOREM HandedOnInOrder ==
  ASSUME Ordered
  PROVE  NetSafety => InOrder
<1> DEFINE A == \A p, q \in air :
                  /\ p.key = q.key
                  /\ p.got = 0 /\ [p EXCEPT !.got = 1] \in air'
                  /\ q.got > 0
                  => q.sent > p.sent
<1>1. OrderInv /\ [NetNext]_allVars => OrderInv'
  BY OrderKeeps
<1>2. OrderInv /\ [NetNext]_allVars => [A]_allVars
  BY AcceptedInOrder
<1>3. NetSafety => [][A]_allVars
  BY <1>1, <1>2, OrderInit, PTL DEF NetSafety
<1> QED
  BY <1>3 DEF InOrder
=============================================================================
