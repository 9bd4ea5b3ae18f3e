---------------------------- MODULE MotFifoProof ----------------------------
(***************************************************************************)
(* PAL_MOT-fifo, for every size of the sensor's FIFO and of a packet, every *)
(* time-out and every set of ids: the invariant IInv of MotFifo is         *)
(* inductive, and the safety properties follow from it.                    *)
(***************************************************************************)
EXTENDS MotFifo, MotCodecProof, SequenceTheorems, FiniteSetTheorems

----------------------------------------------------------------------------
\* Constants.

\* What the assumption says of the numbers.
LEMMA Params ==
  /\ FIFO_DEPTH \in Nat /\ FIFO_SAMPLE_COUNT \in 1 .. FIFO_DEPTH
  /\ MAX_SAMP_IN_PKT \in Nat \ {0} /\ N_TX_PACKETS = 2
  /\ T_MOD \in Nat \ {0} /\ FIFO_DEPTH < T_MOD
  /\ TX_TIMEOUT \in Nat \ {0}
  /\ Packets = {0, 1}
<1>1. N_TX_PACKETS = 2
  BY MotAssumption, Zenon
<1>2. Packets = {0, 1}
  <2> HIDE DEF N_TX_PACKETS
  <2> QED BY <1>1, SMT DEF Packets
<1>3. FIFO_DEPTH \in Nat /\ T_MOD \in Nat /\ FIFO_DEPTH < T_MOD
  BY MotAssumption, Zenon
<1>4. T_MOD \in Nat \ {0}
  BY <1>3, SMT
<1> QED
  BY <1>1, <1>2, <1>3, <1>4, MotAssumption, Zenon

\* A sum that is less than two ranges loses at most one of them.
LEMMA Wrapped ==
  ASSUME NEW m \in Nat \ {0}, NEW x \in 0 .. 2 * m - 1
  PROVE  x % m = IF x < m THEN x ELSE x - m
<1>1. CASE x < m
  BY <1>1, SMT
<1>2. CASE x >= m
  <2>1. x - m \in 0 .. m - 1
    BY <1>2, SMT
  <2> QED BY <1>2, <2>1, SMT
<1> QED BY <1>1, <1>2, SMT

\* The number of a sample and of one at most a FIFO later.
LEMMA PlusValue ==
  ASSUME NEW n \in 0 .. T_MOD - 1, NEW k \in 0 .. FIFO_DEPTH
  PROVE  Plus(n, k) = IF n + k < T_MOD THEN n + k ELSE n + k - T_MOD
<1>1. T_MOD \in Nat \ {0} /\ n + k \in 0 .. 2 * T_MOD - 1
  BY Params, SMT
<1> DEFINE x == n + k
<1>2. x % T_MOD = IF x < T_MOD THEN x ELSE x - T_MOD
  <2> x \in 0 .. 2 * T_MOD - 1
    BY <1>1, Zenon
  <2> HIDE DEF x
  <2> QED BY <1>1, Wrapped, Zenon
<1>3. Plus(n, k) = x % T_MOD
  BY Zenon DEF Plus
<1>4. Plus(n, k) = IF x < T_MOD THEN x ELSE x - T_MOD
  <2> HIDE DEF x
  <2> QED BY <1>2, <1>3, Zenon
<1> QED BY <1>1, <1>4, SMT

\* Numbers of samples are added in any order.
LEMMA PlusFacts ==
  ASSUME NEW n \in 0 .. T_MOD - 1,
         NEW a \in 0 .. FIFO_DEPTH, NEW b \in 0 .. FIFO_DEPTH, a + b <= FIFO_DEPTH
  PROVE  /\ Plus(n, a) \in 0 .. T_MOD - 1
         /\ Plus(n, 0) = n
         /\ Plus(Plus(n, a), b) = Plus(n, a + b)
<1>1. /\ 0 \in 0 .. FIFO_DEPTH /\ a + b \in 0 .. FIFO_DEPTH
      /\ T_MOD \in Nat \ {0} /\ FIFO_DEPTH \in Nat /\ FIFO_DEPTH < T_MOD
  BY Params, SMT
<1>2. Plus(n, a) = IF n + a < T_MOD THEN n + a ELSE n + a - T_MOD
  BY PlusValue, Zenon
<1>3. Plus(n, 0) = n
  <2>1. Plus(n, 0) = IF n + 0 < T_MOD THEN n + 0 ELSE n + 0 - T_MOD
    BY <1>1, PlusValue, Zenon
  <2> QED BY <1>1, <2>1, SMT
<1>4. Plus(n, a) \in 0 .. T_MOD - 1
  BY <1>1, <1>2, SMT
<1>5. Plus(Plus(n, a), b) =
        IF Plus(n, a) + b < T_MOD THEN Plus(n, a) + b ELSE Plus(n, a) + b - T_MOD
  BY <1>4, PlusValue, Zenon
<1>6. Plus(n, a + b) =
        IF n + (a + b) < T_MOD THEN n + (a + b) ELSE n + (a + b) - T_MOD
  BY <1>1, PlusValue, Zenon
<1> QED BY <1>1, <1>2, <1>3, <1>4, <1>5, <1>6, SMT

\* The values of txid tell what has become of a request: an id, none, failed, done.
LEMMA TxidValues ==
  /\ \A id \in Ids : id \in Nat /\ id <= 255 /\ ~ IsComp(id) /\ id # TXID_VOID
  /\ ~ TXID_VOID <= 255 /\ ~ IsComp(TXID_VOID)
  /\ ~ TXID_COMP_FAIL <= 255 /\ IsComp(TXID_COMP_FAIL) /\ TXID_COMP_FAIL # TXID_VOID
  /\ \A id \in Ids : /\ ~ TXID_COMP_SUCCESS + id <= 255
                     /\ IsComp(TXID_COMP_SUCCESS + id)
                     /\ TXID_COMP_SUCCESS + id # TXID_VOID
  /\ 0 <= 255 /\ ~ IsComp(0) /\ 0 # TXID_VOID
<1>1. \A id \in Ids : id \in 0 .. 255
  BY MotAssumption, Zenon
<1> QED BY <1>1, SMT DEF IsComp, TXID_VOID, TXID_COMP_FAIL, TXID_COMP_SUCCESS

\* A request is either deferred, or void, or completed.
LEMMA TxidCases ==
  ASSUME NEW v \in TxidValue
  PROVE  /\ v <= 255 <=> v # TXID_VOID /\ ~ IsComp(v)
         /\ v \in Nat
<1>1. \A id \in Ids : id \in 0 .. 255
  BY MotAssumption, Zenon
<1> QED BY <1>1, SMT DEF TxidValue, IsComp, TXID_VOID, TXID_COMP_FAIL, TXID_COMP_SUCCESS

\* The time-out of each packet, and of both, is a number of milliseconds.
LEMMA Timeouts ==
  /\ TX_TIMEOUT * N_TX_PACKETS \in Nat /\ TX_TIMEOUT * N_TX_PACKETS = TX_TIMEOUT + TX_TIMEOUT
  /\ \A c \in 0 .. 2 : /\ TX_TIMEOUT * c \in 0 .. TX_TIMEOUT * N_TX_PACKETS
                       /\ c > 0 => TX_TIMEOUT * c > 0
<1>1. N_TX_PACKETS = 2 /\ TX_TIMEOUT \in Nat \ {0}
  BY Params, Zenon
<1>2. \A c \in 0 .. 2 : c = 0 \/ c = 1 \/ c = 2
  BY SMT
<1> HIDE DEF N_TX_PACKETS
<1> QED BY <1>1, <1>2, SMT

----------------------------------------------------------------------------
\* What steps have in common.

\* A step that leaves the packets and the queue alone keeps what is said of them.
LEMMA DataKeeps ==
  ASSUME IInv, UNCHANGED <<txid, que, next, pending, wire, out>>
  PROVE  /\ Samples' /\ ParentPrints'
         /\ Awaited => Awaited'
<1>1. Samples'
  BY Zenon DEF IInv, Samples
<1>2. ParentPrints'
  BY Zenon DEF IInv, ParentPrints
<1>3. Awaited => Awaited'
  BY Zenon DEF Awaited, Deferred
<1> QED BY <1>1, <1>2, <1>3, Zenon

\* Going to sleep keeps the invariant, once no request is left.
LEMMA SleepKeeps ==
  ASSUME IInv, SleepNow, pending = {}
  PROVE  IInv'
<1>1. TypeOK'
  <2>1. FieldsOK'
    BY SMT DEF IInv, TypeOK, FieldsOK, SleepNow
  <2>2. (flag \in BOOLEAN)'
    BY Zenon DEF IInv, TypeOK, SleepNow
  <2> QED BY <2>1, <2>2, Zenon DEF TypeOK
<1>2. Places'
  BY SMT DEF Places, SleepNow
<1>3. Ledger' /\ Bookkeeping'
  BY SMT DEF Ledger, Bookkeeping, SleepNow
<1>4. Samples'
  BY Zenon DEF IInv, Samples, SleepNow
<1>5. ParentPrints'
  BY Zenon DEF ParentPrints, SleepNow
<1>6. Spending'
  BY SMT DEF Spending, SleepNow
<1> QED BY <1>1, <1>2, <1>3, <1>4, <1>5, <1>6, Zenon DEF IInv

\* Leaving loop() keeps the invariant in the states that wait.
LEMMA StayKeeps ==
  ASSUME IInv, Stay, st \in {"INTERACTIVE", "TX_WAIT_COMP"}, st = "TX_WAIT_COMP" => left > 0
  PROVE  IInv'
<1>1. TypeOK'
  <2>1. FieldsOK'
    BY SMT DEF IInv, TypeOK, FieldsOK, Stay
  <2>2. (flag \in BOOLEAN)'
    BY Zenon DEF IInv, TypeOK, Stay
  <2> QED BY <2>1, <2>2, Zenon DEF TypeOK
<1>2. Places'
  BY SMT DEF Places, Stay
<1>3. Ledger'
  BY SMT DEF IInv, Ledger, Stay
<1>4. Samples' /\ ParentPrints' /\ (Awaited => Awaited')
  BY DataKeeps, Zenon DEF Stay
<1>5. Bookkeeping'
  BY <1>4, Zenon DEF IInv, Bookkeeping, Stay
<1>6. Spending'
  BY SMT DEF IInv, Spending, Stay
<1> QED BY <1>1, <1>2, <1>3, <1>4, <1>5, <1>6, Zenon DEF IInv

\* What a state with the values of the power-up is like.
LEMMA ZeroFacts ==
  /\ 0 \in 0 .. T_MOD - 1 /\ Plus(0, 0) = 0 /\ 0 \in TxidValue
  /\ -1 \in -1 .. FIFO_DEPTH /\ 0 \in 0 .. FIFO_DEPTH
<1>1. 0 \in 0 .. T_MOD - 1 /\ 0 \in 0 .. FIFO_DEPTH /\ -1 \in -1 .. FIFO_DEPTH
  BY Params, SMT
<1>2. 0 + 0 <= FIFO_DEPTH
  BY Params, SMT
<1>3. Plus(0, 0) = 0
  BY <1>1, <1>2, PlusFacts, Zenon
<1>4. 0 \in TxidValue
  BY Zenon DEF TxidValue
<1> QED BY <1>1, <1>3, <1>4, Zenon

\* The state after power-up satisfies the invariant.
LEMMA Starts == Init => IInv
<1> SUFFICES ASSUME Init PROVE IInv
  BY Zenon
<1>1. TypeOK
  <2>1. FieldsOK
    <3>1. txid \in [Packets -> TxidValue]
      BY ZeroFacts, Zenon DEF Init
    <3>2. que \in Seq(0 .. T_MOD - 1) /\ Len(que) = 0
      BY EmptySeq, SMT DEF Init
    <3>3. left \in 0 .. TX_TIMEOUT * N_TX_PACKETS
      BY Timeouts, SMT DEF Init
    <3>4. ip \in 0 .. N_TX_PACKETS
      BY Params, SMT DEF Init
    <3> HIDE DEF TxidValue, N_TX_PACKETS
    <3> QED BY <3>1, <3>2, <3>3, <3>4, ZeroFacts, Params, SMT DEF Init, FieldsOK
  <2> QED BY <2>1, Zenon DEF TypeOK, Init
<1>2. Places
  BY SMT DEF Places, Init
<1>3. Ledger /\ Bookkeeping
  BY SMT DEF Ledger, Bookkeeping, Init
<1>4. Samples
  BY ZeroFacts, SMT DEF Samples, Init
<1>5. ParentPrints
  BY Zenon DEF ParentPrints, Init
<1>6. Spending
  BY SMT DEF Spending, Init
<1> QED BY <1>1, <1>2, <1>3, <1>4, <1>5, <1>6, Zenon DEF IInv

\* A reset leads to that state.
LEMMA ResetKeeps == Reset => IInv'
<1> SUFFICES ASSUME Reset PROVE IInv'
  BY Zenon
<1>1. TypeOK'
  <2>1. FieldsOK'
    <3>1. (txid \in [Packets -> TxidValue])'
      BY ZeroFacts, Zenon DEF Reset
    <3>2. (que \in Seq(0 .. T_MOD - 1) /\ Len(que) = 0)'
      BY EmptySeq, SMT DEF Reset
    <3>3. (left \in 0 .. TX_TIMEOUT * N_TX_PACKETS)'
      BY Timeouts, SMT DEF Reset
    <3>4. (ip \in 0 .. N_TX_PACKETS)'
      BY Params, SMT DEF Reset
    <3> QED BY <3>1, <3>2, <3>3, <3>4, ZeroFacts, Params, SMT DEF Reset, FieldsOK
  <2> QED BY <2>1, Zenon DEF TypeOK, Reset
<1>2. Places'
  BY SMT DEF Places, Reset
<1>3. Ledger' /\ Bookkeeping'
  BY SMT DEF Ledger, Bookkeeping, Reset
<1>4. Samples'
  BY ZeroFacts, SMT DEF Samples, Reset
<1>5. ParentPrints'
  BY Zenon DEF ParentPrints, Reset
<1>6. Spending'
  BY SMT DEF Spending, Reset
<1> QED BY <1>1, <1>2, <1>3, <1>4, <1>5, <1>6, Zenon DEF IInv

----------------------------------------------------------------------------
\* Starting and waking up.

\* setup() keeps the invariant.
LEMMA SetupKeeps == ASSUME IInv, Setup PROVE IInv'
<1>1. TypeOK'
  <2>1. FieldsOK'
    BY Params, SMT DEF IInv, TypeOK, FieldsOK, Setup
  <2>2. (flag \in BOOLEAN)'
    BY Zenon DEF IInv, TypeOK, Setup
  <2> QED BY <2>1, <2>2, Zenon DEF TypeOK
<1>2. Places'
  BY SMT DEF IInv, Places, Setup
<1>3. Ledger' /\ Bookkeeping'
  BY SMT DEF IInv, Places, Ledger, Bookkeeping, Setup
<1>4. Samples' /\ ParentPrints'
  BY DataKeeps, Zenon DEF Setup
<1>5. Spending'
  BY SMT DEF IInv, Places, Spending, Setup
<1> QED BY <1>1, <1>2, <1>3, <1>4, <1>5, Zenon DEF IInv

\* begin() keeps the invariant.
LEMMA BeginKeeps == ASSUME IInv, Begin PROVE IInv'
<1>1. CASE st = "INTERACTIVE" /\ Stay
  BY <1>1, StayKeeps, SMT
<1>2. CASE st # "INTERACTIVE" /\ SleepNow
  <2>1. pending = {}
    BY <1>2, SMT DEF IInv, Places, Ledger, Begin
  <2> QED BY <1>2, <2>1, SleepKeeps, Zenon
<1> QED BY <1>1, <1>2, Zenon DEF Begin, Stay

\* What the driver reads continues what it has read, whatever is in the FIFO.
LEMMA ReadKeeps ==
  ASSUME IInv, NEW n \in -1 .. FIFO_DEPTH, ReadFifo(n), UNCHANGED out
  PROVE  /\ Samples'
         /\ que' \in Seq(0 .. T_MOD - 1) /\ Len(que') <= FIFO_DEPTH
         /\ fifo' \in -1 .. FIFO_DEPTH /\ next' \in 0 .. T_MOD - 1
<1>0. /\ que \in Seq(0 .. T_MOD - 1) /\ Len(que) <= FIFO_DEPTH
      /\ next \in 0 .. T_MOD - 1 /\ out \in 0 .. T_MOD - 1
  BY Zenon DEF IInv, TypeOK, FieldsOK
<1>1. CASE n >= FIFO_SAMPLE_COUNT /\ que = <<>>
  <2>0. /\ que' = [i \in 1 .. n |-> Plus(next, i - 1)]
        /\ next' = Plus(next, n) /\ fifo' = 0
    BY <1>1, Params, SMT DEF ReadFifo
  <2>1. n \in 0 .. FIFO_DEPTH /\ n \in Nat
    BY <1>1, Params, SMT
  <2>2. next = out
    <3>1. next = Plus(out, 0)
      BY <1>1, SMT DEF IInv, Samples
    <3>2. 0 \in 0 .. FIFO_DEPTH /\ 0 + 0 <= FIFO_DEPTH
      BY Params, SMT
    <3> QED BY <1>0, <3>1, <3>2, PlusFacts, Zenon
  <2>3. \A i \in 1 .. n : Plus(next, i - 1) \in 0 .. T_MOD - 1
    <3> TAKE i \in 1 .. n
    <3>1. i - 1 \in 0 .. FIFO_DEPTH /\ 0 \in 0 .. FIFO_DEPTH /\ (i - 1) + 0 <= FIFO_DEPTH
      BY <2>1, Params, SMT
    <3> QED BY <1>0, <3>1, PlusFacts, Zenon
  <2>4. Plus(next, n) \in 0 .. T_MOD - 1
    <3>1. 0 \in 0 .. FIFO_DEPTH /\ n + 0 <= FIFO_DEPTH
      BY <2>1, Params, SMT
    <3> QED BY <1>0, <2>1, <3>1, PlusFacts, Zenon
  <2>5. que' \in Seq(0 .. T_MOD - 1) /\ Len(que') = n
    BY <2>0, <2>1, <2>3, SMT
  <2>6. Samples'
    <3>1. \A i \in 1 .. n : que'[i] = Plus(out', i - 1)
      BY <2>0, <2>2, SMT
    <3>2. next' = Plus(out', n)
      BY <2>0, <2>2, Zenon
    <3> QED BY <2>5, <3>1, <3>2, Zenon DEF Samples
  <2> QED BY <2>0, <2>1, <2>4, <2>5, <2>6, Params, SMT
<1>2. CASE (n < FIFO_SAMPLE_COUNT \/ que # <<>>) /\ fifo' = n /\ UNCHANGED <<que, next>>
  <2>1. Samples'
    BY <1>2, Zenon DEF IInv, Samples
  <2> QED BY <1>0, <1>2, <2>1, Zenon
<1> QED BY <1>1, <1>2, Zenon DEF ReadFifo

\* wakeup(), after the driver, keeps the invariant.
LEMMA WakeupKeeps ==
  ASSUME IInv, NEW n \in -1 .. FIFO_DEPTH, Wakeup(n)
  PROVE  IInv'
<1>0. run = "sleep" /\ st = "INIT" /\ pending = {} /\ up = 0
  BY SMT DEF IInv, Places, Ledger, Spending, Wakeup
<1>1. /\ Samples'
      /\ que' \in Seq(0 .. T_MOD - 1) /\ Len(que') <= FIFO_DEPTH
      /\ fifo' \in -1 .. FIFO_DEPTH /\ next' \in 0 .. T_MOD - 1
  BY ReadKeeps, Zenon DEF Wakeup
<1>2. TypeOK'
  <2>1. txid' \in [Packets -> TxidValue]
    BY Zenon DEF Wakeup, TxidValue
  <2>2. FieldsOK'
    BY <1>1, <2>1, SMT DEF IInv, TypeOK, FieldsOK, Wakeup
  <2>3. (flag \in BOOLEAN)'
    BY Zenon DEF IInv, TypeOK, Wakeup
  <2> QED BY <2>2, <2>3, Zenon DEF TypeOK
<1>3. Places'
  BY SMT DEF Places, Wakeup
<1>4. Ledger' /\ Bookkeeping'
  <2>1. \A i \in Packets : txid'[i] = TXID_VOID
    BY Zenon DEF Wakeup
  <2> QED BY <1>0, <2>1, SMT DEF Ledger, Bookkeeping, Wakeup
<1>5. ParentPrints'
  BY Zenon DEF IInv, ParentPrints, Wakeup
<1>6. Spending'
  BY <1>0, SMT DEF Spending, Wakeup
<1> QED BY <1>1, <1>2, <1>3, <1>4, <1>5, <1>6, Zenon DEF IInv

----------------------------------------------------------------------------
\* STATE::TX

\* A packet has samples if the queue has, and no more than the queue has.
LEMMA SizeFacts ==
  ASSUME IInv
  PROVE  /\ Len(que) \in 0 .. FIFO_DEPTH
         /\ SizeOfNext \in 0 .. Len(que)
         /\ que # <<>> => SizeOfNext > 0 /\ Len(que) > 0
<1>1. que \in Seq(0 .. T_MOD - 1) /\ Len(que) <= FIFO_DEPTH
  BY Zenon DEF IInv, TypeOK, FieldsOK
<1>2. Len(que) \in Nat /\ (que # <<>> => Len(que) > 0)
  BY <1>1, EmptySeq, LenProperties, SMT
<1>3. FIFO_DEPTH \in Nat /\ MAX_SAMP_IN_PKT \in Nat \ {0}
  BY Params, Zenon
<1> QED BY <1>1, <1>2, <1>3, SMT DEF SizeOfNext

\* Popping the samples of a packet leaves those after them.
LEMMA PopKeeps ==
  ASSUME IInv, PopSamples, UNCHANGED next
  PROVE  /\ Samples'
         /\ que' \in Seq(0 .. T_MOD - 1) /\ Len(que') <= FIFO_DEPTH
         /\ out' \in 0 .. T_MOD - 1
<1> DEFINE n == SizeOfNext
           l == Len(que)
<1>0. /\ que \in Seq(0 .. T_MOD - 1)
      /\ out \in 0 .. T_MOD - 1 /\ next \in 0 .. T_MOD - 1
      /\ \A i \in 1 .. l : que[i] = Plus(out, i - 1)
      /\ next = Plus(out, l)
  BY Zenon DEF IInv, TypeOK, FieldsOK, Samples
<1>1. l \in 0 .. FIFO_DEPTH /\ n \in 0 .. l /\ (que # <<>> => n > 0 /\ l > 0)
  BY SizeFacts, Zenon
<1>2. FIFO_DEPTH \in Nat
  BY Params, Zenon
<1>3. \A i \in 1 .. l : que[i] \in 0 .. T_MOD - 1
  BY <1>0, ElementOfSeq, Zenon
<1>4. /\ que' = SubSeq(que, n + 1, l)
      /\ out' = IF que = <<>> THEN out ELSE Plus(que[n], 1)
  BY Zenon DEF PopSamples
<1> HIDE DEF n, l
<1>5. /\ SubSeq(que, n + 1, l) \in Seq(0 .. T_MOD - 1)
      /\ Len(SubSeq(que, n + 1, l)) = l - n
      /\ \A i \in 1 .. l - n : SubSeq(que, n + 1, l)[i] = que[n + i]
  <2> DEFINE a == n + 1
  <2>1. a \in Int /\ l \in Int /\ \A i \in a .. l : que[i] \in 0 .. T_MOD - 1
    BY <1>1, <1>2, <1>3, SMT
  <2>2. a = n + 1
    OBVIOUS
  <2> HIDE DEF a
  <2>3. /\ SubSeq(que, a, l) \in Seq(0 .. T_MOD - 1)
        /\ Len(SubSeq(que, a, l)) = IF a <= l THEN l - a + 1 ELSE 0
        /\ \A i \in 1 .. l - a + 1 : SubSeq(que, a, l)[i] = que[a + i - 1]
    BY <2>1, SubSeqProperties
  <2>4. l - a + 1 = l - n /\ \A i \in 1 .. l - n : a + i - 1 = n + i
    BY <1>1, <1>2, <2>2, SMT
  <2>5. (IF a <= l THEN l - a + 1 ELSE 0) = l - n
    BY <1>1, <1>2, <2>2, SMT
  <2> QED BY <2>2, <2>3, <2>4, <2>5, Zenon
<1>6. out' = Plus(out, n)
  <2>1. CASE que = <<>>
    <3>1. l = 0 /\ n = 0
      BY <1>1, <2>1, EmptySeq, SMT DEF l
    <3>2. 0 \in 0 .. FIFO_DEPTH /\ 0 + 0 <= FIFO_DEPTH
      BY <1>2, SMT
    <3>3. Plus(out, 0) = out
      BY <1>0, <3>2, PlusFacts, Zenon
    <3> QED BY <1>4, <2>1, <3>1, <3>3, Zenon
  <2>2. CASE que # <<>>
    <3>1. /\ n \in 1 .. l /\ n - 1 \in 0 .. FIFO_DEPTH /\ 1 \in 0 .. FIFO_DEPTH
          /\ (n - 1) + 1 <= FIFO_DEPTH /\ (n - 1) + 1 = n
      BY <1>1, <1>2, <2>2, SMT
    <3>2. Plus(Plus(out, n - 1), 1) = Plus(out, (n - 1) + 1)
      BY <1>0, <3>1, PlusFacts, Zenon
    <3>3. que[n] = Plus(out, n - 1)
      BY <1>0, <3>1, Zenon
    <3> QED BY <1>4, <2>2, <3>1, <3>2, <3>3, Zenon
  <2> QED BY <2>1, <2>2, Zenon
<1>7. out' \in 0 .. T_MOD - 1
  <2>1. 0 \in 0 .. FIFO_DEPTH /\ n \in 0 .. FIFO_DEPTH /\ n + 0 <= FIFO_DEPTH
    BY <1>1, <1>2, SMT
  <2> QED BY <1>0, <1>6, <2>1, PlusFacts, Zenon
<1>8. \A k \in 0 .. l - n : Plus(out', k) = Plus(out, n + k)
  <2> TAKE k \in 0 .. l - n
  <2>1. n \in 0 .. FIFO_DEPTH /\ k \in 0 .. FIFO_DEPTH /\ n + k <= FIFO_DEPTH
    BY <1>1, <1>2, SMT
  <2> QED BY <1>0, <1>6, <2>1, PlusFacts, Zenon
<1>9. Samples'
  <2>1. Len(que') = l - n
    BY <1>4, <1>5, Zenon
  <2>2. \A i \in 1 .. l - n : que'[i] = Plus(out', i - 1)
    <3> TAKE i \in 1 .. l - n
    <3>1. i - 1 \in 0 .. l - n /\ n + i \in 1 .. l /\ (n + i) - 1 = n + (i - 1)
      BY <1>1, <1>2, SMT
    <3>2. que'[i] = que[n + i]
      BY <1>4, <1>5, Zenon
    <3> QED BY <1>0, <1>8, <3>1, <3>2, Zenon
  <2>3. next' = Plus(out', l - n)
    <3>1. l - n \in 0 .. l - n /\ n + (l - n) = l
      BY <1>1, <1>2, SMT
    <3> QED BY <1>0, <1>8, <3>1, Zenon
  <2> QED BY <2>1, <2>2, <2>3, Zenon DEF Samples
<1> QED BY <1>1, <1>2, <1>4, <1>5, <1>7, <1>9, SMT

\* The parent prints the samples of the packet that is packed.
LEMMA NextPacketPrinted ==
  ASSUME IInv, NEW seq \in SeqOfNext
  PROVE  LET p == NextPacket(seq)
         IN  /\ Printed(p) = [i \in 1 .. p.siz |-> Reading[Plus(p.seq, i - 1)]]
             /\ p.siz > 0 => p.seq = out
<1> DEFINE n == SizeOfNext
           p == NextPacket(seq)
<1>0. /\ que \in Seq(0 .. T_MOD - 1) /\ out \in 0 .. T_MOD - 1
      /\ \A i \in 1 .. Len(que) : que[i] = Plus(out, i - 1)
  BY Zenon DEF IInv, TypeOK, FieldsOK, Samples
<1>1. Len(que) \in 0 .. FIFO_DEPTH /\ n \in 0 .. Len(que)
  BY SizeFacts, Zenon
<1>2. /\ p.siz = n /\ p.seq = seq
      /\ p.body = [i \in 1 .. n |-> Encode(Reading[que[i]])]
  BY Zenon DEF NextPacket
<1>3. n > 0 => seq = out
  <2> SUFFICES ASSUME n > 0 PROVE seq = out
    BY Zenon
  <2>1. que # <<>> /\ 1 \in 1 .. Len(que)
    BY <1>0, <1>1, EmptySeq, Params, SMT
  <2>2. seq = que[1]
    BY <1>0, <2>1, SMT DEF SeqOfNext
  <2>3. que[1] = Plus(out, 0)
    BY <1>0, <2>1, SMT
  <2>4. 0 \in 0 .. FIFO_DEPTH /\ 0 + 0 <= FIFO_DEPTH
    BY Params, SMT
  <2>5. Plus(out, 0) = out
    BY <1>0, <2>4, PlusFacts, Zenon
  <2> QED BY <2>2, <2>3, <2>5, Zenon
<1>4. \A i \in 1 .. n : Decode(p.body[i]) = Reading[Plus(p.seq, i - 1)]
  <2> TAKE i \in 1 .. n
  <2>1. n > 0 /\ i \in 1 .. Len(que)
    BY <1>1, Params, SMT
  <2>2. que[i] \in 0 .. T_MOD - 1 /\ que[i] = Plus(seq, i - 1)
    BY <1>0, <1>3, <2>1, ElementOfSeq, Zenon
  <2>3. Reading[que[i]] \in Sample
    BY <2>2, MotAssumption, Zenon
  <2>4. Decode(Encode(Reading[que[i]])) = Reading[que[i]]
    BY <2>3, RoundTrip, Zenon
  <2>5. p.body[i] = Encode(Reading[que[i]])
    BY <1>2, Zenon
  <2> QED BY <1>2, <2>2, <2>4, <2>5, Zenon
<1> HIDE DEF n, p
<1>5. Printed(p) = [i \in 1 .. n |-> Decode(p.body[i])]
  BY <1>2, Zenon DEF Printed
<1>6. Printed(p) = [i \in 1 .. n |-> Reading[Plus(p.seq, i - 1)]]
  BY <1>4, <1>5, Zenon
<1>7. Printed(p) = [i \in 1 .. p.siz |-> Reading[Plus(p.seq, i - 1)]]
  BY <1>2, <1>6, Zenon
<1> QED BY <1>2, <1>3, <1>7, Zenon DEF p

\* A round of the loop leaves txid, and MWX, in one of three ways; in each, txid
\* still has the requests under way, each once.
LEMMA TxPacketAwaited ==
  ASSUME IInv, st = "TX", ip \in Packets, pending' \subseteq Ids,
         \/ UNCHANGED <<txid, pending>>
         \/ txid' = [txid EXCEPT ![ip] = TXID_COMP_FAIL] /\ UNCHANGED pending
         \/ \E id \in Ids \ pending : /\ txid' = [txid EXCEPT ![ip] = id]
                                      /\ pending' = pending \cup {id}
  PROVE  /\ Awaited'
         /\ txid' \in [Packets -> TxidValue]
         /\ \A i \in Packets \ {ip} : txid'[i] = txid[i]
<1>0. /\ Awaited /\ txid[ip] = TXID_VOID
      /\ txid \in [Packets -> TxidValue] /\ pending \subseteq Ids
  <2>1. ip >= ip
    BY SMT DEF IInv, TypeOK, FieldsOK
  <2> QED BY <2>1, Zenon DEF IInv, TypeOK, FieldsOK, Ledger
<1>1. ip \notin Deferred
  BY <1>0, TxidValues, Zenon DEF Deferred
<1>2. CASE UNCHANGED <<txid, pending>>
  BY <1>0, <1>2, Zenon DEF Awaited, Deferred
<1>3. CASE txid' = [txid EXCEPT ![ip] = TXID_COMP_FAIL] /\ UNCHANGED pending
  <2>1. TXID_COMP_FAIL \in TxidValue
    BY Zenon DEF TxidValue
  <2>2. txid'[ip] = TXID_COMP_FAIL /\ \A i \in Packets \ {ip} : txid'[i] = txid[i]
    BY <1>0, <1>3, Zenon
  <2>3. Deferred' = Deferred
    BY <1>1, <2>2, TxidValues, Zenon DEF Deferred
  <2>4. \A i \in Deferred : i \in Packets \ {ip}
    BY <1>1, Zenon DEF Deferred
  <2>5. txid' \in [Packets -> TxidValue]
    BY <1>0, <1>3, <2>1, Zenon
  <2>6. {txid'[i] : i \in Deferred'} = pending'
    BY <1>0, <1>3, <2>2, <2>3, <2>4, SMT DEF Awaited
  <2>7. \A i, j \in Deferred' : i # j => txid'[i] # txid'[j]
    BY <1>0, <2>2, <2>3, <2>4, SMT DEF Awaited
  <2> QED BY <2>2, <2>5, <2>6, <2>7, Zenon DEF Awaited
<1>4. CASE \E id \in Ids \ pending : /\ txid' = [txid EXCEPT ![ip] = id]
                                     /\ pending' = pending \cup {id}
  <2>0. PICK id \in Ids \ pending : /\ txid' = [txid EXCEPT ![ip] = id]
                                    /\ pending' = pending \cup {id}
    BY <1>4, Zenon
  <2>1. id \in TxidValue /\ id <= 255
    BY TxidValues, Zenon DEF TxidValue
  <2>2. txid'[ip] = id /\ \A i \in Packets \ {ip} : txid'[i] = txid[i]
    BY <1>0, <2>0, Zenon
  <2>3. Deferred' = Deferred \cup {ip}
    BY <1>1, <2>1, <2>2, Zenon DEF Deferred
  <2>4. \A i \in Deferred : i \in Packets \ {ip} /\ txid'[i] = txid[i] /\ txid[i] # id
    BY <1>0, <1>1, <2>2, Zenon DEF Deferred, Awaited
  <2>5. {txid'[i] : i \in Deferred'} = pending'
    BY <1>0, <2>0, <2>2, <2>3, <2>4, SMT DEF Awaited
  <2>6. \A i, j \in Deferred' : i # j => txid'[i] # txid'[j]
    BY <1>0, <2>2, <2>3, <2>4, SMT DEF Awaited
  <2>7. txid' \in [Packets -> TxidValue]
    BY <1>0, <2>0, <2>1, Zenon
  <2> QED BY <2>2, <2>5, <2>6, <2>7, Zenon DEF Awaited
<1> QED BY <1>2, <1>3, <1>4, Zenon

\* What a round does to the queue, and to the packets on the wire.
LEMMA TxPacketData ==
  ASSUME IInv, NotPrepared \/ Prepared, UNCHANGED next
  PROVE  /\ Samples' /\ ParentPrints'
         /\ que' \in Seq(0 .. T_MOD - 1) /\ Len(que') <= FIFO_DEPTH
         /\ out' \in 0 .. T_MOD - 1
         /\ \A p \in wire' \ wire : p.siz > 0 => p.seq = out
<1>0. /\ que \in Seq(0 .. T_MOD - 1) /\ Len(que) <= FIFO_DEPTH
      /\ out \in 0 .. T_MOD - 1 /\ Samples /\ ParentPrints
  BY Zenon DEF IInv, TypeOK, FieldsOK
<1>1. CASE NotPrepared
  <2>1. Samples'
    BY <1>0, <1>1, Zenon DEF NotPrepared, Samples
  <2>2. ParentPrints'
    BY <1>0, <1>1, Zenon DEF NotPrepared, ParentPrints
  <2> QED BY <1>0, <1>1, <2>1, <2>2, Zenon DEF NotPrepared
<1>2. CASE PopSamples /\ UNCHANGED wire
  <2>1. ParentPrints'
    BY <1>0, <1>2, Zenon DEF ParentPrints
  <2> QED BY <1>2, <2>1, PopKeeps, Zenon
<1>3. CASE PopSamples /\ \E seq \in SeqOfNext : wire' = wire \cup {NextPacket(seq)}
  <2>1. PICK seq \in SeqOfNext : wire' = wire \cup {NextPacket(seq)}
    BY <1>3, Zenon
  <2> DEFINE new == NextPacket(seq)
  <2>2. /\ Printed(new) = [i \in 1 .. new.siz |-> Reading[Plus(new.seq, i - 1)]]
        /\ new.siz > 0 => new.seq = out
    BY NextPacketPrinted, Zenon
  <2>3. wire' = wire \cup {new}
    BY <2>1, Zenon
  <2> HIDE DEF new
  <2>4. ParentPrints'
    BY <1>0, <2>2, <2>3, Zenon DEF ParentPrints
  <2>5. \A p \in wire' \ wire : p.siz > 0 => p.seq = out
    BY <2>2, <2>3, Zenon
  <2> QED BY <1>3, <2>4, <2>5, PopKeeps, Zenon
<1> QED BY <1>1, <1>2, <1>3, Zenon DEF Prepared, Refused, Requested

\* A round of the loop over the packets keeps the invariant.
LEMMA TxPacketKeeps == ASSUME IInv, In("TX"), TxPacket PROVE IInv'
<1>0. run = "loop" /\ st = "TX"
  BY Zenon DEF In
<1>1. ip \in Packets /\ ip \in Nat /\ ip' = ip + 1 /\ ip' \in 0 .. N_TX_PACKETS
  BY Params, SMT DEF IInv, TypeOK, FieldsOK, TxPacket, Packets
<1>2. /\ Samples' /\ ParentPrints'
      /\ que' \in Seq(0 .. T_MOD - 1) /\ Len(que') <= FIFO_DEPTH
      /\ out' \in 0 .. T_MOD - 1
  BY TxPacketData, Zenon DEF TxPacket
<1>3. pending' \subseteq Ids
  <2>1. pending \subseteq Ids
    BY Zenon DEF IInv, TypeOK, FieldsOK
  <2> QED BY <2>1, SMT DEF TxPacket, NotPrepared, Prepared, Refused, Requested
<1>4. \/ UNCHANGED <<txid, pending>>
      \/ txid' = [txid EXCEPT ![ip] = TXID_COMP_FAIL] /\ UNCHANGED pending
      \/ \E id \in Ids \ pending : /\ txid' = [txid EXCEPT ![ip] = id]
                                   /\ pending' = pending \cup {id}
  BY Zenon DEF TxPacket, NotPrepared, Prepared, Refused, Requested
<1>5. /\ Awaited'
      /\ txid' \in [Packets -> TxidValue]
      /\ \A i \in Packets \ {ip} : txid'[i] = txid[i]
  BY <1>0, <1>1, <1>3, <1>4, TxPacketAwaited, Zenon
<1>6. TypeOK'
  <2>1. FieldsOK'
    BY <1>1, <1>2, <1>3, <1>5, SMT DEF IInv, TypeOK, FieldsOK, TxPacket
  <2>2. (flag \in BOOLEAN)'
    BY Zenon DEF IInv, TypeOK, TxPacket
  <2> QED BY <2>1, <2>2, Zenon DEF TypeOK
<1>7. Places'
  BY <1>0, SMT DEF Places, TxPacket
<1>8. Ledger' /\ Bookkeeping'
  <2>1. \A i \in Packets : i >= ip => txid[i] = TXID_VOID
    BY <1>0, Zenon DEF IInv, Ledger
  <2>2. \A i \in Packets : i >= ip + 1 => i # ip /\ i >= ip
    BY <1>1, Params, SMT
  <2>3. \A i \in Packets : i >= ip' => txid'[i] = TXID_VOID
    BY <1>1, <1>5, <2>1, <2>2, Zenon
  <2> QED BY <1>0, <1>5, <2>3, SMT DEF Ledger, Bookkeeping, TxPacket
<1>9. Spending'
  BY <1>0, SMT DEF IInv, Spending, TxPacket
<1> QED BY <1>2, <1>6, <1>7, <1>8, <1>9, Zenon DEF IInv

\* The time-out for the requests that are left.
LEMMA DeferredTimeout ==
  ASSUME Deferred # {}
  PROVE  /\ TX_TIMEOUT * Cardinality(Deferred) \in 0 .. TX_TIMEOUT * N_TX_PACKETS
         /\ TX_TIMEOUT * Cardinality(Deferred) > 0
<1>1. Packets = 0 .. 1
  BY Params, SMT
<1>2. IsFiniteSet(Packets) /\ Cardinality(Packets) = 2
  <2>1. 0 \in Int /\ 1 \in Int
    BY SMT
  <2>2. IsFiniteSet(0 .. 1) /\ Cardinality(0 .. 1) = IF 0 > 1 THEN 0 ELSE 1 - 0 + 1
    BY <2>1, FS_Interval, Zenon
  <2>3. (IF 0 > 1 THEN 0 ELSE 1 - 0 + 1) = 2
    BY SMT
  <2> QED BY <1>1, <2>2, <2>3, Zenon
<1>3. Deferred \in SUBSET Packets
  BY Zenon DEF Deferred
<1>4. IsFiniteSet(Deferred) /\ Cardinality(Deferred) <= 2
  BY <1>2, <1>3, FS_Subset, SMT
<1>5. Cardinality(Deferred) \in Nat /\ Cardinality(Deferred) # 0
  BY <1>4, FS_CardinalityType, FS_EmptySet, Zenon
<1>6. Cardinality(Deferred) \in 0 .. 2 /\ Cardinality(Deferred) > 0
  BY <1>4, <1>5, SMT
<1> QED BY <1>6, Timeouts, Zenon

\* After the loop: the node waits for what is left of its requests, or sleeps.
LEMMA TxDoneKeeps == ASSUME IInv, In("TX"), TxDone PROVE IInv'
<1>0. run = "loop" /\ st = "TX" /\ Awaited /\ up = 0
  BY Zenon DEF In, IInv, Ledger, Spending
<1>1. Samples' /\ ParentPrints' /\ Awaited'
  BY <1>0, DataKeeps, Zenon DEF TxDone
<1>2. Deferred = {} <=> pending = {}
  BY <1>0, SMT DEF Awaited
<1>3. CASE /\ Deferred # {} /\ flag' = FALSE
           /\ left' = TX_TIMEOUT * Cardinality(Deferred) /\ GoTo("TX_WAIT_COMP")
  <2>1. left' \in 0 .. TX_TIMEOUT * N_TX_PACKETS
    BY <1>3, DeferredTimeout, Zenon
  <2>2. FieldsOK'
    BY <1>3, <2>1, SMT DEF IInv, TypeOK, FieldsOK, TxDone, GoTo
  <2>3. TypeOK'
    BY <1>3, <2>2, Zenon DEF TypeOK
  <2>4. Places' /\ Ledger'
    BY <1>3, SMT DEF Places, Ledger, GoTo
  <2>5. Bookkeeping'
    <3>1. pending' # {} /\ ~ flag'
      BY <1>2, <1>3, Zenon DEF TxDone
    <3> QED BY <1>1, <3>1, Zenon DEF Bookkeeping
  <2>6. Spending'
    <3>1. up' + left' <= TX_TIMEOUT * N_TX_PACKETS
      BY <1>0, <2>1, SMT DEF TxDone
    <3> QED BY <1>3, <3>1, SMT DEF Spending, GoTo
  <2> QED BY <1>1, <2>3, <2>4, <2>5, <2>6, Zenon DEF IInv
<1>4. CASE Deferred = {} /\ GoTo("GO_SLEEP") /\ UNCHANGED <<flag, left>>
  <2>1. FieldsOK'
    BY <1>4, SMT DEF IInv, TypeOK, FieldsOK, TxDone, GoTo
  <2>2. TypeOK'
    BY <1>4, <2>1, Zenon DEF IInv, TypeOK
  <2>3. pending' = {}
    BY <1>2, <1>4, Zenon DEF TxDone
  <2>4. Places' /\ Ledger' /\ Bookkeeping'
    BY <1>4, <2>3, SMT DEF Places, Ledger, Bookkeeping, GoTo
  <2>5. AwakeBounded'
    BY <1>0, Timeouts, SMT DEF AwakeBounded, TxDone
  <2>6. Spending'
    BY <1>4, <2>5, SMT DEF Spending, GoTo
  <2> QED BY <1>1, <2>2, <2>4, <2>6, Zenon DEF IInv
<1> QED BY <1>3, <1>4, Zenon DEF TxDone

----------------------------------------------------------------------------
\* The other states.

\* STATE::INIT keeps the invariant.
LEMMA InitStateKeeps == ASSUME IInv, In("INIT"), StateInit PROVE IInv'
<1>0. run = "loop" /\ st = "INIT" /\ pending = {}
  BY SMT DEF In, IInv, Ledger
<1>1. CASE SleepNow
  BY <1>0, <1>1, SleepKeeps, Zenon
<1>2. CASE GoTo("SENSOR") /\ UNCHANGED <<flag, left, txid, ip, que, fifo, next, pending, wire, out, up>>
  <2>1. FieldsOK'
    BY <1>2, SMT DEF IInv, TypeOK, FieldsOK, GoTo
  <2>2. TypeOK'
    BY <1>2, <2>1, Zenon DEF IInv, TypeOK
  <2>3. Samples' /\ ParentPrints'
    BY <1>2, DataKeeps, Zenon
  <2>4. Places' /\ Ledger' /\ Bookkeeping' /\ Spending'
    BY <1>0, <1>2, SMT DEF IInv, Places, Ledger, Bookkeeping, Spending, GoTo
  <2> QED BY <2>2, <2>3, <2>4, Zenon DEF IInv
<1> QED BY <1>1, <1>2, Zenon DEF StateInit

\* STATE::SENSOR keeps the invariant: the loop over the packets starts with txid void.
LEMMA SensorStateKeeps == ASSUME IInv, In("SENSOR"), StateSensor PROVE IInv'
<1>0. /\ run = "loop" /\ st = "SENSOR" /\ pending = {}
      /\ \A i \in Packets : txid[i] = TXID_VOID
  BY SMT DEF In, IInv, Ledger
<1>1. FieldsOK'
  BY Params, SMT DEF IInv, TypeOK, FieldsOK, StateSensor, GoTo
<1>2. TypeOK'
  BY <1>1, Zenon DEF IInv, TypeOK, StateSensor
<1>3. Samples' /\ ParentPrints'
  BY DataKeeps, Zenon DEF StateSensor
<1>4. Deferred' = {} /\ \A i \in Packets : txid'[i] = TXID_VOID
  BY <1>0, TxidValues, Zenon DEF Deferred, StateSensor
<1>5. Awaited'
  BY <1>0, <1>4, SMT DEF Awaited, StateSensor
<1>6. Places' /\ Ledger' /\ Bookkeeping' /\ Spending'
  BY <1>0, <1>4, <1>5, SMT DEF IInv, Places, Ledger, Bookkeeping, Spending, StateSensor, GoTo
<1> QED BY <1>2, <1>3, <1>6, Zenon DEF IInv

\* STATE::TX_WAIT_COMP keeps the invariant.
LEMMA WaitCompKeeps == ASSUME IInv, In("TX_WAIT_COMP"), TxWaitComp PROVE IInv'
<1>0. run = "loop" /\ st = "TX_WAIT_COMP"
  BY Zenon DEF In
<1>1. CASE Reset
  BY <1>1, ResetKeeps, Zenon
<1>2. CASE /\ left > 0 /\ flag /\ GoTo("GO_SLEEP")
           /\ UNCHANGED <<flag, left, txid, ip, que, fifo, next, pending, wire, out, up>>
  <2>1. FieldsOK'
    BY <1>2, SMT DEF IInv, TypeOK, FieldsOK, GoTo
  <2>2. TypeOK'
    BY <1>2, <2>1, Zenon DEF IInv, TypeOK
  <2>3. Samples' /\ ParentPrints'
    BY <1>2, DataKeeps, Zenon
  <2>4. pending' = {}
    BY <1>0, <1>2, Zenon DEF IInv, Bookkeeping
  <2>5. Places' /\ Ledger' /\ Bookkeeping'
    BY <1>2, <2>4, SMT DEF Places, Ledger, Bookkeeping, GoTo
  <2>6. AwakeBounded'
    <3>1. up + left <= TX_TIMEOUT * N_TX_PACKETS /\ up \in Nat /\ left \in Nat
      BY <1>0, Timeouts, SMT DEF IInv, TypeOK, FieldsOK, Spending
    <3>2. up <= TX_TIMEOUT * N_TX_PACKETS
      BY <3>1, Timeouts, SMT
    <3> QED BY <1>2, <3>2, Zenon DEF AwakeBounded
  <2>7. Spending'
    BY <1>2, <2>6, SMT DEF Spending, GoTo
  <2> QED BY <2>2, <2>3, <2>5, <2>7, Zenon DEF IInv
<1>3. CASE left > 0 /\ Stay
  BY <1>0, <1>3, StayKeeps, SMT
<1> QED BY <1>1, <1>2, <1>3, Zenon DEF TxWaitComp

\* loop() keeps the invariant.
LEMMA LoopKeeps == ASSUME IInv, Loop PROVE IInv'
<1>1. CASE In("INTERACTIVE") /\ Stay
  BY <1>1, StayKeeps, SMT DEF In
<1>2. CASE In("GO_SLEEP") /\ SleepNow
  <2>1. pending = {}
    BY <1>2, SMT DEF In, IInv, Ledger
  <2> QED BY <1>2, <2>1, SleepKeeps, Zenon
<1> QED BY <1>1, <1>2, InitStateKeeps, SensorStateKeeps, TxPacketKeeps, TxDoneKeeps,
           WaitCompKeeps, Zenon DEF Loop

----------------------------------------------------------------------------
\* Events.

\* A millisecond that passes keeps the invariant: what it costs, left pays for.
LEMMA TickKeeps == ASSUME IInv, Tick PROVE IInv'
<1>0. run = "idle" /\ st \in {"INTERACTIVE", "TX_WAIT_COMP"}
  BY Zenon DEF Tick, IInv, Places
<1>1. left \in 0 .. TX_TIMEOUT * N_TX_PACKETS /\ up \in Nat /\ TX_TIMEOUT * N_TX_PACKETS \in Nat
  BY Timeouts, Zenon DEF IInv, TypeOK, FieldsOK
<1>2. /\ left' \in 0 .. TX_TIMEOUT * N_TX_PACKETS /\ up' \in Nat
      /\ left' = IF left > 0 THEN left - 1 ELSE 0
      /\ up' = IF st = "INTERACTIVE" THEN up ELSE up + 1
  BY <1>1, SMT DEF Tick
<1>3. TypeOK'
  <2>1. FieldsOK'
    BY <1>2, SMT DEF IInv, TypeOK, FieldsOK, Tick
  <2> QED BY <2>1, Zenon DEF IInv, TypeOK, Tick
<1>4. Samples' /\ ParentPrints' /\ (Awaited => Awaited')
  BY DataKeeps, Zenon DEF Tick
<1>5. Places' /\ Ledger'
  BY <1>0, SMT DEF IInv, Places, Ledger, Tick
<1>6. Bookkeeping'
  BY <1>4, Zenon DEF IInv, Bookkeeping, Tick
<1>7. Spending'
  <2>1. st = "TX_WAIT_COMP" => up' + left' <= TX_TIMEOUT * N_TX_PACKETS
    <3> SUFFICES ASSUME st = "TX_WAIT_COMP" PROVE up' + left' <= TX_TIMEOUT * N_TX_PACKETS
      BY Zenon
    <3>1. left > 0 /\ up + left <= TX_TIMEOUT * N_TX_PACKETS
      BY <1>0, Zenon DEF IInv, Spending
    <3>2. up' = up + 1 /\ left' = left - 1
      BY <1>2, <3>1, SMT
    <3> QED BY <1>1, <3>1, <3>2, SMT
  <2>2. st = "INTERACTIVE" => up' = 0
    BY <1>2, SMT DEF IInv, Spending
  <2> QED BY <1>0, <2>1, <2>2, SMT DEF Spending, Tick
<1> QED BY <1>3, <1>4, <1>5, <1>6, <1>7, Zenon DEF IInv

\* The completion of one request, whichever it is, takes it, and no other, from
\* txid; the flag is set by the last.
LEMMA CompleteKeeps == ASSUME IInv, TxComplete PROVE IInv'
<1>0. PICK id \in pending : pending' = pending \ {id} /\ OnTxComp(id)
  BY Zenon DEF TxComplete
<1>1. /\ run = "idle" /\ st = "TX_WAIT_COMP" /\ id \in Ids
      /\ Awaited /\ (flag <=> pending = {}) /\ ~ flag
      /\ txid \in [Packets -> TxidValue] /\ flag \in BOOLEAN
  <2>1. run = "idle" /\ st = "TX_WAIT_COMP"
    BY <1>0, SMT DEF TxComplete, IInv, Places, Ledger
  <2> QED BY <1>0, <2>1, Zenon DEF IInv, TypeOK, FieldsOK, Bookkeeping
<1>2. /\ txid' = Marked(id)
      /\ flag' = (flag \/ \A i \in Packets : txid[i] # TXID_VOID => IsComp(Marked(id)[i]))
  BY <1>0, Zenon DEF OnTxComp
<1>3. \A i \in Packets :
        txid'[i] = IF txid[i] = id THEN TXID_COMP_SUCCESS + id ELSE txid[i]
  BY <1>2, Zenon DEF Marked
<1>4. TXID_COMP_SUCCESS + id \in TxidValue
  BY <1>1, Zenon DEF TxidValue
<1>5. txid' \in [Packets -> TxidValue]
  BY <1>1, <1>2, <1>4, SMT DEF Marked
<1>6. Deferred' = {i \in Deferred : txid[i] # id}
  BY <1>1, <1>3, TxidValues, Zenon DEF Deferred
<1>7. Awaited'
  <2>1. \A i \in Deferred' : i \in Deferred /\ txid'[i] = txid[i] /\ txid[i] # id
    BY <1>3, <1>6, Zenon DEF Deferred
  <2>2. {txid'[i] : i \in Deferred'} = pending'
    BY <1>0, <1>1, <1>6, <2>1, SMT DEF Awaited
  <2>3. \A i, j \in Deferred' : i # j => txid'[i] # txid'[j]
    BY <1>1, <2>1, Zenon DEF Awaited
  <2> QED BY <2>2, <2>3, Zenon DEF Awaited
<1>8. flag' <=> pending' = {}
  <2>1. \A i \in Packets : txid[i] # TXID_VOID <=> txid'[i] # TXID_VOID
    BY <1>1, <1>3, TxidValues, Zenon
  <2>2. \A i \in Packets : i \in Deferred' <=> txid'[i] # TXID_VOID /\ ~ IsComp(txid'[i])
    BY <1>5, TxidCases, Zenon DEF Deferred
  <2>3. Deferred' \subseteq Packets
    BY Zenon DEF Deferred
  <2>4. (\A i \in Packets : txid[i] # TXID_VOID => IsComp(txid'[i])) <=> Deferred' = {}
    BY <2>1, <2>2, <2>3, Zenon
  <2>5. Deferred' = {} <=> pending' = {}
    BY <1>7, SMT DEF Awaited
  <2> QED BY <1>1, <1>2, <2>4, <2>5, Zenon
<1>9. TypeOK'
  <2>1. FieldsOK'
    BY <1>0, <1>5, SMT DEF IInv, TypeOK, FieldsOK, TxComplete
  <2>2. flag' \in BOOLEAN
    BY <1>2, Zenon
  <2> QED BY <2>1, <2>2, Zenon DEF TypeOK
<1>10. Samples' /\ ParentPrints'
  <2>1. Samples'
    BY Zenon DEF IInv, Samples, TxComplete
  <2>2. ParentPrints'
    BY Zenon DEF IInv, ParentPrints, TxComplete
  <2> QED BY <2>1, <2>2, Zenon
<1>11. Places' /\ Ledger' /\ Spending'
  BY <1>1, SMT DEF IInv, Places, Ledger, Spending, TxComplete
<1>12. Bookkeeping'
  BY <1>7, <1>8, Zenon DEF Bookkeeping
<1> QED BY <1>9, <1>10, <1>11, <1>12, Zenon DEF IInv

\* A sample the sensor takes, and the wake-up at the last of them, keep the invariant.
LEMMA CaptureKeeps == ASSUME IInv, Capture PROVE IInv'
<1>0. fifo \in 0 .. FIFO_DEPTH - 1 /\ fifo + 1 \in -1 .. FIFO_DEPTH
  BY Params, SMT DEF Capture
<1>1. CASE Wakeup(fifo + 1)
  BY <1>0, <1>1, WakeupKeeps, Zenon
<1>2. CASE /\ fifo' = fifo + 1
           /\ UNCHANGED <<run, st, flag, left, txid, ip, que, next, pending, wire, out, up>>
  <2>1. FieldsOK'
    BY <1>0, <1>2, SMT DEF IInv, TypeOK, FieldsOK
  <2>2. TypeOK'
    BY <1>2, <2>1, Zenon DEF IInv, TypeOK
  <2>3. Samples' /\ ParentPrints' /\ (Awaited => Awaited')
    BY <1>2, DataKeeps, Zenon
  <2>4. Places' /\ Spending'
    BY <1>2, Zenon DEF IInv, Places, Spending, AwakeBounded
  <2>5. Ledger' /\ Bookkeeping'
    BY <1>2, <2>3, Zenon DEF IInv, Ledger, Bookkeeping
  <2> QED BY <2>2, <2>3, <2>4, <2>5, Zenon DEF IInv
<1> QED BY <1>1, <1>2, Zenon DEF Capture

\* No step of the act, and no event, breaks the invariant.
LEMMA NextKeeps == IInv /\ [Next]_vars => IInv'
<1> SUFFICES ASSUME IInv, [Next]_vars PROVE IInv'
  BY Zenon
<1>1. CASE Timer
  <2>1. fifo \in -1 .. FIFO_DEPTH
    BY Zenon DEF IInv, TypeOK, FieldsOK
  <2> QED BY <1>1, <2>1, WakeupKeeps, Zenon DEF Timer
<1>2. CASE CloseSettings
  BY <1>2, ResetKeeps, Zenon DEF CloseSettings
<1>3. CASE UNCHANGED vars
  <2>1. TypeOK'
    <3>1. FieldsOK'
      BY <1>3, Zenon DEF IInv, TypeOK, FieldsOK, vars
    <3> QED BY <1>3, <3>1, Zenon DEF IInv, TypeOK, vars
  <2>2. Samples' /\ ParentPrints' /\ (Awaited => Awaited')
    BY <1>3, DataKeeps, Zenon DEF vars
  <2>3. Places' /\ Spending'
    BY <1>3, Zenon DEF IInv, Places, Spending, AwakeBounded, vars
  <2>4. Ledger' /\ Bookkeeping'
    BY <1>3, <2>2, Zenon DEF IInv, Ledger, Bookkeeping, vars
  <2> QED BY <2>1, <2>2, <2>3, <2>4, Zenon DEF IInv
<1> QED BY <1>1, <1>2, <1>3, SetupKeeps, BeginKeeps, LoopKeeps, TickKeeps,
           CompleteKeeps, CaptureKeeps, Zenon DEF Next, Step

\* The invariant holds in every state of the act.
THEOREM Invariance == Spec => []IInv
<1>1. Init => IInv
  BY Starts
<1>2. IInv /\ [Next]_vars => IInv'
  BY NextKeeps
<1> QED BY <1>1, <1>2, PTL DEF Spec

----------------------------------------------------------------------------
\* The properties.

\* Every variable of PAL_MOT-fifo has its type in every state.
THEOREM TypeCorrect == Spec => []TypeOK
<1>1. IInv => TypeOK
  BY Zenon DEF IInv
<1> QED BY <1>1, Invariance, PTL

\* txid has exactly the requests that are still to complete, and the flag tells
\* whether there are any, in whatever order they complete.
THEOREM TxidsAreKept == Spec => []Bookkeeping
<1>1. IInv => Bookkeeping
  BY Zenon DEF IInv
<1> QED BY <1>1, Invariance, PTL

\* The node never goes to sleep on a request.
THEOREM NeverSleepsOnAPacket == Spec => []RadioQuietAsleep
<1>1. IInv => RadioQuietAsleep
  BY SMT DEF IInv, Places, Ledger, RadioQuietAsleep
<1> QED BY <1>1, Invariance, PTL

\* The parent prints the samples the sensor took: RoundTrip, for every packet.
THEOREM PrintsWhatWasTaken == Spec => []ParentPrints
<1>1. IInv => ParentPrints
  BY Zenon DEF IInv
<1> QED BY <1>1, Invariance, PTL

\* The node is awake for no longer than TX_TIMEOUT for each packet of a period.
THEOREM BatteryIsBounded == Spec => []AwakeBounded
<1>1. IInv => AwakeBounded
  <2> SUFFICES ASSUME IInv PROVE AwakeBounded
    BY Zenon
  <2>1. /\ left \in Nat /\ up \in Nat /\ TX_TIMEOUT * N_TX_PACKETS \in Nat
        /\ st \in {"INTERACTIVE", "INIT", "SENSOR", "TX", "TX_WAIT_COMP", "GO_SLEEP"}
    BY Timeouts, SMT DEF IInv, TypeOK, FieldsOK
  <2>2. \/ up = 0
        \/ up + left <= TX_TIMEOUT * N_TX_PACKETS
        \/ AwakeBounded
    BY <2>1, Zenon DEF IInv, Spending
  <2>3. up + left <= TX_TIMEOUT * N_TX_PACKETS => up <= TX_TIMEOUT * N_TX_PACKETS
    BY <2>1, SMT
  <2>4. up = 0 => up <= TX_TIMEOUT * N_TX_PACKETS
    BY <2>1, SMT
  <2> QED BY <2>2, <2>3, <2>4, Zenon DEF AwakeBounded
<1> QED BY <1>1, Invariance, PTL

\* Only a round of the loop over the packets puts a packet on the wire.
LEMMA WireGrows ==
  ASSUME IInv, [Next]_vars
  PROVE  \/ wire' \subseteq wire
         \/ (NotPrepared \/ Prepared) /\ UNCHANGED next
<1>1. CASE Loop
  BY <1>1, SMT DEF Loop, Stay, StateInit, StateSensor, TxPacket, TxDone, TxWaitComp, GoTo,
                   SleepNow, Reset
<1>2. CASE Setup \/ Begin
  BY <1>2, SMT DEF Setup, Begin, SleepNow
<1>3. CASE Tick \/ TxComplete \/ Capture \/ Timer \/ CloseSettings \/ UNCHANGED vars
  BY <1>3, SMT DEF Tick, TxComplete, Capture, Timer, Wakeup, CloseSettings, Reset, vars
<1> QED BY <1>1, <1>2, <1>3, Zenon DEF Next, Step

\* A packet begins with the sample after the last one that was packed.
THEOREM NothingSkipped == Spec => InSequence
<1>1. IInv /\ [Next]_vars => [\A p \in wire' \ wire : p.siz > 0 => p.seq = out]_vars
  BY WireGrows, TxPacketData, Zenon
<1> QED BY <1>1, Invariance, PTL DEF Spec, InSequence
=============================================================================
