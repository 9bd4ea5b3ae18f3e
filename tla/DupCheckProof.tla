---------------------------- MODULE DupCheckProof ---------------------------
(***************************************************************************)
(* Proofs about DupCheck, for every pool size, mode, time-out and width of *)
(* the stamp that DupAssumption admits.                                    *)
(***************************************************************************)
EXTENDS DupCheck, FiniteSetTheorems, SequenceTheorems, TLAPS

\* DupAssumption, as the steps use it.
LEMMA Params ==
  /\ N_ENTRIES \in Nat \ {0}
  /\ TIMEOUT \in Nat /\ RX_LAG \in Nat /\ RX_LAG <= TIMEOUT
  /\ REFRESH_MAX \in Nat
  /\ TS_MOD \in Nat \ {0} /\ TIMEOUT + REFRESH_MAX < TS_MOD
<1>1. /\ N_ENTRIES \in Nat \ {0}
      /\ TIMEOUT \in Nat /\ RX_LAG \in 0 .. TIMEOUT
      /\ REFRESH_MAX \in Nat
      /\ TS_MOD \in Nat /\ TIMEOUT + REFRESH_MAX < TS_MOD
  BY DupAssumption
<1> QED
  BY <1>1

\* Modular arithmetic of the stamps, within one turn of the counter.
LEMMA WrapDown ==
  ASSUME NEW m \in Nat \ {0}, NEW x \in Int, x < 0, -m <= x
  PROVE  x % m = x + m
OBVIOUS

\* A sum that leaves the range at the top comes back by one range.
LEMMA WrapUp ==
  ASSUME NEW m \in Nat \ {0}, NEW x \in Int, m <= x, x < 2*m
  PROVE  x % m = x - m
OBVIOUS

\* A stamp that does not wrap is itself.
LEMMA WrapNone ==
  ASSUME NEW m \in Nat \ {0}, NEW x \in 0 .. m-1
  PROVE  x % m = x
OBVIOUS

----------------------------------------------------------------------------
\* The containers.

\* An order of a finite set lists each of its members once.
LEMMA OrderCovers ==
  ASSUME NEW S, IsFiniteSet(S), NEW order \in SetToSeqs(S)
  PROVE  /\ order \in Seq(S)
         /\ \A m, n \in DOMAIN order : m # n => order[m] # order[n]
         /\ ToSet(order) = S
<1> DEFINE c == Cardinality(S)
<1>1. c \in Nat
  BY FS_CardinalityType
<1>2. order \in [1 .. c -> S] /\ \A i, j \in 1 .. c : i # j => order[i] # order[j]
  BY DEF SetToSeqs
<1>3. IsFiniteSet(1 .. c) /\ Cardinality(1 .. c) = c
  BY <1>1, FS_Interval, SMT
<1>4. order \in Injection(1 .. c, S)
  BY <1>2 DEF Injection, IsInjective
<1>5. order \in Surjection(1 .. c, S)
  BY <1>3, <1>4, FS_Injection
<1>6. ToSet(order) = S
  BY <1>2, <1>5 DEF Surjection, ToSet
<1>7. order \in Seq(S)
  BY <1>1, <1>2
<1> QED
  BY <1>2, <1>6, <1>7

\* pop_front: the head of the ring leaves it and gets used.
LEMMA TakeIndex ==
  ASSUME NEW free \in Seq(Idx), NEW used, Partition(free, used), free # <<>>
  PROVE  /\ Head(free) \in Idx \ used
         /\ Tail(free) \in Seq(Idx)
         /\ Partition(Tail(free), used \cup {Head(free)})
<1>1. /\ Head(free) = free[1] /\ 1 \in DOMAIN free /\ DOMAIN free = 1 .. Len(free)
      /\ Len(free) \in Nat \ {0}
  OBVIOUS
<1>2. /\ Tail(free) \in Seq(Idx)
      /\ DOMAIN Tail(free) = 1 .. Len(free) - 1
      /\ \A n \in 1 .. Len(free) - 1 : Tail(free)[n] = free[n+1]
  BY <1>1, HeadTailProperties
<1>3. ToSet(Tail(free)) = ToSet(free) \ {Head(free)}
  <2>1. ASSUME NEW x \in ToSet(Tail(free))
        PROVE  x \in ToSet(free) \ {Head(free)}
    BY <1>1, <1>2, <2>1 DEF ToSet, Partition
  <2>2. ASSUME NEW x \in ToSet(free), x # Head(free)
        PROVE  x \in ToSet(Tail(free))
    <3>1. PICK n \in 1 .. Len(free) : x = free[n]
      BY <1>1 DEF ToSet
    <3>2. n - 1 \in 1 .. Len(free) - 1 /\ Tail(free)[n - 1] = x
      BY <1>1, <1>2, <2>2, <3>1
    <3> QED
      BY <1>2, <3>2 DEF ToSet
  <2> QED
    BY <2>1, <2>2
<1>4. \A m, n \in DOMAIN Tail(free) : m # n => Tail(free)[m] # Tail(free)[n]
  BY <1>1, <1>2 DEF Partition
<1>5. Head(free) \in ToSet(free)
  BY <1>1 DEF ToSet
<1> QED
  BY <1>2, <1>3, <1>4, <1>5 DEF Partition

\* push_back of a set of used indices, in any order.
LEMMA ReturnIndices ==
  ASSUME NEW free \in Seq(Idx), NEW used \in SUBSET Idx, Partition(free, used),
         NEW S \in SUBSET used, NEW order \in SetToSeqs(S)
  PROVE  /\ free \o order \in Seq(Idx)
         /\ Partition(free \o order, used \ S)
<1>1. IsFiniteSet(S)
  <2>1. IsFiniteSet(Idx)
    <3>1. 0 \in Int /\ N_ENTRIES - 1 \in Int
      BY Params
    <3> QED
      BY <3>1, FS_Interval, Zenon DEF Idx
  <2>2. S \in SUBSET Idx
    OBVIOUS
  <2> QED
    BY <2>1, <2>2, FS_Subset, Zenon
<1>2. /\ order \in Seq(S) /\ order \in Seq(Idx)
      /\ \A m, n \in DOMAIN order : m # n => order[m] # order[n]
      /\ ToSet(order) = S
  BY <1>1, OrderCovers
<1> DEFINE all == free \o order
<1>3. /\ all \in Seq(Idx)
      /\ DOMAIN free = 1 .. Len(free) /\ DOMAIN order = 1 .. Len(order)
      /\ DOMAIN all = 1 .. Len(free) + Len(order)
      /\ \A n \in 1 .. Len(free) + Len(order) :
            all[n] = IF n <= Len(free) THEN free[n] ELSE order[n - Len(free)]
      /\ Len(free) \in Nat /\ Len(order) \in Nat
  BY <1>2, ConcatProperties
<1>4. ToSet(all) = ToSet(free) \cup S
  <2>1. ASSUME NEW x \in ToSet(all)
        PROVE  x \in ToSet(free) \cup ToSet(order)
    BY <1>3, <2>1 DEF ToSet
  <2>2. ASSUME NEW n \in 1 .. Len(free)
        PROVE  free[n] \in ToSet(all)
    BY <1>3 DEF ToSet
  <2>3. ASSUME NEW n \in 1 .. Len(order)
        PROVE  order[n] \in ToSet(all)
    <3>1. Len(free) + n \in 1 .. Len(free) + Len(order) /\ all[Len(free) + n] = order[n]
      BY <1>3
    <3> QED
      BY <1>3, <3>1 DEF ToSet
  <2> QED
    BY <1>2, <1>3, <2>1, <2>2, <2>3 DEF ToSet
<1>5. ASSUME NEW m \in DOMAIN all, NEW n \in DOMAIN all, m # n
      PROVE  all[m] # all[n]
  <2>1. ASSUME NEW i \in 1 .. Len(free), NEW j \in 1 .. Len(order)
        PROVE  free[i] # order[j]
    <3>1. free[i] \in ToSet(free)
      BY <1>3 DEF ToSet
    <3>2. order[j] \in S
      BY <1>2, <1>3 DEF ToSet
    <3>3. ToSet(free) \cap used = {}
      BY DEF Partition
    <3> QED
      BY <3>1, <3>2, <3>3
  <2> QED
    BY <1>2, <1>3, <1>5, <2>1 DEF Partition
<1> QED
  BY <1>3, <1>4, <1>5 DEF Partition

----------------------------------------------------------------------------
\* The stamps.

\* The true age of the packet a stamp records is read back from the stamp
\* as long as it is below TS_MOD.
LEMMA StampOfLag ==
  ASSUME TypeOK, NEW lag \in 0 .. RX_LAG
  PROVE  /\ Stamp(lag) \in 0 .. TS_MOD - 1
         /\ TSDiff(Stamp(lag)) = lag
<1>1. /\ tick \in 0 .. TS_MOD - 1 /\ TS_MOD \in Nat \ {0}
      /\ lag \in Nat /\ lag < TS_MOD
  <2>1. tick \in 0 .. TS_MOD - 1
    BY DEF TypeOK
  <2> QED
    BY <2>1, Params
<1>2. CASE lag <= tick
  <2>1. Stamp(lag) = tick - lag
    BY <1>1, <1>2, WrapNone DEF Stamp
  <2>2. TSDiff(tick - lag) = lag
    BY <1>1, <1>2, WrapNone DEF TSDiff
  <2> QED
    BY <1>1, <1>2, <2>1, <2>2
<1>3. CASE lag > tick
  <2>1. Stamp(lag) = tick - lag + TS_MOD
    BY <1>1, <1>3, WrapDown DEF Stamp
  <2>2. TSDiff(tick - lag + TS_MOD) = lag
    BY <1>1, <1>3, WrapDown DEF TSDiff
  <2> QED
    BY <1>1, <1>3, <2>1, <2>2
<1> QED
  BY <1>1, <1>2, <1>3

\* The difference of two counter values.
LEMMA StampDifference ==
  ASSUME NEW m \in Nat \ {0}, NEW a \in 0 .. m - 1, NEW b \in 0 .. m - 1
  PROVE  (a - b) % m = IF b <= a THEN a - b ELSE a - b + m
<1>1. CASE b <= a
  BY <1>1, WrapNone
<1>2. CASE a < b
  BY <1>2, WrapDown
<1> QED
  BY <1>1, <1>2

\* One tick later every stamp that has not turned round reads one more.
LEMMA TickAgesStamp ==
  ASSUME TypeOK, NEW ts \in 0 .. TS_MOD - 1
  PROVE  LET now == (tick + 1) % TS_MOD
         IN  /\ now \in 0 .. TS_MOD - 1
             /\ TSDiff(ts) + 1 < TS_MOD => (now - ts) % TS_MOD = TSDiff(ts) + 1
<1> DEFINE now == (tick + 1) % TS_MOD
<1>1. tick \in 0 .. TS_MOD - 1 /\ TS_MOD \in Nat \ {0}
  BY Params DEF TypeOK
<1>2. now = IF tick + 1 < TS_MOD THEN tick + 1 ELSE 0
  <2>1. CASE tick + 1 < TS_MOD
    <3>1. tick + 1 \in 0 .. TS_MOD - 1
      BY <1>1, <2>1
    <3> QED
      BY <1>1, <2>1, <3>1, WrapNone
  <2>2. CASE tick + 1 = TS_MOD
    <3>1. tick + 1 \in Int /\ TS_MOD < 2 * TS_MOD
      BY <1>1
    <3> QED
      BY <1>1, <2>2, <3>1, WrapUp
  <2> QED
    BY <1>1, <2>1, <2>2
<1>3. TSDiff(ts) = IF ts <= tick THEN tick - ts ELSE tick - ts + TS_MOD
  BY <1>1, StampDifference DEF TSDiff
<1> HIDE DEF now
<1>4. (now - ts) % TS_MOD = IF ts <= now THEN now - ts ELSE now - ts + TS_MOD
  <2>1. now \in 0 .. TS_MOD - 1
    BY <1>1, <1>2
  <2> QED
    BY <1>1, <2>1, StampDifference
<1>5. /\ now \in 0 .. TS_MOD - 1
      /\ TSDiff(ts) + 1 < TS_MOD => (now - ts) % TS_MOD = TSDiff(ts) + 1
  BY <1>1, <1>2, <1>3, <1>4
<1> QED
  BY <1>5 DEF now

----------------------------------------------------------------------------
\* The inductive invariant.

\* The constructor leaves every index free and no entry linked.
LEMMA InitIInv == Init => IInv
<1> SUFFICES ASSUME Init PROVE IInv
  OBVIOUS
<1>1. DOMAIN mmap = {} /\ DOMAIN age = {} /\ mmap = [i \in {} |-> i] /\ age = [i \in {} |-> i]
  BY DEF Init
<1>2. /\ vacant \in Seq(Idx) /\ DOMAIN vacant = 1 .. N_ENTRIES
      /\ \A n \in 1 .. N_ENTRIES : vacant[n] = n - 1
  BY DupAssumption DEF Init, Idx
<1>3. TypeOK
  BY <1>1, <1>2, DupAssumption DEF Init, TypeOK, Verdict
<1>4. PoolPartition
  <2>1. ToSet(vacant) = Idx
    <3>1. N_ENTRIES \in Nat
      BY Params
    <3>2. ASSUME NEW i \in Idx PROVE i \in ToSet(vacant)
      <4>1. i + 1 \in 1 .. N_ENTRIES
        BY <3>1 DEF Idx
      <4>2. vacant[i + 1] = i
        BY <1>2, <4>1, <3>1 DEF Idx
      <4> QED
        BY <1>2, <4>1, <4>2 DEF ToSet
    <3>3. ASSUME NEW n \in 1 .. N_ENTRIES PROVE vacant[n] \in Idx
      BY <1>2, <3>1 DEF Idx
    <3> QED
      BY <1>2, <3>2, <3>3 DEF ToSet
  <2> QED
    BY <1>1, <1>2, <2>1 DEF PoolPartition, Partition
<1>5. NoTwins /\ StampsExact
  BY <1>1 DEF NoTwins, StampsExact
<1> QED
  BY <1>3, <1>4, <1>5 DEF IInv

\* An entry linked in place of the head of the ring.
LEMMA NewEntryIInv ==
  ASSUME IInv, NEW k \in Keys, NEW v \in Values, NEW lag \in 0 .. RX_LAG,
         NewEntry(k, v, lag), UNCHANGED <<tick, since>>
  PROVE  IInv'
<1> DEFINE i == Head(vacant)
<1> DEFINE node == [key |-> k, value |-> v, ts |-> Stamp(lag)]
<1>1. TypeOK /\ PoolPartition /\ NoTwins /\ StampsExact
  BY DEF IInv
<1>2. /\ vacant # <<>> /\ vacant' = Tail(vacant)
      /\ mmap' = With(mmap, i, node) /\ age' = With(age, i, lag)
      /\ out' = <<"accept", k, v>> /\ tick' = tick /\ since' = since
  BY DEF NewEntry, InsertEntry, Accept
<1>3. /\ vacant \in Seq(Idx) /\ DOMAIN mmap \subseteq Idx /\ DOMAIN age = DOMAIN mmap
      /\ mmap \in [DOMAIN mmap -> Node] /\ age \in [DOMAIN mmap -> Nat]
      /\ since \in 0 .. REFRESH_MAX /\ tick \in 0 .. TS_MOD - 1
  BY <1>1 DEF TypeOK
<1>4. /\ i \in Idx \ DOMAIN mmap
      /\ Tail(vacant) \in Seq(Idx)
      /\ Partition(Tail(vacant), DOMAIN mmap \cup {i})
  BY <1>1, <1>2, <1>3, TakeIndex DEF PoolPartition
<1>5. /\ Stamp(lag) \in 0 .. TS_MOD - 1 /\ TSDiff(Stamp(lag)) = lag
      /\ node \in Node
  BY <1>1, StampOfLag DEF Node
<1>6. /\ DOMAIN mmap' = DOMAIN mmap \cup {i} /\ DOMAIN age' = DOMAIN mmap \cup {i}
      /\ mmap'[i] = node /\ age'[i] = lag
      /\ \A j \in DOMAIN mmap : mmap'[j] = mmap[j] /\ age'[j] = age[j]
  BY <1>2, <1>3, <1>4 DEF With
<1>7. lag \in Nat /\ lag <= TIMEOUT + since
  BY <1>3, Params
<1>8. TypeOK'
  <2>1. mmap' \in [DOMAIN mmap' -> Node]
    BY <1>2, <1>3, <1>5, <1>6 DEF With
  <2>2. age' \in [DOMAIN mmap' -> Nat]
    BY <1>2, <1>3, <1>6, <1>7 DEF With
  <2>3. out' \in Verdict
    BY <1>2 DEF Verdict
  <2> QED
    BY <1>2, <1>3, <1>4, <1>6, <2>1, <2>2, <2>3 DEF TypeOK
<1>9. PoolPartition'
  BY <1>2, <1>4, <1>6 DEF PoolPartition
<1>10. NoTwins'
  <2>1. ASSUME NEW j \in DOMAIN mmap
        PROVE  mmap[j].key # k \/ (MODE = "SAME" /\ mmap[j].value # v)
    <3>1. NotFound(k, v)
      BY DEF NewEntry
    <3>2. CASE MODE = "SAME"
      BY <3>1, <3>2 DEF NotFound, EqualRange
    <3>3. CASE MODE = "OLDER"
      BY <3>1, <3>3 DEF NotFound, EqualRange
    <3> QED
      BY <3>2, <3>3, DupAssumption
  <2> QED
    BY <1>1, <1>4, <1>6, <2>1 DEF NoTwins
<1>11. StampsExact'
  <2>1. \A ts : TSDiff(ts)' = TSDiff(ts)
    BY <1>2 DEF TSDiff
  <2>2. ASSUME NEW j \in DOMAIN mmap'
        PROVE  TSDiff(mmap[j].ts)' = age'[j] /\ age'[j] <= TIMEOUT + since'
    <3>1. CASE j = i
      BY <1>2, <1>5, <1>6, <1>7, <2>1, <3>1
    <3>2. CASE j \in DOMAIN mmap
      BY <1>1, <1>2, <1>6, <2>1, <3>2 DEF StampsExact
    <3> QED
      BY <1>6, <3>1, <3>2
  <2> QED
    BY <2>2 DEF StampsExact
<1> QED
  BY <1>8, <1>9, <1>10, <1>11 DEF IInv

\* The stamps of the nodes a step keeps still read their age if neither the
\* clock nor the time since the clean-up moves.
LEMMA SameTick ==
  ASSUME UNCHANGED <<tick, since>>
  PROVE  /\ \A ts : TSDiff(ts)' = TSDiff(ts)
         /\ since' = since
BY DEF TSDiff

\* MODE2, the sender is known: its one node is updated or left as it is.
LEMMA KnownSenderIInv ==
  ASSUME IInv, NEW k \in Keys, NEW v \in Values, NEW lag \in 0 .. RX_LAG,
         KnownSender(k, v, lag), UNCHANGED <<tick, since>>
  PROVE  IInv'
<1>1. TypeOK /\ PoolPartition /\ NoTwins /\ StampsExact /\ MODE = "OLDER"
  BY DEF IInv, KnownSender
<1>2. /\ vacant \in Seq(Idx) /\ DOMAIN mmap \subseteq Idx /\ DOMAIN age = DOMAIN mmap
      /\ mmap \in [DOMAIN mmap -> Node] /\ age \in [DOMAIN mmap -> Nat]
      /\ since \in 0 .. REFRESH_MAX /\ tick \in 0 .. TS_MOD - 1
  BY <1>1 DEF TypeOK
<1> DEFINE node == [key |-> k, value |-> v, ts |-> Stamp(lag)]
<1>3. PICK p \in EqualRange(k) :
        LET rest == EqualRange(k) \ {p}
        IN  /\ \/ /\ mmap' = Without(With(mmap, p, node), rest)
                  /\ age' = Without(With(age, p, lag), rest)
                  /\ Accept(k, v)
               \/ /\ mmap' = Without(mmap, rest)
                  /\ age' = Without(age, rest)
                  /\ Refuse(k, v)
            /\ \E order \in SetToSeqs(rest) : vacant' = vacant \o order
  BY DEF KnownSender
<1>4. p \in DOMAIN mmap /\ mmap[p].key = k
  BY DEF EqualRange
<1>5. EqualRange(k) \ {p} = {}
  <2>1. \A q \in EqualRange(k) : q = p
    BY <1>1, <1>4 DEF NoTwins, EqualRange
  <2> QED
    BY <2>1
<1>6. vacant' \in Seq(Idx) /\ Partition(vacant', DOMAIN mmap)
  <2>1. PICK order \in SetToSeqs({}) : vacant' = vacant \o order
    BY <1>3, <1>5
  <2>2. {} \in SUBSET DOMAIN mmap /\ DOMAIN mmap \in SUBSET Idx /\ DOMAIN mmap \ {} = DOMAIN mmap
    BY <1>2
  <2>3. Partition(vacant, DOMAIN mmap)
    BY <1>1 DEF PoolPartition
  <2>4. vacant \o order \in Seq(Idx) /\ Partition(vacant \o order, DOMAIN mmap \ {})
    BY <1>2, <2>2, <2>3, ReturnIndices
  <2> QED
    BY <2>1, <2>2, <2>4
<1>7. /\ Stamp(lag) \in 0 .. TS_MOD - 1 /\ TSDiff(Stamp(lag)) = lag
      /\ node \in Node
  BY <1>1, StampOfLag DEF Node
<1>8. lag \in Nat /\ lag <= TIMEOUT + since
  BY <1>2, Params
<1>9. /\ DOMAIN mmap' = DOMAIN mmap /\ DOMAIN age' = DOMAIN mmap
      /\ mmap' \in [DOMAIN mmap -> Node] /\ age' \in [DOMAIN mmap -> Nat]
      /\ \A j \in DOMAIN mmap : \/ j = p /\ mmap'[j] = node /\ age'[j] = lag
                                \/ mmap'[j] = mmap[j] /\ age'[j] = age[j]
  <2>1. CASE /\ mmap' = Without(With(mmap, p, node), {})
             /\ age' = Without(With(age, p, lag), {})
    <3>1. /\ mmap' = [j \in DOMAIN mmap |-> IF j = p THEN node ELSE mmap[j]]
          /\ age' = [j \in DOMAIN mmap |-> IF j = p THEN lag ELSE age[j]]
      BY <1>2, <1>4, <2>1 DEF With, Without
    <3> QED
      BY <1>2, <1>4, <1>7, <1>8, <3>1
  <2>2. CASE mmap' = Without(mmap, {}) /\ age' = Without(age, {})
    BY <1>2, <2>2 DEF Without
  <2> QED
    BY <1>3, <1>5, <2>1, <2>2
<1>10. TypeOK'
  <2>1. out' \in Verdict
    BY <1>3 DEF Verdict, Accept, Refuse
  <2>2. tick' = tick /\ since' = since
    OBVIOUS
  <2> QED
    BY <1>2, <1>6, <1>9, <2>1, <2>2 DEF TypeOK
<1>11. PoolPartition'
  BY <1>6, <1>9 DEF PoolPartition
<1>12. NoTwins'
  <2>1. \A j \in DOMAIN mmap : mmap'[j].key = mmap[j].key
    BY <1>4, <1>9
  <2> QED
    BY <1>1, <1>9, <2>1 DEF NoTwins
<1>13. StampsExact'
  <2>1. \A ts : TSDiff(ts)' = TSDiff(ts)
    BY SameTick
  <2>2. ASSUME NEW j \in DOMAIN mmap'
        PROVE  TSDiff(mmap[j].ts)' = age'[j] /\ age'[j] <= TIMEOUT + since'
    BY <1>1, <1>7, <1>8, <1>9, <2>1, SameTick DEF StampsExact
  <2> QED
    BY <2>2 DEF StampsExact
<1> QED
  BY <1>10, <1>11, <1>12, <1>13 DEF IInv

\* A verdict that changes no entry.
LEMMA VerdictIInv ==
  ASSUME IInv, NEW k \in Keys, NEW v \in Values, Refuse(k, v),
         UNCHANGED <<mmap, vacant, age, tick, since>>
  PROVE  IInv'
<1>1. TypeOK'
  BY DEF IInv, TypeOK, Refuse, Verdict
<1>2. PoolPartition' /\ NoTwins' /\ StampsExact'
  BY DEF IInv, PoolPartition, NoTwins, StampsExact, TSDiff
<1> QED
  BY <1>1, <1>2 DEF IInv

\* One tick: no entry may reach the range of the stamp.
LEMMA TimeStepIInv ==
  ASSUME IInv, TimeStep
  PROVE  IInv'
<1>1. TypeOK /\ PoolPartition /\ NoTwins /\ StampsExact
  BY DEF IInv
<1>2. /\ DOMAIN age = DOMAIN mmap /\ mmap \in [DOMAIN mmap -> Node]
      /\ age \in [DOMAIN mmap -> Nat] /\ since \in 0 .. REFRESH_MAX
      /\ tick \in 0 .. TS_MOD - 1
  BY <1>1 DEF TypeOK
<1>3. /\ since < REFRESH_MAX /\ since' = since + 1 /\ tick' = (tick + 1) % TS_MOD
      /\ age' = [i \in DOMAIN age |-> age[i] + 1] /\ out' = <<>>
      /\ mmap' = mmap /\ vacant' = vacant
  BY DEF TimeStep
<1>4. tick' \in 0 .. TS_MOD - 1
  <2>1. 0 \in 0 .. TS_MOD - 1
    BY Params
  <2> QED
    BY <1>1, <1>3, <2>1, TickAgesStamp
<1>5. TypeOK'
  <2>1. since' \in 0 .. REFRESH_MAX
    BY <1>2, <1>3, Params
  <2>2. age' \in [DOMAIN mmap -> Nat]
    BY <1>2, <1>3
  <2> QED
    BY <1>1, <1>3, <1>4, <2>1, <2>2 DEF TypeOK, Verdict
<1>6. PoolPartition' /\ NoTwins'
  BY <1>1, <1>3 DEF PoolPartition, NoTwins
<1>7. StampsExact'
  <2>1. ASSUME NEW i \in DOMAIN mmap
        PROVE  TSDiff(mmap[i].ts)' = age'[i] /\ age'[i] <= TIMEOUT + since'
    <3>1. /\ TSDiff(mmap[i].ts) = age[i] /\ age[i] <= TIMEOUT + since
          /\ age[i] \in Nat /\ age'[i] = age[i] + 1
      BY <1>1, <1>2, <1>3 DEF StampsExact
    <3>2. TSDiff(mmap[i].ts) + 1 < TS_MOD
      BY <1>2, <1>3, <3>1, Params
    <3>3. mmap[i].ts \in 0 .. TS_MOD - 1
      BY <1>2 DEF Node
    <3> DEFINE ts == mmap[i].ts
    <3>4. (tick' - ts) % TS_MOD = age[i] + 1
      BY <1>1, <1>3, <3>1, <3>2, <3>3, TickAgesStamp
    <3>5. TSDiff(mmap[i].ts)' = (tick' - ts) % TS_MOD
      BY <1>3 DEF TSDiff
    <3> QED
      BY <1>2, <1>3, <3>1, <3>4, <3>5, Params
  <2> QED
    BY <1>3, <2>1 DEF StampsExact
<1> QED
  BY <1>5, <1>6, <1>7 DEF IInv

\* The clean-up: what is left is within the time-out.
LEMMA RefreshIInv ==
  ASSUME IInv, Refresh
  PROVE  IInv'
<1>1. TypeOK /\ PoolPartition /\ NoTwins /\ StampsExact
  BY DEF IInv
<1>2. /\ vacant \in Seq(Idx) /\ DOMAIN mmap \subseteq Idx /\ DOMAIN age = DOMAIN mmap
      /\ mmap \in [DOMAIN mmap -> Node] /\ age \in [DOMAIN mmap -> Nat]
      /\ tick \in 0 .. TS_MOD - 1
  BY <1>1 DEF TypeOK
<1>3. /\ since' = 0 /\ tick' = tick /\ out' = <<>>
      /\ mmap' = Without(mmap, Expired) /\ age' = Without(age, Expired)
      /\ \E order \in SetToSeqs(Expired) : vacant' = vacant \o order
  BY DEF Refresh, CleanByTimeout, DeleteEntries
<1> DEFINE kept == DOMAIN mmap \ Expired
<1>4. /\ DOMAIN mmap' = kept /\ DOMAIN age' = kept
      /\ mmap' \in [kept -> Node] /\ age' \in [kept -> Nat]
      /\ \A j \in kept : mmap'[j] = mmap[j] /\ age'[j] = age[j]
  BY <1>2, <1>3 DEF Without
<1>5. vacant' \in Seq(Idx) /\ Partition(vacant', kept)
  <2>1. PICK order \in SetToSeqs(Expired) : vacant' = vacant \o order
    BY <1>3
  <2>2. Expired \in SUBSET DOMAIN mmap /\ DOMAIN mmap \in SUBSET Idx
    BY <1>2 DEF Expired
  <2>3. Partition(vacant, DOMAIN mmap)
    BY <1>1 DEF PoolPartition
  <2> QED
    BY <1>2, <2>1, <2>2, <2>3, ReturnIndices
<1>6. TypeOK'
  <2>1. kept \subseteq Idx /\ 0 \in 0 .. REFRESH_MAX
    BY <1>2, Params
  <2> QED
    BY <1>2, <1>3, <1>4, <1>5, <2>1 DEF TypeOK, Verdict
<1>7. PoolPartition'
  BY <1>4, <1>5 DEF PoolPartition
<1>8. NoTwins'
  BY <1>1, <1>4 DEF NoTwins
<1>9. StampsExact'
  <2>1. ASSUME NEW j \in kept
        PROVE  TSDiff(mmap[j].ts)' = age'[j] /\ age'[j] <= TIMEOUT + since'
    <3>1. TSDiff(mmap[j].ts) = age[j] /\ age'[j] = age[j] /\ mmap'[j] = mmap[j]
      BY <1>1, <1>4 DEF StampsExact
    <3>2. ~ (TSDiff(mmap[j].ts) > TIMEOUT)
      BY DEF Expired
    <3>3. TSDiff(mmap[j].ts)' = TSDiff(mmap[j].ts)
      BY <1>3, <3>1 DEF TSDiff
    <3>4. age[j] \in Nat
      BY <1>2
    <3> QED
      BY <1>3, <3>1, <3>2, <3>3, <3>4, Params
  <2> QED
    BY <1>4, <2>1 DEF StampsExact
<1> QED
  BY <1>6, <1>7, <1>8, <1>9 DEF IInv

\* No packet, tick or clean-up breaks the invariant.
LEMMA NextIInv == IInv /\ [Next]_vars => IInv'
<1> SUFFICES ASSUME IInv, [Next]_vars
             PROVE  IInv'
  OBVIOUS
<1>1. CASE Receive
  <2>1. PICK k \in Keys, v \in Values, lag \in 0 .. RX_LAG : CheckDup(k, v, lag)
    BY <1>1 DEF Receive
  <2>2. UNCHANGED <<tick, since>>
    BY <1>1 DEF Receive
  <2>3. CASE SameValue(k, v)
    BY <2>2, <2>3, VerdictIInv DEF SameValue
  <2>4. CASE KnownSender(k, v, lag)
    BY <2>2, <2>4, KnownSenderIInv
  <2>5. CASE NewEntry(k, v, lag)
    BY <2>2, <2>5, NewEntryIInv
  <2>6. CASE PoolExhausted(k, v)
    BY <2>2, <2>6, VerdictIInv DEF PoolExhausted
  <2> QED
    BY <2>1, <2>3, <2>4, <2>5, <2>6 DEF CheckDup
<1>2. CASE TimeStep
  BY <1>2, TimeStepIInv
<1>3. CASE Refresh
  BY <1>3, RefreshIInv
<1>4. CASE UNCHANGED vars
  <2>1. TypeOK'
    BY <1>4 DEF vars, IInv, TypeOK
  <2>2. PoolPartition' /\ NoTwins'
    BY <1>4 DEF vars, IInv, PoolPartition, NoTwins
  <2>3. StampsExact'
    BY <1>4 DEF vars, IInv, StampsExact, TSDiff
  <2> QED
    BY <2>1, <2>2, <2>3 DEF IInv
<1> QED
  BY <1>1, <1>2, <1>3, <1>4 DEF Next

\* The invariant holds in every state of the running receiver.
LEMMA Invariance == Spec => []IInv
BY InitIInv, NextIInv, PTL DEF Spec

----------------------------------------------------------------------------
\* The state of the checker keeps its type.
THEOREM TypeCorrect == Spec => []TypeOK
<1>1. IInv => TypeOK
  BY DEF IInv
<1> QED
  BY <1>1, Invariance, PTL

\* Whatever packets arrive and whenever the clean-up runs, every index of the
\* pool is either free, once, or linked: none is lost and none is linked twice
\* (_insert_entry, _delete_entry).
THEOREM PoolIsPartitioned == Spec => []PoolPartition
<1>1. IInv => PoolPartition
  BY DEF IInv
<1> QED
  BY <1>1, Invariance, PTL

\* check_dup registers no packet (MODE1) and no sender (MODE2) twice.
THEOREM NoTwinEntries == Spec => []NoTwins
<1>1. IInv => NoTwins
  BY DEF IInv
<1> QED
  BY <1>1, Invariance, PTL

\* An 8 bit stamp is enough: with TIMEOUT + REFRESH_MAX below its range the age
\* clean_by_timeout reads from it is the true one.
THEOREM StampsAreExact == Spec => []StampsExact
<1>1. IInv => StampsExact
  BY DEF IInv
<1> QED
  BY <1>1, Invariance, PTL

----------------------------------------------------------------------------
\* The refinement of DupFilter.

\* The filter compares sequence numbers as the checker does.
LEMMA SameOrder == \A a, b : Filter!Newer(a, b) <=> Newer(a, b)
BY DEF Filter!Newer, Filter!Diff, Filter!AsInt16, Newer, Diff, AsInt16

\* The table has the domain and the contents of the multimap.
LEMMA TableFacts ==
  /\ DOMAIN Table = DOMAIN mmap
  /\ \A i \in DOMAIN mmap : /\ Table[i].key = mmap[i].key
                            /\ Table[i].value = mmap[i].value
                            /\ Table[i].age = age[i]
BY DEF Table

\* The empty pool stands for the empty table.
LEMMA InitRefines == Init => Filter!Init
<1> SUFFICES ASSUME Init PROVE Filter!Init
  OBVIOUS
<1>1. DOMAIN mmap = {} /\ out = <<>>
  BY DEF Init
<1>2. Table = <<>>
  BY <1>1 DEF Table
<1> QED
  BY <1>1, <1>2 DEF Filter!Init

\* _insert_entry is an acceptance in a free slot of the table.
LEMMA NewEntryRefines ==
  ASSUME IInv, NEW k \in Keys, NEW v \in Values, NEW lag \in 0 .. RX_LAG,
         NewEntry(k, v, lag)
  PROVE  Filter!Accept(k, v, lag)
<1> DEFINE i == Head(vacant)
<1>1. TypeOK /\ PoolPartition
  BY DEF IInv
<1>2. /\ vacant \in Seq(Idx) /\ DOMAIN mmap \subseteq Idx /\ DOMAIN age = DOMAIN mmap
  BY <1>1 DEF TypeOK
<1>3. /\ vacant # <<>> /\ NotFound(k, v)
      /\ mmap' = With(mmap, i, [key |-> k, value |-> v, ts |-> Stamp(lag)])
      /\ age' = With(age, i, lag) /\ out' = <<"accept", k, v>>
  BY DEF NewEntry, InsertEntry, Accept
<1>4. i \in Idx \ DOMAIN mmap
  BY <1>1, <1>2, <1>3, TakeIndex DEF PoolPartition
<1>5. Table' = [j \in DOMAIN Table \cup {i} |->
                  IF j = i THEN [key |-> k, value |-> v, age |-> lag] ELSE Table[j]]
  BY <1>2, <1>3, <1>4 DEF Table, With
<1>6. ~ Filter!Against(k, v) /\ ~ (MODE = "OLDER" /\ Filter!Known(k))
  <2>1. CASE MODE = "SAME"
    BY <1>3, <2>1, TableFacts DEF NotFound, EqualRange, Filter!Against
  <2>2. CASE MODE = "OLDER"
    BY <1>3, <2>2, TableFacts DEF NotFound, EqualRange, Filter!Against, Filter!Known
  <2> QED
    BY <2>1, <2>2, DupAssumption
<1>7. i \in Filter!SlotsFor(k)
  BY <1>4, <1>6, TableFacts DEF Filter!SlotsFor
<1> QED
  BY <1>3, <1>5, <1>6, <1>7 DEF Filter!Accept

\* MODE2's update, or refusal, of a known sender is that of the table.
LEMMA KnownSenderRefines ==
  ASSUME IInv, NEW k \in Keys, NEW v \in Values, NEW lag \in 0 .. RX_LAG,
         KnownSender(k, v, lag)
  PROVE  Filter!Accept(k, v, lag) \/ Filter!Refuse(k, v)
<1>1. NoTwins /\ MODE = "OLDER" /\ DOMAIN age = DOMAIN mmap
  BY DEF IInv, KnownSender, TypeOK
<1> DEFINE node == [key |-> k, value |-> v, ts |-> Stamp(lag)]
<1>2. PICK p \in EqualRange(k) :
        LET rest == EqualRange(k) \ {p}
        IN  \/ /\ Newer(v, mmap[p].value)
               /\ mmap' = Without(With(mmap, p, node), rest)
               /\ age' = Without(With(age, p, lag), rest)
               /\ Accept(k, v)
            \/ /\ ~ Newer(v, mmap[p].value)
               /\ mmap' = Without(mmap, rest)
               /\ age' = Without(age, rest)
               /\ Refuse(k, v)
  BY DEF KnownSender
<1>3. p \in DOMAIN mmap /\ mmap[p].key = k
  BY DEF EqualRange
<1>4. \A q \in DOMAIN mmap : mmap[q].key = k => q = p
  BY <1>1, <1>3 DEF NoTwins
<1>5. EqualRange(k) \ {p} = {}
  BY <1>4 DEF EqualRange
<1>6. CASE /\ Newer(v, mmap[p].value) /\ Accept(k, v)
           /\ mmap' = Without(With(mmap, p, node), {})
           /\ age' = Without(With(age, p, lag), {})
  <2>1. /\ mmap' = [j \in DOMAIN mmap |-> IF j = p THEN node ELSE mmap[j]]
        /\ age' = [j \in DOMAIN mmap |-> IF j = p THEN lag ELSE age[j]]
    BY <1>1, <1>3, <1>6 DEF With, Without
  <2>2. DOMAIN Table \cup {p} = DOMAIN mmap
    BY <1>3, TableFacts
  <2>3. Table' = [j \in DOMAIN mmap |->
                    IF j = p THEN [key |-> k, value |-> v, age |-> lag] ELSE Table[j]]
    BY <2>1 DEF Table
  <2>4. ~ Filter!Against(k, v)
    BY <1>1, <1>4, <1>6, TableFacts, SameOrder DEF Filter!Against
  <2>5. p \in Filter!SlotsFor(k)
    BY <1>1, <1>3, TableFacts DEF Filter!SlotsFor, Filter!Known
  <2> QED
    BY <1>6, <2>2, <2>3, <2>4, <2>5 DEF Filter!Accept, Accept
<1>7. CASE /\ ~ Newer(v, mmap[p].value) /\ Refuse(k, v)
           /\ mmap' = Without(mmap, {}) /\ age' = Without(age, {})
  <2>1. \A j \in DOMAIN mmap : mmap'[j] = mmap[j] /\ age'[j] = age[j]
    BY <1>1, <1>7 DEF Without
  <2>2. DOMAIN mmap' = DOMAIN mmap
    BY <1>7 DEF Without
  <2>3. Table' = Table
    BY <2>1, <2>2 DEF Table
  <2>4. Filter!Against(k, v)
    BY <1>1, <1>3, <1>7, TableFacts, SameOrder DEF Filter!Against
  <2> QED
    BY <1>7, <2>3, <2>4 DEF Filter!Refuse, Refuse
<1> QED
  BY <1>2, <1>5, <1>6, <1>7

\* Every return of check_dup is a verdict of the filter.
LEMMA VerdictRefines ==
  ASSUME IInv, NEW k \in Keys, NEW v \in Values,
         SameValue(k, v) \/ PoolExhausted(k, v)
  PROVE  Filter!Refuse(k, v)
<1>1. out' = <<"refuse", k, v>> /\ Table' = Table
  BY DEF SameValue, PoolExhausted, Refuse, Table
<1>2. CASE SameValue(k, v)
  <2>1. Filter!Against(k, v)
    BY <1>2, TableFacts DEF SameValue, EqualRange, Filter!Against
  <2> QED
    BY <1>1, <2>1 DEF Filter!Refuse
<1>3. CASE PoolExhausted(k, v)
  <2>1. vacant = <<>> /\ NotFound(k, v) /\ Partition(vacant, DOMAIN mmap)
    BY <1>3 DEF PoolExhausted, IInv, PoolPartition
  <2>2. DOMAIN Table = Idx
    BY <2>1, TableFacts DEF Partition, ToSet
  <2>3. ~ (MODE = "OLDER" /\ Filter!Known(k))
    BY <2>1, TableFacts DEF NotFound, EqualRange, Filter!Known
  <2> QED
    BY <1>1, <2>2, <2>3 DEF Filter!Refuse, Filter!Room
<1> QED
  BY <1>2, <1>3

\* A tick of the loop is a tick of every true age.
LEMMA TimeStepRefines == IInv /\ TimeStep => Filter!Elapse
<1> SUFFICES ASSUME IInv, TimeStep PROVE Filter!Elapse
  OBVIOUS
<1>1. /\ DOMAIN age = DOMAIN mmap /\ age \in [DOMAIN mmap -> Nat]
      /\ since \in 0 .. REFRESH_MAX
  BY DEF IInv, TypeOK
<1>2. /\ since < REFRESH_MAX /\ mmap' = mmap /\ out' = <<>>
      /\ age' = [i \in DOMAIN mmap |-> age[i] + 1]
  BY <1>1 DEF TimeStep
<1>3. ASSUME NEW i \in DOMAIN Table
      PROVE  Table[i].age < TIMEOUT + REFRESH_MAX
  <2>1. age[i] \in Nat /\ age[i] <= TIMEOUT + since
    BY <1>1, TableFacts DEF IInv, StampsExact
  <2> QED
    BY <1>1, <1>2, <2>1, Params, TableFacts
<1>4. Table' = [i \in DOMAIN Table |-> [Table[i] EXCEPT !.age = Table[i].age + 1]]
  BY <1>2 DEF Table
<1> QED
  BY <1>2, <1>3, <1>4 DEF Filter!Elapse

\* clean_by_timeout drops the entries whose true age is over the time-out.
LEMMA RefreshRefines == IInv /\ Refresh => Filter!Expire
<1> SUFFICES ASSUME IInv, Refresh PROVE Filter!Expire
  OBVIOUS
<1>1. DOMAIN age = DOMAIN mmap /\ age \in [DOMAIN mmap -> Nat]
  BY DEF IInv, TypeOK
<1>2. /\ mmap' = Without(mmap, Expired) /\ age' = Without(age, Expired) /\ out' = <<>>
  BY DEF Refresh, CleanByTimeout, DeleteEntries
<1>3. {j \in DOMAIN Table : Table[j].age <= TIMEOUT} = DOMAIN mmap \ Expired
  <2>1. ASSUME NEW j \in DOMAIN mmap
        PROVE  Table[j].age <= TIMEOUT <=> j \notin Expired
    <3>1. TSDiff(mmap[j].ts) = age[j] /\ age[j] \in Nat
      BY <1>1 DEF IInv, StampsExact
    <3> QED
      BY <3>1, Params, TableFacts DEF Expired
  <2> QED
    BY <2>1, TableFacts
<1>4. Table' = [i \in DOMAIN mmap \ Expired |-> Table[i]]
  BY <1>1, <1>2 DEF Table, Without
<1> QED
  BY <1>2, <1>3, <1>4 DEF Filter!Expire

\* Every step of the checker is one of the filter, or none.
LEMMA StepRefines == IInv /\ [Next]_vars => [Filter!Next]_Filter!vars
<1> SUFFICES ASSUME IInv, [Next]_vars
             PROVE  [Filter!Next]_Filter!vars
  OBVIOUS
<1>1. CASE Receive
  <2>1. PICK k \in Keys, v \in Values, lag \in 0 .. RX_LAG : CheckDup(k, v, lag)
    BY <1>1 DEF Receive
  <2>2. Filter!Accept(k, v, lag) \/ Filter!Refuse(k, v)
    BY <2>1, NewEntryRefines, KnownSenderRefines, VerdictRefines DEF CheckDup
  <2> QED
    BY <2>2 DEF Filter!Next
<1>2. CASE TimeStep
  BY <1>2, TimeStepRefines DEF Filter!Next
<1>3. CASE Refresh
  BY <1>3, RefreshRefines DEF Filter!Next
<1>4. CASE UNCHANGED vars
  BY <1>4 DEF vars, Filter!vars, Table
<1> QED
  BY <1>1, <1>2, <1>3, <1>4 DEF Next

\* dup_check implements the table of DupFilter, in both modes and for every
\* pool size: in particular a refused packet renews no entry, so a sender that
\* was restarted is refused for a bounded time, and no accepted packet is lost
\* from the table before the time-out.
THEOREM Refinement == Spec => ImplementsFilter
BY InitRefines, StepRefines, Invariance, PTL DEF Spec, Filter!Spec, ImplementsFilter
=============================================================================
