---------------------------- MODULE RcvUnivProof ----------------------------
(***************************************************************************)
(* Proofs about the dispatcher of Rcv_Univsl and the PAL parser, for       *)
(* whatever packets, however many elements they have, capacities of the    *)
(* vector and the buffers, pool and time-outs.                             *)
(***************************************************************************)
EXTENDS RcvUniv, DupCheckProof, Induction

\* The lines of display() and of the unknown packet are those that are shown.
LEMMA Lines ==
  ASSUME NEW line, NEW handled \in BOOLEAN, NEW display \in BOOLEAN, NEW s,
         s = (IF display THEN <<line>> ELSE <<>>) \o (IF handled THEN <<>> ELSE <<Unknown>>)
  PROVE  /\ display /\ handled => s = <<line>> /\ Len(s) <= 1 /\ s # <<>>
         /\ ~ display /\ handled => s = <<>> /\ Len(s) <= 1
         /\ ~ display /\ ~ handled => s = <<Unknown>> /\ Len(s) <= 1 /\ s # <<>>
<1>1. CASE display /\ handled
  <2>1. s = <<line>> \o <<>>
    BY <1>1
  <2>2. <<line>> \o <<>> = <<line>> /\ Len(<<line>>) <= 1 /\ <<line>> # <<>>
    OBVIOUS
  <2> QED
    BY <1>1, <2>1, <2>2
<1>2. CASE ~ display /\ handled
  <2>1. s = <<>> \o <<>>
    BY <1>2
  <2>2. <<>> \o <<>> = <<>> /\ Len(<<>>) <= 1
    OBVIOUS
  <2> QED
    BY <1>2, <2>1, <2>2
<1>3. CASE ~ display /\ ~ handled
  <2>1. s = <<>> \o <<Unknown>>
    BY <1>3
  <2>2. <<>> \o <<Unknown>> = <<Unknown>> /\ Len(<<Unknown>>) <= 1 /\ <<Unknown>> # <<>>
    OBVIOUS
  <2> QED
    BY <1>3, <2>1, <2>2
<1> QED
  BY <1>1, <1>2, <1>3

\* A packet of App_Twelite that is not displayed.
Silenced(p, verdict) ==
  /\ p.net = "NONE" /\ Identify(p)
  /\ \/ p.dst # 0
     \/ verdict = <<"refuse", p.src, p.ts>>
     \/ p.cmd = "MSG" /\ ~ p.single

\* The two answers of a parser: display only what is handled, and of what is handled
\* all but the silenced packets.
LEMMA Answers ==
  ASSUME NEW p, NEW lag, NEW handled \in BOOLEAN, NEW display \in BOOLEAN,
         Analyze(p, lag, handled, display)
  PROVE  /\ display => handled
         /\ handled /\ ~ display => Silenced(p, out')
         /\ ~ handled \/ display => ~ Silenced(p, out')
<1>1. CASE p.net = "LAYERED" /\ PalAnalyze(p, handled, display)
  <2>1. display = handled
    BY <1>1 DEF PalAnalyze
  <2> QED
    BY <1>1, <2>1 DEF Silenced
<1>2. CASE p.net = "SIMPLE" /\ ActAnalyze(p, handled, display)
  <2>1. display = handled
    BY <1>2 DEF ActAnalyze
  <2> QED
    BY <1>2, <2>1 DEF Silenced
<1>3. CASE p.net = "NONE" /\ AppAnalyze(p, lag, handled, display)
  <2>1. CASE ~ Identify(p) /\ ~ handled /\ ~ display
    BY <2>1 DEF Silenced
  <2>2. CASE Identify(p) /\ p.dst # 0 /\ Dropped(handled, display)
    BY <1>3, <2>2 DEF Silenced, Dropped
  <2>3. CASE /\ Identify(p) /\ p.dst = 0
             /\ IF out' = <<"refuse", p.src, p.ts>>
                THEN Dropped(handled, display)
                ELSE AppPayload(p, handled, display)
    <3>1. CASE out' = <<"refuse", p.src, p.ts>>
      BY <1>3, <2>3, <3>1 DEF Silenced, Dropped
    <3>2. CASE out' # <<"refuse", p.src, p.ts>>
      <4>1. handled /\ display = (p.cmd = "X81" \/ p.single)
        BY <2>3, <3>2 DEF AppPayload
      <4>2. p.cmd = "X81" \/ p.cmd = "MSG"
        BY <2>3 DEF Identify
      <4>3. CASE p.cmd = "X81"
        BY <2>3, <3>2, <4>1, <4>3 DEF Silenced
      <4>4. CASE p.cmd = "MSG"
        BY <1>3, <2>3, <3>2, <4>1, <4>4 DEF Silenced
      <4> QED
        BY <4>2, <4>3, <4>4
    <3> QED
      BY <3>1, <3>2
  <2> QED
    BY <1>3, <2>1, <2>2, <2>3 DEF AppAnalyze
<1>4. CASE p.net \notin {"LAYERED", "SIMPLE", "NONE"} /\ ~ handled /\ ~ display
  BY <1>4 DEF Silenced
<1> QED
  BY <1>1, <1>2, <1>3, <1>4 DEF Analyze

\* A step from any state displays its packet once.
LEMMA ShownOnceKeeps == ShownOnce /\ [RcvNext]_rcvVars => ShownOnce'
<1> SUFFICES ASSUME ShownOnce, [RcvNext]_rcvVars PROVE ShownOnce'
  OBVIOUS
<1>1. ASSUME NEW p \in Packets, NEW lag \in 0 .. RX_LAG, OnRxPacket(p, lag) PROVE ShownOnce'
  <2>1. PICK handled \in BOOLEAN, display \in BOOLEAN :
          /\ Analyze(p, lag, handled, display)
          /\ shown' = (IF display THEN <<Display(p)>> ELSE <<>>)
                        \o (IF handled THEN <<>> ELSE <<Unknown>>)
    BY <1>1 DEF OnRxPacket
  <2>2. /\ display => handled
        /\ handled /\ ~ display => Silenced(p, out')
        /\ ~ handled \/ display => ~ Silenced(p, out')
    BY <2>1, Answers
  <2> DEFINE line == Display(p)
  <2>3. shown' = (IF display THEN <<line>> ELSE <<>>)
                   \o (IF handled THEN <<>> ELSE <<Unknown>>)
    BY <2>1
  <2> HIDE DEF line
  <2>4. /\ display /\ handled => Len(shown') <= 1 /\ shown' # <<>>
        /\ ~ display /\ handled => shown' = <<>> /\ Len(shown') <= 1
        /\ ~ display /\ ~ handled => Len(shown') <= 1 /\ shown' # <<>>
    BY <2>3, Lines
  <2>5. shown' = <<>> <=> Silenced(p, out')
    <3>1. CASE display /\ handled
      BY <2>2, <2>4, <3>1, Zenon
    <3>2. CASE ~ display /\ handled
      BY <2>2, <2>4, <3>2, Zenon
    <3>3. CASE ~ display /\ ~ handled
      BY <2>2, <2>4, <3>3, Zenon
    <3> QED
      BY <2>2, <3>1, <3>2, <3>3, Zenon
  <2>6. Len(shown') <= 1
    BY <2>2, <2>4, Zenon
  <2>7. rx' = p
    BY <1>1 DEF OnRxPacket
  <2> QED
    BY <2>5, <2>6, <2>7 DEF ShownOnce, Silenced, Identify
<1>2. CASE RcvTimeStep \/ RcvRefresh \/ ResetSystem
  BY <1>2 DEF RcvTimeStep, RcvRefresh, ResetSystem, ShownOnce
<1>3. CASE UNCHANGED rcvVars
  BY <1>3 DEF rcvVars, vars, ShownOnce, Identify
<1> QED
  BY <1>1, <1>2, <1>3 DEF RcvNext

\* Whatever packets come: each is displayed once, by one parser or as unknown, but for
\* those of App_Twelite that are for others, refused, or in parts (on_rx_packet).
THEOREM DisplayedOnce == RcvSpec => []ShownOnce
<1>1. RcvInit => ShownOnce
  BY DEF RcvInit, ShownOnce
<1> QED
  BY <1>1, ShownOnceKeeps, PTL DEF RcvSpec

----------------------------------------------------------------------------
(* The entries of the duplicate checker.                                   *)

\* A new or changed entry is that of the packet, if the checker was asked.
Ours(p, f, g) ==
  \A i \in DOMAIN g :
    \/ i \in DOMAIN f /\ g[i] = f[i]
    \/ /\ p.net = "NONE" /\ p.dst = 0
       /\ ~ (p.cmd = "X81" /\ p.low)
       /\ g[i].key = p.src /\ g[i].value = p.ts

\* check_dup changes entries of the sender and the number it was asked for only.
LEMMA CheckDupWrites ==
  ASSUME NEW k, NEW v, NEW lag, CheckDup(k, v, lag)
  PROVE  \A i \in DOMAIN mmap' :
           \/ i \in DOMAIN mmap /\ mmap'[i] = mmap[i]
           \/ mmap'[i].key = k /\ mmap'[i].value = v
<1> DEFINE node == [key |-> k, value |-> v, ts |-> Stamp(lag)]
<1>1. CASE SameValue(k, v) \/ PoolExhausted(k, v)
  BY <1>1 DEF SameValue, PoolExhausted
<1>2. CASE NewEntry(k, v, lag)
  <2>1. mmap' = With(mmap, Head(vacant), node)
    BY <1>2 DEF NewEntry, InsertEntry
  <2> QED
    BY <2>1 DEF With
<1>3. CASE KnownSender(k, v, lag)
  <2>1. PICK p \in EqualRange(k) :
          \/ mmap' = Without(With(mmap, p, node), EqualRange(k) \ {p})
          \/ mmap' = Without(mmap, EqualRange(k) \ {p})
    BY <1>3 DEF KnownSender
  <2>2. CASE mmap' = Without(With(mmap, p, node), EqualRange(k) \ {p})
    <3>1. /\ DOMAIN mmap' = (DOMAIN mmap \cup {p}) \ (EqualRange(k) \ {p})
          /\ \A i \in DOMAIN mmap' : mmap'[i] = IF i = p THEN node ELSE mmap[i]
      BY <2>2 DEF With, Without
    <3> QED
      BY <3>1
  <2>3. CASE mmap' = Without(mmap, EqualRange(k) \ {p})
    BY <2>3 DEF Without
  <2> QED
    BY <2>1, <2>2, <2>3
<1> QED
  BY <1>1, <1>2, <1>3 DEF CheckDup

\* A step changes no entry, or those of its packet.
LEMMA StepIsOurs == [RcvNext]_rcvVars => mmap' = mmap \/ Ours(rx', mmap, mmap')
<1> SUFFICES ASSUME [RcvNext]_rcvVars PROVE mmap' = mmap \/ Ours(rx', mmap, mmap')
  OBVIOUS
<1>1. ASSUME NEW p \in Packets, NEW lag \in 0 .. RX_LAG, OnRxPacket(p, lag)
      PROVE  mmap' = mmap \/ Ours(p, mmap, mmap')
  <2>1. PICK handled \in BOOLEAN, display \in BOOLEAN : Analyze(p, lag, handled, display)
    BY <1>1 DEF OnRxPacket
  <2>2. CASE Unchecked
    BY <2>2 DEF Unchecked
  <2>3. CASE /\ p.net = "NONE" /\ Identify(p) /\ p.dst = 0
             /\ NeedsCheck(p) /\ CheckDup(p.src, p.ts, lag)
    <3>1. ~ (p.cmd = "X81" /\ p.low)
      BY <2>3 DEF NeedsCheck
    <3> QED
      BY <2>3, <3>1, CheckDupWrites DEF Ours
  <2> QED
    BY <2>1, <2>2, <2>3 DEF Analyze, AppAnalyze
<1>2. CASE RcvTimeStep
  BY <1>2 DEF RcvTimeStep, TimeStep
<1>3. CASE RcvRefresh
  <2>1. mmap' = Without(mmap, Expired)
    BY <1>3 DEF RcvRefresh, Refresh, CleanByTimeout, DeleteEntries
  <2> QED
    BY <2>1 DEF Without, Ours
<1>4. CASE ResetSystem
  BY <1>4 DEF ResetSystem, Ours
<1>5. CASE UNCHANGED rcvVars
  BY <1>5 DEF rcvVars, vars
<1>6. ASSUME NEW p \in Packets, NEW lag \in 0 .. RX_LAG, OnRxPacket(p, lag)
      PROVE  rx' = p
  BY <1>6 DEF OnRxPacket
<1> QED
  BY <1>1, <1>2, <1>3, <1>4, <1>5, <1>6 DEF RcvNext

\* Only a packet the checker is asked for takes an entry or changes one, whatever its
\* mode and the number of its entries.
THEOREM EntriesAreOurs == RcvSpec => OnlyOurs
<1> DEFINE A == \A i \in DOMAIN mmap' :
                  \/ i \in DOMAIN mmap /\ mmap'[i] = mmap[i]
                  \/ /\ rx'.net = "NONE" /\ rx'.dst = 0
                     /\ ~ (rx'.cmd = "X81" /\ rx'.low)
                     /\ mmap'[i].key = rx'.src /\ mmap'[i].value = rx'.ts
<1>1. [RcvNext]_rcvVars => [A]_rcvVars
  BY StepIsOurs DEF Ours
<1>2. RcvSpec => [][A]_rcvVars
  BY <1>1, PTL DEF RcvSpec
<1> QED
  BY <1>2 DEF OnlyOurs

\* The entries of the checker behind the dispatcher, through resets too.
LEMMA CheckerKeeps == IInv /\ [RcvNext]_rcvVars => IInv'
<1> SUFFICES ASSUME IInv, [RcvNext]_rcvVars PROVE IInv'
  OBVIOUS
<1>1. ASSUME NEW p \in Packets, NEW lag \in 0 .. RX_LAG, OnRxPacket(p, lag) PROVE IInv'
  <2>1. PICK handled \in BOOLEAN, display \in BOOLEAN : Analyze(p, lag, handled, display)
    BY <1>1 DEF OnRxPacket
  <2>2. tick' = tick /\ since' = since
    BY <1>1 DEF OnRxPacket
  <2>3. CASE Unchecked
    <3>1. mmap' = mmap /\ vacant' = vacant /\ age' = age /\ out' = <<>>
      BY <2>3 DEF Unchecked
    <3>2. TypeOK'
      BY <2>2, <3>1 DEF IInv, TypeOK, Verdict
    <3>3. PoolPartition' /\ NoTwins' /\ StampsExact'
      BY <2>2, <3>1 DEF IInv, PoolPartition, NoTwins, StampsExact, TSDiff
    <3> QED
      BY <3>2, <3>3 DEF IInv
  <2>4. CASE p.net = "NONE" /\ CheckDup(p.src, p.ts, lag)
    <3>1. p.src \in Keys /\ p.ts \in Values
      BY <2>4, PacketAssumption
    <3>2. Next
      BY <2>2, <2>4, <3>1 DEF Next, Receive
    <3> QED
      BY <3>2, NextIInv
  <2> QED
    BY <2>1, <2>3, <2>4 DEF Analyze, AppAnalyze
<1>2. CASE RcvTimeStep \/ RcvRefresh
  BY <1>2, NextIInv DEF RcvTimeStep, RcvRefresh, Next
<1>3. CASE ResetSystem
  <2>1. Init'
    BY <1>3 DEF ResetSystem, Init
  <2> QED
    BY <2>1, InitIInv, PTL
<1>4. CASE UNCHANGED rcvVars
  BY <1>4, NextIInv DEF rcvVars
<1> QED
  BY <1>1, <1>2, <1>3, <1>4 DEF RcvNext

\* In the running receiver too, with packets of other networks, and resets, in between,
\* no index of the checker's pool is lost or linked twice.
THEOREM PoolSurvivesDispatch == RcvSpec => []PoolPartition
<1>1. RcvInit => IInv
  BY InitIInv DEF RcvInit
<1>2. IInv /\ [RcvNext]_rcvVars => IInv'
  BY CheckerKeeps
<1>3. IInv => PoolPartition
  BY DEF IInv
<1> QED
  BY <1>1, <1>2, <1>3, PTL DEF RcvSpec

\* A packet goes to check_dup, and is accepted or refused by the table, or does not
\* touch it.
LEMMA PacketRefines ==
  ASSUME IInv, NEW p \in Packets, NEW lag \in 0 .. RX_LAG, OnRxPacket(p, lag)
  PROVE  Filter!Next \/ (out' = <<>> /\ Table' = Table)
<1>1. PICK handled \in BOOLEAN, display \in BOOLEAN : Analyze(p, lag, handled, display)
  BY DEF OnRxPacket
<1>2. CASE Unchecked
  BY <1>2 DEF Unchecked, Table
<1>3. CASE p.net = "NONE" /\ CheckDup(p.src, p.ts, lag)
  <2>1. p.src \in Keys /\ p.ts \in Values
    BY <1>3, PacketAssumption
  <2>2. Filter!Accept(p.src, p.ts, lag) \/ Filter!Refuse(p.src, p.ts)
    BY <1>3, <2>1, NewEntryRefines, KnownSenderRefines, VerdictRefines DEF CheckDup
  <2> QED
    BY <2>1, <2>2 DEF Filter!Next
<1> QED
  BY <1>1, <1>2, <1>3 DEF Analyze, AppAnalyze

\* The running receiver implements the table of true ages between its resets, for every
\* size of the pool, in both modes and whatever packets come in between.
THEOREM ReceiverFilters == RcvSpec => FiltersBetweenResets
<1> DEFINE A == \/ Filter!Next
                \/ out' = <<>> /\ UNCHANGED Table
                \/ ResetSystem /\ Filter!Init'
<1>1. RcvInit => IInv /\ Filter!Init
  BY InitIInv, InitRefines DEF RcvInit
<1>2. IInv /\ [RcvNext]_rcvVars => [A]_rcvVars
  <2> SUFFICES ASSUME IInv, RcvNext PROVE A
    OBVIOUS
  <2>1. ASSUME NEW p \in Packets, NEW lag \in 0 .. RX_LAG, OnRxPacket(p, lag) PROVE A
    BY <2>1, PacketRefines
  <2>2. CASE RcvTimeStep
    BY <2>2, TimeStepRefines DEF RcvTimeStep, Filter!Next
  <2>3. CASE RcvRefresh
    BY <2>3, RefreshRefines DEF RcvRefresh, Filter!Next
  <2>4. CASE ResetSystem
    <3>1. Init'
      BY <2>4 DEF ResetSystem, Init
    <3>2. Filter!Init'
      BY <3>1, InitRefines, PTL
    <3> QED
      BY <2>4, <3>2
  <2> QED
    BY <2>1, <2>2, <2>3, <2>4 DEF RcvNext
<1>3. RcvSpec => Filter!Init /\ [][A]_rcvVars
  BY <1>1, <1>2, CheckerKeeps, PTL DEF RcvSpec
<1> QED
  BY <1>3 DEF FiltersBetweenResets

----------------------------------------------------------------------------
(* The payload of a PAL packet.                                            *)

\* RcvAssumption, as the steps use it.
LEMMA Room == N_SENSORS \in Nat /\ N_SENSORS >= 1 /\ N_PACKS \in Nat
<1>1. N_SENSORS \in Nat \ {0} /\ N_PACKS \in Nat \ {0}
  BY RcvAssumption
<1> QED
  BY <1>1

\* What elements leave in the vector.
Left == {Sensor(e) : e \in Element}

\* The vector starts empty, and grows by each element that is not a block.
LEMMA PushedDef ==
  ASSUME NEW s \in Seq(Element)
  PROVE  /\ Pushed(s) \in [0 .. Len(s) -> Seq(Left)]
         /\ Pushed(s)[0] = <<>>
         /\ \A n \in 1 .. Len(s) :
              Pushed(s)[n] = IF Simple(s[n]) THEN Append(Pushed(s)[n - 1], Sensor(s[n]))
                                             ELSE Pushed(s)[n - 1]
<1> DEFINE N == Len(s)
           A == Seq(Left)
           Grown(n, v) == IF Simple(s[n]) THEN Append(v, Sensor(s[n])) ELSE v
           Solves(f) == f = [n \in 0 .. N |-> IF n = 0 THEN <<>> ELSE Grown(n, f[n - 1])]
           step == [n \in 1 .. N |-> [v \in A |-> Grown(n, v)]]
<1>1. N \in Nat /\ <<>> \in A /\ \A n \in 1 .. N : s[n] \in Element
  BY LenProperties, ElementOfSeq, EmptySeq
<1>2. \A n \in 1 .. N, v \in A : Grown(n, v) \in A
  <2>1. \A n \in 1 .. N : Sensor(s[n]) \in Left
    BY <1>1 DEF Left
  <2> QED
    BY <2>1, AppendProperties
<1>3. step \in [1 .. N -> [A -> A]] /\ \A n \in 1 .. N, v \in A : step[n][v] = Grown(n, v)
  <2> HIDE DEF A, Grown, N
  <2> QED
    BY <1>2
<1>4. \E f : Solves(f)
  <2> HIDE DEF A, Grown, N, step
  <2> DEFINE a == <<>>
  <2>0. N \in Nat /\ a \in A /\ step \in [1 .. N -> [A -> A]]
    BY <1>1, <1>3
  <2>1. PICK f \in [0 .. N -> A] : Steps(f, N, a, step)
    <3> HIDE DEF a
    <3> QED
      BY <2>0, RecursionExists
  <2>2. \A n \in 1 .. N : step[n][f[n - 1]] = Grown(n, f[n - 1])
    BY <1>1, <1>3
  <2>3. Solves(f)
    BY <1>1, <2>1, <2>2 DEF Steps
  <2> QED
    BY <2>3
<1>5. Solves(Pushed(s))
  <2>1. Pushed(s) = CHOOSE f : Solves(f)
    BY DEF Pushed
  <2> HIDE DEF Solves
  <2> QED
    BY <1>4, <2>1
<1> HIDE DEF Grown, A
<1>6. Pushed(s)[0] = <<>> /\ \A n \in 1 .. N : Pushed(s)[n] = Grown(n, Pushed(s)[n - 1])
  BY <1>1, <1>5
<1>7. 0 .. N \subseteq {n \in 0 .. N : Pushed(s)[n] \in A}
  <2> DEFINE S == {n \in 0 .. N : Pushed(s)[n] \in A}
  <2>1. 0 \in S
    BY <1>1, <1>6
  <2>2. \A n \in 1 .. N : n - 1 \in S => n \in S
    BY <1>1, <1>2, <1>6
  <2> HIDE DEF S, N
  <2>3. 0 .. N \subseteq S
    BY <1>1, <2>1, <2>2, UpTo
  <2> QED
    BY <2>3 DEF S
<1>8. Pushed(s) \in [0 .. N -> A]
  <2>1. DOMAIN Pushed(s) = 0 .. N /\ Pushed(s) = [n \in 0 .. N |-> Pushed(s)[n]]
    <3>1. Pushed(s) = [n \in 0 .. N |-> IF n = 0 THEN <<>> ELSE Grown(n, Pushed(s)[n - 1])]
      BY <1>5
    <3> QED
      BY <3>1
  <2> QED
    BY <1>7, <2>1
<1> QED
  BY <1>6, <1>8 DEF Grown, A

\* The loop gets past the elements up to ParsedTo, one of the places there are.
LEMMA ParsedToFacts ==
  ASSUME NEW s \in Seq(Element)
  PROVE  ParsedTo(s) \in 0 .. Len(s) /\ \A i \in 1 .. ParsedTo(s) : Parsed(s, i)
<1> DEFINE S == {n \in 0 .. Len(s) : \A i \in 1 .. n : Parsed(s, i)}
<1>1. Len(s) \in Nat /\ 0 \in S /\ S \in SUBSET (0 .. Len(s))
  BY LenProperties
<1>2. Max(S) \in S
  <2> HIDE DEF S
  <2> QED
    BY <1>1, MaxIsGreatest
<1> QED
  BY <1>2 DEF ParsedTo

\* A place in the vector's history, and the elements before it.
LEMMA Places ==
  ASSUME NEW s \in Seq(Element), NEW n \in 1 .. Len(s)
  PROVE  /\ Len(s) \in Nat /\ n \in 0 .. Len(s) /\ n - 1 \in 0 .. Len(s)
         /\ Pushed(s)[n] \in Seq(Left) /\ Pushed(s)[n - 1] \in Seq(Left)
         /\ s[n] \in Element /\ Sensor(s[n]) \in Left
<1>1. Len(s) \in Nat /\ s[n] \in Element
  BY LenProperties, ElementOfSeq
<1>2. n \in 0 .. Len(s) /\ n - 1 \in 0 .. Len(s)
  BY <1>1
<1> QED
  BY <1>1, <1>2, PushedDef DEF Left

\* As far as the loop gets, the vector has room.
LEMMA PushedFits ==
  ASSUME NEW s \in Seq(Element)
  PROVE  \A n \in 0 .. ParsedTo(s) : Len(Pushed(s)[n]) <= N_SENSORS
<1> DEFINE S == {n \in 0 .. ParsedTo(s) : Len(Pushed(s)[n]) <= N_SENSORS}
<1>1. ParsedTo(s) \in Nat /\ ParsedTo(s) <= Len(s) /\ Len(s) \in Nat
  BY ParsedToFacts, LenProperties
<1>2. 0 \in S
  <2>1. Len(Pushed(s)[0]) = 0
    BY PushedDef, EmptySeq
  <2> QED
    BY <1>1, <2>1, Room
<1>3. ASSUME NEW n \in 1 .. ParsedTo(s), n - 1 \in S
      PROVE  n \in S
  <2>1. n \in 1 .. Len(s) /\ n \in 0 .. ParsedTo(s) /\ Parsed(s, n)
    BY <1>1, ParsedToFacts
  <2>2. Pushed(s)[n - 1] \in Seq(Left) /\ Sensor(s[n]) \in Left
    BY <2>1, Places
  <2>3. CASE Simple(s[n])
    <3>1. Pushed(s)[n] = Append(Pushed(s)[n - 1], Sensor(s[n]))
      BY <2>1, <2>3, PushedDef
    <3>2. Len(Pushed(s)[n]) = Len(Pushed(s)[n - 1]) + 1
      BY <2>2, <3>1, AppendProperties
    <3>3. Len(Pushed(s)[n - 1]) < N_SENSORS
      BY <2>1, <2>3 DEF Parsed
    <3>4. Len(Pushed(s)[n - 1]) \in Nat /\ N_SENSORS \in Nat
      BY <2>2, LenProperties, Room
    <3>5. Len(Pushed(s)[n]) <= N_SENSORS
      BY <3>2, <3>3, <3>4
    <3> QED
      BY <2>1, <3>5
  <2>4. CASE ~ Simple(s[n])
    <3>1. Pushed(s)[n] = Pushed(s)[n - 1]
      BY <2>1, <2>4, PushedDef
    <3> QED
      BY <1>3, <2>1, <3>1
  <2> QED
    BY <2>3, <2>4
<1>4. 0 .. ParsedTo(s) \subseteq S
  <2> HIDE DEF S
  <2> QED
    BY <1>1, <1>2, <1>3, UpTo
<1> QED
  BY <1>4

\* Behind element n the vector is the elements up to it that are no blocks: at tells
\* which.
LeadsTo(at, s, n) ==
  /\ at \in [1 .. Len(Pushed(s)[n]) -> {i \in 1 .. n : Simple(s[i])}]
  /\ \A i, j \in 1 .. Len(Pushed(s)[n]) : i < j => at[i] < at[j]
  /\ \A i \in 1 .. n : Simple(s[i]) => \E j \in 1 .. Len(Pushed(s)[n]) : at[j] = i
  /\ \A j \in 1 .. Len(Pushed(s)[n]) : Pushed(s)[n][j] = Sensor(s[at[j]])

\* Each element that was pushed comes from an element of its own, in their order, and
\* none is left out.
LEMMA PushedInOrder ==
  ASSUME NEW s \in Seq(Element)
  PROVE  \A n \in 0 .. Len(s) : \E at : LeadsTo(at, s, n)
<1> DEFINE S == {n \in 0 .. Len(s) : \E at : LeadsTo(at, s, n)}
<1>1. Len(s) \in Nat
  BY LenProperties
<1>2. 0 \in S
  <2>1. Pushed(s)[0] = <<>> /\ Len(<<>>) = 0 /\ 0 \in 0 .. Len(s)
    BY <1>1, PushedDef, EmptySeq
  <2>2. LeadsTo([j \in 1 .. 0 |-> j], s, 0)
    BY <2>1 DEF LeadsTo
  <2> QED
    BY <2>1, <2>2
<1>3. ASSUME NEW n \in 1 .. Len(s), n - 1 \in S
      PROVE  n \in S
  <2> DEFINE L == Len(Pushed(s)[n - 1])
  <2>1. PICK at : LeadsTo(at, s, n - 1)
    BY <1>3
  <2>2. n \in 0 .. Len(s) /\ Pushed(s)[n - 1] \in Seq(Left) /\ Sensor(s[n]) \in Left /\ L \in Nat
    BY Places, LenProperties
  <2>3. CASE Simple(s[n])
    <3> DEFINE go == [j \in 1 .. L + 1 |-> IF j = L + 1 THEN n ELSE at[j]]
    <3>1. Pushed(s)[n] = Append(Pushed(s)[n - 1], Sensor(s[n]))
      BY <2>3, PushedDef
    <3>2. /\ Len(Pushed(s)[n]) = L + 1 /\ Pushed(s)[n][L + 1] = Sensor(s[n])
          /\ \A j \in 1 .. L : Pushed(s)[n][j] = Pushed(s)[n - 1][j]
      BY <2>2, <3>1, AppendProperties
    <3>3. /\ at \in [1 .. L -> {i \in 1 .. n - 1 : Simple(s[i])}]
          /\ \A i, j \in 1 .. L : i < j => at[i] < at[j]
          /\ \A i \in 1 .. n - 1 : Simple(s[i]) => \E j \in 1 .. L : at[j] = i
          /\ \A j \in 1 .. L : Pushed(s)[n - 1][j] = Sensor(s[at[j]])
      BY <2>1 DEF LeadsTo
    <3>4. L \in Nat /\ go[L + 1] = n /\ \A j \in 1 .. L : go[j] = at[j]
      BY <2>2
    <3>5. /\ n \in {i \in 1 .. n : Simple(s[i])}
          /\ {i \in 1 .. n - 1 : Simple(s[i])} \subseteq {i \in 1 .. n : Simple(s[i])}
          /\ \A j \in 1 .. L : at[j] \in 1 .. n - 1
          /\ \A j \in 1 .. L + 1 : j \in 1 .. L \/ j = L + 1
          /\ \A i \in 1 .. n : i \in 1 .. n - 1 \/ i = n
      <4>1. L \in Nat /\ n \in 1 .. n /\ n \in Nat
        BY <1>1, <2>2
      <4> HIDE DEF L, go
      <4>2. \A i \in 1 .. n : i \in 1 .. n - 1 \/ i = n
        BY <4>1
      <4>3. \A i \in 1 .. n - 1 : i \in 1 .. n
        BY <4>1
      <4>4. \A j \in 1 .. L + 1 : j \in 1 .. L \/ j = L + 1
        BY <4>1
      <4> QED
        BY <2>3, <3>3, <4>1, <4>2, <4>3, <4>4
    <3>6. go \in [1 .. L + 1 -> {i \in 1 .. n : Simple(s[i])}]
      <4>1. ASSUME NEW j \in 1 .. L + 1
            PROVE  go[j] \in {i \in 1 .. n : Simple(s[i])}
        <5> HIDE DEF go, L
        <5> QED
          BY <3>3, <3>4, <3>5
      <4> QED
        BY <4>1
    <3> HIDE DEF go, L
    <3>7. \A i, j \in 1 .. L + 1 : i < j => go[i] < go[j]
      <4>1. ASSUME NEW i \in 1 .. L + 1, NEW j \in 1 .. L + 1, i < j
            PROVE  go[i] < go[j]
        <5>1. i \in 1 .. L /\ go[i] = at[i]
          BY <3>4, <3>5, <4>1
        <5>2. CASE j \in 1 .. L
          BY <3>3, <3>4, <4>1, <5>1, <5>2
        <5>3. CASE j = L + 1
          BY <3>4, <3>5, <5>1, <5>3
        <5> QED
          BY <3>5, <5>2, <5>3
      <4> QED
        BY <4>1
    <3>8. \A i \in 1 .. n : Simple(s[i]) => \E j \in 1 .. L + 1 : go[j] = i
      <4>1. \A j \in 1 .. L : j \in 1 .. L + 1
        BY <3>4
      <4>2. L + 1 \in 1 .. L + 1
        BY <3>4
      <4> QED
        BY <3>3, <3>4, <3>5, <4>1, <4>2
    <3>9. \A j \in 1 .. L + 1 : Pushed(s)[n][j] = Sensor(s[go[j]])
      BY <3>2, <3>3, <3>4
    <3>10. LeadsTo(go, s, n)
      BY <3>2, <3>6, <3>7, <3>8, <3>9 DEF LeadsTo
    <3> QED
      BY <2>2, <3>10
  <2>4. CASE ~ Simple(s[n])
    <3>1. Pushed(s)[n] = Pushed(s)[n - 1]
      BY <2>4, PushedDef
    <3>2. {i \in 1 .. n - 1 : Simple(s[i])} = {i \in 1 .. n : Simple(s[i])}
      BY <2>4
    <3>3. LeadsTo(at, s, n)
      BY <2>1, <2>4, <3>1, <3>2 DEF LeadsTo
    <3> QED
      BY <2>2, <3>3
  <2> QED
    BY <2>3, <2>4
<1>4. 0 .. Len(s) \subseteq S
  <2> HIDE DEF S
  <2> QED
    BY <1>1, <1>2, <1>3, UpTo
<1> QED
  BY <1>4

----------------------------------------------------------------------------
\* What one element leaves has its type.
LEMMA SensorTyped ==
  ASSUME NEW e \in Element, e.type \in KnownTypes, e.ok
  PROVE  /\ Sensor(e) \in [type: KnownTypes, ext: Nat, value: Int]
         /\ Sensor(e).type = e.type /\ Sensor(e).value = e.value
         /\ e.type = "ADC" => e.value \in Nat
<1>1. e.ext \in Nat /\ e.value \in Int /\ (e.type = "ADC" => e.value \in Nat)
  BY DEF Element
<1>2. Ext(e) \in Nat
  BY <1>1 DEF Ext, KnownTypes, FixedTypes, ExtTypes
<1> QED
  BY <1>1, <1>2 DEF Sensor

\* The vector in the end: elements of the payload in their order, not more than fit.
LEMMA SensorsFacts ==
  ASSUME NEW s \in Seq(Element)
  PROVE  /\ Sensors(s) \in Seq([type: KnownTypes, ext: Nat, value: Int])
         /\ Len(Sensors(s)) \in Nat /\ Len(Sensors(s)) <= N_SENSORS
         /\ DOMAIN Sensors(s) = 1 .. Len(Sensors(s))
         /\ \A j \in DOMAIN Sensors(s) : Sensors(s)[j].type = "ADC" => Sensors(s)[j].value \in Nat
         /\ MadeOf(Sensors(s), s)
<1> DEFINE n == ParsedTo(s)
           v == Sensors(s)
           T == [type: KnownTypes, ext: Nat, value: Int]
<1>1. n \in 0 .. Len(s) /\ Len(s) \in Nat /\ \A i \in 1 .. n : Parsed(s, i)
  BY ParsedToFacts, LenProperties
<1>2. v \in Seq(Left) /\ v = Pushed(s)[n]
  BY <1>1, PushedDef DEF Sensors
<1>3. Len(v) \in Nat /\ DOMAIN v = 1 .. Len(v) /\ v \in [1 .. Len(v) -> Left]
  BY <1>2, LenProperties
<1>4. Len(v) <= N_SENSORS
  <2>1. n \in 0 .. ParsedTo(s)
    BY <1>1
  <2> QED
    BY <1>2, <2>1, PushedFits
<1>5. PICK at : LeadsTo(at, s, n)
  BY <1>1, PushedInOrder
<1> HIDE DEF v, n
<1>6. /\ at \in [1 .. Len(v) -> {i \in 1 .. n : Simple(s[i])}]
      /\ \A i, j \in 1 .. Len(v) : i < j => at[i] < at[j]
      /\ \A i \in 1 .. n : Simple(s[i]) => \E j \in 1 .. Len(v) : at[j] = i
      /\ \A j \in 1 .. Len(v) : v[j] = Sensor(s[at[j]])
  BY <1>2, <1>5 DEF LeadsTo
<1>7. ASSUME NEW j \in 1 .. Len(v)
      PROVE  /\ v[j] \in T /\ (v[j].type = "ADC" => v[j].value \in Nat)
             /\ s[at[j]].ok /\ v[j].type = s[at[j]].type /\ v[j].value = s[at[j]].value
  <2>1. at[j] \in 1 .. n /\ Simple(s[at[j]]) /\ at[j] \in 1 .. Len(s)
    BY <1>1, <1>6
  <2>2. s[at[j]] \in Element /\ s[at[j]].type \in KnownTypes /\ s[at[j]].ok
    BY <1>1, <2>1, ElementOfSeq DEF Parsed
  <2> QED
    BY <1>6, <2>2, SensorTyped
<1>8. v \in Seq(T)
  <2> DEFINE m == Len(v)
  <2> HIDE DEF T
  <2>1. v \in [1 .. m -> T]
    BY <1>3, <1>7
  <2>2. m \in Nat
    BY <1>3
  <2> HIDE DEF m
  <2> QED
    BY <2>1, <2>2, SeqDef
<1>9. MadeOf(v, s)
  <2>1. n \in 0 .. Len(s) /\ at \in [DOMAIN v -> {i \in 1 .. n : Simple(s[i])}]
    BY <1>1, <1>3, <1>6
  <2>2. /\ \A i, j \in DOMAIN v : i < j => at[i] < at[j]
        /\ \A i \in 1 .. n : Simple(s[i]) => \E j \in DOMAIN v : at[j] = i
        /\ \A i \in DOMAIN v :
             /\ s[at[i]].ok
             /\ v[i].type = s[at[i]].type /\ v[i].value = s[at[i]].value
    BY <1>3, <1>6, <1>7
  <2> QED
    BY <2>1, <2>2 DEF MadeOf
<1> QED
  BY <1>3, <1>4, <1>7, <1>8, <1>9 DEF v

\* The voltage is that of an element, none, or what an element that breaks off leaves.
LEMMA VoltFacts ==
  ASSUME NEW s \in Seq(Element), NEW volt \in Volts(s)
  PROVE  volt \in Nat /\ (VoltOf(volt, Sensors(s)) \/ CutADC(s))
<1> DEFINE v == Sensors(s)
<1>1. /\ Len(v) \in Nat /\ DOMAIN v = 1 .. Len(v)
      /\ \A j \in DOMAIN v : v[j].type = "ADC" => v[j].value \in Nat
  BY SensorsFacts
<1>2. Volt(v) \in Nat /\ VoltOf(Volt(v), v)
  <2>1. CASE ModuleVolts(v) = {}
    BY <2>1 DEF Volt, VoltOf
  <2>2. CASE ModuleVolts(v) # {}
    <3>1. ModuleVolts(v) \in SUBSET (0 .. Len(v))
      BY <1>1 DEF ModuleVolts
    <3>2. Max(ModuleVolts(v)) \in ModuleVolts(v)
      BY <1>1, <2>2, <3>1, MaxIsGreatest
    <3>3. Max(ModuleVolts(v)) \in DOMAIN v /\ v[Max(ModuleVolts(v))].type = "ADC"
          /\ v[Max(ModuleVolts(v))].ext = 8
      BY <3>2 DEF ModuleVolts
    <3>4. Volt(v) = v[Max(ModuleVolts(v))].value
      BY <2>2 DEF Volt
    <3> QED
      BY <1>1, <2>2, <3>2, <3>3, <3>4 DEF VoltOf
  <2> QED
    BY <2>1, <2>2
<1>3. volt = Volt(v) \/ (volt \in Garbage /\ CutADC(s))
  BY DEF Volts
<1>4. \A g \in Garbage : g \in Nat
  BY RcvAssumption
<1> QED
  BY <1>2, <1>3, <1>4

\* The map leads from the key of each element to the first with that key.
LEMMA MapFacts ==
  ASSUME NEW X, NEW v \in Seq(X)
  PROVE  /\ \A k \in DOMAIN SensorMap(v) :
              SensorMap(v)[k] \in DOMAIN v /\ Key(v[SensorMap(v)[k]]) = k
         /\ \A i \in DOMAIN v : Key(v[i]) \in DOMAIN SensorMap(v)
<1>1. DOMAIN v = 1 .. Len(v) /\ Len(v) \in Nat
  BY LenProperties
<1>2. ASSUME NEW k \in DOMAIN SensorMap(v)
      PROVE  SensorMap(v)[k] \in DOMAIN v /\ Key(v[SensorMap(v)[k]]) = k
  <2> DEFINE S == {i \in DOMAIN v : Key(v[i]) = k}
  <2>1. SensorMap(v)[k] = Min(S)
    BY DEF SensorMap, First
  <2>2. S \in SUBSET Nat /\ S # {}
    BY <1>1 DEF SensorMap
  <2>3. Min(S) \in S
    <3> HIDE DEF S
    <3> QED
      BY <2>2, MinIsLeast
  <2> QED
    BY <2>1, <2>3
<1> QED
  BY <1>2 DEF SensorMap

\* The acceleration buffers are not written behind their end.
LEMMA AccelFacts ==
  ASSUME NEW s \in Seq(Element), NEW g, NEW j \in DOMAIN Accel(s, g)
  PROVE  j <= N_PACKS
<1>1. PICK i \in Blocks(s) : j \in DOMAIN s[i].samples
  BY DEF Accel
<1>2. i \in 1 .. ParsedTo(s) /\ ~ Simple(s[i])
  BY DEF Blocks
<1>3. ParsedTo(s) \in 0 .. Len(s) /\ Len(s) \in Nat /\ Parsed(s, i)
  BY <1>2, ParsedToFacts, LenProperties
<1>4. Len(s[i].samples) <= N_PACKS
  BY <1>2, <1>3 DEF Parsed
<1>5. i \in 1 .. Len(s)
  BY <1>2, <1>3
<1>6. s[i].samples \in Seq(Seq(Int))
  BY <1>5, ElementOfSeq DEF Element
<1>7. DOMAIN s[i].samples = 1 .. Len(s[i].samples) /\ Len(s[i].samples) \in Nat
  BY <1>6, LenProperties
<1> QED
  BY <1>1, <1>4, <1>7, Room

----------------------------------------------------------------------------
(* The state of the PAL parser, and what is displayed from it.             *)

\* What a PAL packet does to the parser: the voltage is wiped, or everything is made
\* anew from the packet.
LEMMA PalStep ==
  ASSUME NEW p \in Packets, p.net = "LAYERED",
         NEW handled, NEW display, PalAnalyze(p, handled, display)
  PROVE  \/ ~ display /\ pal' = [pal EXCEPT !.volt = 0]
         \/ /\ p.elems \in Seq(Element)
            /\ display => pal'.sensors # <<>>
            /\ \E g : \E v \in Volts(p.elems) :
                 pal' = [volt |-> v, sensors |-> Sensors(p.elems),
                         map |-> SensorMap(Sensors(p.elems)), accel |-> Accel(p.elems, g)]
<1>1. CASE ~ HasBody(p)
  BY <1>1 DEF PalAnalyze
<1>2. CASE HasBody(p)
  <2>1. PalPayload(p) /\ handled = (pal'.sensors # <<>>) /\ display = handled
    BY <1>2 DEF PalAnalyze
  <2>2. PICK v \in Volts(p.elems), g \in [1 .. N_PACKS -> Garbage \X Garbage] :
          pal' = [volt |-> v, sensors |-> Sensors(p.elems),
                  map |-> SensorMap(Sensors(p.elems)), accel |-> Accel(p.elems, g)]
    BY <2>1 DEF PalPayload
  <2>3. p.elems \in Seq(Element)
    BY PacketAssumption
  <2> QED
    BY <2>1, <2>2, <2>3
<1> QED
  BY <1>1, <1>2

\* The parser's part of RcvTypeOK.
PalTypeOK ==
  /\ DOMAIN pal = {"volt", "sensors", "map", "accel"}
  /\ pal.volt \in Nat
  /\ pal.sensors \in Seq([type: KnownTypes, ext: Nat, value: Int])
  /\ Len(pal.sensors) <= N_SENSORS
  /\ \A j \in DOMAIN pal.accel : j <= N_PACKS

\* A parser that was just constructed.
Constructed == pal = [volt |-> 0, sensors |-> <<>>, map |-> <<>>, accel |-> <<>>]

\* setup() leaves a parser of its type, with nothing to find.
LEMMA PalConstructed == Constructed => PalTypeOK /\ MapMatchesSensors
<1> SUFFICES ASSUME Constructed PROVE PalTypeOK /\ MapMatchesSensors
  OBVIOUS
<1>1. /\ DOMAIN pal = {"volt", "sensors", "map", "accel"} /\ pal.volt = 0
      /\ pal.sensors = <<>> /\ pal.map = <<>> /\ pal.accel = <<>>
  BY DEF Constructed
<1>2. PalTypeOK
  <2>1. <<>> \in Seq([type: KnownTypes, ext: Nat, value: Int])
    BY EmptySeq
  <2>2. Len(<<>>) <= N_SENSORS /\ DOMAIN <<>> = {}
    BY Room
  <2> QED
    BY <1>1, <2>1, <2>2 DEF PalTypeOK
<1>3. MapMatchesSensors
  BY <1>1 DEF MapMatchesSensors
<1> QED
  BY <1>2, <1>3

\* A packet that is parsed, in whole or in part, leaves a map of its own elements.
LEMMA PalParsed ==
  ASSUME NEW s \in Seq(Element), NEW v \in Volts(s), NEW g,
         pal' = [volt |-> v, sensors |-> Sensors(s),
                 map |-> SensorMap(Sensors(s)), accel |-> Accel(s, g)]
  PROVE  PalTypeOK' /\ MapMatchesSensors'
<1>1. /\ DOMAIN pal' = {"volt", "sensors", "map", "accel"} /\ pal'.volt = v
      /\ pal'.sensors = Sensors(s) /\ pal'.map = SensorMap(Sensors(s))
      /\ pal'.accel = Accel(s, g)
  OBVIOUS
<1>2. PalTypeOK'
  <2>1. v \in Nat
    BY VoltFacts
  <2>2. /\ Sensors(s) \in Seq([type: KnownTypes, ext: Nat, value: Int])
        /\ Len(Sensors(s)) <= N_SENSORS
    BY SensorsFacts
  <2>3. \A j \in DOMAIN Accel(s, g) : j <= N_PACKS
    BY AccelFacts
  <2> QED
    BY <1>1, <2>1, <2>2, <2>3 DEF PalTypeOK
<1>3. MapMatchesSensors'
  <2>1. Sensors(s) \in Seq([type: KnownTypes, ext: Nat, value: Int])
    BY SensorsFacts
  <2> HIDE DEF SensorMap, Sensors
  <2> QED
    BY <1>1, <2>1, MapFacts DEF MapMatchesSensors, Key
<1> QED
  BY <1>2, <1>3

\* No step breaks the parser's state.
LEMMA PalKeeps ==
  ASSUME PalTypeOK, MapMatchesSensors, [RcvNext]_rcvVars
  PROVE  PalTypeOK' /\ MapMatchesSensors'
<1>1. CASE pal' = pal
  BY <1>1 DEF PalTypeOK, MapMatchesSensors
<1>2. CASE pal' = [pal EXCEPT !.volt = 0]
  <2>1. /\ DOMAIN pal' = {"volt", "sensors", "map", "accel"} /\ pal'.volt = 0
        /\ pal'.sensors = pal.sensors /\ pal'.map = pal.map /\ pal'.accel = pal.accel
    BY <1>2 DEF PalTypeOK
  <2> QED
    BY <2>1 DEF PalTypeOK, MapMatchesSensors
<1>3. ASSUME NEW p \in Packets, NEW lag \in 0 .. RX_LAG, OnRxPacket(p, lag)
      PROVE  PalTypeOK' /\ MapMatchesSensors'
  <2>1. PICK handled \in BOOLEAN, display \in BOOLEAN : Analyze(p, lag, handled, display)
    BY <1>3 DEF OnRxPacket
  <2>2. CASE p.net = "LAYERED" /\ PalAnalyze(p, handled, display)
    <3>1. CASE pal' = [pal EXCEPT !.volt = 0]
      BY <1>2, <3>1
    <3>2. CASE pal' # [pal EXCEPT !.volt = 0]
      <4>1. PICK g, v :
              /\ v \in Volts(p.elems)
              /\ p.elems \in Seq(Element)
              /\ pal' = [volt |-> v, sensors |-> Sensors(p.elems),
                         map |-> SensorMap(Sensors(p.elems)), accel |-> Accel(p.elems, g)]
        BY <2>2, <3>2, PalStep
      <4> QED
        BY <4>1, PalParsed
    <3> QED
      BY <3>1, <3>2
  <2> QED
    BY <1>1, <2>1, <2>2 DEF Analyze
<1>4. CASE ResetSystem
  <2>1. Constructed'
    BY <1>4 DEF ResetSystem, Constructed
  <2> QED
    BY <2>1, PalConstructed, PTL
<1> QED
  BY <1>1, <1>3, <1>4 DEF RcvNext, RcvTimeStep, RcvRefresh, rcvVars

\* RcvInv is inductive.
LEMMA RcvInvHolds == RcvSpec => []RcvInv
<1>1. RcvInv <=> IInv /\ PalTypeOK /\ MapMatchesSensors
  BY DEF RcvInv, RcvTypeOK, PalTypeOK, IInv
<1>2. RcvInit => RcvInv
  BY <1>1, InitIInv, PalConstructed DEF RcvInit, Constructed
<1>3. RcvInv /\ [RcvNext]_rcvVars => RcvInv'
  BY <1>1, CheckerKeeps, PalKeeps, PTL
<1> QED
  BY <1>2, <1>3, PTL DEF RcvSpec

\* Whatever packets come, in whatever order, cut off or longer than the parser has
\* room for: the vector and the buffers are never overrun (pkt_pal).
THEOREM RcvTypes == RcvSpec => []RcvTypeOK
BY RcvInvHolds, PTL DEF RcvInv

\* find_sensor never leads to an element that is not in the vector, or to another one
\* (_map_pal_sensors over _vect_pal_sensors).
THEOREM MapIsOfSensors == RcvSpec => []MapMatchesSensors
BY RcvInvHolds, PTL DEF RcvInv

\* The two fields and the lines, apart from the state they are read in.
FreshLines(lines, p) ==
  \A d \in ToSet(lines) :
    d.by = "PAL" =>
      /\ d.detail # <<>> /\ MadeOf(d.detail, p.elems)
      /\ VoltOf(d.volt, d.detail) \/ CutADC(p.elems)

\* A step from any state displays its own packet.
LEMMA FreshStep == FreshDisplay /\ [RcvNext]_rcvVars => FreshDisplay'
<1> SUFFICES ASSUME FreshDisplay, [RcvNext]_rcvVars PROVE FreshLines(shown', rx')
  BY DEF FreshDisplay, FreshLines, MadeOf, CutADC, VoltOf, ModuleVolts
<1>1. CASE UNCHANGED rcvVars
  BY <1>1 DEF rcvVars, FreshDisplay, FreshLines
<1>2. CASE RcvTimeStep \/ RcvRefresh \/ ResetSystem
  <2>1. shown' = <<>> /\ ToSet(<<>>) = {}
    BY <1>2 DEF RcvTimeStep, RcvRefresh, ResetSystem, ToSet
  <2> QED
    BY <2>1 DEF FreshLines
<1>3. ASSUME NEW p \in Packets, NEW lag \in 0 .. RX_LAG, OnRxPacket(p, lag)
      PROVE  FreshLines(shown', rx')
  <2>1. PICK handled \in BOOLEAN, display \in BOOLEAN :
          /\ Analyze(p, lag, handled, display)
          /\ shown' = (IF display THEN <<Display(p)>> ELSE <<>>)
                        \o (IF handled THEN <<>> ELSE <<Unknown>>)
    BY <1>3 DEF OnRxPacket
  <2> DEFINE line == Display(p)
  <2>2. rx' = p /\ (display => handled)
    BY <1>3, <2>1, Answers DEF OnRxPacket
  <2>3. shown' = (IF display THEN <<line>> ELSE <<>>)
                   \o (IF handled THEN <<>> ELSE <<Unknown>>)
    BY <2>1
  <2>4. \/ display /\ shown' = <<line>>
        \/ ~ display /\ (shown' = <<>> \/ shown' = <<Unknown>>)
    <3> HIDE DEF line
    <3> QED
      BY <2>2, <2>3, Lines
  <2>5. ASSUME NEW d \in ToSet(shown'), d.by = "PAL" PROVE display /\ d = line
    <3>1. ToSet(<<>>) = {} /\ ToSet(<<Unknown>>) = {Unknown} /\ Unknown.by # "PAL"
      BY DEF ToSet, Unknown
    <3>2. ToSet(<<line>>) = {line}
      <4> HIDE DEF line
      <4> QED
        BY DEF ToSet
    <3> HIDE DEF line
    <3> QED
      BY <2>4, <2>5, <3>1, <3>2
  <2>6. ASSUME display, line.by = "PAL"
        PROVE  /\ line.detail # <<>> /\ MadeOf(line.detail, p.elems)
               /\ VoltOf(line.volt, line.detail) \/ CutADC(p.elems)
    <3>1. p.net = "LAYERED"
      BY <2>1, <2>6 DEF Display, Analyze
    <3>2. PalAnalyze(p, handled, display)
      BY <2>1, <3>1 DEF Analyze
    <3>3. /\ p.elems \in Seq(Element) /\ pal'.sensors # <<>>
          /\ pal'.sensors = Sensors(p.elems) /\ pal'.volt \in Volts(p.elems)
      <4>1. PICK g, v :
              /\ v \in Volts(p.elems)
              /\ p.elems \in Seq(Element) /\ pal'.sensors # <<>>
              /\ pal' = [volt |-> v, sensors |-> Sensors(p.elems),
                         map |-> SensorMap(Sensors(p.elems)), accel |-> Accel(p.elems, g)]
        BY <2>6, <3>1, <3>2, PalStep
      <4> QED
        BY <4>1
    <3>4. line.volt = pal'.volt /\ line.detail = pal'.sensors
      BY <3>1 DEF Display
    <3> QED
      BY <3>3, <3>4, SensorsFacts, VoltFacts
  <2> HIDE DEF line
  <2> QED
    BY <2>2, <2>5, <2>6 DEF FreshLines
<1> QED
  BY <1>1, <1>2, <1>3 DEF RcvNext

\* Whatever came before: the elements that are displayed of a PAL packet are those of
\* this packet up to a faulty one, with the voltage of one of them (pkt_pal, analyze and
\* disp_detail).
THEOREM DisplayIsFresh == RcvSpec => []FreshDisplay
<1>1. RcvInit => FreshDisplay
  BY DEF RcvInit, FreshDisplay, ToSet
<1> QED
  BY <1>1, FreshStep, PTL DEF RcvSpec
=============================================================================
